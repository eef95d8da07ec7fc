------------------------------ MODULE CostProofs ------------------------------
(***************************************************************************)
(* Proofs about the cost models: what a kernel returns is a time, and no   *)
(* kernel does work in no time.                                            *)
(***************************************************************************)
EXTENDS Layers, Counting, SequenceTheorems, TLAPS

\* The ranges of the fields of a layer.
Layer ==
  [group : Nat \ {0}, num_heads : Nat \ {0}, num_kv_heads : Nat \ {0},
   head_dim : Nat \ {0}, rope : Nat, kv_lora_rank : Nat,
   use_flash_mla : BOOLEAN, use_flash_attention : BOOLEAN,
   use_chunked_attention : BOOLEAN, window : Nat, precision : Nat \ {0},
   compressed_kv : BOOLEAN, columns : Nat]

Works == [flops : Nat, kv : Nat, act : Nat, ops : Nat]

\* What a sequence s may need: something when it processes tokens.
WorkOf(s) == {w \in Works : s.tok > 0 => w.flops >= 2}

\* What the sequences of a batch may need.
WorkFor(b) ==
  {f \in [DOMAIN b -> Works] : \A i \in DOMAIN b : f[i] \in WorkOf(b[i])}

Phases ==
  [compute : Nat, memory : Nat, hides : BOOLEAN, flops : Nat, size : Nat]

Statuses ==
  [total : Nat, compute : Nat, dep : Nat, kv_write : Nat, flops : Nat,
   size : Nat]

\* Every processor computes.
Computes(c) == \A p \in Processors : c.flop_ticks[p] > 0

\* The fields one by one.
LEMMA ConfigFields ==
  ASSUME NEW c \in SystemConfig
  PROVE  /\ \A p \in Processors : /\ c.flop_ticks[p] \in Nat
                                  /\ c.byte_ticks[p] \in Nat
                                  /\ c.ram_ticks[p] \in Nat
         /\ c.f_off \in 0 .. 4
         /\ c.pp \in Nat \ {0} /\ c.num_layers \in Nat
         /\ c.int_limit \in Nat \ {0} /\ c.weight_stream_ops \in Nat
BY DEF SystemConfig

LEMMA LayerFields ==
  ASSUME NEW l \in Layer
  PROVE  /\ l.group \in Nat \ {0} /\ l.num_heads \in Nat \ {0}
         /\ l.num_kv_heads \in Nat \ {0} /\ l.head_dim \in Nat \ {0}
         /\ l.precision \in Nat \ {0} /\ l.rope \in Nat
         /\ l.kv_lora_rank \in Nat /\ l.window \in Nat /\ l.columns \in Nat
BY DEF Layer

LEMMA WorkFields ==
  ASSUME NEW w \in Works
  PROVE  w.flops \in Nat /\ w.kv \in Nat /\ w.act \in Nat /\ w.ops \in Nat
BY DEF Works
----------------------------------------------------------------------------
(***************************************************************************)
(* Sums over the sequences of a batch and over phases.                     *)
(***************************************************************************)

\* The sum of a function's values.
LEMMA SumFunctionIs ==
  ASSUME NEW v, IsFiniteSet(DOMAIN v)
  PROVE  SumFunction(v) = SumIn(v, DOMAIN v)
<1> DEFINE S == DOMAIN v
<1>1. PICK F : F = CHOOSE it : Adds(it, v, S)
  OBVIOUS
<1>2. Adds(F, v, S)
  BY <1>1, SumExists
<1>3. SumFunction(v) = F[S]
  BY <1>1 DEF SumFunction, SumFunctionOnSet, FoldFunctionOnSet, MapThenFoldSet,
              Adds, SumAt, Choice
<1> QED
  BY <1>2, <1>3, SumOverIs

\* Natural numbers add up to one, which is not less than any of them, and is
\* zero when they are.
LEMMA SumOfNats ==
  ASSUME NEW v, IsFiniteSet(DOMAIN v), \A i \in DOMAIN v : v[i] \in Nat
  PROVE  /\ SumFunction(v) \in Nat
         /\ \A i \in DOMAIN v : v[i] <= SumFunction(v)
         /\ (\A i \in DOMAIN v : v[i] = 0) => SumFunction(v) = 0
<1> DEFINE S == DOMAIN v
           G == {s \in SUBSET S :
                   /\ SumIn(v, s) \in Nat
                   /\ (\A i \in s : v[i] = 0) => SumIn(v, s) = 0}
<1>1. {} \in G
  BY SumOfNone
<1>2. ASSUME NEW s \in SUBSET S, s # {}, \A x \in s : s \ {x} \in G
      PROVE  s \in G
  <2>1. IsFiniteSet(s)
    BY FS_Subset
  <2>2. /\ Choice(s) \in s
        /\ SumIn(v, s) = v[Choice(s)] + SumIn(v, s \ {Choice(s)})
    BY <1>2, <2>1, SumOfFirst
  <2>3. v[Choice(s)] \in Nat /\ s \ {Choice(s)} \in G
    BY <1>2, <2>2
  <2>4. /\ SumIn(v, s \ {Choice(s)}) \in Nat
        /\ (\A i \in s : v[i] = 0) => SumIn(v, s \ {Choice(s)}) = 0
    BY <2>3
  <2>5. SumIn(v, s) \in Nat
    BY <2>2, <2>3, <2>4
  <2>6. (\A i \in s : v[i] = 0) => SumIn(v, s) = 0
    BY <2>2, <2>4
  <2> QED
    BY <2>5, <2>6
<1>3. SUBSET S \subseteq G
  <2>1. \A s \in SUBSET S : s # {} /\ (\A x \in s : s \ {x} \in G) => s \in G
    BY <1>2
  <2> HIDE DEF G
  <2> QED
    BY <1>1, <2>1, SubsetInduction
<1>4. \A s \in SUBSET S :
        /\ SumIn(v, s) \in Nat
        /\ (\A i \in s : v[i] = 0) => SumIn(v, s) = 0
  BY <1>3
<1>5. ASSUME NEW i \in S
      PROVE  v[i] <= SumIn(v, S)
  <2>1. SumIn(v, S) = v[i] + SumIn(v, S \ {i})
    BY SumOfAny
  <2>2. v[i] \in Nat /\ SumIn(v, S \ {i}) \in Nat
    BY <1>4
  <2> QED
    BY <2>1, <2>2
<1> QED
  BY <1>4, <1>5, SumFunctionIs
----------------------------------------------------------------------------
(***************************************************************************)
(* Times.                                                                  *)
(***************************************************************************)

\* A product of natural numbers is one, and not less than a factor when the
\* other is not zero.
LEMMA Product ==
  ASSUME NEW a \in Nat, NEW b \in Nat
  PROVE  /\ a * b \in Nat
         /\ b > 0 => a <= a * b
  BY SMT

\* A division by a positive number.
LEMMA Quotient ==
  ASSUME NEW a \in Nat, NEW b \in Nat \ {0}
  PROVE  /\ a \div b \in Nat
         /\ a \div b <= a
         /\ a >= b => a \div b > 0
  BY SMT

\* Utilisation only lengthens a time.
LEMMA EffectiveTime ==
  ASSUME NEW c \in SystemConfig, NEW t \in Nat, NEW m \in Nat
  PROVE  EffectiveMFU(c, t, m) \in Nat /\ EffectiveMFU(c, t, m) >= t
<1>1. c.mfu_m_half \in Nat
  BY DEF SystemConfig
<1>2. ASSUME NEW h \in Nat, m > 0
      PROVE  (t * (m + h)) \div m \in Nat /\ (t * (m + h)) \div m >= t
  <2>1. t * (m + h) = t * m + t * h /\ t * h \in Nat /\ t * m \in Nat
    BY SMT
  <2>2. (t * m + t * h) \div m = t + (t * h) \div m
    BY <1>2, <2>1
  <2>3. (t * h) \div m \in Nat
    BY <1>2, <2>1
  <2> QED
    BY <2>1, <2>2, <2>3
<1> QED
  BY <1>1, <1>2 DEF EffectiveMFU

\* Computation takes a time, and two flops take some.
LEMMA ComputeIs ==
  ASSUME NEW c \in SystemConfig, NEW p \in Processors, NEW precision,
         NEW flops \in Nat, NEW m \in Nat
  PROVE  /\ ComputeTime(c, p, precision, flops, m) \in Nat
         /\ Computes(c) /\ flops >= 2
              => ComputeTime(c, p, precision, flops, m) > 0
<1> DEFINE peak == flops * c.flop_ticks[p]
           t == IF p # "GPU" /\ precision = 1 THEN peak \div 2 ELSE peak
<1>1. c.flop_ticks[p] \in Nat
  BY DEF SystemConfig
<1>2. peak \in Nat /\ (c.flop_ticks[p] > 0 => flops <= peak)
  BY <1>1, Product
<1>3. t \in Nat /\ (peak >= 2 => t > 0)
  <2> HIDE DEF peak
  <2> QED
    BY <1>2, SMT
<1>4. Computes(c) /\ flops >= 2 => t > 0
  BY <1>1, <1>2, <1>3 DEF Computes
<1>5. ComputeTime(c, p, precision, flops, m) = EffectiveMFU(c, t, m)
  BY DEF ComputeTime
<1> HIDE DEF t
<1> QED
  BY <1>3, <1>4, <1>5, EffectiveTime

\* The other times are natural numbers.
LEMMA TrafficIs ==
  ASSUME NEW c \in SystemConfig, NEW bytes \in Nat, NEW chunk \in Nat,
         NEW calls \in Nat \ {0}, NEW p \in Processors
  PROVE  /\ ActTime(c, bytes) \in Nat
         /\ bytes * Bandwidth(c, p) \in Nat
         /\ FlashTime(c, bytes, chunk, calls) \in Nat
<1>1. /\ {c.hbm_read, c.sram_read, c.flash_read, c.byte_ticks[p],
          c.page_read} \subseteq Nat
      /\ c.paper2_mode \in BOOLEAN
  BY DEF SystemConfig
<1>2. ActTime(c, bytes) \in Nat
  BY <1>1, Product DEF ActTime
<1>3. bytes * Bandwidth(c, p) \in Nat
  BY <1>1, Product DEF Bandwidth
<1> DEFINE chunks == Longer(1, IF chunk = 0 THEN 1
                               ELSE (bytes + chunk - 1) \div chunk)
           residual == Longer(0, c.page_read - chunk * c.flash_read)
           exposed == c.page_read \div calls + (chunks - 1) * residual
<1>4. chunks \in Nat \ {0}
  <2>1. chunk # 0 => (bytes + chunk - 1) \div chunk \in Nat
    <3>1. chunk # 0 => bytes + chunk - 1 \in Nat
      OBVIOUS
    <3> QED
      BY <3>1, Quotient
  <2> QED
    BY <2>1 DEF Longer
<1>5. residual \in Nat
  <2>1. chunk * c.flash_read \in Nat
    BY <1>1, Product
  <2> QED
    BY <1>1, <2>1 DEF Longer
<1>6. exposed \in Nat
  <2>1. c.page_read \div calls \in Nat
    BY <1>1, Quotient
  <2> HIDE DEF chunks, residual
  <2>2. (chunks - 1) * residual \in Nat
    BY <1>4, <1>5, Product
  <2> QED
    BY <2>1, <2>2
<1>7. bytes * c.flash_read \in Nat
  BY <1>1, Product
<1>8. FlashTime(c, bytes, chunk, calls)
        = bytes * c.flash_read + (IF c.paper2_mode THEN 0 ELSE exposed)
  BY DEF FlashTime
<1> HIDE DEF exposed
<1> QED
  BY <1>2, <1>3, <1>6, <1>7, <1>8

LEMMA StreamIs ==
  ASSUME NEW c \in SystemConfig, NEW kv \in Nat, NEW act \in Nat,
         NEW calls \in Nat \ {0}
  PROVE  /\ AttentionMemory(c, kv, act, calls) \in Nat
         /\ AttentionMemoryUnchunked(c, kv, act, calls) \in Nat
<1>1. c.chunk_size \in Nat /\ c.sram \in Nat
  BY DEF SystemConfig
<1>2. /\ \A chunk \in Nat : FlashTime(c, kv, chunk, calls) \in Nat
      /\ ActTime(c, act) \in Nat
  <2>1. "GPU" \in Processors
    BY DEF Processors
  <2> QED
    BY <2>1, TrafficIs
<1> QED
  BY <1>1, <1>2 DEF AttentionMemory, AttentionMemoryUnchunked, Longer, Least

LEMMA OffloadIs ==
  ASSUME NEW c \in SystemConfig, NEW kv \in Nat, NEW act \in Nat
  PROVE  OffloadRead(c, kv, act) \in Nat
<1>1. /\ c.f_off \in 0 .. 4 /\ 4 - c.f_off \in Nat
      /\ c.byte_ticks["GPU"] \in Nat /\ c.c2c \in Nat
  BY DEF SystemConfig, Processors
<1>2. kv * (4 - c.f_off) \in Nat /\ kv * c.f_off \in Nat
  BY <1>1, Product
<1>3. /\ kv * (4 - c.f_off) * c.byte_ticks["GPU"] \in Nat
      /\ kv * c.f_off * c.c2c \in Nat
      /\ act * c.byte_ticks["GPU"] \in Nat
  BY <1>1, <1>2, Product
<1>4. /\ (kv * (4 - c.f_off) * c.byte_ticks["GPU"]) \div 4 \in Nat
      /\ (kv * c.f_off * c.c2c) \div 4 \in Nat
  BY <1>3, Quotient
<1> QED
  BY <1>3, <1>4 DEF OffloadRead, Longer

LEMMA KvWriteIs ==
  ASSUME NEW c \in SystemConfig, c.num_layers >= c.pp, NEW l \in Layer,
         NEW n \in Nat, NEW compressed \in BOOLEAN
  PROVE  KvWrite(c, l, n, compressed) \in Nat
<1> DEFINE entry == IF compressed THEN l.kv_lora_rank + l.rope
                    ELSE l.num_kv_heads * (2 * l.head_dim + l.rope)
           kept == IF l.window > 0 THEN Least(c.input_len, l.window)
                   ELSE c.input_len
<1>1. /\ {l.kv_lora_rank, l.rope, l.num_kv_heads, l.head_dim, l.window,
          l.precision} \subseteq Nat
  BY DEF Layer
<1>2. /\ {c.input_len, c.num_layers, c.flash_write, c.page_program}
           \subseteq Nat
      /\ {c.pp, c.output_len} \subseteq Nat \ {0}
  BY DEF SystemConfig
<1>3. entry \in Nat
  BY <1>1, Product
<1>4. kept \in Nat
  BY <1>1, <1>2 DEF Least
<1> HIDE DEF entry, kept
<1>5. n * entry * kept * l.precision * c.flash_write \in Nat
  BY <1>1, <1>2, <1>3, <1>4, Product
<1>6. (n * entry * kept * l.precision * c.flash_write) \div c.output_len \in Nat
  BY <1>2, <1>5, Quotient
<1>7. c.page_program \div (c.num_layers \div c.pp) \in Nat
  BY <1>2, Quotient
<1> QED
  BY <1>6, <1>7 DEF KvWrite, entry, kept
----------------------------------------------------------------------------
(***************************************************************************)
(* Batches.                                                                *)
(***************************************************************************)

\* What a kernel sees of a sequence; its window may leave fewer positions than
\* it has new tokens.
Entries ==
  {s \in [cur : Int, tok : Nat] :
     /\ Context(s) \in Nat
     /\ s.tok > 0 => Context(s) > 0}

\* Some sequence processes tokens.
Live(b) == \E i \in DOMAIN b : b[i].tok > 0

LEMMA BatchIs ==
  ASSUME NEW b \in Batch
  PROVE  b \in Seq(Entries)
<1>1. [cur : Nat, tok : Nat] \subseteq Entries
  BY DEF Entries, Context
<1> QED
  BY <1>1, SeqMonotonic DEF Batch

LEMMA EntryIs ==
  ASSUME NEW b \in Seq(Entries), NEW i \in DOMAIN b
  PROVE  /\ b[i].cur \in Int /\ b[i].tok \in Nat
         /\ Context(b[i]) \in Nat
         /\ b[i].tok > 0 => Context(b[i]) > 0
<1>1. b[i] \in Entries
  BY ElementOfSeq, LenProperties
<1> QED
  BY <1>1 DEF Entries

\* The sequences of a batch one by one.
LEMMA EntriesOf ==
  ASSUME NEW b \in Seq(Entries)
  PROVE  \A i \in DOMAIN b : b[i] \in Entries
  BY ElementOfSeq, LenProperties

\* The places of a sequence.
LEMMA Indices ==
  ASSUME NEW S, NEW s \in Seq(S)
  PROVE  /\ IsFiniteSet(DOMAIN s)
         /\ DOMAIN s = 1 .. Len(s) /\ Len(s) \in Nat
         /\ s # <<>> <=> DOMAIN s # {}
         /\ s # <<>> <=> 1 \in DOMAIN s
<1>1. DOMAIN s = 1 .. Len(s) /\ Len(s) \in Nat
  BY LenProperties
<1>2. IsFiniteSet(1 .. Len(s))
  BY <1>1, FS_Interval
<1>3. s # <<>> <=> Len(s) > 0
  BY <1>1, EmptySeq
<1> QED
  BY <1>1, <1>2, <1>3

\* A batch without tokens is one in which no sequence processes any.
LEMMA TokensIs ==
  ASSUME NEW b \in Seq(Entries)
  PROVE  /\ Tokens(b) \in Nat
         /\ Tokens(b) = 0 <=> ~Live(b)
<1> DEFINE v == [i \in DOMAIN b |-> b[i].tok]
<1>1. Tokens(b) = SumFunction(v)
  BY DEF Tokens, SumOver
<1>2. DOMAIN v = DOMAIN b /\ IsFiniteSet(DOMAIN v)
  BY Indices
<1>3. \A i \in DOMAIN v : v[i] \in Nat
  BY EntryIs
<1>4. Live(b) <=> \E i \in DOMAIN v : v[i] > 0
  BY DEF Live
<1> HIDE DEF v
<1>5. /\ SumFunction(v) \in Nat
      /\ \A i \in DOMAIN v : v[i] <= SumFunction(v)
      /\ (\A i \in DOMAIN v : v[i] = 0) => SumFunction(v) = 0
  BY <1>2, <1>3, SumOfNats
<1>6. ASSUME NEW i \in DOMAIN v, v[i] > 0
      PROVE  SumFunction(v) > 0
  BY <1>3, <1>5, <1>6
<1> QED
  BY <1>1, <1>3, <1>4, <1>5, <1>6
----------------------------------------------------------------------------
(***************************************************************************)
(* Phases.                                                                 *)
(***************************************************************************)
LEMMA PhaseIs ==
  ASSUME NEW c \in SystemConfig, NEW p \in Processors, NEW l \in Layer,
         NEW b \in Seq(Entries), NEW w \in Works, NEW memory \in Nat
  PROVE  LET f == Phase(c, p, l, b, w, memory)
         IN f \in Phases /\ (Computes(c) /\ w.flops >= 2 => f.compute > 0)
<1> DEFINE t == ComputeTime(c, p, l.precision, w.flops, Tokens(b))
<1>1. w.flops \in Nat /\ w.kv \in Nat /\ w.act \in Nat /\ l.precision \in Nat
  BY WorkFields, LayerFields
<1>2. t \in Nat /\ (Computes(c) /\ w.flops >= 2 => t > 0)
  BY <1>1, TokensIs, ComputeIs
<1>3. (w.kv + w.act) * l.precision \in Nat
  BY <1>1, Product
<1>4. Phase(c, p, l, b, w, memory)
        = [compute |-> t, memory |-> memory, hides |-> TRUE,
           flops |-> w.flops, size |-> (w.kv + w.act) * l.precision]
  BY DEF Phase
<1> HIDE DEF t
<1> QED
  BY <1>1, <1>2, <1>3, <1>4 DEF Phases

LEMMA PlainIs ==
  ASSUME NEW c \in SystemConfig, NEW p \in Processors, NEW l \in Layer,
         NEW b \in Seq(Entries), NEW w \in Works
  PROVE  LET f == Plain(c, p, l, b, w)
         IN f \in Phases /\ (Computes(c) /\ w.flops >= 2 => f.compute > 0)
<1> DEFINE memory == IF c.ramulator THEN Ramulator(c, p, w.ops, l.precision)
                     ELSE (w.kv + w.act) * l.precision * Bandwidth(c, p)
<1>1. /\ w.kv + w.act \in Nat /\ w.ops \in Nat /\ l.precision \in Nat
      /\ c.ram_ticks[p] \in Nat
  BY WorkFields, LayerFields, ConfigFields
<1>2. /\ w.ops * l.precision \in Nat
      /\ (w.kv + w.act) * l.precision \in Nat
  BY <1>1, Product
<1>3. (w.kv + w.act) * l.precision * Bandwidth(c, p) \in Nat
  BY <1>2, TrafficIs
<1>4. memory \in Nat
  <2>1. Ramulator(c, p, w.ops, l.precision) \in Nat
    BY <1>1, <1>2, Product DEF Ramulator
  <2> QED
    BY <1>3, <2>1
<1>5. Plain(c, p, l, b, w) = Phase(c, p, l, b, w, memory)
  BY DEF Plain
<1> HIDE DEF memory
<1> QED
  BY <1>4, <1>5, PhaseIs

LEMMA StreamedIs ==
  ASSUME NEW c \in SystemConfig, NEW l \in Layer, NEW b \in Seq(Entries),
         NEW w \in Works, NEW fills \in Nat \ {0}
  PROVE  LET f == Streamed(c, l, b, w, fills)
         IN f \in Phases /\ (Computes(c) /\ w.flops >= 2 => f.compute > 0)
<1> DEFINE kv == w.kv * l.precision
           act == w.act * l.precision
<1>1. w.kv \in Nat /\ w.act \in Nat /\ l.precision \in Nat
      /\ "GPU" \in Processors
  BY WorkFields, LayerFields DEF Processors
<1>2. kv \in Nat /\ act \in Nat
  BY <1>1, Product
<1>3. /\ AttentionMemory(c, kv, act, fills) \in Nat
      /\ AttentionMemoryUnchunked(c, kv, act, fills) \in Nat
      /\ OffloadRead(c, kv, act) \in Nat
  <2> HIDE DEF kv, act
  <2> QED
    BY <1>2, StreamIs, OffloadIs
<1>4. \/ Streamed(c, l, b, w, fills) = Plain(c, "GPU", l, b, w)
      \/ \E memory \in Nat :
           Streamed(c, l, b, w, fills) = Phase(c, "GPU", l, b, w, memory)
  BY <1>3 DEF Streamed
<1> QED
  BY <1>1, <1>4, PlainIs, PhaseIs

\* Some phase computes.
Busy(phases) == \E i \in DOMAIN phases : phases[i].compute > 0

LEMMA OnePhase ==
  ASSUME NEW f \in Phases
  PROVE  <<f>> \in Seq(Phases) /\ (f.compute > 0 => Busy(<<f>>))
  BY DEF Busy

LEMMA TwoParts ==
  ASSUME NEW s \in Seq(Phases), NEW t \in Seq(Phases)
  PROVE  s \o t \in Seq(Phases) /\ (Busy(s) \/ Busy(t) => Busy(s \o t))
<1>1. /\ s \o t \in Seq(Phases) /\ Len(s \o t) = Len(s) + Len(t)
      /\ \A i \in 1 .. Len(s) + Len(t) :
           (s \o t)[i] = IF i <= Len(s) THEN s[i] ELSE t[i - Len(s)]
  BY ConcatProperties
<1>2. /\ DOMAIN s = 1 .. Len(s) /\ DOMAIN t = 1 .. Len(t)
      /\ DOMAIN (s \o t) = 1 .. Len(s) + Len(t)
      /\ Len(s) \in Nat /\ Len(t) \in Nat
  BY <1>1, Indices
<1>3. ASSUME NEW i \in DOMAIN s, s[i].compute > 0
      PROVE  Busy(s \o t)
  <2>1. i \in DOMAIN (s \o t) /\ (s \o t)[i] = s[i]
    BY <1>1, <1>2
  <2> QED
    BY <1>3, <2>1 DEF Busy
<1>4. ASSUME NEW i \in DOMAIN t, t[i].compute > 0
      PROVE  Busy(s \o t)
  <2>1. Len(s) + i \in DOMAIN (s \o t) /\ (s \o t)[Len(s) + i] = t[i]
    BY <1>1, <1>2
  <2> QED
    BY <1>4, <2>1 DEF Busy
<1> QED
  BY <1>1, <1>3, <1>4 DEF Busy

\* A kernel's phases one after the other.
LEMMA RunIs ==
  ASSUME NEW phases \in Seq(Phases)
  PROVE  /\ Run(phases) \in Statuses
         /\ Busy(phases) => Run(phases).total > 0
<1> DEFINE long == [i \in DOMAIN phases |->
                      Longer(phases[i].compute, phases[i].memory)]
           compute == [i \in DOMAIN phases |->
                         IF phases[i].hides THEN phases[i].compute ELSE 0]
           flops == [i \in DOMAIN phases |-> phases[i].flops]
           size == [i \in DOMAIN phases |-> phases[i].size]
<1>1. IsFiniteSet(DOMAIN phases)
  BY Indices
<1>2. \A i \in DOMAIN phases : phases[i] \in Phases
  BY ElementOfSeq, LenProperties
<1>3. /\ \A i \in DOMAIN phases : /\ long[i] \in Nat /\ compute[i] \in Nat
                                  /\ flops[i] \in Nat /\ size[i] \in Nat
                                  /\ phases[i].compute \in Nat
                                  /\ phases[i].compute <= long[i]
  BY <1>2 DEF Phases, Longer
<1>4. /\ Run(phases) = [EmptyStatus EXCEPT !.total = SumFunction(long),
                                           !.compute = SumFunction(compute),
                                           !.flops = SumFunction(flops),
                                           !.size = SumFunction(size)]
  BY DEF Run, SumOver
<1>5. DOMAIN long = DOMAIN phases /\ DOMAIN compute = DOMAIN phases
      /\ DOMAIN flops = DOMAIN phases /\ DOMAIN size = DOMAIN phases
  OBVIOUS
<1> HIDE DEF long, compute, flops, size
<1>6. /\ SumFunction(long) \in Nat /\ SumFunction(compute) \in Nat
      /\ SumFunction(flops) \in Nat /\ SumFunction(size) \in Nat
      /\ \A i \in DOMAIN phases : long[i] <= SumFunction(long)
  BY <1>1, <1>3, <1>5, SumOfNats
<1>7. Run(phases) \in Statuses /\ Run(phases).total = SumFunction(long)
  <2>1. PICK a \in Nat, t \in Nat, f \in Nat, z \in Nat :
          /\ a = SumFunction(long)
          /\ Run(phases) = [EmptyStatus EXCEPT !.total = a, !.compute = t,
                                               !.flops = f, !.size = z]
    BY <1>4, <1>6
  <2>2. Run(phases) = [total |-> a, compute |-> t, dep |-> 0, kv_write |-> 0,
                       flops |-> f, size |-> z]
    BY <2>1 DEF EmptyStatus
  <2> QED
    BY <2>1, <2>2 DEF Statuses
<1> QED
  BY <1>3, <1>6, <1>7 DEF Busy
----------------------------------------------------------------------------
(***************************************************************************)
(* The work of a batch, sequence by sequence or as a whole.                *)
(***************************************************************************)

\* The work f of the sequences, taken together.
Together(f) ==
  Work(SumFunction([i \in DOMAIN f |-> f[i].flops]),
       SumFunction([i \in DOMAIN f |-> f[i].kv]),
       SumFunction([i \in DOMAIN f |-> f[i].act]),
       SumFunction([i \in DOMAIN f |-> f[i].ops]))

\* Each sequence with its work.
Apart(c, p, l, b, f) == [i \in DOMAIN b |-> Plain(c, p, l, b, f[i])]

LEMMA TogetherIs ==
  ASSUME NEW b \in Seq(Entries), NEW f \in [DOMAIN b -> Works]
  PROVE  /\ Together(f) \in Works
         /\ \A i \in DOMAIN b : f[i].flops <= Together(f).flops
<1> DEFINE flops == [i \in DOMAIN f |-> f[i].flops]
           kv == [i \in DOMAIN f |-> f[i].kv]
           act == [i \in DOMAIN f |-> f[i].act]
           ops == [i \in DOMAIN f |-> f[i].ops]
<1>1. IsFiniteSet(DOMAIN b)
  BY Indices
<1>2. /\ DOMAIN flops = DOMAIN b /\ DOMAIN kv = DOMAIN b
      /\ DOMAIN act = DOMAIN b /\ DOMAIN ops = DOMAIN b
  OBVIOUS
<1>3. \A i \in DOMAIN b : /\ flops[i] \in Nat /\ kv[i] \in Nat
                          /\ act[i] \in Nat /\ ops[i] \in Nat
                          /\ flops[i] = f[i].flops
  BY WorkFields
<1>4. Together(f) = [flops |-> SumFunction(flops), kv |-> SumFunction(kv),
                     act |-> SumFunction(act), ops |-> SumFunction(ops)]
  BY DEF Together, Work
<1> HIDE DEF flops, kv, act, ops
<1>5. /\ SumFunction(flops) \in Nat /\ SumFunction(kv) \in Nat
      /\ SumFunction(act) \in Nat /\ SumFunction(ops) \in Nat
      /\ \A i \in DOMAIN b : flops[i] <= SumFunction(flops)
  BY <1>1, <1>2, <1>3, SumOfNats
<1>6. Together(f) \in Works /\ Together(f).flops = SumFunction(flops)
  BY <1>4, <1>5 DEF Works
<1> QED
  BY <1>3, <1>5, <1>6

LEMMA ApartIs ==
  ASSUME NEW c \in SystemConfig, NEW p \in Processors, NEW l \in Layer,
         NEW b \in Seq(Entries), NEW f \in [DOMAIN b -> Works]
  PROVE  /\ Apart(c, p, l, b, f) \in Seq(Phases)
         /\ Computes(c) /\ (\E i \in DOMAIN b : f[i].flops >= 2)
              => Busy(Apart(c, p, l, b, f))
<1> DEFINE s == Apart(c, p, l, b, f)
<1>1. DOMAIN b = 1 .. Len(b) /\ Len(b) \in Nat
  BY Indices
<1>2. DOMAIN s = DOMAIN b
  BY DEF Apart
<1>3. \A i \in DOMAIN b :
        /\ s[i] \in Phases
        /\ Computes(c) /\ f[i].flops >= 2 => s[i].compute > 0
  BY PlainIs DEF Apart
<1>4. s \in [1 .. Len(b) -> Phases]
  BY <1>1, <1>3 DEF Apart
<1> HIDE DEF s
<1> QED
  BY <1>1, <1>2, <1>3, <1>4 DEF Busy, s

\* A phase for the whole batch.
LEMMA WholeIs ==
  ASSUME NEW c \in SystemConfig, Computes(c), NEW l \in Layer,
         NEW b \in Seq(Entries), Live(b), NEW f \in WorkFor(b)
  PROVE  /\ \A fills \in Nat \ {0} :
              LET s == <<Streamed(c, l, b, Together(f), fills)>>
              IN s \in Seq(Phases) /\ Busy(s)
         /\ \A p \in Processors :
              LET s == <<Plain(c, p, l, b, Together(f))>>
              IN s \in Seq(Phases) /\ Busy(s)
<1>1. Together(f) \in Works /\ Together(f).flops >= 2
  <2>1. PICK i \in DOMAIN b : b[i].tok > 0
    BY DEF Live
  <2>2. f \in [DOMAIN b -> Works] /\ f[i].flops >= 2
    BY <2>1 DEF WorkFor, WorkOf
  <2>3. Together(f) \in Works /\ f[i].flops <= Together(f).flops
    BY <2>2, TogetherIs
  <2> QED
    BY <2>2, <2>3, WorkFields
<1>2. ASSUME NEW fills \in Nat \ {0}
      PROVE  LET s == <<Streamed(c, l, b, Together(f), fills)>>
             IN s \in Seq(Phases) /\ Busy(s)
  BY <1>1, StreamedIs, OnePhase
<1>3. ASSUME NEW p \in Processors
      PROVE  LET s == <<Plain(c, p, l, b, Together(f))>>
             IN s \in Seq(Phases) /\ Busy(s)
  BY <1>1, PlainIs, OnePhase
<1> QED
  BY <1>2, <1>3

\* The softmax's phases.
LEMMA SoftmaxIs ==
  ASSUME NEW c \in SystemConfig, NEW p \in Processors, NEW l \in Layer,
         NEW b \in Seq(Entries)
  PROVE  Softmax(c, p, l, b) \in Seq(Phases)
<1>1. ASSUME NEW i \in DOMAIN b
      PROVE  /\ Scores(l, b[i]) \in Nat /\ SoftmaxWork(l, b[i]) \in Works
  <2>1. /\ b[i].tok \in Nat /\ Context(b[i]) \in Nat /\ l.num_heads \in Nat
    BY EntryIs, LayerFields
  <2>2. /\ b[i].tok * Context(b[i]) * l.num_heads \in Nat
        /\ 7 * b[i].tok * Context(b[i]) * l.num_heads \in Nat
    BY <2>1, Product
  <2>3. Scores(l, b[i]) \in Nat
    BY <2>2 DEF Scores
  <2>4. 2 * Scores(l, b[i]) \in Nat
    BY <2>3
  <2> QED
    BY <2>2, <2>3, <2>4 DEF SoftmaxWork, Work, Works
<1> DEFINE memory(w) == IF c.ramulator
                        THEN Ramulator(c, p, w.ops, l.precision)
                        ELSE SoftmaxTime(c, p, w.act * l.precision)
<1>2. ASSUME NEW w \in Works
      PROVE  memory(w) \in Nat
  <2>1. /\ w.ops \in Nat /\ w.act \in Nat /\ l.precision \in Nat
        /\ c.ram_ticks[p] \in Nat
    BY WorkFields, LayerFields, ConfigFields
  <2>2. w.ops * l.precision \in Nat /\ w.act * l.precision \in Nat
    BY <2>1, Product
  <2>3. w.ops * l.precision * c.ram_ticks[p] \in Nat
    BY <2>1, <2>2, Product
  <2>4. SoftmaxTime(c, p, w.act * l.precision) \in Nat
    BY <2>2, TrafficIs DEF SoftmaxTime
  <2> QED
    BY <2>3, <2>4 DEF Ramulator
<1>3. ASSUME NEW i \in DOMAIN b
      PROVE  Softmax(c, p, l, b)[i] \in Phases
  <2> DEFINE w == SoftmaxWork(l, b[i])
             f == Phase(c, p, l, b, w, memory(w))
  <2>1. Softmax(c, p, l, b)[i] = [f EXCEPT !.hides = c.softmax_hide]
    BY DEF Softmax
  <2>2. f \in Phases
    BY <1>1, <1>2, PhaseIs
  <2>3. c.softmax_hide \in BOOLEAN
    BY DEF SystemConfig
  <2> HIDE DEF f
  <2> QED
    BY <2>1, <2>2, <2>3 DEF Phases
<1>4. DOMAIN b = 1 .. Len(b) /\ Len(b) \in Nat
  BY Indices
<1>5. Softmax(c, p, l, b) \in [1 .. Len(b) -> Phases]
  BY <1>3, <1>4 DEF Softmax
<1> QED
  BY <1>4, <1>5
----------------------------------------------------------------------------
(***************************************************************************)
(* The work of one sequence.                                               *)
(***************************************************************************)

\* Products that keep two flops.
LEMMA Twice ==
  ASSUME NEW a \in Nat, a >= 2, NEW b \in Nat \ {0}
  PROVE  a * b \in Nat /\ a * b >= 2
  BY SMT

LEMMA NotNone ==
  ASSUME NEW a \in Nat \ {0}, NEW b \in Nat \ {0}
  PROVE  a * b \in Nat \ {0}
  BY SMT

\* Natural numbers, with flops among them.
LEMMA WorkIs ==
  ASSUME NEW flops \in Nat, NEW kv \in Nat, NEW act \in Nat, NEW ops \in Nat,
         NEW s, s.tok > 0 => flops >= 2
  PROVE  Work(flops, kv, act, ops) \in WorkOf(s)
  BY DEF Work, Works, WorkOf

\* Another number of elements for the simulator does not change the rest.
LEMMA IssuedIs ==
  ASSUME NEW w \in Works, NEW ops \in Nat
  PROVE  /\ Issued(w, ops) \in Works
         /\ \A s : w \in WorkOf(s) => Issued(w, ops) \in WorkOf(s)
  BY DEF Issued, Works, WorkOf

LEMMA ScoresIs ==
  ASSUME NEW l \in Layer, NEW s \in Entries
  PROVE  /\ Scores(l, s) \in Nat
         /\ s.tok \in Nat /\ Context(s) \in Nat
         /\ s.tok > 0 => Context(s) > 0
<1>1. s.tok \in Nat /\ Context(s) \in Nat /\ (s.tok > 0 => Context(s) > 0)
  BY DEF Entries
<1>2. s.tok * Context(s) * l.num_heads \in Nat
  BY <1>1, LayerFields, Product
<1> QED
  BY <1>1, <1>2 DEF Scores

\* Grouped-query attention.
LEMMA GqaWorkIs ==
  ASSUME NEW l \in Layer, NEW s \in Entries
  PROVE  GqaWork(l, s) \in WorkOf(s)
<1> DEFINE n == Context(s)
           flops == 2 * s.tok * l.head_dim * n * l.group * l.num_kv_heads
           kv == l.head_dim * n * l.num_kv_heads
           act == s.tok * l.head_dim * l.num_heads + Scores(l, s)
<1>1. /\ s.tok \in Nat /\ n \in Nat /\ (s.tok > 0 => n > 0)
      /\ Scores(l, s) \in Nat
  BY ScoresIs
<1>2. GqaWork(l, s) = Work(flops, kv, act, kv)
  BY DEF GqaWork
<1> HIDE DEF n
<1>3. flops \in Nat /\ (s.tok > 0 => flops >= 2)
  BY <1>1, LayerFields, Product
<1>4. kv \in Nat /\ s.tok * l.head_dim * l.num_heads \in Nat
  BY <1>1, LayerFields, Product
<1>5. act \in Nat
  BY <1>1, <1>4
<1> HIDE DEF flops, kv, act
<1> QED
  BY <1>2, <1>3, <1>4, <1>5, WorkIs

LEMMA GqaNearWorkIs ==
  ASSUME NEW l \in Layer, NEW s \in Entries
  PROVE  GqaNearWork(l, s) \in WorkOf(s)
<1> DEFINE w == GqaWork(l, s)
           ops == l.head_dim * l.num_kv_heads
                    * (((Context(s) + 3) \div 4) * 4)
<1>1. w \in Works /\ (s.tok > 0 => w.flops >= 2)
  BY GqaWorkIs DEF WorkOf
<1>2. Context(s) \in Nat
  BY ScoresIs
<1>3. ((Context(s) + 3) \div 4) * 4 \in Nat
  BY <1>2
<1>4. ops \in Nat
  BY <1>3, LayerFields, Product
<1>5. GqaNearWork(l, s) = [w EXCEPT !.act = 0, !.ops = ops]
  BY DEF GqaNearWork
<1> HIDE DEF w, ops
<1>6. PICK f \in Nat, k \in Nat, a \in Nat, o \in Nat :
        w = [flops |-> f, kv |-> k, act |-> a, ops |-> o]
  BY <1>1 DEF Works
<1>7. GqaNearWork(l, s) = Work(f, k, 0, ops)
  BY <1>5, <1>6 DEF Work
<1> QED
  BY <1>1, <1>4, <1>6, <1>7, WorkIs

\* Latent attention on expanded heads.
LEMMA MlaFusedWorkIs ==
  ASSUME NEW l \in Layer, NEW s \in Entries
  PROVE  MlaFusedWork(l, s) \in WorkOf(s)
<1> DEFINE h == l.num_heads
           n == Context(s)
           entry == 2 * l.head_dim + l.rope
           flops == 2 * s.tok * entry * n * h
           kv == n * entry * h
           act == s.tok * entry * h
           ops == (1 + n) * entry * h
<1>1. /\ s.tok \in Nat /\ n \in Nat /\ h \in Nat \ {0}
      /\ s.tok > 0 => n > 0
  BY ScoresIs, LayerFields
<1>2. entry \in Nat \ {0}
  BY LayerFields
<1>3. MlaFusedWork(l, s) = Work(flops, kv, act, ops)
  BY DEF MlaFusedWork
<1> HIDE DEF h, n, entry
<1>4. flops \in Nat /\ (s.tok > 0 => flops >= 2)
  BY <1>1, <1>2, Product
<1>5. kv \in Nat /\ act \in Nat /\ ops \in Nat
  BY <1>1, <1>2, Product
<1> HIDE DEF flops, kv, act, ops
<1> QED
  BY <1>3, <1>4, <1>5, WorkIs

LEMMA MlaScoreWorkIs ==
  ASSUME NEW l \in Layer, NEW s \in Entries
  PROVE  MlaScoreWork(l, s) \in WorkOf(s)
<1> DEFINE h == l.num_heads
           k == l.head_dim + l.rope
           n == Context(s)
           written == IF l.use_flash_attention THEN 0 ELSE h * n
           flops == 2 * s.tok * k * n * h
           kv == k * n * h
           act == s.tok * k * h + Scores(l, s)
           ops == h * k + n * k * h + written
<1>1. /\ s.tok \in Nat /\ n \in Nat /\ (s.tok > 0 => n > 0)
      /\ h \in Nat \ {0}
      /\ Scores(l, s) \in Nat
  BY ScoresIs, LayerFields
<1>2. k \in Nat \ {0}
  BY LayerFields
<1>3. MlaScoreWork(l, s) = Work(flops, kv, act, ops)
  BY DEF MlaScoreWork
<1> HIDE DEF h, n, k
<1>4. flops \in Nat /\ (s.tok > 0 => flops >= 2)
  BY <1>1, <1>2, Product
<1>5. /\ kv \in Nat /\ s.tok * k * h \in Nat /\ h * k \in Nat
      /\ n * k * h \in Nat /\ h * n \in Nat
  BY <1>1, <1>2, Product
<1>6. kv \in Nat /\ act \in Nat /\ ops \in Nat
  BY <1>1, <1>5
<1> HIDE DEF flops, kv, act, ops
<1> QED
  BY <1>3, <1>4, <1>6, WorkIs

LEMMA MlaContextWorkIs ==
  ASSUME NEW l \in Layer, NEW s \in Entries
  PROVE  MlaContextWork(l, s) \in WorkOf(s)
<1> DEFINE h == l.num_heads
           d == l.head_dim
           n == Context(s)
           read == IF l.use_flash_attention THEN 0 ELSE h * n
           flops == 2 * s.tok * n * d * h
           kv == n * d * h
           act == Scores(l, s) + s.tok * d * h
           ops == read + n * d * h + h * d
<1>1. /\ s.tok \in Nat /\ n \in Nat /\ (s.tok > 0 => n > 0)
      /\ h \in Nat \ {0}
      /\ d \in Nat \ {0} /\ Scores(l, s) \in Nat
  BY ScoresIs, LayerFields
<1>2. MlaContextWork(l, s) = Work(flops, kv, act, ops)
  BY DEF MlaContextWork
<1> HIDE DEF h, n, d
<1>3. flops \in Nat /\ (s.tok > 0 => flops >= 2)
  BY <1>1, Product
<1>4. /\ kv \in Nat /\ s.tok * d * h \in Nat /\ h * d \in Nat /\ h * n \in Nat
  BY <1>1, Product
<1>5. act \in Nat /\ ops \in Nat
  BY <1>1, <1>4
<1> HIDE DEF flops, kv, act, ops
<1> QED
  BY <1>2, <1>3, <1>4, <1>5, WorkIs

\* Latent attention absorbed.
LEMMA AbsorbFusedWorkIs ==
  ASSUME NEW l \in Layer, l.kv_lora_rank > 0, NEW s \in Entries
  PROVE  AbsorbFusedWork(l, s) \in WorkOf(s)
<1> DEFINE h == l.num_heads
           r == l.kv_lora_rank
           n == Context(s)
           entry == 2 * r + l.rope
           flops == 2 * h * entry * n
           kv == n * (r + l.rope)
           act == h * entry
           ops == h * entry + n * (r + l.rope)
<1>1. /\ n \in Nat /\ (s.tok > 0 => n > 0) /\ h \in Nat \ {0}
      /\ r + l.rope \in Nat
      /\ entry \in Nat \ {0}
  BY ScoresIs, LayerFields
<1>2. AbsorbFusedWork(l, s) = Work(flops, kv, act, ops)
  BY DEF AbsorbFusedWork
<1> HIDE DEF h, n, r, entry
<1>3. flops \in Nat /\ (s.tok > 0 => flops >= 2)
  BY <1>1, Product
<1>4. kv \in Nat /\ act \in Nat
  BY <1>1, Product
<1>5. ops \in Nat
  BY <1>4
<1> HIDE DEF flops, kv, act, ops
<1> QED
  BY <1>2, <1>3, <1>4, <1>5, WorkIs

LEMMA AbsorbScoreWorkIs ==
  ASSUME NEW l \in Layer, NEW s \in Entries, NEW k \in Nat
  PROVE  /\ AbsorbScoreWork(l, s, k) \in Works
         /\ k > 0 => AbsorbScoreWork(l, s, k) \in WorkOf(s)
<1> DEFINE h == l.num_heads
           n == Context(s)
           written == IF l.use_flash_attention THEN 0 ELSE h * n
           flops == 2 * s.tok * k * n * h
           kv == k * n
           act == s.tok * k * h + Scores(l, s)
           ops == k * h + k * n + written
<1>1. /\ s.tok \in Nat /\ n \in Nat /\ (s.tok > 0 => n > 0)
      /\ h \in Nat \ {0}
      /\ Scores(l, s) \in Nat
  BY ScoresIs, LayerFields
<1>2. AbsorbScoreWork(l, s, k) = Work(flops, kv, act, ops)
  BY DEF AbsorbScoreWork
<1> HIDE DEF h, n
<1>3. flops \in Nat /\ (k > 0 /\ s.tok > 0 => flops >= 2)
  BY <1>1, Product
<1>4. /\ k * n \in Nat /\ s.tok * k * h \in Nat /\ k * h \in Nat
      /\ h * n \in Nat
  BY <1>1, Product
<1>5. act \in Nat
  BY <1>1, <1>4
<1>6. kv \in Nat /\ ops \in Nat
  BY <1>4
<1> HIDE DEF flops, kv, act, ops
<1> QED
  BY <1>2, <1>3, <1>5, <1>6 DEF Work, Works, WorkOf

LEMMA AbsorbContextWorkIs ==
  ASSUME NEW l \in Layer, l.kv_lora_rank > 0, NEW s \in Entries
  PROVE  /\ AbsorbContextWork(l, s) \in WorkOf(s)
<1> DEFINE h == l.num_heads
           r == l.kv_lora_rank
           n == Context(s)
           read == IF l.use_flash_attention THEN 0 ELSE h * n
           flops == 2 * s.tok * n * r * h
           kv == n * r
           act == Scores(l, s) + s.tok * r * h
           ops == read + n * r + r * h
<1>1. /\ s.tok \in Nat /\ n \in Nat /\ (s.tok > 0 => n > 0)
      /\ h \in Nat \ {0}
      /\ r \in Nat \ {0} /\ Scores(l, s) \in Nat
  BY ScoresIs, LayerFields
<1>2. AbsorbContextWork(l, s) = Work(flops, kv, act, ops)
  BY DEF AbsorbContextWork
<1> HIDE DEF h, n, r
<1>3. flops \in Nat /\ (s.tok > 0 => flops >= 2)
  BY <1>1, Product
<1>4. /\ kv \in Nat /\ s.tok * r * h \in Nat /\ r * h \in Nat /\ h * n \in Nat
  BY <1>1, Product
<1>5. act \in Nat /\ ops \in Nat
  BY <1>1, <1>4
<1> HIDE DEF flops, kv, act, ops
<1> QED
  BY <1>2, <1>3, <1>4, <1>5, WorkIs
----------------------------------------------------------------------------
(***************************************************************************)
(* What the decode kernels cost.                                           *)
(***************************************************************************)

\* A status tells times, and no time only when no sequence has a token.
Costs(status, b) == status \in Statuses /\ (status.total = 0 <=> ~Live(b))

LEMMA EmptyCosts == EmptyStatus \in Statuses /\ EmptyStatus.total = 0
  BY DEF EmptyStatus, Statuses

LEMMA DecodeCosts ==
  ASSUME NEW b \in Seq(Entries), NEW phases,
         Live(b) => phases \in Seq(Phases) /\ Busy(phases)
  PROVE  Costs(Decode(b, phases), b)
<1>1. Tokens(b) = 0 <=> ~Live(b)
  BY TokensIs
<1>2. CASE ~Live(b)
  BY <1>1, <1>2, EmptyCosts DEF Decode, Costs
<1>3. CASE Live(b)
  <2> DEFINE status == Run(phases)
  <2>1. status \in Statuses /\ status.total > 0
    BY <1>3, RunIs
  <2>2. Decode(b, phases) = [status EXCEPT !.dep = status.total]
    BY <1>1, <1>3 DEF Decode
  <2> HIDE DEF status
  <2>3. Decode(b, phases) \in Statuses
        /\ Decode(b, phases).total = status.total
    BY <2>1, <2>2 DEF Statuses
  <2> QED
    BY <1>3, <2>1, <2>3 DEF Costs
<1> QED
  BY <1>2, <1>3

LEMMA KvWriteCosts ==
  ASSUME NEW c \in SystemConfig, c.num_layers >= c.pp, NEW l \in Layer,
         NEW b \in Seq(Entries), NEW compressed \in BOOLEAN,
         NEW status, Costs(status, b)
  PROVE  Costs(WithKvWrite(c, l, b, compressed, status), b)
<1> DEFINE write == Longer(0, KvWrite(c, l, Len(b), compressed)
                                - status.compute)
           charged == WithKvWrite(c, l, b, compressed, status)
<1>1. Tokens(b) = 0 <=> ~Live(b)
  BY TokensIs
<1>2. Len(b) \in Nat
  BY Indices
<1>3. KvWrite(c, l, Len(b), compressed) \in Nat
  BY <1>2, KvWriteIs
<1>4. status \in Statuses /\ (status.total = 0 <=> ~Live(b))
  BY DEF Costs
<1>5. write \in Nat
  BY <1>3, <1>4 DEF Longer, Statuses
<1>6. CASE ~c.use_hbf \/ ~Live(b)
  BY <1>1, <1>4, <1>6 DEF WithKvWrite, Costs
<1>7. CASE ~(~c.use_hbf \/ ~Live(b))
  <2>1. charged = [status EXCEPT !.total = @ + write, !.dep = @ + write,
                                 !.kv_write = write]
    BY <1>1, <1>7 DEF WithKvWrite
  <2> HIDE DEF write, charged
  <2>2. PICK t \in Nat, o \in Nat, d \in Nat, k \in Nat, f \in Nat, z \in Nat :
          status = [total |-> t, compute |-> o, dep |-> d, kv_write |-> k,
                    flops |-> f, size |-> z]
    BY <1>4 DEF Statuses
  <2>3. charged = [total |-> t + write, compute |-> o, dep |-> d + write,
                   kv_write |-> write, flops |-> f, size |-> z]
    BY <2>1, <2>2
  <2>4. charged \in Statuses /\ charged.total = t + write
    BY <1>5, <2>2, <2>3 DEF Statuses
  <2> QED
    BY <1>4, <1>5, <1>7, <2>2, <2>4 DEF Costs, charged
<1> QED
  BY <1>6, <1>7

\* A kernel that knows nothing of an offloaded cache may stop the program.
Good(status, b) == status = Failure \/ Costs(status, b)

LEMMA NoOffloadIs ==
  ASSUME NEW c, NEW b, NEW d, NEW status, Costs(status, b)
  PROVE  Good(NoOffload(c, d, status), b)
  BY DEF NoOffload, Good

\* What a layer reads of a batch has tokens to process when the batch has.
LEMMA ReachedIs ==
  ASSUME NEW l \in Layer, NEW b \in Batch
  PROVE  /\ Reached(l, b) \in Seq(Entries)
         /\ Live(Reached(l, b)) <=> Live(b)
<1>1. b \in Seq(Entries)
  BY BatchIs
<1>2. DOMAIN b = 1 .. Len(b) /\ Len(b) \in Nat
  BY <1>1, Indices
<1>3. ASSUME NEW i \in DOMAIN b
      PROVE  /\ Reached(l, b)[i] \in Entries
             /\ Reached(l, b)[i].tok = b[i].tok
  <2>1. b[i] \in [cur : Nat, tok : Nat]
    BY <1>2, ElementOfSeq DEF Batch
  <2>2. /\ Context(b[i]) \in Nat /\ l.window \in Nat
        /\ b[i].tok > 0 => Context(b[i]) > 0
    BY <1>1, EntryIs, LayerFields
  <2>3. /\ Reach(l, b[i]) \in Nat
        /\ b[i].tok > 0 => Reach(l, b[i]) > 0
    BY <2>2 DEF Reach, Least
  <2>4. PICK n \in Nat, t \in Nat : b[i] = [cur |-> n, tok |-> t]
    BY <2>1
  <2>5. Reached(l, b)[i] = [cur |-> Reach(l, b[i]) - t, tok |-> t]
    BY <2>4 DEF Reached
  <2> QED
    BY <2>3, <2>4, <2>5 DEF Entries, Context
<1>4. Reached(l, b) \in [1 .. Len(b) -> Entries]
  BY <1>2, <1>3 DEF Reached
<1>5. Reached(l, b) \in Seq(Entries) /\ DOMAIN Reached(l, b) = DOMAIN b
  BY <1>2, <1>4
<1>6. Live(Reached(l, b)) <=> Live(b)
  BY <1>3, <1>5 DEF Live
<1> QED
  BY <1>5, <1>6

\* The machines that the kernels are proved for.
Working(c) == c \in SystemConfig /\ Computes(c) /\ c.num_layers >= c.pp

LEMMA GqaGenGPUCosts ==
  ASSUME NEW c, Working(c), NEW l \in Layer, NEW batch \in Batch
  PROVE  Costs(AttentionGenExecutionGPU(c, l, batch), batch)
<1> DEFINE b == Reached(l, batch)
           f == [i \in DOMAIN b |-> GqaWork(l, b[i])]
           d == [c EXCEPT !.ramulator = FALSE]
           one == <<GqaGenScoreGPU(c, l, b)>>
           two == GqaGenSoftmaxGPU(c, l, b)
           three == <<GqaGenContextGPU(c, l, b)>>
<1>1. b \in Seq(Entries) /\ (Live(b) <=> Live(batch))
  BY ReachedIs
<1>2. c \in SystemConfig /\ Computes(c) /\ c.num_layers >= c.pp
  BY DEF Working
<1>3. d \in SystemConfig /\ "GPU" \in Processors
  BY <1>2 DEF SystemConfig, Processors
<1>4. Total(b, LAMBDA s : GqaWork(l, s)) = Together(f)
  BY DEF Total, SumOver, Together
<1>5. ASSUME Live(b)
      PROVE  one \o two \o three \in Seq(Phases) /\ Busy(one \o two \o three)
  <2>1. /\ one = <<Streamed(c, l, b, Together(f), 2)>>
        /\ three = <<Streamed(c, l, b, Together(f), 2)>>
    BY <1>4 DEF GqaGenScoreGPU, GqaGenContextGPU
  <2>2. f \in WorkFor(b)
    <3> HIDE DEF b
    <3> QED
      BY <1>1, EntriesOf, GqaWorkIs DEF WorkFor, WorkOf
  <2>3. two \in Seq(Phases)
    BY <1>1, <1>3, SoftmaxIs DEF GqaGenSoftmaxGPU
  <2> HIDE DEF b, f, one, two, three
  <2>4. one \in Seq(Phases) /\ Busy(one) /\ three \in Seq(Phases)
    BY <1>1, <1>2, <1>5, <2>1, <2>2, WholeIs
  <2> QED
    BY <2>3, <2>4, TwoParts
<1>6. AttentionGenExecutionGPU(c, l, batch)
        = WithKvWrite(c, [l EXCEPT !.rope = 0], b, FALSE,
                      Decode(b, one \o two \o three))
  BY DEF AttentionGenExecutionGPU
<1>7. [l EXCEPT !.rope = 0] \in Layer
  BY DEF Layer
<1> HIDE DEF b, one, two, three
<1>8. Costs(Decode(b, one \o two \o three), b)
  BY <1>1, <1>5, DecodeCosts
<1>9. Costs(AttentionGenExecutionGPU(c, l, batch), b)
  BY <1>1, <1>2, <1>6, <1>7, <1>8, KvWriteCosts
<1> QED
  BY <1>1, <1>9 DEF Costs
----------------------------------------------------------------------------
\* A phase with some work computes.
LEMMA WorkingPhase ==
  ASSUME NEW c \in SystemConfig, Computes(c), NEW l \in Layer,
         NEW b \in Seq(Entries), NEW w \in Works, w.flops >= 2
  PROVE  /\ \A fills \in Nat \ {0} :
              LET s == <<Streamed(c, l, b, w, fills)>>
              IN s \in Seq(Phases) /\ Busy(s)
         /\ \A p \in Processors :
              LET s == <<Plain(c, p, l, b, w)>>
              IN s \in Seq(Phases) /\ Busy(s)
<1>1. ASSUME NEW fills \in Nat \ {0}
      PROVE  LET s == <<Streamed(c, l, b, w, fills)>>
             IN s \in Seq(Phases) /\ Busy(s)
  BY StreamedIs, OnePhase
<1>2. ASSUME NEW p \in Processors
      PROVE  LET s == <<Plain(c, p, l, b, w)>>
             IN s \in Seq(Phases) /\ Busy(s)
  BY PlainIs, OnePhase
<1> QED
  BY <1>1, <1>2

LEMMA StreamedPhase ==
  ASSUME NEW c \in SystemConfig, Computes(c), NEW l \in Layer,
         NEW b \in Seq(Entries), NEW w \in Works, w.flops >= 2
  PROVE  /\ LET s == <<Streamed(c, l, b, w, 1)>>
            IN s \in Seq(Phases) /\ Busy(s)
         /\ LET s == <<Streamed(c, l, b, w, 2)>>
            IN s \in Seq(Phases) /\ Busy(s)
<1>1. {1, 2} \subseteq Nat \ {0}
  OBVIOUS
<1> QED
  BY <1>1, WorkingPhase

\* The work of a batch in which some sequence has some.
LEMMA TogetherWorks ==
  ASSUME NEW b \in Seq(Entries), Live(b), NEW f \in WorkFor(b)
  PROVE  Together(f) \in Works /\ Together(f).flops >= 2
<1>1. PICK i \in DOMAIN b : b[i].tok > 0
  BY DEF Live
<1>2. f \in [DOMAIN b -> Works] /\ f[i].flops >= 2
  BY <1>1 DEF WorkFor, WorkOf
<1>3. Together(f) \in Works /\ f[i].flops <= Together(f).flops
  BY <1>2, TogetherIs
<1> QED
  BY <1>2, <1>3, WorkFields

\* Three phases, of which the first computes.
LEMMA ThreeParts ==
  ASSUME NEW r \in Seq(Phases), NEW s \in Seq(Phases), NEW t \in Seq(Phases),
         Busy(r)
  PROVE  r \o s \o t \in Seq(Phases) /\ Busy(r \o s \o t)
  BY TwoParts

LEMMA FourParts ==
  ASSUME NEW r \in Seq(Phases), NEW s \in Seq(Phases), NEW t \in Seq(Phases),
         NEW u \in Seq(Phases), Busy(r)
  PROVE  r \o s \o t \o u \in Seq(Phases) /\ Busy(r \o s \o t \o u)
  BY TwoParts

LEMMA UnreportedIs ==
  ASSUME NEW s \in Seq(Phases)
  PROVE  Unreported(s) \in Seq(Phases)
<1>1. DOMAIN s = 1 .. Len(s) /\ Len(s) \in Nat
  BY Indices
<1>2. ASSUME NEW i \in DOMAIN s
      PROVE  [s[i] EXCEPT !.size = 0] \in Phases
  <2>1. s[i] \in Phases
    BY <1>1, ElementOfSeq
  <2> QED
    BY <2>1 DEF Phases
<1>3. Unreported(s) \in [1 .. Len(s) -> Phases]
  BY <1>1, <1>2 DEF Unreported
<1> QED
  BY <1>1, <1>3

LEMMA GqaTotals ==
  ASSUME NEW l \in Layer, NEW b \in Seq(Entries), Live(b)
  PROVE  LET w == Total(b, LAMBDA s : GqaNearWork(l, s))
         IN w \in Works /\ w.flops >= 2
<1> DEFINE f == [i \in DOMAIN b |-> GqaNearWork(l, b[i])]
<1>1. Total(b, LAMBDA s : GqaNearWork(l, s)) = Together(f)
  BY DEF Total, SumOver, Together
<1>2. f \in WorkFor(b)
  BY EntriesOf, GqaNearWorkIs DEF WorkFor, WorkOf
<1> HIDE DEF f
<1> QED
  BY <1>1, <1>2, TogetherWorks

LEMMA MlaFusedTotal ==
  ASSUME NEW l \in Layer, NEW b \in Seq(Entries), Live(b)
  PROVE  LET w == Total(b, LAMBDA s : MlaFusedWork(l, s))
         IN w \in Works /\ w.flops >= 2
<1> DEFINE f == [i \in DOMAIN b |-> MlaFusedWork(l, b[i])]
<1>1. Total(b, LAMBDA s : MlaFusedWork(l, s)) = Together(f)
  BY DEF Total, SumOver, Together
<1>2. f \in WorkFor(b)
  BY EntriesOf, MlaFusedWorkIs DEF WorkFor, WorkOf
<1> HIDE DEF f
<1> QED
  BY <1>1, <1>2, TogetherWorks

LEMMA MlaScoreTotal ==
  ASSUME NEW l \in Layer, NEW b \in Seq(Entries), Live(b)
  PROVE  LET w == Total(b, LAMBDA s : MlaScoreWork(l, s))
         IN w \in Works /\ w.flops >= 2
<1> DEFINE f == [i \in DOMAIN b |-> MlaScoreWork(l, b[i])]
<1>1. Total(b, LAMBDA s : MlaScoreWork(l, s)) = Together(f)
  BY DEF Total, SumOver, Together
<1>2. f \in WorkFor(b)
  BY EntriesOf, MlaScoreWorkIs DEF WorkFor, WorkOf
<1> HIDE DEF f
<1> QED
  BY <1>1, <1>2, TogetherWorks

LEMMA MlaContextTotal ==
  ASSUME NEW l \in Layer, NEW b \in Seq(Entries), Live(b)
  PROVE  LET w == Total(b, LAMBDA s : MlaContextWork(l, s))
         IN w \in Works /\ w.flops >= 2
<1> DEFINE f == [i \in DOMAIN b |-> MlaContextWork(l, b[i])]
<1>1. Total(b, LAMBDA s : MlaContextWork(l, s)) = Together(f)
  BY DEF Total, SumOver, Together
<1>2. f \in WorkFor(b)
  BY EntriesOf, MlaContextWorkIs DEF WorkFor, WorkOf
<1> HIDE DEF f
<1> QED
  BY <1>1, <1>2, TogetherWorks

LEMMA AbsorbFusedTotal ==
  ASSUME NEW l \in Layer, l.kv_lora_rank > 0, NEW b \in Seq(Entries), Live(b)
  PROVE  LET w == Total(b, LAMBDA s : AbsorbFusedWork(l, s))
         IN w \in Works /\ w.flops >= 2
<1> DEFINE f == [i \in DOMAIN b |-> AbsorbFusedWork(l, b[i])]
<1>1. Total(b, LAMBDA s : AbsorbFusedWork(l, s)) = Together(f)
  BY DEF Total, SumOver, Together
<1>2. f \in WorkFor(b)
  BY EntriesOf, AbsorbFusedWorkIs DEF WorkFor, WorkOf
<1> HIDE DEF f
<1> QED
  BY <1>1, <1>2, TogetherWorks

LEMMA AbsorbScoreTotal ==
  ASSUME NEW l \in Layer, NEW b \in Seq(Entries), Live(b), NEW k \in Nat
  PROVE  LET w == Total(b, LAMBDA s : AbsorbScoreWork(l, s, k))
         IN w \in Works /\ (k > 0 => w.flops >= 2)
<1> DEFINE f == [i \in DOMAIN b |-> AbsorbScoreWork(l, b[i], k)]
<1>1. Total(b, LAMBDA s : AbsorbScoreWork(l, s, k)) = Together(f)
  BY DEF Total, SumOver, Together
<1>2. /\ f \in [DOMAIN b -> Works]
      /\ k > 0 => f \in WorkFor(b)
  BY EntriesOf, AbsorbScoreWorkIs DEF WorkFor, WorkOf
<1> HIDE DEF f
<1> QED
  BY <1>1, <1>2, TogetherIs, TogetherWorks

LEMMA AbsorbContextTotal ==
  ASSUME NEW l \in Layer, l.kv_lora_rank > 0, NEW b \in Seq(Entries), Live(b)
  PROVE  LET w == Total(b, LAMBDA s : AbsorbContextWork(l, s))
         IN w \in Works /\ w.flops >= 2
<1> DEFINE f == [i \in DOMAIN b |-> AbsorbContextWork(l, b[i])]
<1>1. Total(b, LAMBDA s : AbsorbContextWork(l, s)) = Together(f)
  BY DEF Total, SumOver, Together
<1>2. f \in WorkFor(b)
  BY EntriesOf, AbsorbContextWorkIs DEF WorkFor, WorkOf
<1> HIDE DEF f
<1> QED
  BY <1>1, <1>2, TogetherWorks
----------------------------------------------------------------------------
\* The other decode kernels.
LEMMA QuietLayer ==
  ASSUME NEW l \in Layer
  PROVE  /\ [l EXCEPT !.use_flash_attention = TRUE] \in Layer
         /\ [l EXCEPT !.rope = 0] \in Layer
  BY DEF Layer

LEMMA GqaGenNearCosts ==
  ASSUME NEW c, Working(c), NEW l \in Layer, NEW b \in Batch
  PROVE  /\ Costs(AttentionGenExecutionLogic(c, l, b), b)
         /\ Costs(AttentionGenExecutionPIM(c, l, b), b)
<1> DEFINE near(p) == <<GqaGenNear(c, p, l, b)>>
           soft == GqaGenSoftmaxPIM(c, l, b)
<1>1. b \in Seq(Entries)
  BY BatchIs
<1>2. c \in SystemConfig /\ Computes(c) /\ {"LOGIC", "PIM"} \subseteq Processors
  BY DEF Working, Processors
<1>3. ASSUME NEW p \in Processors, Live(b)
      PROVE  near(p) \in Seq(Phases) /\ Busy(near(p))
  BY <1>1, <1>2, <1>3, GqaTotals, WorkingPhase DEF GqaGenNear
<1>4. soft \in Seq(Phases)
  BY <1>1, <1>2, QuietLayer, SoftmaxIs DEF GqaGenSoftmaxPIM
<1>5. <<GqaGenNear(c, "LOGIC", l, b), GqaGenNear(c, "LOGIC", l, b)>>
        = near("LOGIC") \o near("LOGIC")
  OBVIOUS
<1> HIDE DEF near, soft
<1>6. Live(b) =>
        /\ near("LOGIC") \o near("LOGIC") \in Seq(Phases)
        /\ Busy(near("LOGIC") \o near("LOGIC"))
  BY <1>2, <1>3, TwoParts
<1>7. Live(b) =>
        /\ near("PIM") \o soft \o near("PIM") \in Seq(Phases)
        /\ Busy(near("PIM") \o soft \o near("PIM"))
  BY <1>2, <1>3, <1>4, ThreeParts
<1>8. Costs(AttentionGenExecutionLogic(c, l, b), b)
  BY <1>1, <1>5, <1>6, DecodeCosts DEF AttentionGenExecutionLogic
<1>9. AttentionGenExecutionPIM(c, l, b)
        = Decode(b, near("PIM") \o soft \o near("PIM"))
  BY DEF AttentionGenExecutionPIM, near, soft
<1> QED
  BY <1>1, <1>7, <1>8, <1>9, DecodeCosts

LEMMA MlaGenGPUCosts ==
  ASSUME NEW c, Working(c), NEW l \in Layer, NEW b \in Batch
  PROVE  Good(MultiLatentAttentionGenExecutionGPU(c, l, b), b)
<1> DEFINE fused == MlaGenFusedGPU(c, l, b)
           one == MlaGenScoreGPU(c, l, b)
           two == MlaGenSoftmaxGPU(c, l, b)
           three == MlaGenContextGPU(c, l, b)
           phases == IF l.use_flash_mla THEN fused ELSE one \o two \o three
<1>1. b \in Seq(Entries)
  BY BatchIs
<1>2. /\ c \in SystemConfig /\ Computes(c) /\ c.num_layers >= c.pp
      /\ "GPU" \in Processors /\ l.compressed_kv \in BOOLEAN
  BY DEF Working, Processors, Layer
<1>3. Live(b) => fused \in Seq(Phases) /\ Busy(fused)
  BY <1>1, <1>2, MlaFusedTotal, StreamedPhase DEF MlaGenFusedGPU
<1>4. Live(b) => one \in Seq(Phases) /\ Busy(one)
  BY <1>1, <1>2, MlaScoreTotal, StreamedPhase DEF MlaGenScoreGPU
<1>5. two \in Seq(Phases)
  BY <1>1, <1>2, SoftmaxIs, UnreportedIs DEF MlaGenSoftmaxGPU
<1>6. Live(b) => three \in Seq(Phases)
  BY <1>1, <1>2, MlaContextTotal, StreamedPhase DEF MlaGenContextGPU
<1>7. MultiLatentAttentionGenExecutionGPU(c, l, b)
        = NoOffload(c, b, WithKvWrite(c, l, b, l.compressed_kv,
                                      Decode(b, phases)))
  BY DEF MultiLatentAttentionGenExecutionGPU
<1> HIDE DEF fused, one, two, three
<1>8. Live(b) => phases \in Seq(Phases) /\ Busy(phases)
  BY <1>3, <1>4, <1>5, <1>6, ThreeParts
<1> HIDE DEF phases
<1>9. Costs(Decode(b, phases), b)
  BY <1>1, <1>8, DecodeCosts
<1>10. Costs(WithKvWrite(c, l, b, l.compressed_kv, Decode(b, phases)), b)
  BY <1>1, <1>2, <1>9, KvWriteCosts
<1> QED
  BY <1>7, <1>10, NoOffloadIs

LEMMA MlaGenLogicCosts ==
  ASSUME NEW c, Working(c), NEW l \in Layer, NEW b \in Batch
  PROVE  Costs(MultiLatentAttentionGenExecutionLogic(c, l, b), b)
<1> DEFINE fused == MlaGenFusedLogic(c, l, b)
           one == MlaGenScoreLogic(c, l, b)
           two == MlaGenSoftmaxLogic(c, l, b)
           three == MlaGenContextLogic(c, l, b)
           phases == IF l.use_flash_mla THEN fused ELSE one \o two \o three
<1>1. b \in Seq(Entries)
  BY BatchIs
<1>2. c \in SystemConfig /\ Computes(c) /\ "LOGIC" \in Processors
  BY DEF Working, Processors
<1>3. Live(b) => fused \in Seq(Phases) /\ Busy(fused)
  BY <1>1, <1>2, MlaFusedTotal, WorkingPhase DEF MlaGenFusedLogic
<1>4. Live(b) => one \in Seq(Phases) /\ Busy(one)
  BY <1>1, <1>2, MlaScoreTotal, WorkingPhase DEF MlaGenScoreLogic
<1>5. two \in Seq(Phases)
  BY <1>1, <1>2, SoftmaxIs, UnreportedIs DEF MlaGenSoftmaxLogic
<1>6. Live(b) => three \in Seq(Phases)
  BY <1>1, <1>2, MlaContextTotal, WorkingPhase DEF MlaGenContextLogic
<1>7. MultiLatentAttentionGenExecutionLogic(c, l, b) = Decode(b, phases)
  BY DEF MultiLatentAttentionGenExecutionLogic
<1> HIDE DEF fused, one, two, three
<1>8. Live(b) => phases \in Seq(Phases) /\ Busy(phases)
  BY <1>3, <1>4, <1>5, <1>6, ThreeParts
<1> QED
  BY <1>1, <1>7, <1>8, DecodeCosts

LEMMA MlaGenPIMCosts ==
  ASSUME NEW c, Working(c), NEW l \in Layer, NEW b \in Batch
  PROVE  Costs(MultiLatentAttentionGenExecutionPIM(c, l, b), b)
<1> DEFINE fused == MlaGenFusedPIM(c, l, b)
           one == MlaGenScorePIM(c, l, b)
           two == MlaGenSoftmaxPIM(c, l, b)
           three == MlaGenContextPIM(c, l, b)
           phases == IF l.use_flash_mla THEN fused ELSE one \o two \o three
<1>1. b \in Seq(Entries)
  BY BatchIs
<1>2. c \in SystemConfig /\ Computes(c) /\ "PIM" \in Processors
  BY DEF Working, Processors
<1>3. Live(b) => fused \in Seq(Phases) /\ Busy(fused)
  BY <1>1, <1>2, MlaFusedTotal, WorkingPhase DEF MlaGenFusedPIM
<1>4. Live(b) => one \in Seq(Phases) /\ Busy(one)
  BY <1>1, <1>2, MlaScoreTotal, WorkingPhase DEF MlaGenScorePIM
<1>5. two \in Seq(Phases)
  BY <1>1, <1>2, SoftmaxIs, UnreportedIs DEF MlaGenSoftmaxPIM
<1>6. Live(b) => three \in Seq(Phases)
  BY <1>1, <1>2, MlaContextTotal, WorkingPhase DEF MlaGenContextPIM
<1>7. MultiLatentAttentionGenExecutionPIM(c, l, b) = Decode(b, phases)
  BY DEF MultiLatentAttentionGenExecutionPIM
<1> HIDE DEF fused, one, two, three
<1>8. Live(b) => phases \in Seq(Phases) /\ Busy(phases)
  BY <1>3, <1>4, <1>5, <1>6, ThreeParts
<1> QED
  BY <1>1, <1>7, <1>8, DecodeCosts

LEMMA AbsorbGenGPUCosts ==
  ASSUME NEW c, Working(c), NEW l \in Layer, l.kv_lora_rank > 0,
         NEW b \in Batch
  PROVE  Good(AbsorbMLAGenExecutionGPU(c, l, b), b)
<1> DEFINE fused == AbsorbGenFusedGPU(c, l, b)
           one == AbsorbGenScoreGPU(c, l, b)
           two == AbsorbGenRopeGPU(c, l, b)
           three == AbsorbGenSoftmaxGPU(c, l, b)
           four == AbsorbGenContextGPU(c, l, b)
           apart == one \o two \o three \o four
           charged(phases) == WithKvWrite(c, l, b, TRUE, Decode(b, phases))
<1>1. b \in Seq(Entries) /\ l.kv_lora_rank \in Nat /\ l.rope \in Nat
  BY BatchIs, LayerFields
<1>2. /\ c \in SystemConfig /\ Computes(c) /\ c.num_layers >= c.pp
      /\ "GPU" \in Processors
  BY DEF Working, Processors
<1>3. Live(b) => fused \in Seq(Phases) /\ Busy(fused)
  BY <1>1, <1>2, AbsorbFusedTotal, StreamedPhase DEF AbsorbGenFusedGPU
<1>4. Live(b) => one \in Seq(Phases) /\ Busy(one)
  BY <1>1, <1>2, AbsorbScoreTotal, WorkingPhase DEF AbsorbGenScoreGPU
<1>5. Live(b) => two \in Seq(Phases)
  BY <1>1, <1>2, AbsorbScoreTotal, PlainIs, OnePhase DEF AbsorbGenRopeGPU
<1>6. three \in Seq(Phases)
  BY <1>1, <1>2, SoftmaxIs DEF AbsorbGenSoftmaxGPU
<1>7. Live(b) => four \in Seq(Phases)
  BY <1>1, <1>2, AbsorbContextTotal, StreamedPhase DEF AbsorbGenContextGPU
<1>8. AbsorbMLAGenExecutionGPU(c, l, b)
        = IF l.use_flash_mla THEN charged(fused)
          ELSE NoOffload(c, b, charged(apart))
  BY DEF AbsorbMLAGenExecutionGPU
<1> HIDE DEF fused, one, two, three, four
<1>9. Live(b) => apart \in Seq(Phases) /\ Busy(apart)
  BY <1>4, <1>5, <1>6, <1>7, FourParts
<1> HIDE DEF apart
<1>10. Costs(Decode(b, fused), b) /\ Costs(Decode(b, apart), b)
  BY <1>1, <1>3, <1>9, DecodeCosts
<1>11. Costs(charged(fused), b) /\ Costs(charged(apart), b)
  BY <1>1, <1>2, <1>10, KvWriteCosts
<1> HIDE DEF charged
<1> QED
  BY <1>8, <1>11, NoOffloadIs DEF Good

LEMMA AbsorbGenLogicCosts ==
  ASSUME NEW c, Working(c), NEW l \in Layer, l.kv_lora_rank > 0,
         NEW b \in Batch
  PROVE  Costs(AbsorbMLAGenExecutionLogic(c, l, b), b)
<1> DEFINE fused == AbsorbGenFusedLogic(c, l, b)
           one == AbsorbGenScoreLogic(c, l, b)
           two == AbsorbGenRopeLogic(c, l, b)
           three == AbsorbGenSoftmaxLogic(c, l, b)
           four == AbsorbGenContextLogic(c, l, b)
           phases == IF l.use_flash_mla THEN fused
                     ELSE one \o two \o three \o four
<1>1. b \in Seq(Entries) /\ l.kv_lora_rank \in Nat /\ l.rope \in Nat
  BY BatchIs, LayerFields
<1>2. c \in SystemConfig /\ Computes(c) /\ "LOGIC" \in Processors
  BY DEF Working, Processors
<1>3. Live(b) => fused \in Seq(Phases) /\ Busy(fused)
  BY <1>1, <1>2, AbsorbFusedTotal, WorkingPhase DEF AbsorbGenFusedLogic
<1>4. Live(b) => one \in Seq(Phases) /\ Busy(one)
  BY <1>1, <1>2, AbsorbScoreTotal, WorkingPhase DEF AbsorbGenScoreLogic
<1>5. Live(b) => two \in Seq(Phases)
  BY <1>1, <1>2, AbsorbScoreTotal, PlainIs, OnePhase DEF AbsorbGenRopeLogic
<1>6. three \in Seq(Phases)
  BY <1>1, <1>2, SoftmaxIs DEF AbsorbGenSoftmaxLogic
<1>7. Live(b) => four \in Seq(Phases)
  BY <1>1, <1>2, AbsorbContextTotal, WorkingPhase DEF AbsorbGenContextLogic
<1>8. AbsorbMLAGenExecutionLogic(c, l, b) = Decode(b, phases)
  BY DEF AbsorbMLAGenExecutionLogic
<1> HIDE DEF fused, one, two, three, four
<1>9. Live(b) => phases \in Seq(Phases) /\ Busy(phases)
  BY <1>3, <1>4, <1>5, <1>6, <1>7, FourParts
<1> QED
  BY <1>1, <1>8, <1>9, DecodeCosts

LEMMA AbsorbGenPIMCosts ==
  ASSUME NEW c, Working(c), NEW l \in Layer, l.kv_lora_rank > 0,
         NEW b \in Batch
  PROVE  Costs(AbsorbMLAGenExecutionPIM(c, l, b), b)
<1> DEFINE fused == AbsorbGenFusedPIM(c, l, b)
           one == AbsorbGenScorePIM(c, l, b)
           two == AbsorbGenRopePIM(c, l, b)
           three == AbsorbGenSoftmaxPIM(c, l, b)
           four == AbsorbGenContextPIM(c, l, b)
           phases == IF l.use_flash_mla THEN fused
                     ELSE one \o two \o three \o four
<1>1. b \in Seq(Entries) /\ l.kv_lora_rank \in Nat /\ l.rope \in Nat
  BY BatchIs, LayerFields
<1>2. c \in SystemConfig /\ Computes(c) /\ "PIM" \in Processors
  BY DEF Working, Processors
<1>3. Live(b) => fused \in Seq(Phases) /\ Busy(fused)
  BY <1>1, <1>2, AbsorbFusedTotal, WorkingPhase DEF AbsorbGenFusedPIM
<1>4. Live(b) => one \in Seq(Phases) /\ Busy(one)
  BY <1>1, <1>2, AbsorbScoreTotal, WorkingPhase DEF AbsorbGenScorePIM
<1>5. Live(b) => two \in Seq(Phases)
  BY <1>1, <1>2, AbsorbScoreTotal, PlainIs, OnePhase DEF AbsorbGenRopePIM
<1>6. three \in Seq(Phases)
  BY <1>1, <1>2, SoftmaxIs DEF AbsorbGenSoftmaxPIM
<1>7. Live(b) => four \in Seq(Phases)
  BY <1>1, <1>2, AbsorbContextTotal, WorkingPhase DEF AbsorbGenContextPIM
<1>8. AbsorbMLAGenExecutionPIM(c, l, b) = Decode(b, phases)
  BY DEF AbsorbMLAGenExecutionPIM
<1> HIDE DEF fused, one, two, three, four
<1>9. Live(b) => phases \in Seq(Phases) /\ Busy(phases)
  BY <1>3, <1>4, <1>5, <1>6, <1>7, FourParts
<1> QED
  BY <1>1, <1>8, <1>9, DecodeCosts
----------------------------------------------------------------------------
(***************************************************************************)
(* The work of one prompt.                                                 *)
(***************************************************************************)
LEMMA GqaSumWorkIs ==
  ASSUME NEW l \in Layer, NEW s \in Entries
  PROVE  /\ GqaSumScoreWork(l, s) \in WorkOf(s)
         /\ GqaSumContextWork(l, s) \in WorkOf(s)
<1> DEFINE w == GqaWork(l, s)
           flops == 2 * s.tok * l.head_dim * Context(s) * l.num_heads
           score == GqaSumScoreWork(l, s)
<1>1. w \in Works
  BY GqaWorkIs DEF WorkOf
<1>2. flops \in Nat /\ (s.tok > 0 => flops >= 2)
  BY ScoresIs, LayerFields, Product
<1>3. score = [w EXCEPT !.flops = flops, !.ops = w.act]
  BY DEF GqaSumScoreWork
<1>4. GqaSumContextWork(l, s) = Issued(score, score.act + score.kv)
  BY DEF GqaSumContextWork
<1> HIDE DEF w, flops, score
<1>5. PICK f \in Nat, k \in Nat, a \in Nat, o \in Nat :
        w = [flops |-> f, kv |-> k, act |-> a, ops |-> o]
  BY <1>1 DEF Works
<1>6. score = Work(flops, k, a, a)
  BY <1>3, <1>5 DEF Work
<1>7. /\ score \in WorkOf(s) /\ score \in Works
      /\ score.act + score.kv \in Nat
  BY <1>2, <1>5, <1>6, WorkIs DEF Work, WorkOf
<1> QED
  BY <1>4, <1>7, IssuedIs DEF score

LEMMA GqaNearScoreIs ==
  ASSUME NEW l \in Layer, NEW s \in Entries
  PROVE  GqaNearScoreWork(l, s) \in WorkOf(s)
<1> DEFINE q == s.tok * l.head_dim * l.num_heads
           kv == l.head_dim * Context(s) * l.num_kv_heads
           flops == 2 * q * Context(s)
<1>1. /\ s.tok \in Nat /\ Context(s) \in Nat
      /\ s.tok > 0 => Context(s) > 0
      /\ l.head_dim \in Nat \ {0} /\ l.num_heads \in Nat \ {0}
      /\ l.num_kv_heads \in Nat
  BY ScoresIs, LayerFields
<1>2. q \in Nat /\ (s.tok > 0 => q > 0) /\ kv \in Nat
  BY <1>1, Product
<1>3. GqaNearScoreWork(l, s) = Work(flops, kv, q, q + kv)
  BY DEF GqaNearScoreWork
<1> HIDE DEF q, kv
<1>4. flops \in Nat /\ (s.tok > 0 => flops >= 2) /\ q + kv \in Nat
  BY <1>1, <1>2, Product
<1> HIDE DEF flops
<1> QED
  BY <1>2, <1>3, <1>4, WorkIs

\* The products of the near kernels fit in an int.
Fits(c, l, s) ==
  /\ Context(s) * l.head_dim * l.num_kv_heads < c.int_limit
  /\ s.tok * Context(s) * l.head_dim < c.int_limit

LEMMA Int32Is ==
  ASSUME NEW c \in SystemConfig, NEW x \in Nat, x < c.int_limit
  PROVE  Int32(c, x) = x
<1>1. c.int_limit \in Nat \ {0}
  BY ConfigFields
<1> DEFINE k == c.int_limit
<1>2. (x + k) % (2 * k) = x + k
  BY <1>1
<1> QED
  BY <1>1, <1>2 DEF Int32

LEMMA GqaNearContextIs ==
  ASSUME NEW c \in SystemConfig, NEW l \in Layer, NEW s \in Entries,
         Fits(c, l, s)
  PROVE  GqaNearContextWork(c, l, s) \in WorkOf(s)
<1> DEFINE kv == Context(s) * l.head_dim * l.num_kv_heads
           n == s.tok * Context(s) * l.head_dim
           flops == 2 * n * l.num_heads
<1>1. /\ s.tok \in Nat /\ Context(s) \in Nat
      /\ s.tok > 0 => Context(s) > 0
      /\ l.head_dim \in Nat \ {0} /\ l.num_heads \in Nat \ {0}
      /\ l.num_kv_heads \in Nat
  BY ScoresIs, LayerFields
<1>2. n \in Nat /\ (s.tok > 0 => n > 0) /\ kv \in Nat
  BY <1>1, Product
<1>3. GqaNearContextWork(c, l, s)
        = Work(2 * Int32(c, n) * l.num_heads, Int32(c, kv), 0, Int32(c, kv))
  BY DEF GqaNearContextWork
<1>4. kv < c.int_limit /\ n < c.int_limit
  BY DEF Fits
<1> HIDE DEF n, kv
<1>5. Int32(c, n) = n /\ Int32(c, kv) = kv
  BY <1>2, <1>4, Int32Is
<1>6. flops \in Nat /\ (s.tok > 0 => flops >= 2)
  BY <1>1, <1>2, Product
<1>7. GqaNearContextWork(c, l, s) = Work(flops, kv, 0, kv)
  BY <1>3, <1>5
<1> HIDE DEF flops
<1> QED
  BY <1>2, <1>6, <1>7, WorkIs

LEMMA MlaTiledWorkIs ==
  ASSUME NEW l \in Layer, NEW s \in Entries,
         NEW r \in Nat \ {0}, NEW t \in Nat \ {0}
  PROVE  MlaTiledWork(l, s, r, t) \in WorkOf(s)
<1> DEFINE k == l.head_dim + l.rope
           rows == (s.tok + r - 1) \div r
           columns == (s.tok + t - 1) \div t
           tiles == rows * columns
           kv == t * (k + l.head_dim) * columns * l.num_heads
           act == tiles * r * (k + 2 * l.head_dim + 4) * l.num_heads
           flops == 2 * tiles * r * t * (k + l.head_dim) * l.num_heads
<1>1. /\ s.tok \in Nat /\ l.num_heads \in Nat \ {0}
      /\ k + l.head_dim \in Nat \ {0} /\ k + 2 * l.head_dim + 4 \in Nat
  BY ScoresIs, LayerFields
<1>2. /\ rows \in Nat /\ columns \in Nat
      /\ s.tok > 0 => rows > 0 /\ columns > 0
  <2>1. /\ s.tok + r - 1 \in Nat /\ s.tok + t - 1 \in Nat
        /\ s.tok > 0 => s.tok + r - 1 >= r /\ s.tok + t - 1 >= t
    BY <1>1
  <2> QED
    BY <2>1, Quotient
<1>3. MlaTiledWork(l, s, r, t) = Work(flops, kv, act, kv + act)
  BY DEF MlaTiledWork
<1> HIDE DEF k, rows, columns
<1>4. tiles \in Nat /\ (s.tok > 0 => tiles > 0)
  BY <1>2, Product
<1> HIDE DEF tiles
<1>5. flops \in Nat /\ (s.tok > 0 => flops >= 2)
  BY <1>1, <1>4, Product
<1>6. kv \in Nat /\ act \in Nat
  BY <1>1, <1>2, <1>4, Product
<1> HIDE DEF flops, kv, act
<1>7. kv + act \in Nat
  BY <1>6
<1> QED
  BY <1>3, <1>5, <1>6, <1>7, WorkIs

LEMMA MlaSumWorkIs ==
  ASSUME NEW l \in Layer, NEW s \in Entries
  PROVE  /\ MlaSumScoreWork(l, s) \in WorkOf(s)
         /\ MlaSumContextWork(l, s) \in WorkOf(s)
<1> DEFINE v == MlaScoreWork(l, s)
           w == MlaContextWork(l, s)
           n == Context(s) * l.head_dim * l.num_kv_heads
<1>1. /\ v \in WorkOf(s) /\ v \in Works
      /\ w \in WorkOf(s) /\ w \in Works
  BY MlaScoreWorkIs, MlaContextWorkIs DEF WorkOf
<1>2. n \in Nat
  BY ScoresIs, LayerFields, Product
<1>3. /\ MlaSumScoreWork(l, s) = Issued(v, v.kv + v.act)
      /\ MlaSumContextWork(l, s) = Issued(w, w.act + n)
  BY DEF MlaSumScoreWork, MlaSumContextWork
<1> HIDE DEF v, w, n
<1>4. v.kv + v.act \in Nat /\ w.act + n \in Nat
  BY <1>1, <1>2, WorkFields
<1> QED
  BY <1>1, <1>3, <1>4, IssuedIs

LEMMA AbsorbSumWorkIs ==
  ASSUME NEW l \in Layer, l.kv_lora_rank > 0, NEW s \in Entries
  PROVE  /\ \A k \in Nat :
              /\ AbsorbSumScoreWork(l, s, k) \in Works
              /\ k > 0 => AbsorbSumScoreWork(l, s, k) \in WorkOf(s)
         /\ AbsorbSumContextWork(l, s) \in WorkOf(s)
<1>1. ASSUME NEW k \in Nat
      PROVE  /\ AbsorbSumScoreWork(l, s, k) \in Works
             /\ k > 0 => AbsorbSumScoreWork(l, s, k) \in WorkOf(s)
  <2> DEFINE w == AbsorbScoreWork(l, s, k)
  <2>1. w \in Works /\ (k > 0 => w \in WorkOf(s))
    BY AbsorbScoreWorkIs
  <2>2. AbsorbSumScoreWork(l, s, k) = Issued(w, w.kv + w.act)
    BY DEF AbsorbSumScoreWork
  <2> HIDE DEF w
  <2>3. w.kv + w.act \in Nat
    BY <2>1, WorkFields
  <2> QED
    BY <2>1, <2>2, <2>3, IssuedIs
<1>2. AbsorbSumContextWork(l, s) \in WorkOf(s)
  <2> DEFINE w == AbsorbContextWork(l, s)
  <2>1. w \in Works /\ w \in WorkOf(s)
    BY AbsorbContextWorkIs DEF WorkOf
  <2>2. AbsorbSumContextWork(l, s) = Issued(w, w.kv + w.act)
    BY DEF AbsorbSumContextWork
  <2> HIDE DEF w
  <2>3. w.kv + w.act \in Nat
    BY <2>1, WorkFields
  <2> QED
    BY <2>1, <2>2, <2>3, IssuedIs
<1> QED
  BY <1>1, <1>2
----------------------------------------------------------------------------
(***************************************************************************)
(* What the prefill kernels cost.                                          *)
(***************************************************************************)
LEMMA PrefillCosts ==
  ASSUME NEW b \in Seq(Entries), NEW phases,
         Live(b) => phases \in Seq(Phases) /\ Busy(phases)
  PROVE  Costs(Prefill(b, phases), b)
<1>1. Tokens(b) = 0 <=> ~Live(b)
  BY TokensIs
<1>2. Live(b) => Run(phases) \in Statuses /\ Run(phases).total > 0
  BY RunIs
<1> QED
  BY <1>1, <1>2, EmptyCosts DEF Prefill, Costs

LEMMA UnaccountedCosts ==
  ASSUME NEW b, NEW status, Costs(status, b)
  PROVE  Costs(Unaccounted(status), b)
  BY DEF Costs, Unaccounted, Statuses

\* The sequences that process tokens work.
LEMMA ApartBusy ==
  ASSUME NEW c \in SystemConfig, Computes(c), NEW p \in Processors,
         NEW l \in Layer, NEW b \in Seq(Entries), Live(b),
         NEW f \in WorkFor(b)
  PROVE  /\ Apart(c, p, l, b, f) \in Seq(Phases)
         /\ Busy(Apart(c, p, l, b, f))
<1>1. f \in [DOMAIN b -> Works] /\ \E i \in DOMAIN b : f[i].flops >= 2
  BY DEF Live, WorkFor, WorkOf
<1> QED
  BY <1>1, ApartIs

LEMMA ComputeOnlyIs ==
  ASSUME NEW s \in Seq(Phases)
  PROVE  ComputeOnly(s) \in Seq(Phases)
<1>1. DOMAIN s = 1 .. Len(s) /\ Len(s) \in Nat
  BY Indices
<1>2. ASSUME NEW i \in DOMAIN s
      PROVE  [s[i] EXCEPT !.memory = 0] \in Phases
  <2>1. s[i] \in Phases
    BY <1>1, ElementOfSeq
  <2> QED
    BY <2>1 DEF Phases
<1>3. ComputeOnly(s) \in [1 .. Len(s) -> Phases]
  BY <1>1, <1>2 DEF ComputeOnly
<1> QED
  BY <1>1, <1>3

\* Other rates.
LEMMA RatesAre ==
  ASSUME NEW c \in SystemConfig, NEW f \in [Processors -> Nat]
  PROVE  /\ [c EXCEPT !.flop_ticks = f] \in SystemConfig
         /\ [c EXCEPT !.byte_ticks = f] \in SystemConfig
<1>1. [c EXCEPT !.flop_ticks = f] \in SystemConfig
  BY DEF SystemConfig
<1>2. [c EXCEPT !.byte_ticks = f] \in SystemConfig
  BY DEF SystemConfig
<1> QED
  BY <1>1, <1>2

\* The machines that the kernels ask in place of their own.
LEMMA OtherConfigs ==
  ASSUME NEW c \in SystemConfig, Computes(c)
  PROVE  /\ [c EXCEPT !.ramulator = FALSE] \in SystemConfig
         /\ [c EXCEPT !.softmax_hide = TRUE] \in SystemConfig
         /\ \A p \in Processors : LikeGPU(c, p) \in SystemConfig
                                  /\ Computes(LikeGPU(c, p))
<1>1. [c EXCEPT !.ramulator = FALSE] \in SystemConfig
  BY DEF SystemConfig
<1>2. [c EXCEPT !.softmax_hide = TRUE] \in SystemConfig
  BY DEF SystemConfig
<1>3. ASSUME NEW p \in Processors
      PROVE  LikeGPU(c, p) \in SystemConfig /\ Computes(LikeGPU(c, p))
  <2> DEFINE f == [c.flop_ticks EXCEPT ![p] = c.flop_ticks["GPU"]]
             t == [c.byte_ticks EXCEPT ![p] = Bandwidth(c, "GPU")]
  <2>1. LikeGPU(c, p) = [c EXCEPT !.flop_ticks = f, !.byte_ticks = t]
    BY DEF LikeGPU
  <2>2. /\ c.flop_ticks \in [Processors -> Nat]
        /\ c.byte_ticks \in [Processors -> Nat] /\ c.flash_read \in Nat
        /\ "GPU" \in Processors
    BY DEF SystemConfig, Processors
  <2>3. f \in [Processors -> Nat] /\ t \in [Processors -> Nat]
    BY <2>2 DEF Bandwidth
  <2>4. \A q \in Processors : f[q] > 0
    BY <2>2 DEF Computes
  <2> HIDE DEF f, t
  <2>5. LikeGPU(c, p) \in SystemConfig
    <3> DEFINE d == [c EXCEPT !.flop_ticks = f]
    <3>1. d \in SystemConfig
      BY <2>3, RatesAre
    <3>2. LikeGPU(c, p) = [d EXCEPT !.byte_ticks = t]
      BY <2>1 DEF SystemConfig
    <3> HIDE DEF d
    <3> QED
      BY <2>3, <3>1, <3>2, RatesAre
  <2>6. LikeGPU(c, p).flop_ticks = f
    BY <2>1 DEF SystemConfig
  <2> QED
    BY <2>4, <2>5, <2>6 DEF Computes
<1> QED
  BY <1>1, <1>2, <1>3
----------------------------------------------------------------------------
\* Grouped-query attention.
LEMMA GatheredIs ==
  ASSUME NEW c \in SystemConfig, Computes(c), NEW l \in Layer,
         NEW b \in Seq(Entries), Live(b),
         NEW f \in WorkFor(b),
         NEW phases,
         \/ phases = <<Streamed(c, l, b, Together(f), 1)>>
         \/ phases = <<Streamed(c, l, b, Together(f), 2)>>
         \/ phases = Apart(c, "GPU", l, b, f)
  PROVE  phases \in Seq(Phases) /\ Busy(phases)
<1>1. "GPU" \in Processors
  BY DEF Processors
<1>2. Together(f) \in Works /\ Together(f).flops >= 2
  BY TogetherWorks
<1> QED
  BY <1>1, <1>2, StreamedPhase, ApartBusy

LEMMA GqaSumGPUCosts ==
  ASSUME NEW c, Working(c), NEW l \in Layer, NEW batch \in Batch
  PROVE  Good(AttentionSumExecutionGPU(c, l, batch), batch)
<1> DEFINE b == Reached(l, batch)
           f == [i \in DOMAIN b |-> GqaSumScoreWork(l, b[i])]
           g == [i \in DOMAIN b |-> GqaSumContextWork(l, b[i])]
           one == GqaSumScoreGPU(c, l, b)
           two == GqaSumSoftmaxGPU(c, l, b)
           three == GqaSumContextGPU(c, l, b)
           phases == one \o two \o three
           status == Unaccounted(Prefill(b, phases))
<1>1. b \in Seq(Entries) /\ (Live(b) <=> Live(batch))
  BY ReachedIs
<1>2. c \in SystemConfig /\ Computes(c) /\ "GPU" \in Processors
  BY DEF Working, Processors
<1>3. AttentionSumExecutionGPU(c, l, batch) = NoOffload(c, b, status)
  BY DEF AttentionSumExecutionGPU
<1>4. \/ one = <<Streamed(c, l, b, Together(f), 2)>>
      \/ one = Apart(c, "GPU", l, b, f)
  BY DEF GqaSumScoreGPU, Gathered, Each, Total, SumOver, Together, Apart
<1>5. \/ three = <<Streamed(c, l, b, Together(g), 2)>>
      \/ three = Apart(c, "GPU", l, b, g)
  BY DEF GqaSumContextGPU, Gathered, Each, Total, SumOver, Together, Apart
<1> HIDE DEF b
<1>6. /\ f \in WorkFor(b)
      /\ g \in WorkFor(b)
  BY <1>1, EntriesOf, GqaSumWorkIs DEF WorkFor, WorkOf
<1>7. two \in Seq(Phases)
  BY <1>1, <1>2, OtherConfigs, SoftmaxIs DEF GqaSumSoftmaxGPU
<1> HIDE DEF f, g, one, two, three
<1>8. Live(b) => one \in Seq(Phases) /\ Busy(one) /\ three \in Seq(Phases)
  BY <1>1, <1>2, <1>4, <1>5, <1>6, GatheredIs
<1>9. Live(b) => phases \in Seq(Phases) /\ Busy(phases)
  BY <1>7, <1>8, ThreeParts
<1> HIDE DEF phases
<1>10. Costs(status, b)
  BY <1>1, <1>9, PrefillCosts, UnaccountedCosts
<1> HIDE DEF status
<1>11. Costs(status, batch)
  BY <1>1, <1>10 DEF Costs
<1> QED
  BY <1>3, <1>11, NoOffloadIs

LEMMA GqaNearSoftmaxIs ==
  ASSUME NEW c \in SystemConfig, NEW p \in Processors, NEW l \in Layer,
         NEW b \in Seq(Entries)
  PROVE  GqaNearSoftmax(c, p, l, b) \in Seq(Phases)
  BY QuietLayer, SoftmaxIs, ComputeOnlyIs DEF GqaNearSoftmax

LEMMA GqaSumLogicCosts ==
  ASSUME NEW c, Working(c), NEW l \in Layer, NEW b \in Batch,
         \A i \in DOMAIN b : Fits(c, l, b[i])
  PROVE  Costs(AttentionSumExecutionLogic(c, l, b), b)
<1> DEFINE f == [i \in DOMAIN b |-> GqaNearScoreWork(l, b[i])]
           g == [i \in DOMAIN b |-> GqaNearContextWork(c, l, b[i])]
           one == Each(c, "LOGIC", l, b, LAMBDA s : GqaNearScoreWork(l, s))
           two == GqaNearSoftmax(c, "LOGIC", l, b)
           three == Each(c, "LOGIC", l, b,
                         LAMBDA s : GqaNearContextWork(c, l, s))
           phases == one \o two \o three
<1>1. b \in Seq(Entries)
  BY BatchIs
<1>2. c \in SystemConfig /\ Computes(c) /\ "LOGIC" \in Processors
  BY DEF Working, Processors
<1>3. AttentionSumExecutionLogic(c, l, b) = Unaccounted(Prefill(b, phases))
  BY DEF AttentionSumExecutionLogic
<1>4. one = Apart(c, "LOGIC", l, b, f) /\ three = Apart(c, "LOGIC", l, b, g)
  BY DEF Each, Apart
<1>5. f \in WorkFor(b)
  BY <1>1, EntriesOf, GqaNearScoreIs DEF WorkFor, WorkOf
<1>6. g \in WorkFor(b)
  BY <1>1, <1>2, EntriesOf, GqaNearContextIs DEF WorkFor, WorkOf
<1>7. two \in Seq(Phases)
  BY <1>1, <1>2, GqaNearSoftmaxIs
<1> HIDE DEF f, g, one, two, three
<1>8. Live(b) => one \in Seq(Phases) /\ Busy(one) /\ three \in Seq(Phases)
  BY <1>1, <1>2, <1>4, <1>5, <1>6, ApartBusy
<1>9. Live(b) => phases \in Seq(Phases) /\ Busy(phases)
  BY <1>7, <1>8, ThreeParts
<1> HIDE DEF phases
<1> QED
  BY <1>1, <1>3, <1>9, PrefillCosts, UnaccountedCosts

LEMMA GqaSumPIMCosts ==
  ASSUME NEW c, Working(c), NEW l \in Layer, NEW b \in Batch,
         \A i \in DOMAIN b : Fits(c, l, b[i])
  PROVE  Costs(AttentionSumExecutionPIM(c, l, b), b)
<1> DEFINE v(s) == Issued(GqaNearScoreWork(l, s), s.tok * l.columns)
           w(s) == Issued(GqaNearContextWork(c, l, s),
                          Context(s) * l.columns)
           f == [i \in DOMAIN b |-> v(b[i])]
           g == [i \in DOMAIN b |-> w(b[i])]
           one == Each(c, "PIM", l, b, v)
           two == GqaNearSoftmax(c, "PIM", l, b)
           three == Each(c, "PIM", l, b, w)
           phases == one \o two \o three
<1>1. b \in Seq(Entries)
  BY BatchIs
<1>2. c \in SystemConfig /\ Computes(c) /\ "PIM" \in Processors
  BY DEF Working, Processors
<1>3. AttentionSumExecutionPIM(c, l, b) = Unaccounted(Prefill(b, phases))
  BY DEF AttentionSumExecutionPIM
<1>4. one = Apart(c, "PIM", l, b, f) /\ three = Apart(c, "PIM", l, b, g)
  BY DEF Each, Apart
<1>5. ASSUME NEW i \in DOMAIN b
      PROVE  /\ f[i] \in Works /\ f[i] \in WorkOf(b[i])
             /\ g[i] \in Works /\ g[i] \in WorkOf(b[i])
  <2>1. b[i] \in Entries
    BY <1>1, EntriesOf
  <2>2. b[i].tok * l.columns \in Nat /\ Context(b[i]) * l.columns \in Nat
    BY <2>1, ScoresIs, LayerFields, Product
  <2>3. f[i] = v(b[i]) /\ g[i] = w(b[i])
    OBVIOUS
  <2>4. v(b[i]) \in Works /\ v(b[i]) \in WorkOf(b[i])
    <3>1. /\ GqaNearScoreWork(l, b[i]) \in Works
          /\ GqaNearScoreWork(l, b[i]) \in WorkOf(b[i])
      BY <2>1, GqaNearScoreIs DEF WorkOf
    <3> QED
      BY <2>2, <3>1, IssuedIs
  <2>5. w(b[i]) \in Works /\ w(b[i]) \in WorkOf(b[i])
    <3>1. /\ GqaNearContextWork(c, l, b[i]) \in Works
          /\ GqaNearContextWork(c, l, b[i]) \in WorkOf(b[i])
      BY <1>2, <2>1, GqaNearContextIs DEF WorkOf
    <3> QED
      BY <2>2, <3>1, IssuedIs
  <2> HIDE DEF v, w, f, g
  <2> QED
    BY <2>3, <2>4, <2>5
<1>6. f \in WorkFor(b) /\ g \in WorkFor(b)
  <2> HIDE DEF v, w
  <2> QED
    BY <1>5 DEF WorkFor
<1>7. two \in Seq(Phases)
  BY <1>1, <1>2, GqaNearSoftmaxIs
<1> HIDE DEF f, g, one, two, three
<1>8. Live(b) => one \in Seq(Phases) /\ Busy(one) /\ three \in Seq(Phases)
  BY <1>1, <1>2, <1>4, <1>5, <1>6, ApartBusy
<1>9. Live(b) => phases \in Seq(Phases) /\ Busy(phases)
  BY <1>7, <1>8, ThreeParts
<1> HIDE DEF phases
<1> QED
  BY <1>1, <1>3, <1>9, PrefillCosts, UnaccountedCosts
----------------------------------------------------------------------------
\* Latent attention on expanded heads.
Tiles(l) == (l.head_dim + l.rope) * l.precision <= 65536

LEMMA TileRowsIs ==
  ASSUME NEW l \in Layer, Tiles(l)
  PROVE  /\ TileRows(l) \in Nat \ {0}
         /\ l.head_dim + l.rope \in Nat \ {0}
         /\ Least(TileRows(l), l.head_dim + l.rope) \in Nat \ {0}
<1> DEFINE n == (l.head_dim + l.rope) * l.precision
<1>1. l.head_dim + l.rope \in Nat \ {0} /\ l.precision \in Nat \ {0}
  BY LayerFields
<1>2. n \in Nat \ {0}
  BY <1>1, NotNone
<1>3. TileRows(l) = 65536 \div n /\ n <= 65536
  BY DEF TileRows, Tiles
<1> HIDE DEF n
<1>4. 65536 \div n \in Nat /\ 65536 \div n > 0
  BY <1>2, <1>3, Quotient
<1> QED
  BY <1>1, <1>3, <1>4 DEF Least

LEMMA MlaSumGPUCosts ==
  ASSUME NEW c, Working(c), NEW l \in Layer, Tiles(l), NEW b \in Batch
  PROVE  Good(MultiLatentAttentionSumExecutionGPU(c, l, b), b)
<1> DEFINE r == Least(TileRows(l), l.head_dim + l.rope)
           e == [i \in DOMAIN b |-> MlaTiledWork(l, b[i], r, TileRows(l))]
           f == [i \in DOMAIN b |-> MlaSumScoreWork(l, b[i])]
           g == [i \in DOMAIN b |-> MlaSumContextWork(l, b[i])]
           fused == MlaSumFusedGPU(c, l, b)
           one == MlaSumScoreGPU(c, l, b)
           two == MlaSumSoftmaxGPU(c, l, b)
           three == MlaSumContextGPU(c, l, b)
           phases == IF l.use_flash_attention THEN fused
                     ELSE one \o two \o three
<1>1. b \in Seq(Entries)
  BY BatchIs
<1>2. c \in SystemConfig /\ Computes(c) /\ "GPU" \in Processors
  BY DEF Working, Processors
<1>3. MultiLatentAttentionSumExecutionGPU(c, l, b)
        = NoOffload(c, b, Unaccounted(Prefill(b, phases)))
  BY DEF MultiLatentAttentionSumExecutionGPU
<1>4. /\ fused = Apart(c, "GPU", l, b, e)
      /\ \/ one = <<Streamed(c, l, b, Together(f), 1)>>
         \/ one = Apart(c, "GPU", l, b, f)
      /\ \/ three = <<Streamed(c, l, b, Together(g), 1)>>
         \/ three = Apart(c, "GPU", l, b, g)
  BY DEF MlaSumFusedGPU, MlaSumScoreGPU, MlaSumContextGPU, Gathered, Each,
         Total, SumOver, Together, Apart
<1>5. e \in WorkFor(b)
  <2>1. r \in Nat \ {0} /\ TileRows(l) \in Nat \ {0}
    BY TileRowsIs
  <2> HIDE DEF r
  <2> QED
    BY <1>1, <2>1, EntriesOf, MlaTiledWorkIs DEF WorkFor, WorkOf
<1>6. /\ f \in WorkFor(b)
      /\ g \in WorkFor(b)
  BY <1>1, EntriesOf, MlaSumWorkIs DEF WorkFor, WorkOf
<1>7. two \in Seq(Phases)
  BY <1>1, <1>2, SoftmaxIs DEF MlaSumSoftmaxGPU
<1> HIDE DEF e, f, g, fused, one, two, three
<1>8. Live(b) => fused \in Seq(Phases) /\ Busy(fused)
  BY <1>1, <1>2, <1>4, <1>5, ApartBusy
<1>9. Live(b) => one \in Seq(Phases) /\ Busy(one) /\ three \in Seq(Phases)
  BY <1>1, <1>2, <1>4, <1>6, GatheredIs
<1>10. Live(b) => phases \in Seq(Phases) /\ Busy(phases)
  BY <1>7, <1>8, <1>9, ThreeParts
<1> HIDE DEF phases
<1> QED
  BY <1>1, <1>3, <1>10, PrefillCosts, UnaccountedCosts, NoOffloadIs

LEMMA MlaSumLogicCosts ==
  ASSUME NEW c, Working(c), NEW l \in Layer, Tiles(l), NEW b \in Batch
  PROVE  Costs(MultiLatentAttentionSumExecutionLogic(c, l, b), b)
<1> DEFINE d == LikeGPU(c, "LOGIC")
           k == l.head_dim + l.rope
           e == [i \in DOMAIN b |-> MlaTiledWork(l, b[i], TileRows(l), k)]
           f == [i \in DOMAIN b |-> MlaSumScoreWork(l, b[i])]
           g == [i \in DOMAIN b |-> MlaSumContextWork(l, b[i])]
           fused == MlaSumFusedLogic(d, l, b)
           one == MlaSumScoreLogic(d, l, b)
           two == MlaSumSoftmaxLogic(d, l, b)
           three == MlaSumContextLogic(d, l, b)
           phases == IF l.use_flash_attention THEN fused
                     ELSE one \o two \o three
<1>1. b \in Seq(Entries)
  BY BatchIs
<1>2. d \in SystemConfig /\ Computes(d) /\ "LOGIC" \in Processors
  BY OtherConfigs DEF Working, Processors
<1>3. MultiLatentAttentionSumExecutionLogic(c, l, b)
        = Unaccounted(Prefill(b, phases))
  BY DEF MultiLatentAttentionSumExecutionLogic
<1> HIDE DEF d
<1>4. /\ fused = Apart(d, "LOGIC", l, b, e)
      /\ one = Apart(d, "LOGIC", l, b, f)
      /\ three = Apart(d, "LOGIC", l, b, g)
  BY DEF MlaSumFusedLogic, MlaSumScoreLogic, MlaSumContextLogic, Each, Apart
<1>5. e \in WorkFor(b)
  <2>1. k \in Nat \ {0} /\ TileRows(l) \in Nat \ {0}
    BY TileRowsIs
  <2> HIDE DEF k
  <2> QED
    BY <1>1, <2>1, EntriesOf, MlaTiledWorkIs DEF WorkFor, WorkOf
<1>6. /\ f \in WorkFor(b)
      /\ g \in WorkFor(b)
  BY <1>1, EntriesOf, MlaSumWorkIs DEF WorkFor, WorkOf
<1>7. two \in Seq(Phases)
  BY <1>1, <1>2, SoftmaxIs DEF MlaSumSoftmaxLogic
<1> HIDE DEF e, f, g, fused, one, two, three
<1>8. Live(b) =>
        /\ fused \in Seq(Phases) /\ Busy(fused)
        /\ one \in Seq(Phases) /\ Busy(one) /\ three \in Seq(Phases)
  BY <1>1, <1>2, <1>4, <1>5, <1>6, ApartBusy
<1>9. Live(b) => phases \in Seq(Phases) /\ Busy(phases)
  BY <1>7, <1>8, ThreeParts
<1> HIDE DEF phases
<1> QED
  BY <1>1, <1>3, <1>9, PrefillCosts, UnaccountedCosts

LEMMA MlaSumPIMCosts ==
  ASSUME NEW c, Working(c), NEW l \in Layer, Tiles(l), NEW b \in Batch
  PROVE  Costs(MultiLatentAttentionSumExecutionPIM(c, l, b), b)
<1> DEFINE d == LikeGPU(c, "PIM")
           k == l.head_dim + l.rope
           e == [i \in DOMAIN b |-> MlaTiledWork(l, b[i], TileRows(l), k)]
           f == [i \in DOMAIN b |-> MlaSumScoreWork(l, b[i])]
           g == [i \in DOMAIN b |-> MlaSumContextWork(l, b[i])]
           fused == MlaSumFusedPIM(d, l, b)
           one == MlaSumScorePIM(d, l, b)
           two == MlaSumSoftmaxPIM(d, l, b)
           three == MlaSumContextPIM(d, l, b)
           phases == IF l.use_flash_attention THEN fused
                     ELSE one \o two \o three
<1>1. b \in Seq(Entries)
  BY BatchIs
<1>2. d \in SystemConfig /\ Computes(d) /\ "PIM" \in Processors
  BY OtherConfigs DEF Working, Processors
<1>3. MultiLatentAttentionSumExecutionPIM(c, l, b)
        = Unaccounted(Prefill(b, phases))
  BY DEF MultiLatentAttentionSumExecutionPIM
<1> HIDE DEF d
<1>4. /\ fused = Apart(d, "PIM", l, b, e)
      /\ one = Apart(d, "PIM", l, b, f)
      /\ three = Apart(d, "PIM", l, b, g)
  BY DEF MlaSumFusedPIM, MlaSumScorePIM, MlaSumContextPIM, Each, Apart
<1>5. e \in WorkFor(b)
  <2>1. k \in Nat \ {0} /\ TileRows(l) \in Nat \ {0}
    BY TileRowsIs
  <2> HIDE DEF k
  <2> QED
    BY <1>1, <2>1, EntriesOf, MlaTiledWorkIs DEF WorkFor, WorkOf
<1>6. /\ f \in WorkFor(b)
      /\ g \in WorkFor(b)
  BY <1>1, EntriesOf, MlaSumWorkIs DEF WorkFor, WorkOf
<1>7. two \in Seq(Phases)
  BY <1>1, <1>2, SoftmaxIs DEF MlaSumSoftmaxPIM
<1> HIDE DEF e, f, g, fused, one, two, three
<1>8. Live(b) =>
        /\ fused \in Seq(Phases) /\ Busy(fused)
        /\ one \in Seq(Phases) /\ Busy(one) /\ three \in Seq(Phases)
  BY <1>1, <1>2, <1>4, <1>5, <1>6, ApartBusy
<1>9. Live(b) => phases \in Seq(Phases) /\ Busy(phases)
  BY <1>7, <1>8, ThreeParts
<1> HIDE DEF phases
<1> QED
  BY <1>1, <1>3, <1>9, PrefillCosts, UnaccountedCosts

\* Latent attention absorbed.  The rotary part may be empty.
LEMMA FourApart ==
  ASSUME NEW c \in SystemConfig, Computes(c), NEW p \in Processors,
         NEW l \in Layer, NEW b \in Seq(Entries),
         NEW e \in WorkFor(b),
         NEW f \in [DOMAIN b -> Works], NEW g \in [DOMAIN b -> Works],
         NEW soft \in Seq(Phases)
  PROVE  LET phases == Apart(c, p, l, b, e) \o Apart(c, p, l, b, f)
                       \o soft \o Apart(c, p, l, b, g)
         IN Costs(Prefill(b, phases), b)
<1> DEFINE one == Apart(c, p, l, b, e)
           two == Apart(c, p, l, b, f)
           four == Apart(c, p, l, b, g)
<1>1. one \in Seq(Phases) /\ two \in Seq(Phases) /\ four \in Seq(Phases)
  <2>1. e \in [DOMAIN b -> Works]
    BY DEF WorkFor
  <2> QED
    BY <2>1, ApartIs
<1>2. Live(b) => Busy(one)
  BY ApartBusy
<1> HIDE DEF one, two, four
<1>3. Live(b) => /\ one \o two \o soft \o four \in Seq(Phases)
                  /\ Busy(one \o two \o soft \o four)
  BY <1>1, <1>2, FourParts
<1>4. Costs(Prefill(b, one \o two \o soft \o four), b)
  BY <1>3, PrefillCosts
<1> QED
  BY <1>4 DEF one, two, four

LEMMA AbsorbSumGPUCosts ==
  ASSUME NEW c, Working(c), NEW l \in Layer, l.kv_lora_rank > 0,
         NEW b \in Batch
  PROVE  Good(AbsorbMLASumExecutionGPU(c, l, b), b)
<1> DEFINE r == l.kv_lora_rank
           e == [i \in DOMAIN b |-> AbsorbSumScoreWork(l, b[i], r)]
           f == [i \in DOMAIN b |-> AbsorbSumScoreWork(l, b[i], l.rope)]
           g == [i \in DOMAIN b |-> AbsorbSumContextWork(l, b[i])]
           soft == AbsorbSumSoftmaxGPU(c, l, b)
           phases == Apart(c, "GPU", l, b, e) \o Apart(c, "GPU", l, b, f)
                     \o soft \o Apart(c, "GPU", l, b, g)
<1>1. b \in Seq(Entries) /\ r \in Nat /\ l.rope \in Nat
  BY BatchIs, LayerFields
<1>2. c \in SystemConfig /\ Computes(c) /\ "GPU" \in Processors
  BY DEF Working, Processors
<1>3. /\ AbsorbSumNopeGPU(c, l, b) = Apart(c, "GPU", l, b, e)
      /\ AbsorbSumRopeGPU(c, l, b) = Apart(c, "GPU", l, b, f)
      /\ AbsorbSumContextGPU(c, l, b) = Apart(c, "GPU", l, b, g)
  BY DEF AbsorbSumNopeGPU, AbsorbSumRopeGPU, AbsorbSumContextGPU, Each, Apart
<1> HIDE DEF e, f, g
<1>4. AbsorbMLASumExecutionGPU(c, l, b) = NoOffload(c, b, Prefill(b, phases))
  BY <1>3 DEF AbsorbMLASumExecutionGPU
<1>5. /\ e \in WorkFor(b)
      /\ f \in [DOMAIN b -> Works] /\ g \in [DOMAIN b -> Works]
  BY <1>1, EntriesOf, AbsorbSumWorkIs
  DEF e, f, g, WorkFor, WorkOf
<1>6. soft \in Seq(Phases)
  BY <1>1, <1>2, OtherConfigs, SoftmaxIs DEF AbsorbSumSoftmaxGPU
<1> HIDE DEF soft
<1>7. Costs(Prefill(b, phases), b)
  BY <1>1, <1>2, <1>5, <1>6, FourApart
<1> QED
  BY <1>4, <1>7, NoOffloadIs

LEMMA AbsorbSumLogicCosts ==
  ASSUME NEW c, Working(c), NEW l \in Layer, l.kv_lora_rank > 0,
         NEW b \in Batch
  PROVE  Costs(AbsorbMLASumExecutionLogic(c, l, b), b)
<1> DEFINE r == l.kv_lora_rank
           h == l.num_heads
           nope(s) == LET w == AbsorbScoreWork(l, s, r)
                      IN Issued(w, s.tok * r * h + w.kv)
           rope(s) == Issued(AbsorbScoreWork(l, s, l.rope),
                             s.tok * l.rope * h + 2 * Scores(l, s))
           context(s) == Issued(AbsorbContextWork(l, s), s.tok * r * h)
           e == [i \in DOMAIN b |-> nope(b[i])]
           f == [i \in DOMAIN b |-> rope(b[i])]
           g == [i \in DOMAIN b |-> context(b[i])]
           soft == AbsorbSumSoftmaxLogic(c, l, b)
           phases == Apart(c, "LOGIC", l, b, e) \o Apart(c, "LOGIC", l, b, f)
                     \o soft \o Apart(c, "LOGIC", l, b, g)
<1>1. b \in Seq(Entries) /\ r \in Nat /\ l.rope \in Nat /\ h \in Nat
  BY BatchIs, LayerFields
<1>2. c \in SystemConfig /\ Computes(c) /\ "LOGIC" \in Processors
  BY DEF Working, Processors
<1>3. /\ AbsorbSumNopeLogic(c, l, b) = Apart(c, "LOGIC", l, b, e)
      /\ AbsorbSumRopeLogic(c, l, b) = Apart(c, "LOGIC", l, b, f)
      /\ AbsorbSumContextLogic(c, l, b) = Apart(c, "LOGIC", l, b, g)
  BY DEF AbsorbSumNopeLogic, AbsorbSumRopeLogic, AbsorbSumContextLogic, Each,
         Apart
<1>4. ASSUME NEW i \in DOMAIN b
      PROVE  /\ e[i] \in Works /\ e[i] \in WorkOf(b[i])
             /\ f[i] \in Works /\ g[i] \in Works
  <2> DEFINE s == b[i]
             w == AbsorbScoreWork(l, s, r)
  <2>1. s \in Entries
    BY <1>1, EntriesOf
  <2>2. s.tok \in Nat /\ Scores(l, s) \in Nat
    BY <2>1, ScoresIs
  <2>3. w \in Works /\ w \in WorkOf(s)
    BY <1>1, <2>1, AbsorbScoreWorkIs
  <2>4. e[i] = Issued(w, s.tok * r * h + w.kv)
    OBVIOUS
  <2>5. f[i] = rope(s) /\ g[i] = context(s)
    OBVIOUS
  <2> HIDE DEF w, s, e, f, g, h, r
  <2>9. s.tok * r * h \in Nat /\ s.tok * l.rope * h \in Nat
    BY <1>1, <2>2, Product
  <2>6. e[i] \in Works /\ e[i] \in WorkOf(s)
    <3>1. s.tok * r * h + w.kv \in Nat
      BY <2>3, <2>9, WorkFields
    <3> QED
      BY <2>3, <2>4, <3>1, IssuedIs
  <2>7. f[i] \in Works
    <3>1. s.tok * l.rope * h + 2 * Scores(l, s) \in Nat
      BY <2>2, <2>9
    <3>2. AbsorbScoreWork(l, s, l.rope) \in Works
      BY <1>1, <2>1, AbsorbScoreWorkIs
    <3> QED
      BY <2>5, <3>1, <3>2, IssuedIs
  <2>8. g[i] \in Works
    BY <2>1, <2>5, <2>9, AbsorbContextWorkIs, IssuedIs DEF WorkOf
  <2> QED
    BY <2>6, <2>7, <2>8 DEF s
<1>5. /\ e \in WorkFor(b) /\ f \in [DOMAIN b -> Works]
      /\ g \in [DOMAIN b -> Works]
  <2> HIDE DEF nope, rope, context
  <2> QED
    BY <1>4 DEF WorkFor
<1> HIDE DEF e, f, g
<1>6. AbsorbMLASumExecutionLogic(c, l, b) = Prefill(b, phases)
  BY <1>3 DEF AbsorbMLASumExecutionLogic
<1>7. soft \in Seq(Phases)
  BY <1>1, <1>2, OtherConfigs, SoftmaxIs, ComputeOnlyIs
  DEF AbsorbSumSoftmaxLogic
<1> HIDE DEF soft
<1>8. Costs(Prefill(b, phases), b)
  BY <1>1, <1>2, <1>5, <1>7, FourApart
<1> QED
  BY <1>6, <1>8

LEMMA AbsorbSumPIMCosts ==
  ASSUME NEW c, Working(c), NEW l \in Layer, l.kv_lora_rank > 0,
         NEW b \in Batch
  PROVE  Costs(AbsorbMLASumExecutionPIM(c, l, b), b)
<1> DEFINE score(s, k) == Issued(AbsorbScoreWork(l, s, k), s.tok)
           context(s) == Issued(AbsorbContextWork(l, s), Context(s))
           e == [i \in DOMAIN b |-> score(b[i], l.kv_lora_rank)]
           f == [i \in DOMAIN b |-> score(b[i], l.rope)]
           g == [i \in DOMAIN b |-> context(b[i])]
           soft == AbsorbSumSoftmaxPIM(c, l, b)
           phases == Apart(c, "PIM", l, b, e) \o Apart(c, "PIM", l, b, f)
                     \o soft \o Apart(c, "PIM", l, b, g)
<1>1. b \in Seq(Entries) /\ l.kv_lora_rank \in Nat /\ l.rope \in Nat
  BY BatchIs, LayerFields
<1>2. c \in SystemConfig /\ Computes(c) /\ "PIM" \in Processors
  BY DEF Working, Processors
<1>3. /\ AbsorbSumScorePIM(c, l, b, l.kv_lora_rank)
           = Apart(c, "PIM", l, b, e)
      /\ AbsorbSumScorePIM(c, l, b, l.rope) = Apart(c, "PIM", l, b, f)
      /\ AbsorbSumContextPIM(c, l, b) = Apart(c, "PIM", l, b, g)
  BY DEF AbsorbSumScorePIM, AbsorbSumContextPIM, Each, Apart
<1>4. ASSUME NEW i \in DOMAIN b
      PROVE  /\ e[i] \in Works /\ e[i] \in WorkOf(b[i])
             /\ f[i] \in Works /\ g[i] \in Works
  <2> DEFINE s == b[i]
  <2>1. s \in Entries
    BY <1>1, EntriesOf
  <2>2. s.tok \in Nat /\ Context(s) \in Nat
    BY <2>1, ScoresIs
  <2>3. /\ AbsorbScoreWork(l, s, l.kv_lora_rank) \in WorkOf(s)
        /\ AbsorbScoreWork(l, s, l.kv_lora_rank) \in Works
        /\ AbsorbScoreWork(l, s, l.rope) \in Works
        /\ AbsorbContextWork(l, s) \in Works
    BY <1>1, <2>1, AbsorbScoreWorkIs, AbsorbContextWorkIs DEF WorkOf
  <2>4. /\ e[i] = score(s, l.kv_lora_rank)
        /\ f[i] = score(s, l.rope) /\ g[i] = context(s)
    OBVIOUS
  <2> HIDE DEF s, e, f, g
  <2>5. e[i] \in Works /\ e[i] \in WorkOf(s)
    BY <2>2, <2>3, <2>4, IssuedIs
  <2>6. f[i] \in Works /\ g[i] \in Works
    BY <2>2, <2>3, <2>4, IssuedIs
  <2> QED
    BY <2>5, <2>6 DEF s
<1>5. /\ e \in WorkFor(b) /\ f \in [DOMAIN b -> Works]
      /\ g \in [DOMAIN b -> Works]
  <2> HIDE DEF score, context
  <2> QED
    BY <1>4 DEF WorkFor
<1> HIDE DEF e, f, g
<1>6. AbsorbMLASumExecutionPIM(c, l, b) = Prefill(b, phases)
  BY <1>3 DEF AbsorbMLASumExecutionPIM
<1>7. soft \in Seq(Phases)
  BY <1>1, <1>2, OtherConfigs, GqaNearSoftmaxIs DEF AbsorbSumSoftmaxPIM
<1> HIDE DEF soft
<1>8. Costs(Prefill(b, phases), b)
  BY <1>1, <1>2, <1>5, <1>7, FourApart
<1> QED
  BY <1>6, <1>8
----------------------------------------------------------------------------
(***************************************************************************)
(* The layers of a machine.                                                *)
(***************************************************************************)

LEMMA MachineFields ==
  ASSUME NEW m, IsMachine(m)
  PROVE  /\ Working(m.c)
         /\ m.head_dim \in Nat \ {0} /\ m.num_heads \in Nat \ {0}
         /\ m.num_kv_heads \in Nat \ {0} /\ m.precision \in Nat \ {0}
         /\ m.hidden_dim \in Nat \ {0} /\ m.intermediate_dim \in Nat \ {0}
         /\ m.rope \in Nat /\ m.kv_lora_rank \in Nat /\ m.max_seq_len \in Nat
         /\ m.use_flash_attention \in BOOLEAN /\ m.use_flash_mla \in BOOLEAN
         /\ m.compressed_kv \in BOOLEAN
         /\ m.num_heads \div m.num_kv_heads \in Nat \ {0}
<1>1. /\ m.head_dim \in Nat \ {0} /\ m.num_heads \in Nat \ {0}
      /\ m.num_kv_heads \in Nat \ {0} /\ m.precision \in Nat \ {0}
      /\ m.hidden_dim \in Nat \ {0} /\ m.intermediate_dim \in Nat \ {0}
      /\ m.num_heads >= m.num_kv_heads
  BY DEF IsMachine
<1>2. m.num_heads \div m.num_kv_heads \in Nat \ {0}
  BY <1>1, Quotient
<1>3. /\ m.rope \in Nat /\ m.kv_lora_rank \in Nat /\ m.max_seq_len \in Nat
      /\ m.use_flash_attention \in BOOLEAN /\ m.use_flash_mla \in BOOLEAN
      /\ m.compressed_kv \in BOOLEAN
  BY DEF IsMachine
<1>4. Working(m.c)
  BY DEF IsMachine, Working, Computes
<1> QED
  BY <1>1, <1>2, <1>3, <1>4

\* One field at a time.
LEMMA FieldIs ==
  ASSUME NEW l \in Layer
  PROVE  /\ \A n \in Nat \ {0} :
              /\ [l EXCEPT !.group = n] \in Layer
              /\ [l EXCEPT !.num_heads = n] \in Layer
              /\ [l EXCEPT !.num_kv_heads = n] \in Layer
              /\ [l EXCEPT !.head_dim = n] \in Layer
         /\ \A k \in Nat :
              /\ [l EXCEPT !.rope = k] \in Layer
              /\ [l EXCEPT !.kv_lora_rank = k] \in Layer
              /\ [l EXCEPT !.window = k] \in Layer
              /\ [l EXCEPT !.columns = k] \in Layer
         /\ \A x \in BOOLEAN :
              /\ [l EXCEPT !.use_flash_attention = x] \in Layer
              /\ [l EXCEPT !.use_flash_mla = x] \in Layer
              /\ [l EXCEPT !.use_chunked_attention = x] \in Layer
<1>1. \A n \in Nat \ {0} : [l EXCEPT !.group = n] \in Layer
  BY DEF Layer
<1>2. \A n \in Nat \ {0} : [l EXCEPT !.num_heads = n] \in Layer
  BY DEF Layer
<1>3. \A n \in Nat \ {0} : [l EXCEPT !.num_kv_heads = n] \in Layer
  BY DEF Layer
<1>4. \A n \in Nat \ {0} : [l EXCEPT !.head_dim = n] \in Layer
  BY DEF Layer
<1>5. \A k \in Nat : [l EXCEPT !.rope = k] \in Layer
  BY DEF Layer
<1>6. \A k \in Nat : [l EXCEPT !.kv_lora_rank = k] \in Layer
  BY DEF Layer
<1>7. \A k \in Nat : [l EXCEPT !.window = k] \in Layer
  BY DEF Layer
<1>8. \A k \in Nat : [l EXCEPT !.columns = k] \in Layer
  BY DEF Layer
<1>9. \A x \in BOOLEAN : [l EXCEPT !.use_flash_attention = x] \in Layer
  BY DEF Layer
<1>10. \A x \in BOOLEAN : [l EXCEPT !.use_flash_mla = x] \in Layer
  BY DEF Layer
<1>11. \A x \in BOOLEAN : [l EXCEPT !.use_chunked_attention = x] \in Layer
  BY DEF Layer
<1> QED
  BY <1>1, <1>2, <1>3, <1>4, <1>5, <1>6, <1>7, <1>8, <1>9, <1>10, <1>11

LEMMA HeadsAre ==
  ASSUME NEW m, IsMachine(m)
  PROVE  /\ Heads(m) \in Layer
         /\ Heads(m).head_dim = m.head_dim /\ Heads(m).rope = m.rope
         /\ Heads(m).precision = m.precision
<1> DEFINE l == LayerInfo(m)
           l1 == [l EXCEPT !.num_heads = m.num_heads]
           l2 == [l1 EXCEPT !.head_dim = m.head_dim]
           l3 == [l2 EXCEPT !.rope = m.rope]
           l4 == [l3 EXCEPT !.use_flash_attention = m.use_flash_attention]
<1>1. /\ m.head_dim \in Nat \ {0} /\ m.num_heads \in Nat \ {0}
      /\ m.precision \in Nat \ {0} /\ m.rope \in Nat
      /\ m.use_flash_attention \in BOOLEAN /\ m.compressed_kv \in BOOLEAN
  BY MachineFields
<1>2. l \in Layer /\ l.precision = m.precision
  BY <1>1 DEF LayerInfo, Layer
<1>3. Heads(m) = [l EXCEPT !.num_heads = m.num_heads, !.head_dim = m.head_dim,
                           !.rope = m.rope,
                           !.use_flash_attention = m.use_flash_attention]
  BY DEF Heads
<1> HIDE DEF l
<1>4. Heads(m) = l4
  BY <1>1, <1>2, <1>3 DEF Layer
<1>5. l1 \in Layer
  BY <1>1, <1>2, FieldIs
<1>6. /\ Heads(m).head_dim = m.head_dim /\ Heads(m).rope = m.rope
      /\ Heads(m).precision = m.precision
  BY <1>1, <1>2, <1>3 DEF Layer
<1> HIDE DEF l1
<1>7. l2 \in Layer
  BY <1>1, <1>5, FieldIs
<1> HIDE DEF l2
<1>8. l3 \in Layer
  BY <1>1, <1>7, FieldIs
<1> HIDE DEF l3
<1>9. l4 \in Layer
  BY <1>1, <1>8, FieldIs
<1> QED
  BY <1>4, <1>6, <1>9

LEMMA SelfAttentionLayers ==
  ASSUME NEW m, IsMachine(m)
  PROVE  /\ SelfAttentionGen(m) \in Layer
         /\ SelfAttentionSum(m) \in Layer
         /\ SelfAttentionSum(m).head_dim = m.head_dim
         /\ SelfAttentionSum(m).num_kv_heads = m.num_kv_heads
<1> DEFINE l == Heads(m)
           g == m.num_heads \div m.num_kv_heads
           columns == (m.num_heads + 2 * m.num_kv_heads) * m.head_dim
           l1 == [l EXCEPT !.group = g]
           l2 == [l1 EXCEPT !.num_kv_heads = m.num_kv_heads]
           l3 == [l2 EXCEPT !.use_chunked_attention = TRUE]
           l4 == [l3 EXCEPT !.window = m.max_seq_len]
<1>1. /\ m.num_heads \in Nat \ {0} /\ m.num_kv_heads \in Nat \ {0}
      /\ m.max_seq_len \in Nat /\ g \in Nat \ {0} /\ m.head_dim \in Nat
  BY MachineFields
<1>2. l \in Layer /\ l.head_dim = m.head_dim
  BY HeadsAre
<1>3. columns \in Nat
  <2>1. m.num_heads + 2 * m.num_kv_heads \in Nat
    BY <1>1
  <2> QED
    BY <1>1, <2>1, Product
<1>4. /\ SelfAttentionGen(m)
           = [l EXCEPT !.group = g, !.num_kv_heads = m.num_kv_heads,
                       !.use_chunked_attention = TRUE,
                       !.window = m.max_seq_len]
      /\ SelfAttentionSum(m) = [SelfAttentionGen(m) EXCEPT !.columns = columns]
  BY DEF SelfAttentionGen, SelfAttentionSum
<1> HIDE DEF l, g, columns
<1>5. /\ SelfAttentionGen(m) = l4
      /\ SelfAttentionGen(m).head_dim = m.head_dim
      /\ SelfAttentionGen(m).num_kv_heads = m.num_kv_heads
  BY <1>1, <1>2, <1>4 DEF Layer
<1>6. l1 \in Layer
  BY <1>1, <1>2, FieldIs
<1> HIDE DEF l1
<1>7. l2 \in Layer
  BY <1>1, <1>6, FieldIs
<1> HIDE DEF l2
<1>8. l3 \in Layer
  BY <1>7, FieldIs
<1> HIDE DEF l3
<1>9. l4 \in Layer
  BY <1>1, <1>8, FieldIs
<1>10. SelfAttentionGen(m) \in Layer /\ SelfAttentionSum(m) \in Layer
  <2>1. SelfAttentionGen(m) \in Layer
    BY <1>5, <1>9
  <2>2. [SelfAttentionGen(m) EXCEPT !.columns = columns] \in Layer
    BY <1>3, <2>1, FieldIs
  <2> QED
    BY <1>4, <2>1, <2>2
<1>11. /\ SelfAttentionSum(m).head_dim = SelfAttentionGen(m).head_dim
       /\ SelfAttentionSum(m).num_kv_heads = SelfAttentionGen(m).num_kv_heads
  BY <1>3, <1>4, <1>10 DEF Layer
<1> QED
  BY <1>5, <1>10, <1>11

LEMMA LatentLayers ==
  ASSUME NEW m, IsMachine(m)
  PROVE  /\ MultiLatentAttentionGen(m) \in Layer
         /\ MultiLatentAttentionSum(m) \in Layer
         /\ MultiLatentAttentionSum(m).head_dim = m.head_dim
         /\ MultiLatentAttentionSum(m).rope = m.rope
         /\ MultiLatentAttentionSum(m).precision = m.precision
         /\ AbsorbMLAGen(m) \in Layer
         /\ AbsorbMLAGen(m).kv_lora_rank = m.kv_lora_rank
         /\ AbsorbMLASum(m) \in Layer
         /\ AbsorbMLASum(m).kv_lora_rank = m.kv_lora_rank
<1> DEFINE l == Heads(m)
           g == m.num_heads \div m.num_kv_heads
           gen == MultiLatentAttentionGen(m)
           sum == MultiLatentAttentionSum(m)
           k == [l EXCEPT !.use_flash_mla = m.use_flash_mla]
           n == [l EXCEPT !.group = g]
<1>1. /\ m.num_kv_heads \in Nat \ {0} /\ m.kv_lora_rank \in Nat
      /\ m.use_flash_mla \in BOOLEAN /\ g \in Nat \ {0}
  BY MachineFields
<1>2. /\ l \in Layer /\ l.head_dim = m.head_dim /\ l.rope = m.rope
      /\ l.precision = m.precision
  BY HeadsAre
<1>3. /\ gen = [l EXCEPT !.use_flash_mla = m.use_flash_mla,
                         !.use_chunked_attention = TRUE]
      /\ sum = [l EXCEPT !.group = g, !.num_kv_heads = m.num_kv_heads]
      /\ AbsorbMLAGen(m) = [gen EXCEPT !.kv_lora_rank = m.kv_lora_rank]
      /\ AbsorbMLASum(m) = [sum EXCEPT !.kv_lora_rank = m.kv_lora_rank]
  BY DEF MultiLatentAttentionGen, MultiLatentAttentionSum, AbsorbMLAGen,
         AbsorbMLASum
<1> HIDE DEF l, g, gen, sum
<1>4. /\ gen = [k EXCEPT !.use_chunked_attention = TRUE]
      /\ sum = [n EXCEPT !.num_kv_heads = m.num_kv_heads]
  BY <1>1, <1>2, <1>3 DEF Layer
<1>5. /\ sum.head_dim = l.head_dim /\ sum.rope = l.rope
      /\ sum.precision = l.precision
  BY <1>1, <1>2, <1>3 DEF Layer
<1>6. k \in Layer /\ n \in Layer
  BY <1>1, <1>2, FieldIs
<1> HIDE DEF k, n
<1>7. gen \in Layer /\ sum \in Layer
  BY <1>1, <1>4, <1>6, FieldIs
<1>8. AbsorbMLAGen(m) \in Layer /\ AbsorbMLASum(m) \in Layer
  <2>1. [gen EXCEPT !.kv_lora_rank = m.kv_lora_rank] \in Layer
    BY <1>1, <1>7, FieldIs
  <2>2. [sum EXCEPT !.kv_lora_rank = m.kv_lora_rank] \in Layer
    BY <1>1, <1>7, FieldIs
  <2> QED
    BY <1>3, <2>1, <2>2
<1>9. /\ AbsorbMLAGen(m).kv_lora_rank = m.kv_lora_rank
      /\ AbsorbMLASum(m).kv_lora_rank = m.kv_lora_rank
  BY <1>1, <1>3, <1>7 DEF Layer
<1> QED
  BY <1>2, <1>5, <1>7, <1>8, <1>9 DEF gen, sum

\* Every decode kernel of every machine either stops the program, because the
\* KV cache is offloaded and it does not know how to read it, or tells natural
\* times, with a total of zero exactly when no sequence has a token to process
\* (attention_gen_impl.cpp).
THEOREM DecodeTakesTime ==
  ASSUME NEW m, IsMachine(m), NEW p \in Processors, NEW b \in Batch
  PROVE  Good(AttentionGen(m, p, b), b)
<1> DEFINE c == m.c
<1>1. Working(c) /\ p \in {"GPU", "LOGIC", "PIM"}
  BY MachineFields DEF Processors
<1>2. CASE m.attention = "gqa"
  <2> DEFINE l == SelfAttentionGen(m)
  <2>1. AttentionGen(m, p, b) \in {AttentionGenExecutionGPU(c, l, b),
                                   AttentionGenExecutionLogic(c, l, b),
                                   AttentionGenExecutionPIM(c, l, b)}
    BY <1>1, <1>2 DEF AttentionGen
  <2>2. l \in Layer
    BY SelfAttentionLayers
  <2> HIDE DEF c, l
  <2>3. /\ Costs(AttentionGenExecutionGPU(c, l, b), b)
        /\ Costs(AttentionGenExecutionLogic(c, l, b), b)
        /\ Costs(AttentionGenExecutionPIM(c, l, b), b)
    BY <1>1, <2>2, GqaGenGPUCosts, GqaGenNearCosts
  <2> QED
    BY <2>1, <2>3 DEF Good
<1>3. CASE m.attention = "mla"
  <2> DEFINE l == MultiLatentAttentionGen(m)
  <2>1. AttentionGen(m, p, b)
          \in {MultiLatentAttentionGenExecutionGPU(c, l, b),
               MultiLatentAttentionGenExecutionLogic(c, l, b),
               MultiLatentAttentionGenExecutionPIM(c, l, b)}
    BY <1>1, <1>3 DEF AttentionGen
  <2>2. l \in Layer
    BY LatentLayers
  <2> HIDE DEF c, l
  <2>3. /\ Good(MultiLatentAttentionGenExecutionGPU(c, l, b), b)
        /\ Costs(MultiLatentAttentionGenExecutionLogic(c, l, b), b)
        /\ Costs(MultiLatentAttentionGenExecutionPIM(c, l, b), b)
    BY <1>1, <2>2, MlaGenGPUCosts, MlaGenLogicCosts, MlaGenPIMCosts
  <2> QED
    BY <2>1, <2>3 DEF Good
<1>4. CASE m.attention = "absorb"
  <2> DEFINE l == AbsorbMLAGen(m)
  <2>1. AttentionGen(m, p, b) \in {AbsorbMLAGenExecutionGPU(c, l, b),
                                   AbsorbMLAGenExecutionLogic(c, l, b),
                                   AbsorbMLAGenExecutionPIM(c, l, b)}
    BY <1>1, <1>4 DEF AttentionGen
  <2>2. l \in Layer /\ l.kv_lora_rank > 0
    BY <1>4, LatentLayers DEF IsMachine
  <2> HIDE DEF c, l
  <2>3. /\ Good(AbsorbMLAGenExecutionGPU(c, l, b), b)
        /\ Costs(AbsorbMLAGenExecutionLogic(c, l, b), b)
        /\ Costs(AbsorbMLAGenExecutionPIM(c, l, b), b)
    BY <1>1, <2>2, AbsorbGenGPUCosts, AbsorbGenLogicCosts, AbsorbGenPIMCosts
  <2> QED
    BY <2>1, <2>3 DEF Good
<1> QED
  BY <1>2, <1>3, <1>4 DEF IsMachine

\* The products that the near kernels of grouped-query prefill keep in ints.
FitsInt(m, b) ==
  m.attention = "gqa" =>
    \A i \in DOMAIN b :
      /\ Context(b[i]) * m.head_dim * m.num_kv_heads < m.c.int_limit
      /\ b[i].tok * Context(b[i]) * m.head_dim < m.c.int_limit

\* The same of every prefill kernel (attention_sum_impl.cpp), as long as the
\* products that grouped-query attention keeps in an int fit.
THEOREM PrefillTakesTime ==
  ASSUME NEW m, IsMachine(m), NEW p \in Processors, NEW b \in Batch,
         FitsInt(m, b)
  PROVE  Good(AttentionSum(m, p, b), b)
<1> DEFINE c == m.c
<1>1. Working(c) /\ p \in {"GPU", "LOGIC", "PIM"}
  BY MachineFields DEF Processors
<1>2. CASE m.attention = "gqa"
  <2> DEFINE l == SelfAttentionSum(m)
  <2>1. AttentionSum(m, p, b) \in {AttentionSumExecutionGPU(c, l, b),
                                   AttentionSumExecutionLogic(c, l, b),
                                   AttentionSumExecutionPIM(c, l, b)}
    BY <1>1, <1>2 DEF AttentionSum
  <2>2. l \in Layer /\ l.head_dim = m.head_dim
        /\ l.num_kv_heads = m.num_kv_heads
    BY SelfAttentionLayers
  <2>3. \A i \in DOMAIN b : Fits(c, l, b[i])
    BY <1>2, <2>2 DEF FitsInt, Fits
  <2> HIDE DEF c, l
  <2>4. /\ Good(AttentionSumExecutionGPU(c, l, b), b)
        /\ Costs(AttentionSumExecutionLogic(c, l, b), b)
        /\ Costs(AttentionSumExecutionPIM(c, l, b), b)
    BY <1>1, <2>2, <2>3, GqaSumGPUCosts, GqaSumLogicCosts, GqaSumPIMCosts
  <2> QED
    BY <2>1, <2>4 DEF Good
<1>3. CASE m.attention = "mla"
  <2> DEFINE l == MultiLatentAttentionSum(m)
  <2>1. AttentionSum(m, p, b)
          \in {MultiLatentAttentionSumExecutionGPU(c, l, b),
               MultiLatentAttentionSumExecutionLogic(c, l, b),
               MultiLatentAttentionSumExecutionPIM(c, l, b)}
    BY <1>1, <1>3 DEF AttentionSum
  <2>2. l \in Layer /\ Tiles(l)
    BY <1>3, LatentLayers DEF Tiles, IsMachine
  <2> HIDE DEF c, l
  <2>3. /\ Good(MultiLatentAttentionSumExecutionGPU(c, l, b), b)
        /\ Costs(MultiLatentAttentionSumExecutionLogic(c, l, b), b)
        /\ Costs(MultiLatentAttentionSumExecutionPIM(c, l, b), b)
    BY <1>1, <2>2, MlaSumGPUCosts, MlaSumLogicCosts, MlaSumPIMCosts
  <2> QED
    BY <2>1, <2>3 DEF Good
<1>4. CASE m.attention = "absorb"
  <2> DEFINE l == AbsorbMLASum(m)
  <2>1. AttentionSum(m, p, b) \in {AbsorbMLASumExecutionGPU(c, l, b),
                                   AbsorbMLASumExecutionLogic(c, l, b),
                                   AbsorbMLASumExecutionPIM(c, l, b)}
    BY <1>1, <1>4 DEF AttentionSum
  <2>2. l \in Layer /\ l.kv_lora_rank > 0
    BY <1>4, LatentLayers DEF IsMachine
  <2> HIDE DEF c, l
  <2>3. /\ Good(AbsorbMLASumExecutionGPU(c, l, b), b)
        /\ Costs(AbsorbMLASumExecutionLogic(c, l, b), b)
        /\ Costs(AbsorbMLASumExecutionPIM(c, l, b), b)
    BY <1>1, <2>2, AbsorbSumGPUCosts, AbsorbSumLogicCosts, AbsorbSumPIMCosts
  <2> QED
    BY <2>1, <2>3 DEF Good
<1> QED
  BY <1>2, <1>3, <1>4 DEF IsMachine
----------------------------------------------------------------------------
(***************************************************************************)
(* The operations of an expert.                                            *)
(***************************************************************************)

\* Nothing waits for a share of a time longer than the time.
LEMMA Share ==
  ASSUME NEW t \in Nat, NEW x \in Nat, NEW y \in Nat, x + y > 0
  PROVE  (t * x) \div (y + x) \in Nat /\ (t * x) \div (y + x) <= t
<1> DEFINE n == y + x
           q == (t * x) \div n
<1>1. n \in Nat \ {0} /\ t * x \in Nat /\ t * y \in Nat
  BY Product
<1>2. t * n = t * y + t * x
  BY <1>1, SMT
<1>3. t * x <= t * n
  BY <1>1, <1>2
<1>4. q \in Nat /\ q * n <= t * x
  <2> DEFINE a == t * x
  <2>1. a \in Nat
    BY <1>1
  <2> HIDE DEF a, n
  <2>2. a \div n \in Nat /\ (a \div n) * n <= a
    BY <1>1, <2>1, SMT
  <2> QED
    BY <2>2 DEF a
<1> HIDE DEF n, q
<1>5. q > t => q * n > t * n
  BY <1>1, <1>4, SMT
<1>6. q * n \in Nat /\ t * n \in Nat
  BY <1>1, <1>4, Product
<1>7. q <= t
  BY <1>1, <1>3, <1>4, <1>5, <1>6
<1> QED
  BY <1>4, <1>7 DEF q, n

\* What is left of a time when its part that grows with the batch has run in
\* pp microbatches.
Left(c, total, dep) == c.pp * total - (c.pp - 1) * dep

\* A cold expert's tag makes that part so long that nothing is left, but for
\* what a division leaves.
LEMMA ColdIs ==
  ASSUME NEW c \in SystemConfig, NEW cold \in BOOLEAN, NEW total \in Nat,
         NEW dep \in Nat
  PROVE  /\ Cold(c, cold, total, dep) \in Nat
         /\ ~(c.pp > 1 /\ cold) => Cold(c, cold, total, dep) = dep
         /\ c.pp > 1 /\ cold /\ total > 0
              => Left(c, total, Cold(c, cold, total, dep)) \in 0 .. (c.pp - 2)
<1>1. c.pp \in Nat \ {0}
  BY ConfigFields
<1>2. CASE ~(c.pp > 1 /\ cold /\ total > 0)
  BY <1>2 DEF Cold
<1>3. CASE c.pp > 1 /\ cold /\ total > 0
  <2> DEFINE k == c.pp - 1
             n == total * c.pp
             q == n \div k
  <2>1. k \in Nat \ {0} /\ n \in Nat
    BY <1>1, <1>3, Product
  <2>2. Cold(c, cold, total, dep) = q
    BY <1>3 DEF Cold
  <2>3. c.pp * total = n
    BY <1>1
  <2> HIDE DEF n
  <2>4. q \in Nat /\ n - k * q \in 0 .. (k - 1)
    <3> HIDE DEF k
    <3>1. q \in Nat /\ k * q <= n /\ n < k * q + k
      BY <2>1, SMT
    <3>2. k * q \in Nat
      BY <2>1, <3>1, Product
    <3> QED
      BY <2>1, <3>1, <3>2
  <2> HIDE DEF q
  <2>5. k - 1 = c.pp - 2
    BY <1>1
  <2>6. Left(c, total, q) = n - k * q
    BY <2>3 DEF Left
  <2> HIDE DEF k
  <2> QED
    BY <1>3, <2>2, <2>4, <2>5, <2>6
<1> QED
  BY <1>2, <1>3

\* What an operation of an expert tells of its rows: a time, none only when
\* there are no rows; of the time, the part that the tag says.
Tagged(c, cold, rows, status) ==
  /\ status.total \in Nat /\ status.dep \in Nat
  /\ status.total = 0 <=> rows = 0
  /\ ~(c.pp > 1 /\ cold) => status.dep <= status.total
  /\ c.pp > 1 /\ cold
       => rows = 0 \/ Left(c, status.total, status.dep) \in 0 .. (c.pp - 2)

LEMMA NoRows ==
  ASSUME NEW c, NEW cold
  PROVE  Tagged(c, cold, 0, EmptyStatus)
  BY DEF Tagged, EmptyStatus

LEMMA RowsAreTagged ==
  ASSUME NEW c \in SystemConfig, NEW cold \in BOOLEAN, NEW rows \in Nat \ {0},
         NEW total \in Nat \ {0}, NEW dep \in Nat, dep <= total, NEW compute,
         NEW flops, NEW size
  PROVE  Tagged(c, cold, rows,
                [EmptyStatus EXCEPT !.total = total, !.compute = compute,
                   !.dep = Cold(c, cold, total, dep), !.flops = flops,
                   !.size = size])
<1> DEFINE d == Cold(c, cold, total, dep)
           status == [EmptyStatus EXCEPT !.total = total, !.compute = compute,
                        !.dep = d, !.flops = flops, !.size = size]
<1>1. status.total = total /\ status.dep = d
  BY DEF EmptyStatus
<1>2. /\ d \in Nat
      /\ ~(c.pp > 1 /\ cold) => d = dep
      /\ c.pp > 1 /\ cold => Left(c, total, d) \in 0 .. (c.pp - 2)
  <2>1. total \in Nat /\ total > 0
    OBVIOUS
  <2>2. Cold(c, cold, total, dep) \in Nat
    BY <2>1, ColdIs
  <2>3. ~(c.pp > 1 /\ cold) => Cold(c, cold, total, dep) = dep
    BY <2>1, ColdIs
  <2>4. c.pp > 1 /\ cold /\ total > 0
          => Left(c, total, Cold(c, cold, total, dep)) \in 0 .. (c.pp - 2)
    <3> HIDE DEF d, status
    <3> QED
      BY <2>1, ColdIs
  <2> QED
    BY <2>1, <2>2, <2>3, <2>4
<1> HIDE DEF d, status
<1>3. Tagged(c, cold, rows, status)
  BY <1>1, <1>2 DEF Tagged
<1> QED
  BY <1>3 DEF status, d

\* A weight's shape.
Shape(rows, k, n) ==
  [m |-> rows, k |-> k, n |-> n, heads |-> 1, duplicated |-> FALSE]

LEMMA ShapeIs ==
  ASSUME NEW rows \in Nat, NEW k \in Nat \ {0}, NEW n \in Nat \ {0}
  PROVE  LET s == Shape(rows, k, n)
         IN /\ Weight(s) \in Nat \ {0} /\ Act(s) \in Nat
            /\ s.m = rows /\ s.k = k /\ s.n = n /\ s.heads = 1
<1> DEFINE s == Shape(rows, k, n)
<1>1. s.m = rows /\ s.k = k /\ s.n = n /\ s.heads = 1 /\ s.duplicated = FALSE
  BY DEF Shape
<1> HIDE DEF s
<1>2. k * n * 1 \in Nat \ {0}
  BY NotNone
<1>3. rows * k * 1 \in Nat /\ rows * n * 1 \in Nat
  BY Product
<1>4. Weight(s) = k * n * 1 /\ Act(s) = rows * k * 1 + rows * n * 1
  BY <1>1 DEF Weight, Act
<1>5. Weight(s) \in Nat \ {0} /\ Act(s) \in Nat
  BY <1>2, <1>3, <1>4
<1> QED
  BY <1>1, <1>5 DEF s

LEMMA LinearMemoryIs ==
  ASSUME NEW c \in SystemConfig, NEW p \in Processors, NEW s,
         Weight(s) \in Nat, Act(s) \in Nat, NEW precision \in Nat,
         NEW expose \in BOOLEAN
  PROVE  LinearMemory(c, p, s, precision, expose) \in Nat
<1> DEFINE first == IF expose /\ c.expose_first_expert THEN c.page_read ELSE 0
           calls == IF c.weight_stream_ops > 0 THEN c.weight_stream_ops ELSE 1
           stream == FlashTime(c, Weight(s) * precision, c.sram, calls)
<1>1. /\ c.page_read \in Nat /\ c.sram \in Nat /\ c.weight_stream_ops \in Nat
      /\ "GPU" \in Processors
  BY DEF SystemConfig, Processors
<1>2. /\ Weight(s) * precision \in Nat /\ Act(s) * precision \in Nat
      /\ (Weight(s) + Act(s)) * precision \in Nat
  BY Product
<1>3. calls \in Nat \ {0} /\ first \in Nat
  BY <1>1
<1> HIDE DEF calls, first
<1>4. stream \in Nat /\ ActTime(c, Act(s) * precision) \in Nat
  BY <1>1, <1>2, <1>3, TrafficIs
<1>5. (Weight(s) + Act(s)) * precision * Bandwidth(c, p) \in Nat
  <2> DEFINE bytes == (Weight(s) + Act(s)) * precision
  <2>1. bytes \in Nat
    BY <1>2
  <2> HIDE DEF bytes
  <2>2. bytes * Bandwidth(c, p) \in Nat
    BY <2>1, TrafficIs
  <2> QED
    BY <2>2 DEF bytes
<1>6. LinearMemory(c, p, s, precision, expose)
        = IF c.use_hbf
          THEN Longer(stream + first, ActTime(c, Act(s) * precision))
          ELSE (Weight(s) + Act(s)) * precision * Bandwidth(c, p)
  BY DEF LinearMemory, first, calls
<1> HIDE DEF stream
<1> QED
  BY <1>3, <1>4, <1>5, <1>6 DEF Longer

\* Two requests of the simulator.
LEMMA RamulatorIs ==
  ASSUME NEW c \in SystemConfig, NEW p \in Processors, NEW n \in Nat,
         NEW precision \in Nat
  PROVE  Ramulator(c, p, n, precision) \in Nat
<1>1. c.ram_ticks[p] \in Nat
  BY ConfigFields
<1>2. n * precision \in Nat
  BY Product
<1> QED
  BY <1>1, <1>2, Product DEF Ramulator

LEMMA LinearIs ==
  ASSUME NEW c, Working(c), NEW p \in Processors, NEW rows \in Nat,
         NEW k \in Nat \ {0}, NEW n \in Nat \ {0}, NEW precision \in Nat \ {0},
         NEW expose \in BOOLEAN, NEW cold \in BOOLEAN
  PROVE  Tagged(c, cold, rows,
                LinearCore(c, p, Shape(rows, k, n), precision, expose, cold))
<1> DEFINE s == Shape(rows, k, n)
           flops == 2 * s.m * s.k * s.n * s.heads
           compute == ComputeTime(c, p, precision, flops, s.m)
           memory == IF c.ramulator
                     THEN Ramulator(c, "GPU", Act(s), precision)
                          + Ramulator(c, p, Weight(s), precision)
                     ELSE LinearMemory(c, p, s, precision, expose)
           total == Longer(compute, memory)
           dep == LinearDep(c, s, precision, compute, memory)
           size == (Act(s) + Weight(s)) * precision
<1>1. /\ c \in SystemConfig /\ Computes(c) /\ "GPU" \in Processors
  BY DEF Working, Processors
<1>2. /\ Weight(s) \in Nat \ {0} /\ Act(s) \in Nat
      /\ s.m = rows /\ s.k = k /\ s.n = n /\ s.heads = 1
  BY ShapeIs
<1>3. LinearCore(c, p, s, precision, expose, cold)
        = IF s.m = 0 THEN EmptyStatus
          ELSE [EmptyStatus EXCEPT !.total = total, !.compute = compute,
                  !.dep = Cold(c, cold, total, dep), !.flops = flops,
                  !.size = size]
  BY DEF LinearCore
<1> HIDE DEF s, size
<1>4. CASE rows = 0
  BY <1>2, <1>3, <1>4, NoRows DEF s
<1>5. CASE rows # 0
  <2>1. flops \in Nat /\ flops >= 2
    BY <1>2, <1>5, Twice
  <2> HIDE DEF flops
  <2>2. compute \in Nat \ {0}
    BY <1>1, <1>2, <2>1, ComputeIs
  <2>3. memory \in Nat
    <3>1. /\ Ramulator(c, "GPU", Act(s), precision) \in Nat
          /\ Ramulator(c, p, Weight(s), precision) \in Nat
      BY <1>1, <1>2, RamulatorIs
    <3>2. LinearMemory(c, p, s, precision, expose) \in Nat
      BY <1>1, <1>2, LinearMemoryIs
    <3> QED
      BY <3>1, <3>2
  <2> HIDE DEF compute, memory
  <2>4. total \in Nat \ {0} /\ compute <= total /\ memory <= total
    BY <2>2, <2>3 DEF Longer
  <2>5. dep \in Nat /\ dep <= total
    <3>1. /\ (memory * Act(s)) \div (Weight(s) + Act(s)) \in Nat
          /\ (memory * Act(s)) \div (Weight(s) + Act(s)) <= memory
      BY <1>2, <2>3, Share
    <3>2. dep \in {compute, memory, 0,
                   (memory * Act(s)) \div (Weight(s) + Act(s))}
      BY DEF LinearDep
    <3> HIDE DEF dep, total
    <3> QED
      BY <2>2, <2>3, <2>4, <3>1, <3>2
  <2> HIDE DEF total, dep
  <2>6. LinearCore(c, p, s, precision, expose, cold)
          = [EmptyStatus EXCEPT !.total = total, !.compute = compute,
               !.dep = Cold(c, cold, total, dep), !.flops = flops,
               !.size = size]
    BY <1>2, <1>3, <1>5
  <2>7. rows \in Nat \ {0}
    BY <1>5
  <2>8. Tagged(c, cold, rows,
               [EmptyStatus EXCEPT !.total = total, !.compute = compute,
                  !.dep = Cold(c, cold, total, dep), !.flops = flops,
                  !.size = size])
    BY <1>1, <2>4, <2>5, <2>7, RowsAreTagged
  <2>9. Tagged(c, cold, rows, LinearCore(c, p, s, precision, expose, cold))
    BY <2>6, <2>8
  <2> QED
    BY <2>9 DEF s
<1> QED
  BY <1>4, <1>5

LEMMA ActivationIs ==
  ASSUME NEW c, Working(c), NEW p \in Processors, NEW rows \in Nat,
         NEW n \in Nat \ {0}, NEW precision \in Nat \ {0}, NEW cold \in BOOLEAN
  PROVE  Tagged(c, cold, rows, ActivationCore(c, p, rows, n, precision, cold))
<1> DEFINE size == 3 * rows * n * precision
           compute == ComputeTime(c, p, precision, size, rows)
           memory == IF c.ramulator THEN Ramulator(c, p, 3 * rows * n, precision)
                     ELSE IF c.use_hbf THEN ActTime(c, size)
                     ELSE size * Bandwidth(c, p)
           total == Longer(compute, memory)
<1>1. c \in SystemConfig /\ Computes(c)
  BY DEF Working
<1>2. ActivationCore(c, p, rows, n, precision, cold)
        = IF rows * n = 0 THEN EmptyStatus
          ELSE [EmptyStatus EXCEPT !.total = total, !.compute = compute,
                  !.dep = Cold(c, cold, total, total), !.flops = size,
                  !.size = size]
  BY DEF ActivationCore
<1>3. CASE rows = 0
  <2>1. rows * n = 0
    BY <1>3
  <2> QED
    BY <1>2, <1>3, <2>1, NoRows
<1>4. CASE rows # 0
  <2>1. rows * n # 0
    BY <1>4, NotNone
  <2>2. 3 * rows * n \in Nat /\ 3 * rows * n >= 2
    BY <1>4, Twice
  <2>3. size \in Nat /\ size >= 2
    BY <1>4, Twice
  <2> HIDE DEF size
  <2>4. compute \in Nat \ {0}
    BY <1>1, <2>3, ComputeIs
  <2>5. memory \in Nat
    <3>1. Ramulator(c, p, 3 * rows * n, precision) \in Nat
      BY <1>1, <2>2, RamulatorIs
    <3>2. 0 \in Nat /\ 1 \in Nat \ {0}
      OBVIOUS
    <3>3. ActTime(c, size) \in Nat /\ size * Bandwidth(c, p) \in Nat
      BY <1>1, <2>3, <3>2, TrafficIs
    <3> QED
      BY <3>1, <3>3
  <2> HIDE DEF compute, memory
  <2>6. total \in Nat \ {0} /\ total <= total
    BY <2>4, <2>5 DEF Longer
  <2> HIDE DEF total
  <2>7. ActivationCore(c, p, rows, n, precision, cold)
          = [EmptyStatus EXCEPT !.total = total, !.compute = compute,
               !.dep = Cold(c, cold, total, total), !.flops = size,
               !.size = size]
    BY <1>2, <2>1
  <2>8. rows \in Nat \ {0}
    BY <1>4
  <2>9. Tagged(c, cold, rows,
               [EmptyStatus EXCEPT !.total = total, !.compute = compute,
                  !.dep = Cold(c, cold, total, total), !.flops = size,
                  !.size = size])
    BY <1>1, <2>6, <2>8, RowsAreTagged
  <2> QED
    BY <2>7, <2>9
<1> QED
  BY <1>3, <1>4

\* The page flag of a weight costs something only with flash, where the
\* simulator does not tell the time, and under its switch.
LEMMA ExposeIs ==
  ASSUME NEW c, NEW p, NEW s, NEW precision, NEW cold, NEW expose \in BOOLEAN,
         ~c.expose_first_expert \/ ~c.use_hbf \/ c.ramulator \/ s.m = 0
  PROVE  LinearCore(c, p, s, precision, expose, cold)
           = LinearCore(c, p, s, precision, FALSE, cold)
<1>1. CASE s.m = 0
  BY <1>1 DEF LinearCore
<1>2. CASE c.ramulator
  BY <1>2 DEF LinearCore
<1>3. CASE ~c.expose_first_expert \/ ~c.use_hbf
  <2>1. LinearMemory(c, p, s, precision, expose)
          = LinearMemory(c, p, s, precision, FALSE)
    BY <1>3 DEF LinearMemory
  <2> QED
    BY <2>1 DEF LinearCore
<1> QED
  BY <1>1, <1>2, <1>3
=============================================================================
