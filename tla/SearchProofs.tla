----------------------------- MODULE SearchProofs -----------------------------
(***************************************************************************)
(* Proofs about the batch search of the sweep and the file of results its  *)
(* processes share: types, that what is remembered is what the simulator   *)
(* would return, that no kept result is computed again, and that the       *)
(* answer of a search in which nothing went wrong is on a boundary of its  *)
(* configuration and, where the estimates are bounds, the best.  They hold *)
(* for any number of workers and cells, any estimates and measured times   *)
(* and any number of faults; all but the types and the third need that the *)
(* system kills no run of the simulator.                                   *)
(***************************************************************************)
EXTENDS ConfigSearch, Counting, WellFoundedInduction, SequenceTheorems,
        TLAPS

\* What the simulator returns is a result.
LEMMA SimulatedType ==
  ASSUME NEW key \in Key
  PROVE  Simulated(key) \in Result
<1> DEFINE measured == tpot[key.cell][key.config]
<1>1. measured \in Seq(Nat \ {0}) /\ key.k \in Nat \ {0}
  BY SearchAssumption DEF Key
<1>2. bound[key.cell][key.config] \in {"sram", "flash"}
  BY SearchAssumption DEF Key
<1>3. \A why \in Reasons : Failure(why) \in Result
  BY DEF Failure, Result
<1>4. CASE key.k > Len(measured)
  BY <1>2, <1>3, <1>4 DEF Simulated, Reasons
<1>5. CASE ~(key.k > Len(measured)) /\ measured[key.k] > tpot_slo[key.cell]
  BY <1>3, <1>5 DEF Simulated, Reasons
<1>6. ASSUME NEW t \in Nat
      PROVE  Success(t) \in Result
  BY <1>6 DEF Success, Result, Reasons
<1>7. CASE ~(key.k > Len(measured)) /\ ~(measured[key.k] > tpot_slo[key.cell])
  <2>1. measured[key.k] \in Nat
    BY <1>1, <1>7
  <2> QED BY <2>1, <1>6, <1>7 DEF Simulated
<1> QED BY <1>4, <1>5, <1>7

\* So is what a run makes of it when something goes wrong.
LEMMA OutcomeType ==
  ASSUME NEW key \in Key, NEW fault \in {"none", "raise", "kill"}
  PROVE  Outcome(key, fault) \in Result
<1>1. Failure("_crash") \in Result /\ Failure("OOM/Crash") \in Result
  BY DEF Failure, Result, Reasons
<1> QED BY <1>1, SimulatedType DEF Outcome

\* classify_failure names one of the reasons.
LEMMA ClassifiedType ==
  ASSUME NEW r \in Result
  PROVE  ClassifyFailure(r) \in Reasons
BY DEF ClassifyFailure, Result, Reasons

\* The first probes of a configuration are batches of at least one request.
LEMMA ProbesType ==
  ASSUME NEW line \in Line \cup {AutoLine}
  PROVE  /\ KHint(line) \in Nat \ {0}
         /\ KCap(line) \in Nat \ {0}
<1>1. /\ dp[line.config] \in Nat \ {0}
      /\ line.cap_batch \in Nat /\ line.slo_hint_batch \in Nat
  BY SearchAssumption, ListingAssumption DEF Line, AutoLine
<1>2. \A a \in Nat, b \in Nat \ {0} : a \div b \in Nat
  BY SMT
<1> QED BY <1>1, <1>2, SMT DEF KHint, KCap, AtLeastOne

\* The middle of a bisection is above lo - 1 and at most hi.
LEMMA MiddleIsBetween ==
  ASSUME NEW a \in Nat, NEW b \in Nat, a + 1 <= b
  PROVE  LET mid == (a + 1 + b) \div 2
         IN mid \in Nat \ {0} /\ a < mid /\ mid <= b
BY SMT

\* The result before any is a result.
LEMMA NoFailType == NoFail \in Result
BY DEF NoFail, Failure, Result, Reasons

\* A search begins in its type.
LEMMA NewSearchType ==
  ASSUME NEW c \in Cells \cup {"none"}, NEW lines \in SUBSET Line,
         NEW feasible \in BOOLEAN
  PROVE  NewSearch(c, lines, feasible) \in Search
<1>1. NoBest \in Best
  BY DEF NoBest, Best, Reasons
<1>2. (lines # {} \/ feasible) \in BOOLEAN
  OBVIOUS
<1> QED BY <1>1, <1>2, NoFailType DEF NewSearch, Search

\* A search asks for the result of a proper key.
LEMMA KeyType ==
  ASSUME NEW s \in Search, s.cell \in Cells
  PROVE  KeyOf(s) \in Key
<1>1. s.line.config \in Configs \cup {"auto"}
  BY DEF Search, Line, AutoLine
<1> QED BY <1>1 DEF KeyOf, Key, Search

\* The changes of the locals of a search keep their types.
LEMMA SearchSteps ==
  ASSUME NEW s \in Search
  PROVE  /\ \A line \in Line : Probing(s, line) \in Search
         /\ \A r \in Result : Verified(s, r) \in Search
         /\ \A r \in Result : Refuted(s, r) \in Search
         /\ \A gap \in Nat \ {0} : Widened(s, gap) \in Search
         /\ \A hi \in Nat : ~IsNarrow(s, hi) => Narrowed(s, hi) \in Search
         /\ Settled(s) \in Search
<1> USE DEF Search
<1>1. \A line \in Line : Probing(s, line) \in Search
  BY ProbesType, NoFailType DEF Probing
<1>2. \A r \in Result : Verified(s, r) \in Search
  BY DEF Verified, Result
<1>3. \A r \in Result : Refuted(s, r) \in Search
  BY DEF Refuted
<1>4. ASSUME NEW gap \in Nat \ {0}
      PROVE  Widened(s, gap) \in Search
  <2>1. s.best_k + gap \in Nat \ {0}
    OBVIOUS
  <2> QED BY <2>1 DEF Widened
<1>5. ASSUME NEW hi \in Nat, ~IsNarrow(s, hi)
      PROVE  Narrowed(s, hi) \in Search
  <2>1. (s.best_k + 1 + hi) \div 2 \in Nat \ {0}
    BY <1>5, MiddleIsBetween DEF IsNarrow
  <2> QED BY <2>1, <1>5 DEF Narrowed
<1>6. Settled(s) \in Search
  <2>1. [config |-> s.line.config, k |-> s.best_k, tpot |-> s.tpot,
         reason |-> ClassifyFailure(s.cfg_fail)] \in Best
    BY ClassifiedType DEF Best, Line, AutoLine
  <2> QED BY <2>1 DEF Settled
<1> QED BY <1>1, <1>2, <1>3, <1>4, <1>5, <1>6

\* What a probe that holds changes in the search.
LEMMA VerifiedIs ==
  ASSUME NEW s \in Search, NEW r \in Result
  PROVE  LET v == Verified(s, r)
         IN /\ v \in Search /\ v.cell = s.cell /\ v.line = s.line
            /\ v.best = s.best /\ v.best_k = s.k /\ v.tpot = r.tpot
            /\ v.cfg_fail = s.cfg_fail /\ v.hi = s.hi
<1>1. Verified(s, r) \in Search
  BY SearchSteps
<1> QED BY <1>1 DEF Verified, Search

\* And one that fails.
LEMMA RefutedIs ==
  ASSUME NEW s \in Search, NEW r \in Result
  PROVE  LET f == Refuted(s, r)
         IN /\ f \in Search /\ f.cell = s.cell /\ f.line = s.line
            /\ f.best = s.best /\ f.best_k = s.best_k /\ f.tpot = s.tpot
            /\ f.cfg_fail = r
<1>1. Refuted(s, r) \in Search
  BY SearchSteps
<1> QED BY <1>1 DEF Refuted, Search

----------------------------------------------------------------------------
(***************************************************************************)
(* The text a reader finds, and what its memory becomes                    *)
(***************************************************************************)

\* A finite set of positions has a last one.
LEMMA LastExists ==
  ASSUME NEW n \in Nat, NEW S \in SUBSET (1..n), S # {}
  PROVE  \E i \in S : \A j \in S : j <= i
<1> DEFINE T == {m \in 0..n : n - m \in S}
<1>1. T \in SUBSET Nat /\ T # {}
  <2>1. PICK i \in S : TRUE
    OBVIOUS
  <2>2. n - i \in 0..n /\ n - (n - i) = i
    OBVIOUS
  <2>3. n - i \in T
    BY <2>2
  <2>4. T \subseteq Nat
    OBVIOUS
  <2> QED BY <2>3, <2>4
<1>2. PICK m \in T : \A k \in T : m <= k
  <2>1. PICK m \in T : \A k \in T : <<k, m>> \notin OpToRel(<, Nat)
    BY <1>1, NatLessThanWellFounded, WFMin
  <2>2. ASSUME NEW k \in T
        PROVE  m <= k
    <3>1. ~(k < m)
      BY <1>1, <2>1, <2>2, Zenon DEF OpToRel
    <3> QED BY <1>1, <3>1
  <2> QED BY <2>2
<1>3. ASSUME NEW j \in S
      PROVE  j <= n - m
  <2>1. n - j \in 0..n /\ n - (n - j) = j
    OBVIOUS
  <2>2. m <= n - j
    BY <1>2, <2>1
  <2> QED BY <2>2
<1> QED BY <1>3

\* What a reader remembers was in its memory or is in a line it read.
LEMMA AbsorbedIs ==
  ASSUME NEW m, NEW text \in Seq(Record), NEW from
  PROVE  /\ \A key \in DOMAIN m : key \in DOMAIN Absorbed(m, text, from)
         /\ \A i \in Parsed(text) :
              i > from => text[i].key \in DOMAIN Absorbed(m, text, from)
         /\ \A key \in DOMAIN Absorbed(m, text, from) :
              \/ /\ key \in DOMAIN m
                 /\ Absorbed(m, text, from)[key] = m[key]
              \/ \E i \in Parsed(text) :
                   /\ i > from /\ text[i].key = key
                   /\ Absorbed(m, text, from)[key] = text[i].value
<1> DEFINE new == {i \in Parsed(text) : i > from}
           Of(key) == {i \in new : text[i].key = key}
           Last(key) == CHOOSE i \in Of(key) : \A j \in Of(key) : j <= i
           a == Absorbed(m, text, from)
<1>1. a = [key \in DOMAIN m \cup {text[i].key : i \in new} |->
             IF Of(key) # {} THEN text[Last(key)].value ELSE m[key]]
  BY DEF Absorbed
<1>2. ASSUME NEW key, Of(key) # {}
      PROVE  Last(key) \in Of(key)
  <2>1. Len(text) \in Nat /\ Of(key) \in SUBSET (1..Len(text))
    BY DEF Parsed
  <2>2. \E i \in Of(key) : \A j \in Of(key) : j <= i
    BY <1>2, <2>1, LastExists
  <2> QED BY <2>2
<1>3. ASSUME NEW key \in DOMAIN a
      PROVE  \/ key \in DOMAIN m /\ a[key] = m[key]
             \/ \E i \in Parsed(text) : /\ i > from /\ text[i].key = key
                                        /\ a[key] = text[i].value
  <2>1. CASE Of(key) # {}
    <3>1. a[key] = text[Last(key)].value
      BY <1>1, <1>3, <2>1
    <3>2. Last(key) \in Of(key)
      BY <1>2, <2>1
    <3> QED BY <3>1, <3>2
  <2>2. CASE Of(key) = {}
    <3>1. a[key] = m[key]
      BY <1>1, <1>3, <2>2
    <3>2. key \in DOMAIN m
      BY <1>1, <1>3, <2>2
    <3> QED BY <3>1, <3>2
  <2> QED BY <2>1, <2>2
<1>4. DOMAIN a = DOMAIN m \cup {text[i].key : i \in new}
  BY <1>1
<1>5. /\ \A key \in DOMAIN m : key \in DOMAIN a
      /\ \A i \in Parsed(text) : i > from => text[i].key \in DOMAIN a
  BY <1>4
<1> QED BY <1>3, <1>5

\* A reader finds the file, but for the line that is being written.
LEMMA TextIs ==
  ASSUME TypeOK, NEW text \in Texts
  PROVE  /\ text \in Seq(Record)
         /\ Len(text) \in Nat /\ Len(text) <= Len(simcache)
         /\ \A i \in 1..Len(text) : text[i] = Garbage \/ text[i] = simcache[i]
         /\ \A i \in 1..Len(simcache) :
              i < Len(simcache) \/ writer = "nobody" =>
                i <= Len(text) /\ text[i] = simcache[i]
<1> DEFINE before == SubSeq(simcache, 1, Len(simcache) - 1)
<1>1. simcache \in Seq(Record) /\ Garbage \in Record
  BY DEF TypeOK, Record
<1>2. CASE text = simcache
  BY <1>1, <1>2
<1>3. CASE text # simcache
  <2>1. /\ writer # "nobody"
        /\ text = before \/ text = Append(before, Garbage)
    BY <1>3 DEF Texts
  <2>2. Len(simcache) \in Nat \ {0}
    BY <1>1, <2>1 DEF TypeOK
  <2>3. /\ before \in Seq(Record) /\ Len(before) = Len(simcache) - 1
        /\ \A i \in 1..(Len(simcache) - 1) : before[i] = simcache[i]
    <3>1. 1 \in Int /\ Len(simcache) - 1 \in Int
      BY <2>2
    <3>2. \A i \in 1..(Len(simcache) - 1) : simcache[i] \in Record
      BY <1>1, <2>2
    <3>3. /\ before \in Seq(Record)
          /\ Len(before) = IF 1 <= Len(simcache) - 1
                           THEN Len(simcache) - 1 - 1 + 1 ELSE 0
          /\ \A i \in 1..(Len(simcache) - 1 - 1 + 1) :
               before[i] = simcache[1 + i - 1]
      BY <3>1, <3>2, SubSeqProperties
    <3>4. \A i \in 1..(Len(simcache) - 1) :
            1 + i - 1 = i /\ i \in 1..(Len(simcache) - 1 - 1 + 1)
      BY <2>2
    <3>5. Len(before) = Len(simcache) - 1
      <4>1. /\ Len(simcache) - 1 - 1 + 1 = Len(simcache) - 1
            /\ ~(1 <= Len(simcache) - 1) => Len(simcache) - 1 = 0
        BY <2>2
      <4>2. CASE 1 <= Len(simcache) - 1
        BY <3>3, <4>1, <4>2, Zenon
      <4>3. CASE ~(1 <= Len(simcache) - 1)
        BY <3>3, <4>1, <4>3, Zenon
      <4> QED BY <4>2, <4>3
    <3>6. \A i \in 1..(Len(simcache) - 1) : before[i] = simcache[i]
      BY <3>3, <3>4
    <3> QED BY <3>3, <3>5, <3>6
  <2>4. /\ Append(before, Garbage) \in Seq(Record)
        /\ Len(Append(before, Garbage)) = Len(simcache)
        /\ \A i \in 1..(Len(simcache) - 1) :
             Append(before, Garbage)[i] = simcache[i]
        /\ Append(before, Garbage)[Len(simcache)] = Garbage
    BY <1>1, <2>2, <2>3
  <2>5. CASE text = before
    BY <2>1, <2>2, <2>3, <2>5
  <2>6. CASE text = Append(before, Garbage)
    BY <2>1, <2>2, <2>4, <2>6
  <2> QED BY <2>1, <2>5, <2>6
<1> QED BY <1>2, <1>3

\* A line that is read holds a result for its key.
LEMMA ParsedLines ==
  ASSUME TypeOK, NEW text \in Texts, NEW i \in Parsed(text)
  PROVE  /\ i \in 1..Len(simcache) /\ text[i] = simcache[i]
         /\ simcache[i] # Garbage
         /\ text[i].key \in Key /\ text[i].value \in Result
<1>1. i \in 1..Len(text) /\ text[i] # Garbage
  BY DEF Parsed
<1>2. /\ text \in Seq(Record) /\ Len(text) \in Nat /\ Len(simcache) \in Nat
      /\ Len(text) <= Len(simcache)
      /\ text[i] = simcache[i]
  BY <1>1, TextIs DEF TypeOK
<1>3. text[i] \in [key : Key, value : Result]
  BY <1>1, <1>2 DEF Record
<1> QED BY <1>1, <1>2, <1>3

\* A memory stays one of results when it takes in new lines.
LEMMA AbsorbedType ==
  ASSUME TypeOK, NEW w \in Workers, NEW text \in Texts, NEW from
  PROVE  LET m == Absorbed(mem[w], text, from)
         IN m \in [DOMAIN m -> Result] /\ DOMAIN m \subseteq Key
<1> DEFINE m == Absorbed(mem[w], text, from)
<1>1. /\ mem[w] \in [DOMAIN mem[w] -> Result] /\ DOMAIN mem[w] \subseteq Key
      /\ text \in Seq(Record)
  BY TextIs DEF TypeOK
<1>2. \A i \in Parsed(text) : text[i].key \in Key /\ text[i].value \in Result
  BY ParsedLines
<1>3. \A key \in DOMAIN m :
        \/ key \in DOMAIN mem[w] /\ m[key] = mem[w][key]
        \/ \E i \in Parsed(text) : /\ i > from /\ text[i].key = key
                                   /\ m[key] = text[i].value
  BY <1>1, AbsorbedIs, SMT
<1>4. DOMAIN m \subseteq Key
  BY <1>1, <1>2, <1>3
<1>5. \A key \in DOMAIN m : m[key] \in Result
  <2> TAKE key \in DOMAIN m
  <2>1. CASE key \in DOMAIN mem[w] /\ m[key] = mem[w][key]
    BY <1>1, <2>1
  <2>2. CASE \E i \in Parsed(text) : i > from /\ text[i].key = key
                                     /\ m[key] = text[i].value
    BY <2>2, <1>2
  <2> QED BY <1>3, <2>1, <2>2
<1>6. m = [key \in DOMAIN m |-> m[key]]
  BY DEF Absorbed
<1> QED BY <1>4, <1>5, <1>6

\* A new process remembers nothing.
LEMMA EmptyMemory ==
  DOMAIN <<>> = {} /\ <<>> \in [DOMAIN <<>> -> Result]
OBVIOUS

\* The initial answers are of their types.
LEMMA BestType ==
  /\ NoBest \in Best
  /\ [NoBest EXCEPT !.reason = "worker_crashed"] \in Best
  /\ NoSearch \in Search
  /\ NoAnswer \in [cell : Cells \cup {"none"}, best : Best, hiccup : BOOLEAN]
<1>1. /\ NoBest \in Best
      /\ [NoBest EXCEPT !.reason = "worker_crashed"] \in Best
  BY DEF NoBest, Best, Reasons
<1>2. NoSearch \in Search
  BY NewSearchType, Zenon DEF NoSearch
<1> QED BY <1>1, <1>2 DEF NoAnswer

\* A search stays with its cell.
LEMMA CellKept ==
  ASSUME NEW s \in Search
  PROVE  /\ \A line : Probing(s, line).cell = s.cell
         /\ \A r : Verified(s, r).cell = s.cell
         /\ \A r : Refuted(s, r).cell = s.cell
         /\ \A gap : Widened(s, gap).cell = s.cell
         /\ \A hi : Narrowed(s, hi).cell = s.cell
         /\ Settled(s).cell = s.cell
BY DEF Search, Probing, Verified, Refuted, Widened, Narrowed, Settled

----------------------------------------------------------------------------
(***************************************************************************)
(* Types                                                                   *)
(***************************************************************************)

\* Types hold at first.
LEMMA TypeInit == Init => TypeOK
<1> SUFFICES ASSUME Init PROVE TypeOK
  OBVIOUS
<1> USE DEF Init
<1>1. /\ sweep \in Seq(Cells) /\ phase \in Nat /\ taken \in 0..Len(sweep)
      /\ simcache \in Seq(Record) /\ writer = "nobody" /\ cut = FALSE
  BY SearchAssumption
<1>2. /\ DOMAIN mem = Workers
      /\ \A w \in Workers : /\ mem[w] \in [DOMAIN mem[w] -> Result]
                            /\ DOMAIN mem[w] \subseteq Key
  BY EmptyMemory
<1>3. /\ stage \in [Workers -> Stages] /\ pos \in [Workers -> Nat]
      /\ \A w \in Workers : stage[w] = "idle"
      /\ hiccup \in [Workers -> BOOLEAN] /\ faults \in Nat
  BY DEF Stages
<1>4. search \in [Workers -> Search] /\ res \in [Workers -> Result]
  BY BestType, NoFailType
<1>5. answer \in [Workers -> [cell : Cells \cup {"none"}, best : Best,
                              hiccup : BOOLEAN]]
  BY BestType
<1> QED BY <1>1, <1>2, <1>3, <1>4, <1>5 DEF TypeOK

\* The parts of TypeOK that one action or another disturbs.
SweepType ==
  sweep \in Seq(Cells) /\ phase \in Nat /\ taken \in 0..Len(sweep)
FileType ==
  /\ simcache \in Seq(Record)
  /\ writer \in Workers \cup {"nobody"}
  /\ cut \/ writer # "nobody" => simcache # <<>>
  /\ cut \in BOOLEAN
MemoryType ==
  /\ DOMAIN mem = Workers
  /\ \A w \in Workers : /\ mem[w] \in [DOMAIN mem[w] -> Result]
                         /\ DOMAIN mem[w] \subseteq Key
  /\ pos \in [Workers -> Nat]
StageType ==
  /\ stage \in [Workers -> Stages]
  /\ search \in [Workers -> Search]
  /\ \A w \in Workers : stage[w] # "idle" => search[w].cell \in Cells
ResultType ==
  /\ res \in [Workers -> Result]
  /\ hiccup \in [Workers -> BOOLEAN]
  /\ answer \in [Workers -> [cell : Cells \cup {"none"}, best : Best,
                             hiccup : BOOLEAN]]
  /\ faults \in Nat

\* TypeOK is the conjunction of its parts.
LEMMA TypeParts ==
  /\ TypeOK <=> /\ SweepType /\ FileType /\ MemoryType /\ StageType
                /\ ResultType
  /\ TypeOK' <=> /\ SweepType' /\ FileType' /\ MemoryType' /\ StageType'
                 /\ ResultType'
BY Zenon DEF TypeOK, SweepType, FileType, MemoryType, StageType, ResultType

\* What a worker's step makes of its stage and its search is of its type.
LEMMA StageStep ==
  ASSUME StageType, NEW w \in Workers, NEW s \in Search, s.cell \in Cells,
         NEW g \in Stages,
         search' = [search EXCEPT ![w] = s], stage' = [stage EXCEPT ![w] = g]
  PROVE  StageType'
BY DEF StageType

\* Returning an answer keeps the types.
LEMMA AnswerStep ==
  ASSUME StageType, ResultType, NEW w \in Workers, NEW best \in Best,
         search[w].cell \in Cells, Answer(w, best), faults' = faults
  PROVE  StageType' /\ ResultType'
<1>1. StageType'
  BY BestType DEF Answer, StageType, Stages
<1>2. ResultType'
  BY NoFailType DEF Answer, ResultType
<1> QED BY <1>1, <1>2

\* A fault is none or one of the kinds that may happen.
LEMMA FaultIs ==
  ASSUME NEW kinds, NEW fault \in Fault(kinds)
  PROVE  fault = "none" \/ fault \in kinds \cap Faults
BY DEF Fault

\* Worker w goes on with a search of the same type.
MovesOn(w) ==
  \E s \in Search, g \in Stages :
    /\ s.cell \in Cells
    /\ search' = [search EXCEPT ![w] = s]
    /\ stage' = [stage EXCEPT ![w] = g]

\* What follows from a probe leaves a search of the same cell.
LEMMA AfterProbe ==
  ASSUME NEW w \in Workers, search[w] \in Search, search[w].cell \in Cells,
         res[w] \in Result,
         \/ HintHolds(w) \/ CapHolds(w) \/ WidenHolds(w)
         \/ BisectHolds(w) \/ ProbeFails(w)
  PROVE  MovesOn(w)
<1>1. "lookup" \in Stages /\ "next" \in Stages
  BY DEF Stages
<1>2. ASSUME NEW s \in Search, s.cell \in Cells, ToProbe(w, s)
      PROVE  MovesOn(w)
  BY <1>1, <1>2 DEF ToProbe, MovesOn
<1>3. ASSUME NEW s \in Search, s.cell \in Cells, NEW hi \in Nat, Bisect(w, s, hi)
      PROVE  MovesOn(w)
  <2>1. CASE ~IsNarrow(s, hi) /\ ToProbe(w, Narrowed(s, hi))
    <3>1. Narrowed(s, hi) \in Search /\ Narrowed(s, hi).cell \in Cells
      BY <1>3, <2>1, SearchSteps, CellKept
    <3> QED BY <1>2, <2>1, <3>1
  <2>2. CASE /\ search' = [search EXCEPT ![w] = Settled(s)]
             /\ stage' = [stage EXCEPT ![w] = "next"]
    <3>1. Settled(s) \in Search /\ Settled(s).cell \in Cells
      BY <1>3, SearchSteps, CellKept
    <3> QED BY <1>1, <2>2, <3>1 DEF MovesOn
  <2> QED BY <1>3, <2>1, <2>2 DEF Bisect
<1> DEFINE v == Verified(search[w], res[w])
           f == Refuted(search[w], res[w])
<1>4. /\ v \in Search /\ v.cell \in Cells
      /\ f \in Search /\ f.cell \in Cells
  BY SearchSteps, CellKept
<1> HIDE DEF v, f
<1>5. \A gap \in Nat \ {0} : Widened(v, gap) \in Search /\ Widened(v, gap).cell \in Cells
  BY <1>4, SearchSteps, CellKept
<1>6. /\ search[w].gap \in Nat \ {0} /\ 2 * search[w].gap \in Nat \ {0}
      /\ search[w].hi \in Nat /\ search[w].k - 1 \in Nat
  BY DEF Search
<1>7. CASE HintHolds(w)
  <2>1. CASE ToProbe(w, [v EXCEPT !.probe = "cap", !.k = KCap(v.line)])
    <3>1. KCap(v.line) \in Nat \ {0}
      BY <1>4, ProbesType DEF Search
    <3>2. /\ [v EXCEPT !.probe = "cap", !.k = KCap(v.line)] \in Search
          /\ [v EXCEPT !.probe = "cap", !.k = KCap(v.line)].cell \in Cells
      BY <1>4, <3>1 DEF Search
    <3> QED BY <1>2, <2>1, <3>2
  <2>2. CASE ToProbe(w, Widened(v, 1))
    BY <1>2, <1>5, <2>2
  <2> QED BY <1>7, <2>1, <2>2 DEF HintHolds, v
<1>8. CASE CapHolds(w)
  BY <1>2, <1>5, <1>8 DEF CapHolds, v
<1>9. CASE WidenHolds(w)
  BY <1>2, <1>5, <1>6, <1>9 DEF WidenHolds, v
<1>10. CASE BisectHolds(w)
  BY <1>3, <1>4, <1>6, <1>10 DEF BisectHolds, v
<1>11. CASE ProbeFails(w)
  BY <1>3, <1>4, <1>6, <1>11 DEF ProbeFails, f
<1> QED BY <1>7, <1>8, <1>9, <1>10, <1>11

\* Every step keeps every variable in its type.
LEMMA TypeStep == TypeOK /\ [Next]_vars => TypeOK'
<1> SUFFICES ASSUME TypeOK, [Next]_vars PROVE TypeOK'
  OBVIOUS
<1>1. SweepType /\ FileType /\ MemoryType /\ StageType /\ ResultType
  BY TypeParts
<1> SUFFICES SweepType' /\ FileType' /\ MemoryType' /\ StageType' /\ ResultType'
  BY TypeParts
<1>2. ASSUME UNCHANGED sweepVars PROVE SweepType'
  BY <1>1, <1>2 DEF SweepType, sweepVars
<1>3. ASSUME UNCHANGED <<simcache, writer, cut>> PROVE FileType'
  BY <1>1, <1>3 DEF FileType
<1>4. ASSUME UNCHANGED <<mem, pos>> PROVE MemoryType'
  BY <1>1, <1>4 DEF MemoryType
<1>5. ASSUME UNCHANGED cacheVars
      PROVE  SweepType' /\ FileType' /\ MemoryType'
  BY <1>2, <1>3, <1>4, <1>5 DEF cacheVars
<1>6. ASSUME UNCHANGED <<res, hiccup, answer, faults>> PROVE ResultType'
  BY <1>1, <1>6 DEF ResultType
<1>7. ASSUME NEW w \in Workers, stage[w] # "idle"
      PROVE  search[w] \in Search /\ search[w].cell \in Cells
  BY <1>1, <1>7 DEF StageType
<1>8. ASSUME NEW w \in Workers PROVE res[w] \in Result
  BY <1>1 DEF ResultType
<1>9. {"idle", "next", "lookup", "run", "write", "back"} = Stages
  BY DEF Stages
<1>10. ASSUME NEW w \in Workers, Start(w) PROVE TypeOK'
  <2>9. PICK fault \in Fault({"raise", "kill"}) :
          /\ \E out \in Printed(sweep[taken + 1], fault) :
               search' = [search EXCEPT ![w] =
                            NewSearch(sweep[taken + 1], out[1], out[2])]
          /\ hiccup' = [hiccup EXCEPT ![w] = fault # "none"]
          /\ Count(fault)
    BY <1>10, Zenon DEF Start
  <2>1. PICK out \in Printed(sweep[taken + 1], fault) :
          search' = [search EXCEPT ![w] =
                       NewSearch(sweep[taken + 1], out[1], out[2])]
    BY <2>9
  <2>2. sweep[taken + 1] \in Cells /\ SweepType'
    BY <1>1, <1>10 DEF SweepType, Start
  <2>3. out[1] \in SUBSET Line /\ out[2] \in BOOLEAN
    <3>1. listing[sweep[taken + 1]] \in SUBSET Line
      BY <2>2, SearchAssumption
    <3>2. CapFeasibleAt1(sweep[taken + 1]) \in BOOLEAN
      BY DEF CapFeasibleAt1
    <3>3. fault \in {"none", "raise", "kill"}
      BY FaultIs
    <3>4. CASE fault \in {"none", "raise"}
      <4> DEFINE L == listing[sweep[taken + 1]]
                 F == CapFeasibleAt1(sweep[taken + 1])
      <4>1. \/ out = <<L, F>>
            \/ out = <<{}, FALSE>>
        BY <3>4 DEF Printed
      <4>2. F \in BOOLEAN /\ FALSE \in BOOLEAN
        BY <3>2
      <4> HIDE DEF L, F
      <4>3. \A a \in {L, {}}, b \in BOOLEAN : <<a, b>> \in {L, {}} \X BOOLEAN
        OBVIOUS
      <4>4. out \in {L, {}} \X BOOLEAN
        BY <4>1, <4>2, <4>3, Zenon
      <4>5. (out[1] = L \/ out[1] = {}) /\ out[2] \in BOOLEAN
        BY <4>4
      <4> USE DEF L
      <4> QED BY <3>1, <4>5
    <3>5. CASE fault = "kill"
      <4>1. out \in (SUBSET listing[sweep[taken + 1]])
                      \X {FALSE, CapFeasibleAt1(sweep[taken + 1])}
        BY <3>5 DEF Printed
      <4>2. out[1] \in SUBSET listing[sweep[taken + 1]] /\ out[2] \in BOOLEAN
        BY <3>2, <4>1
      <4> QED BY <3>1, <4>2
    <3> QED BY <3>3, <3>4, <3>5
  <2>4. LET s == NewSearch(sweep[taken + 1], out[1], out[2])
        IN s \in Search /\ s.cell = sweep[taken + 1]
    BY <2>2, <2>3, NewSearchType, Zenon DEF NewSearch
  <2>5. stage' = [stage EXCEPT ![w] = "next"]
    BY <1>10 DEF Start
  <2>6. StageType'
    BY <1>1, <1>9, <2>1, <2>2, <2>4, <2>5, StageStep
  <2>7. ResultType'
    BY <1>1, <1>10, <2>9, BestType DEF Start, ResultType, Count
  <2>8. FileType' /\ MemoryType'
    BY <1>3, <1>4, <1>10 DEF Start
  <2> QED BY <2>2, <2>6, <2>7, <2>8, TypeParts
<1>11. ASSUME NEW w \in Workers, Prune(w) \/ Probe(w) \/ FallBack(w)
       PROVE  TypeOK'
  <2>1. /\ UNCHANGED cacheVars /\ UNCHANGED <<res, hiccup, answer, faults>>
        /\ stage[w] # "idle"
    BY <1>11 DEF Prune, Probe, FallBack
  <2>2. \A line \in Foremost(search[w].todo) : line \in Line
    BY <1>7, <2>1 DEF Foremost, Search
  <2>3. StageType'
    <3>1. ASSUME Prune(w) PROVE StageType'
      BY <1>1, <1>7, <2>1, <3>1 DEF Prune, StageType, Search
    <3>2. ASSUME Probe(w) PROVE StageType'
      <4>1. PICK line \in Foremost(search[w].todo) :
              search' = [search EXCEPT ![w] = Probing(search[w], line)]
        BY <3>2, Zenon DEF Probe
      <4>2. /\ Probing(search[w], line) \in Search
            /\ Probing(search[w], line).cell \in Cells
        BY <1>7, <2>1, <2>2, SearchSteps, CellKept
      <4>3. stage' = [stage EXCEPT ![w] = "lookup"]
        BY <3>2 DEF Probe
      <4> QED BY <1>1, <1>9, <4>1, <4>2, <4>3, StageStep
    <3>3. ASSUME FallBack(w) PROVE StageType'
      <4> DEFINE s == [search[w] EXCEPT !.line = AutoLine, !.probe = "auto",
                                        !.k = 1]
      <4>1. AutoLine \in Line \cup {AutoLine} /\ 1 \in Nat \ {0}
        OBVIOUS
      <4>3. \A line \in Line \cup {AutoLine}, k \in Nat \ {0} :
              LET t == [search[w] EXCEPT !.line = line, !.probe = "auto", !.k = k]
              IN t \in Search /\ t.cell \in Cells
        BY <1>7, <2>1 DEF Search
      <4>4. s \in Search /\ s.cell \in Cells
        BY <4>1, <4>3, Zenon
      <4>2. /\ search' = [search EXCEPT ![w] = s]
            /\ stage' = [stage EXCEPT ![w] = "lookup"]
        BY <3>3, <1>1 DEF FallBack, StageType
      <4> QED BY <1>1, <1>9, <4>2, <4>4, StageStep
    <3> QED BY <1>11, <3>1, <3>2, <3>3
  <2> QED BY <1>5, <1>6, <2>1, <2>3, TypeParts
<1>12. ASSUME NEW w \in Workers, ReportBest(w) \/ ReportNone(w) \/ FallbackEnds(w)
       PROVE  TypeOK'
  <2>1. UNCHANGED cacheVars /\ faults' = faults /\ stage[w] # "idle"
    BY <1>12 DEF ReportBest, ReportNone, FallbackEnds
  <2>2. search[w] \in Search /\ search[w].cell \in Cells
    BY <1>7, <2>1
  <2>3. PICK best \in Best : Answer(w, best)
    <3>1. CASE ReportBest(w) \/ ReportNone(w)
      BY <2>2, <3>1, BestType DEF ReportBest, ReportNone, Search
    <3>2. CASE FallbackEnds(w)
      <4> DEFINE s == IF res[w].success THEN search[w]
                      ELSE Refuted(search[w], res[w])
                 best == [config |-> "auto", k |-> IF res[w].success THEN 1 ELSE 0,
                          tpot |-> res[w].tpot,
                          reason |-> ClassifyFailure(s.last_fail)]
      <4>1. s \in Search
        BY <1>8, <2>2, SearchSteps
      <4>2. ClassifyFailure(s.last_fail) \in Reasons
        BY <4>1, ClassifiedType DEF Search
      <4>3. best \in Best
        BY <1>8, <4>2 DEF Best, Result
      <4>4. Answer(w, best)
        BY <3>2, Zenon DEF FallbackEnds
      <4> QED BY <4>3, <4>4
    <3> QED BY <1>12, <3>1, <3>2
  <2>4. StageType' /\ ResultType'
    BY <1>1, <2>1, <2>2, <2>3, AnswerStep
  <2> QED BY <1>5, <2>1, <2>4, TypeParts
<1>13. ASSUME NEW w \in Workers, Recall(w) PROVE TypeOK'
  <2>1. StageType'
    BY <1>1, <1>9, <1>13 DEF Recall, StageType
  <2>2. ResultType'
    BY <1>1, <1>13 DEF Recall, ResultType, MemoryType
  <2> QED BY <1>5, <1>13, <2>1, <2>2, TypeParts DEF Recall
<1>14. ASSUME NEW w \in Workers, Refresh(w) PROVE TypeOK'
  <2>1. PICK text \in Texts :
          /\ mem' = [mem EXCEPT ![w] = Absorbed(@, text, pos[w])]
          /\ pos' = [pos EXCEPT ![w] = Position(text, @)]
    BY <1>14, Zenon DEF Refresh
  <2>2. MemoryType'
    <3>1. Position(text, pos[w]) \in Nat
      BY <1>1, TextIs DEF Position, MemoryType
    <3>2. pos' \in [Workers -> Nat]
      BY <1>1, <2>1, <3>1 DEF MemoryType
    <3>3. LET m == Absorbed(mem[w], text, pos[w])
          IN m \in [DOMAIN m -> Result] /\ DOMAIN m \subseteq Key
      BY AbsorbedType
    <3> QED BY <1>1, <2>1, <3>2, <3>3 DEF MemoryType
  <2>3. StageType'
    BY <1>1, <1>9, <1>14 DEF Refresh, StageType
  <2>4. res' \in [Workers -> Result]
    <3>1. CASE res' = res
      BY <1>1, <3>1 DEF ResultType
    <3>2. CASE /\ KeyOf(search[w]) \in DOMAIN mem'[w]
               /\ res' = [res EXCEPT ![w] = mem'[w][KeyOf(search[w])]]
      BY <1>1, <2>2, <3>2 DEF ResultType, MemoryType
    <3> QED BY <1>14, <3>1, <3>2, Zenon DEF Refresh
  <2>5. ResultType'
    BY <1>1, <1>14, <2>4 DEF Refresh, ResultType
  <2>6. SweepType' /\ FileType'
    BY <1>2, <1>3, <1>14 DEF Refresh
  <2> QED BY <2>2, <2>3, <2>5, <2>6, TypeParts
<1>15. ASSUME NEW w \in Workers, RunEnds(w) PROVE TypeOK'
  <2> DEFINE key == KeyOf(search[w])
  <2>1. PICK fault \in Fault({"raise", "kill"}) :
          LET r == Outcome(key, fault)
          IN /\ res' = [res EXCEPT ![w] = r]
             /\ hiccup' = [hiccup EXCEPT ![w] = @ \/ fault # "none"]
             /\ Count(fault)
             /\ \/ /\ mem' = [mem EXCEPT ![w] =
                        [k \in DOMAIN mem[w] \cup {key} |->
                           IF k = key THEN r ELSE mem[w][k]]]
                   /\ simcache' = Written([key |-> key, value |-> r])
                   /\ writer' = w
                   /\ stage' = [stage EXCEPT ![w] = "write"]
                \/ /\ stage' = [stage EXCEPT ![w] = "back"]
                   /\ UNCHANGED <<mem, simcache, writer>>
    BY <1>15, Zenon DEF RunEnds
  <2> DEFINE r == Outcome(key, fault)
  <2>2. stage[w] # "idle" /\ UNCHANGED <<sweepVars, cut, pos, search, answer>>
    BY <1>15 DEF RunEnds
  <2>3. key \in Key
    BY <1>7, <2>2, KeyType
  <2>4. r \in Result
    BY <2>3, FaultIs, OutcomeType
  <2>5. ResultType'
    BY <1>1, <2>1, <2>2, <2>4 DEF ResultType, Count
  <2>6. StageType'
    BY <1>1, <1>9, <2>1, <2>2 DEF StageType
  <2> HIDE DEF key, r
  <2>7. FileType'
    <3>1. CASE UNCHANGED <<simcache, writer>>
      BY <1>3, <2>2, <3>1
    <3>2. CASE simcache' = Written([key |-> key, value |-> r]) /\ writer' = w
      <4>1. [key |-> key, value |-> r] \in Record
        BY <2>3, <2>4 DEF Record
      <4>2. simcache' \in Seq(Record) /\ simcache' # <<>>
        BY <1>1, <3>2, <4>1 DEF FileType, Written
      <4> QED BY <1>1, <2>2, <3>2, <4>2 DEF FileType
    <3> QED BY <2>1, <3>1, <3>2 DEF key, r
  <2>8. MemoryType'
    <3>1. CASE UNCHANGED mem
      BY <1>4, <2>2, <3>1
    <3>2. CASE mem' = [mem EXCEPT ![w] =
                         [k \in DOMAIN mem[w] \cup {key} |->
                            IF k = key THEN r ELSE mem[w][k]]]
      BY <1>1, <2>2, <2>3, <2>4, <3>2 DEF MemoryType
    <3> QED BY <2>1, <3>1, <3>2 DEF key, r
  <2> QED BY <1>2, <2>2, <2>5, <2>6, <2>7, <2>8, TypeParts
<1>16. ASSUME NEW w \in Workers, WriteEnds(w) PROVE TypeOK'
  <2>1. StageType'
    BY <1>1, <1>9, <1>16 DEF WriteEnds, StageType
  <2>2. FileType'
    BY <1>1, <1>16 DEF WriteEnds, FileType
  <2> QED BY <1>2, <1>4, <1>6, <1>16, <2>1, <2>2, TypeParts DEF WriteEnds
<1>17. ASSUME NEW w \in Workers,
              \/ HintHolds(w) \/ CapHolds(w) \/ WidenHolds(w)
              \/ BisectHolds(w) \/ ProbeFails(w)
       PROVE  TypeOK'
  <2>1. /\ UNCHANGED cacheVars /\ UNCHANGED <<res, hiccup, answer, faults>>
        /\ stage[w] # "idle"
    BY <1>17 DEF HintHolds, CapHolds, WidenHolds, BisectHolds, ProbeFails
  <2>2. /\ search[w] \in Search /\ search[w].cell \in Cells
        /\ res[w] \in Result
    BY <1>7, <1>8, <2>1
  <2>3. PICK s \in Search, g \in Stages :
          /\ s.cell \in Cells
          /\ search' = [search EXCEPT ![w] = s]
          /\ stage' = [stage EXCEPT ![w] = g]
    BY <1>17, <2>2, AfterProbe, Zenon DEF MovesOn
  <2>4. StageType'
    BY <1>1, <2>3, StageStep
  <2> QED BY <1>5, <1>6, <2>1, <2>4, TypeParts
<1>18. ASSUME NextPhase PROVE TypeOK'
  <2>1. SweepType'
    BY <1>1, <1>18 DEF NextPhase, SweepType
  <2>2. MemoryType'
    BY <1>18, EmptyMemory DEF NextPhase, NewProcesses, MemoryType
  <2>3. StageType'
    BY <1>1, <1>18 DEF NextPhase, StageType
  <2> QED BY <1>3, <1>6, <1>18, <2>1, <2>2, <2>3, TypeParts DEF NextPhase
<1>19. ASSUME PoolBreaks PROVE TypeOK'
  <2>1. SweepType'
    BY <1>1, <1>19 DEF PoolBreaks, SweepType
  <2>2. MemoryType'
    BY <1>19, EmptyMemory DEF PoolBreaks, NewProcesses, MemoryType
  <2>3. StageType'
    BY <1>19, BestType DEF PoolBreaks, StageType, Stages
  <2>4. FileType'
    <3>1. ASSUME writer # "nobody"
          PROVE  /\ [simcache EXCEPT ![Len(simcache)] = Garbage] \in Seq(Record)
                 /\ [simcache EXCEPT ![Len(simcache)] = Garbage] # <<>>
      <4>1. simcache \in Seq(Record) /\ simcache # <<>> /\ Garbage \in Record
        BY <1>1, <3>1 DEF FileType, Record
      <4>2. Len(simcache) \in 1..Len(simcache)
        BY <4>1
      <4>3. /\ [simcache EXCEPT ![Len(simcache)] = Garbage] \in Seq(Record)
            /\ Len([simcache EXCEPT ![Len(simcache)] = Garbage]) = Len(simcache)
        BY <4>1, <4>2, ExceptSeq
      <4> QED BY <4>2, <4>3
    <3> QED BY <1>1, <1>19, <3>1 DEF PoolBreaks, FileType
  <2>5. ResultType'
    <3>1. /\ res' \in [Workers -> Result] /\ hiccup' \in [Workers -> BOOLEAN]
          /\ faults' \in Nat
      BY <1>1, <1>19, NoFailType DEF PoolBreaks, ResultType, Count
    <3>2. answer' \in [Workers -> [cell : Cells \cup {"none"}, best : Best,
                                   hiccup : BOOLEAN]]
      BY <1>1, <1>7, <1>19, BestType DEF PoolBreaks, ResultType
    <3> QED BY <3>1, <3>2 DEF ResultType
  <2> QED BY <2>1, <2>2, <2>3, <2>4, <2>5, TypeParts
<1>20. ASSUME UNCHANGED vars PROVE TypeOK'
  <2>1. StageType'
    BY <1>1, <1>20 DEF vars, StageType
  <2> QED BY <1>2, <1>3, <1>4, <1>6, <1>20, <2>1, TypeParts DEF vars, sweepVars
<1> QED BY <1>10, <1>11, <1>12, <1>13, <1>14, <1>15, <1>16, <1>17, <1>18, <1>19,
           <1>20, TypeParts DEF Next, Step, Terminating

\* Every variable holds a value of its type in every state of the sweep
\* (find_max_batch_size, run_simulation, the _sim_cache functions).
THEOREM TypeCorrect == Spec => []TypeOK
<1>1. Init => TypeOK
  BY TypeInit
<1>2. TypeOK /\ [Next]_vars => TypeOK'
  BY TypeStep
<1> QED BY <1>1, <1>2, PTL DEF Spec

----------------------------------------------------------------------------
(***************************************************************************)
(* What is remembered                                                      *)
(***************************************************************************)

\* The steps that change the file of results or a worker's memory.
LEMMA CacheSteps ==
  ASSUME [Next]_vars
  PROVE  \/ UNCHANGED <<simcache, mem, pos>>
         \/ \E w \in Workers : Refresh(w) \/ RunEnds(w)
         \/ NextPhase \/ PoolBreaks
<1>1. ASSUME NEW w \in Workers,
             \/ Start(w) \/ Prune(w) \/ Probe(w)
             \/ ReportBest(w) \/ ReportNone(w) \/ FallBack(w)
             \/ Recall(w) \/ WriteEnds(w)
             \/ HintHolds(w) \/ CapHolds(w) \/ WidenHolds(w) \/ BisectHolds(w)
             \/ ProbeFails(w) \/ FallbackEnds(w)
      PROVE  UNCHANGED <<simcache, mem, pos>>
  <2>1. CASE Start(w)
    BY <2>1 DEF Start
  <2>2. CASE Prune(w) \/ Probe(w) \/ FallBack(w)
    BY <2>2 DEF Prune, Probe, FallBack, cacheVars
  <2>3. CASE ReportBest(w) \/ ReportNone(w) \/ FallbackEnds(w)
    BY <2>3 DEF ReportBest, ReportNone, FallbackEnds, cacheVars
  <2>4. CASE Recall(w) \/ WriteEnds(w)
    BY <2>4 DEF Recall, WriteEnds, cacheVars
  <2>5. CASE \/ HintHolds(w) \/ CapHolds(w) \/ WidenHolds(w) \/ BisectHolds(w)
             \/ ProbeFails(w)
    BY <2>5 DEF HintHolds, CapHolds, WidenHolds, BisectHolds, ProbeFails, cacheVars
  <2> QED BY <1>1, <2>1, <2>2, <2>3, <2>4, <2>5
<1>2. CASE UNCHANGED vars
  BY <1>2 DEF vars
<1> QED BY <1>1, <1>2 DEF Next, Step, Terminating

\* The lines of the file after a record is written.
LEMMA LinesWritten ==
  ASSUME TypeOK, NEW rec, simcache' = simcache \/ simcache' = Written(rec)
  PROVE  /\ \A i \in 1..Len(simcache) :
              i \in 1..Len(simcache') /\ simcache'[i] = simcache[i]
         /\ \A i \in 1..Len(simcache') :
              \/ i \in 1..Len(simcache) /\ simcache'[i] = simcache[i]
              \/ simcache' = Written(rec) /\ simcache'[i] = rec
<1>1. Len(simcache) \in Nat
  BY DEF TypeOK
<1>2. CASE simcache' = simcache
  BY <1>2
<1>3. CASE simcache' = Written(rec) /\ simcache' # simcache
  <2>1. simcache \in Seq(Record \cup {rec})
    BY DEF TypeOK
  <2>2. simcache' = Append(simcache, rec)
    BY <1>3, Zenon DEF Written
  <2>3. /\ Len(simcache') = Len(simcache) + 1
        /\ \A i \in 1..Len(simcache) : simcache'[i] = simcache[i]
        /\ simcache'[Len(simcache) + 1] = rec
    BY <2>1, <2>2, AppendProperties
  <2>4. /\ \A i \in 1..Len(simcache') :
             i \in 1..Len(simcache) \/ i = Len(simcache) + 1
        /\ \A i \in 1..Len(simcache) : i \in 1..Len(simcache')
    BY <1>1, <2>3
  <2> QED BY <1>3, <2>3, <2>4, Zenon
<1> QED BY <1>2, <1>3

\* A process that dies leaves the lines as they were, or cuts the last short.
LEMMA LinesAfterDeath ==
  ASSUME TypeOK, PoolBreaks, NEW i \in 1..Len(simcache')
  PROVE  \/ simcache'[i] = Garbage
         \/ i \in 1..Len(simcache) /\ simcache'[i] = simcache[i]
<1>1. simcache \in Seq(Record) /\ Len(simcache) \in Nat
  BY DEF TypeOK
<1>2. CASE simcache' = simcache
  BY <1>2
<1>3. CASE /\ writer # "nobody"
           /\ simcache' = [simcache EXCEPT ![Len(simcache)] = Garbage]
  <2>1. simcache # <<>> /\ Garbage \in Record
    BY <1>3 DEF TypeOK, Record
  <2>2. Len(simcache) \in 1..Len(simcache)
    BY <1>1, <2>1
  <2>3. /\ Len(simcache') = Len(simcache)
        /\ \A j \in 1..Len(simcache) :
             simcache'[j] = IF j = Len(simcache) THEN Garbage ELSE simcache[j]
    BY <1>1, <1>3, <2>1, <2>2, ExceptSeq
  <2> QED BY <2>3
<1> QED BY <1>2, <1>3, Zenon DEF PoolBreaks

\* What a run of the simulator leaves behind.
LEMMA RunLeaves ==
  ASSUME NEW w \in Workers, RunEnds(w)
  PROVE  \E fault \in Fault({"raise", "kill"}) :
           LET key == KeyOf(search[w])
               r == Outcome(key, fault)
           IN /\ res' = [res EXCEPT ![w] = r]
              /\ hiccup' = [hiccup EXCEPT ![w] = @ \/ fault # "none"]
              /\ \/ /\ Cacheable(r)
                    /\ mem' = [mem EXCEPT ![w] =
                         [k \in DOMAIN mem[w] \cup {key} |->
                            IF k = key THEN r ELSE mem[w][k]]]
                    /\ simcache' = Written([key |-> key, value |-> r])
                    /\ stage' = [stage EXCEPT ![w] = "write"]
                 \/ /\ UNCHANGED <<mem, simcache>>
                    /\ stage' = [stage EXCEPT ![w] = "back"]
BY Zenon DEF RunEnds

\* Nothing is remembered at first.
LEMMA TrueInit == Init => HitsAreTrue
<1> SUFFICES ASSUME Init PROVE HitsAreTrue
  OBVIOUS
<1>1. \A w \in Workers : mem[w] = <<>>
  BY DEF Init
<1>2. Len(simcache) = 0
  BY DEF Init
<1> QED BY <1>1, <1>2, EmptyMemory DEF HitsAreTrue

\* Only what the simulator returns is added to what is remembered.
LEMMA TrueStep ==
  ASSUME "kill" \notin Faults, TypeOK, HitsAreTrue, [Next]_vars
  PROVE  HitsAreTrue'
<1>1. \A key : Simulated(key)' = Simulated(key)
  BY DEF Simulated, Failure, Success
<1>2. CASE UNCHANGED <<simcache, mem, pos>>
  BY <1>1, <1>2 DEF HitsAreTrue
<1>3. ASSUME NEW w \in Workers, Refresh(w)
      PROVE  HitsAreTrue'
  <2>1. PICK text \in Texts : mem' = [mem EXCEPT ![w] = Absorbed(@, text, pos[w])]
    BY <1>3, Zenon DEF Refresh
  <2>2. \A i \in Parsed(text) : text[i].value = Simulated(text[i].key)
    BY ParsedLines, Zenon DEF HitsAreTrue
  <2>3. ASSUME NEW key \in DOMAIN Absorbed(mem[w], text, pos[w])
        PROVE  Absorbed(mem[w], text, pos[w])[key] = Simulated(key)
    <3>1. text \in Seq(Record)
      BY TextIs
    <3> QED BY <2>2, <2>3, <3>1, AbsorbedIs DEF HitsAreTrue
  <2>4. DOMAIN mem = Workers /\ simcache' = simcache
    BY <1>3 DEF TypeOK, Refresh
  <2> QED BY <1>1, <2>1, <2>3, <2>4 DEF HitsAreTrue
<1>4. ASSUME NEW w \in Workers, RunEnds(w)
      PROVE  HitsAreTrue'
  <2> DEFINE key == KeyOf(search[w])
             r(fault) == Outcome(key, fault)
  <2>1. PICK fault \in Fault({"raise", "kill"}) :
          \/ /\ Cacheable(r(fault))
             /\ mem' = [mem EXCEPT ![w] =
                  [k \in DOMAIN mem[w] \cup {key} |->
                     IF k = key THEN r(fault) ELSE mem[w][k]]]
             /\ simcache' = Written([key |-> key, value |-> r(fault)])
          \/ UNCHANGED <<mem, simcache>>
    BY <1>4, RunLeaves, Zenon
  <2>2. CASE UNCHANGED <<mem, simcache>>
    BY <1>1, <2>2 DEF HitsAreTrue
  <2>3. CASE /\ Cacheable(r(fault))
             /\ mem' = [mem EXCEPT ![w] =
                  [k \in DOMAIN mem[w] \cup {key} |->
                     IF k = key THEN r(fault) ELSE mem[w][k]]]
             /\ simcache' = Written([key |-> key, value |-> r(fault)])
    <3>1. fault \in {"none", "raise"}
      BY FaultIs
    <3>2. r(fault) = Simulated(key)
      BY <2>3, <3>1 DEF Outcome, Cacheable, Failure
    <3> HIDE DEF key, r
    <3> DEFINE rec == [key |-> key, value |-> r(fault)]
    <3>3. \A i \in 1..Len(simcache') :
            \/ i \in 1..Len(simcache) /\ simcache'[i] = simcache[i]
            \/ simcache'[i] = rec
      BY <2>3, LinesWritten
    <3>4. rec.key = key /\ rec.value = r(fault)
      OBVIOUS
    <3>5. \A i \in 1..Len(simcache') :
            simcache'[i] # Garbage => simcache'[i].value = Simulated(simcache'[i].key)
      BY <3>2, <3>3, <3>4, Zenon DEF HitsAreTrue
    <3>6. DOMAIN mem = Workers
      BY DEF TypeOK
    <3>7. \A v \in Workers : \A k \in DOMAIN mem'[v] : mem'[v][k] = Simulated(k)
      BY <2>3, <3>2, <3>6 DEF HitsAreTrue
    <3> QED BY <1>1, <3>5, <3>7 DEF HitsAreTrue
  <2> QED BY <2>1, <2>2, <2>3
<1>5. CASE NextPhase
  BY <1>1, <1>5, EmptyMemory DEF NextPhase, NewProcesses, HitsAreTrue
<1>6. CASE PoolBreaks
  <2>1. \A w \in Workers : mem'[w] = <<>>
    BY <1>6 DEF PoolBreaks, NewProcesses
  <2>2. \A i \in 1..Len(simcache') :
          simcache'[i] # Garbage => simcache'[i].value = Simulated(simcache'[i].key)
    BY <1>6, LinesAfterDeath, Zenon DEF HitsAreTrue
  <2> QED BY <1>1, <2>1, <2>2, EmptyMemory DEF HitsAreTrue
<1> QED BY <1>2, <1>3, <1>4, <1>5, <1>6, CacheSteps

\* Unless the system kills a run of the simulator, every result in the file or
\* in a worker's memory is the one the simulator returns for its key, whatever
\* runs raise and whatever processes die (run_simulation, _sim_cache_store).
THEOREM WhatIsKeptIsTrue ==
  ASSUME "kill" \notin Faults
  PROVE  Spec => []HitsAreTrue
<1>1. Init => TypeOK /\ HitsAreTrue
  BY TypeInit, TrueInit
<1>2. TypeOK /\ HitsAreTrue /\ [Next]_vars => (TypeOK /\ HitsAreTrue)'
  BY TypeStep, TrueStep
<1> QED BY <1>1, <1>2, PTL DEF Spec

----------------------------------------------------------------------------
(***************************************************************************)
(* Nothing is run twice                                                    *)
(***************************************************************************)

\* What a worker will not read again is in its memory.
ReadIsRemembered ==
  \A w \in Workers : \A i \in 1..pos[w] :
    /\ i \in 1..Len(simcache)
    /\ simcache[i] # Garbage
    /\ simcache[i].key \in DOMAIN mem[w]

\* Readers stay behind what they remember, while lines are added, read while
\* they are written, or cut short by a process that dies.
LEMMA RememberedStep ==
  ASSUME TypeOK, ReadIsRemembered, [Next]_vars
  PROVE  ReadIsRemembered'
<1>1. DOMAIN mem = Workers /\ pos \in [Workers -> Nat] /\ Len(simcache) \in Nat
  BY DEF TypeOK
<1>2. CASE UNCHANGED <<simcache, mem, pos>>
  BY <1>2 DEF ReadIsRemembered
<1>3. ASSUME NEW w \in Workers, Refresh(w)
      PROVE  ReadIsRemembered'
  <2>1. PICK text \in Texts :
          /\ mem' = [mem EXCEPT ![w] = Absorbed(@, text, pos[w])]
          /\ pos' = [pos EXCEPT ![w] = Position(text, @)]
    BY <1>3, Zenon DEF Refresh
  <2>2. simcache' = simcache
    BY <1>3 DEF Refresh
  <2> DEFINE m == Absorbed(mem[w], text, pos[w])
  <2>3. /\ \A key \in DOMAIN mem[w] : key \in DOMAIN m
        /\ \A i \in Parsed(text) : i > pos[w] => text[i].key \in DOMAIN m
    BY TextIs, AbsorbedIs
  <2>4. \A i \in Parsed(text) : /\ i \in 1..Len(simcache)
                                /\ text[i] = simcache[i] /\ simcache[i] # Garbage
    BY ParsedLines
  <2>5. \A i \in 1..Position(text, pos[w]) : i \in 1..pos[w] \/ i \in Parsed(text)
    BY DEF Position
  <2> HIDE DEF m
  <2>6. ASSUME NEW i \in 1..Position(text, pos[w])
        PROVE  /\ i \in 1..Len(simcache) /\ simcache[i] # Garbage
               /\ simcache[i].key \in DOMAIN m
    <3>1. CASE i \in 1..pos[w]
      BY <2>3, <3>1 DEF ReadIsRemembered
    <3>2. CASE i \in Parsed(text) /\ i \notin 1..pos[w]
      <4>1. i > pos[w]
        BY <1>1, <2>4, <3>2
      <4> QED BY <2>3, <2>4, <3>2, <4>1
    <3> QED BY <2>5, <3>1, <3>2
  <2>7. mem'[w] = m /\ pos'[w] = Position(text, pos[w])
    BY <1>1, <2>1 DEF m
  <2>8. ASSUME NEW v \in Workers, v # w
        PROVE  mem'[v] = mem[v] /\ pos'[v] = pos[v]
    BY <1>1, <2>1, <2>8
  <2>9. ASSUME NEW v \in Workers, NEW i \in 1..pos'[v]
        PROVE  /\ i \in 1..Len(simcache) /\ simcache[i] # Garbage
               /\ simcache[i].key \in DOMAIN mem'[v]
    BY <2>6, <2>7, <2>8, <2>9 DEF ReadIsRemembered
  <2> QED BY <2>2, <2>9 DEF ReadIsRemembered
<1>4. ASSUME NEW w \in Workers, RunEnds(w)
      PROVE  ReadIsRemembered'
  <2> DEFINE key == KeyOf(search[w])
             r(fault) == Outcome(key, fault)
  <2>1. PICK fault \in Fault({"raise", "kill"}) :
          \/ /\ mem' = [mem EXCEPT ![w] =
                  [k \in DOMAIN mem[w] \cup {key} |->
                     IF k = key THEN r(fault) ELSE mem[w][k]]]
             /\ simcache' = Written([key |-> key, value |-> r(fault)])
          \/ UNCHANGED <<mem, simcache>>
    BY <1>4, RunLeaves, Zenon
  <2> HIDE DEF key, r
  <2>2. pos' = pos
    BY <1>4 DEF RunEnds
  <2>3. \A i \in 1..Len(simcache) :
          i \in 1..Len(simcache') /\ simcache'[i] = simcache[i]
    BY <2>1, LinesWritten
  <2>4. \A v \in Workers : \A k \in DOMAIN mem[v] : k \in DOMAIN mem'[v]
    BY <1>1, <2>1
  <2> QED BY <2>2, <2>3, <2>4 DEF ReadIsRemembered
<1>5. CASE NextPhase \/ PoolBreaks
  BY <1>5 DEF NextPhase, PoolBreaks, NewProcesses, ReadIsRemembered
<1> QED BY <1>2, <1>3, <1>4, <1>5, CacheSteps

\* Only a refresh that does not find the key leads to a run.
LEMMA RunAfterRefresh ==
  ASSUME TypeOK, [Next]_vars, NEW w \in Workers, stage[w] # "run", stage'[w] = "run"
  PROVE  Refresh(w) /\ KeyOf(search[w]) \notin DOMAIN mem'[w]
<1>1. stage \in [Workers -> Stages]
  BY DEF TypeOK
<1>2. ASSUME NEW v \in Workers,
             \/ Start(v) \/ Prune(v) \/ Probe(v)
             \/ ReportBest(v) \/ ReportNone(v) \/ FallBack(v)
             \/ Recall(v) \/ RunEnds(v) \/ WriteEnds(v)
             \/ HintHolds(v) \/ CapHolds(v) \/ WidenHolds(v) \/ BisectHolds(v)
             \/ ProbeFails(v) \/ FallbackEnds(v)
      PROVE  FALSE
  <2>1. CASE Start(v) \/ Prune(v) \/ Probe(v) \/ FallBack(v)
    BY <1>1, <2>1 DEF Start, Prune, Probe, FallBack
  <2>2. CASE ReportBest(v) \/ ReportNone(v) \/ FallbackEnds(v)
    BY <1>1, <2>2 DEF ReportBest, ReportNone, FallbackEnds, Answer
  <2>3. CASE Recall(v) \/ WriteEnds(v)
    BY <1>1, <2>3 DEF Recall, WriteEnds
  <2>4. CASE RunEnds(v)
    <3>1. \/ stage' = [stage EXCEPT ![v] = "write"]
          \/ stage' = [stage EXCEPT ![v] = "back"]
      BY <2>4, RunLeaves, Zenon
    <3> QED BY <1>1, <3>1
  <2>5. CASE \/ HintHolds(v) \/ CapHolds(v) \/ WidenHolds(v) \/ BisectHolds(v)
             \/ ProbeFails(v)
    <3>1. \/ stage' = [stage EXCEPT ![v] = "lookup"]
          \/ stage' = [stage EXCEPT ![v] = "next"]
      BY <2>5, Zenon DEF HintHolds, CapHolds, WidenHolds, BisectHolds, ProbeFails,
                         Bisect, ToProbe
    <3> QED BY <1>1, <3>1
  <2> QED BY <1>2, <2>1, <2>2, <2>3, <2>4, <2>5
<1>3. ~NextPhase /\ ~PoolBreaks /\ ~UNCHANGED vars
  BY DEF NextPhase, PoolBreaks, vars
<1>4. PICK v \in Workers : Refresh(v)
  BY <1>2, <1>3 DEF Next, Step, Terminating
<1>5. /\ v = w
      /\ KeyOf(search[v]) \notin DOMAIN mem'[v]
  BY <1>1, <1>4 DEF Refresh
<1> QED BY <1>4, <1>5

\* A refresh finds every result that the file keeps.
LEMMA NotRunAgain ==
  ASSUME TypeOK, ReadIsRemembered, NEW w \in Workers, Refresh(w),
         NEW key \in Kept
  PROVE  key \in DOMAIN mem'[w]
<1>1. PICK text \in Texts : mem' = [mem EXCEPT ![w] = Absorbed(@, text, pos[w])]
  BY Zenon DEF Refresh
<1>2. PICK i \in Parsed(simcache) : /\ writer = "nobody" \/ i < Len(simcache)
                                    /\ simcache[i].key = key
  BY DEF Kept
<1>3. /\ Len(simcache) \in Nat /\ DOMAIN mem = Workers /\ pos[w] \in Nat
      /\ i \in 1..Len(simcache)
      /\ \A j \in 1..i : simcache[j] # Garbage
  BY <1>2 DEF TypeOK, Parsed
<1>4. \A j \in 1..i : j <= Len(text) /\ text[j] = simcache[j]
  <2>1. \A j \in 1..i : j \in 1..Len(simcache)
                        /\ (j < Len(simcache) \/ writer = "nobody")
    BY <1>2, <1>3
  <2> QED BY <2>1, TextIs
<1>5. i \in Parsed(text) /\ text[i].key = key
  <2>1. i \in 1..Len(text) /\ i \in 1..i
    BY <1>3, <1>4, TextIs
  <2> QED BY <1>2, <1>3, <1>4, <2>1 DEF Parsed
<1>6. /\ \A k \in DOMAIN mem[w] : k \in DOMAIN Absorbed(mem[w], text, pos[w])
      /\ \A j \in Parsed(text) :
           j > pos[w] => text[j].key \in DOMAIN Absorbed(mem[w], text, pos[w])
  BY TextIs, AbsorbedIs
<1>7. key \in DOMAIN Absorbed(mem[w], text, pos[w])
  <2>1. CASE i > pos[w]
    BY <1>5, <1>6, <2>1
  <2>2. CASE ~(i > pos[w])
    <3>1. i \in 1..pos[w]
      BY <1>3, <2>2
    <3> QED BY <1>2, <1>6, <3>1 DEF ReadIsRemembered
  <2> QED BY <2>1, <2>2
<1> QED BY <1>1, <1>3, <1>7

\* No worker runs a simulation whose result the file keeps, however the reads
\* of the file fall among the writes to it (_sim_cache_refresh).
THEOREM NoRunIsRepeated == Spec => NeverRunTwice
<1>1. Init => TypeOK /\ ReadIsRemembered
  BY TypeInit DEF Init, ReadIsRemembered
<1>2. TypeOK /\ ReadIsRemembered /\ [Next]_vars => (TypeOK /\ ReadIsRemembered)'
  BY TypeStep, RememberedStep
<1>3. ASSUME TypeOK, ReadIsRemembered, [Next]_vars
      PROVE  [\A w \in Workers :
                stage[w] # "run" /\ stage'[w] = "run" =>
                  KeyOf(search[w]) \notin Kept]_vars
  BY <1>3, RunAfterRefresh, NotRunAgain
<1> QED BY <1>1, <1>2, <1>3, PTL DEF Spec, NeverRunTwice

----------------------------------------------------------------------------
(***************************************************************************)
(* The answer is on a boundary                                             *)
(***************************************************************************)
At(c, t, k) == Simulated([cell |-> c, config |-> t, k |-> k])

BestTight(c, b) ==
  b.config \in Configs =>
    /\ At(c, b.config, b.k) = Success(b.tpot)
    /\ ~At(c, b.config, b.k + 1).success
    /\ b.reason = ClassifyFailure(At(c, b.config, b.k + 1))

\* While a configuration is probed, the largest verified batch is below the
\* probe, and a bisection has a refused batch above it.
Bracketed(s) ==
  LET Sim(k) == At(s.cell, s.line.config, k)
  IN /\ s.line \in Line
     /\ s.best_k < s.k
     /\ s.best_k > 0 => Sim(s.best_k) = Success(s.tpot)
     /\ s.probe = "hint" => s.best_k = 0 /\ s.k = KHint(s.line)
     /\ s.probe = "bisect" => /\ s.k <= s.hi
                              /\ ~Sim(s.hi + 1).success
                              /\ s.cfg_fail = Sim(s.hi + 1)

\* For a worker with search s at stage g and the last result r.
Tight(s, g, r) ==
  /\ BestTight(s.cell, s.best)
  /\ g \in {"lookup", "run", "write", "back"} /\ s.probe # "auto" => Bracketed(s)
  /\ g \in {"write", "back"} => r = Simulated(KeyOf(s))

\* What BoundaryIsTight rests on: in a search in which nothing went wrong.
TightInv ==
  \A w \in Workers :
    /\ stage[w] # "idle" /\ ~hiccup[w] => Tight(search[w], stage[w], res[w])
    /\ ~answer[w].hiccup => BestTight(answer[w].cell, answer[w].best)

\* The invariant implies the property.
LEMMA TightAnswers == TightInv => BoundaryIsTight
BY DEF TightInv, BestTight, BoundaryIsTight, At

\* A successful run tells the time for a token.
LEMMA SuccessTells ==
  ASSUME NEW key \in Key, Simulated(key).success
  PROVE  Simulated(key) = Success(Simulated(key).tpot)
BY DEF Simulated, Failure, Success

\* Before any configuration has passed there is nothing to show.
LEMMA NoBestTight == \A c : BestTight(c, NoBest)
BY SearchAssumption DEF BestTight, NoBest

\* A bisection that goes on keeps its bracket; one that ends leaves a best on a
\* boundary.
LEMMA BisectionStep ==
  ASSUME NEW w \in Workers, NEW s \in Search, NEW hi \in Nat, s.cell \in Cells,
         BestTight(s.cell, s.best), s.line \in Line,
         s.best_k <= hi,
         s.best_k > 0 => At(s.cell, s.line.config, s.best_k) = Success(s.tpot),
         ~At(s.cell, s.line.config, hi + 1).success,
         s.cfg_fail = At(s.cell, s.line.config, hi + 1),
         Bisect(w, s, hi), NEW r
  PROVE  \E t \in Search, g \in Stages :
           /\ search' = [search EXCEPT ![w] = t]
           /\ stage' = [stage EXCEPT ![w] = g]
           /\ Tight(t, g, r)
<1>1. /\ s.best_k \in Nat /\ "lookup" \in Stages /\ "next" \in Stages
      /\ s.line.config \in Configs
  BY DEF Search, Stages, Line
<1>2. CASE ~IsNarrow(s, hi) /\ ToProbe(w, Narrowed(s, hi))
  <2> DEFINE t == Narrowed(s, hi)
             mid == (s.best_k + 1 + hi) \div 2
  <2>1. t \in Search
    BY <1>2, SearchSteps
  <2>2. /\ t.cell = s.cell /\ t.line = s.line /\ t.best_k = s.best_k
        /\ t.tpot = s.tpot /\ t.best = s.best /\ t.cfg_fail = s.cfg_fail
        /\ t.probe = "bisect" /\ t.hi = hi /\ t.k = mid
    BY DEF Narrowed, Search
  <2>3. s.best_k < mid /\ mid <= hi
    BY <1>1, <1>2, MiddleIsBetween DEF IsNarrow
  <2> HIDE DEF t, mid
  <2>4. Bracketed(t)
    BY <2>2, <2>3 DEF Bracketed
  <2>5. Tight(t, "lookup", r)
    BY <2>2, <2>4 DEF Tight
  <2>6. search' = [search EXCEPT ![w] = t] /\ stage' = [stage EXCEPT ![w] = "lookup"]
    BY <1>2 DEF ToProbe, t
  <2> QED BY <1>1, <2>1, <2>5, <2>6
<1>3. CASE /\ IsNarrow(s, hi)
           /\ search' = [search EXCEPT ![w] = Settled(s)]
           /\ stage' = [stage EXCEPT ![w] = "next"]
  <2>1. s.best_k = hi
    BY <1>1, <1>3 DEF IsNarrow
  <2>2. Settled(s) \in Search
    BY SearchSteps
  <2> DEFINE found == [config |-> s.line.config, k |-> s.best_k, tpot |-> s.tpot,
                       reason |-> ClassifyFailure(s.cfg_fail)]
  <2>3. /\ Settled(s).cell = s.cell
        /\ \/ Settled(s).best = s.best
           \/ s.best_k > 0 /\ Settled(s).best = found
    BY DEF Settled, Search
  <2>4. s.best_k > 0 => BestTight(s.cell, found)
    BY <2>1 DEF BestTight
  <2>5. BestTight(Settled(s).cell, Settled(s).best)
    BY <2>3, <2>4, Zenon
  <2>6. Tight(Settled(s), "next", r)
    BY <2>5 DEF Tight
  <2> QED BY <1>1, <1>3, <2>2, <2>6
<1> QED BY <1>2, <1>3 DEF Bisect

\* What follows from a probe, in a search in which nothing went wrong.
LEMMA ProbeStep ==
  ASSUME TypeOK, NEW w \in Workers, Tight(search[w], stage[w], res[w]),
         \/ HintHolds(w) \/ CapHolds(w) \/ WidenHolds(w)
         \/ BisectHolds(w) \/ ProbeFails(w)
  PROVE  \E t \in Search, g \in Stages :
           /\ search' = [search EXCEPT ![w] = t]
           /\ stage' = [stage EXCEPT ![w] = g]
           /\ Tight(t, g, res[w])
<1> DEFINE s == search[w]
           r == res[w]
           v == Verified(s, r)
           f == Refuted(s, r)
           Sim(k) == At(s.cell, s.line.config, k)
<1>1. stage[w] = "back" /\ s.probe # "auto"
  BY DEF HintHolds, CapHolds, WidenHolds, BisectHolds, ProbeFails
<1>2. s \in Search /\ s.cell \in Cells /\ r \in Result /\ "lookup" \in Stages
  BY <1>1 DEF TypeOK, Stages
<1>3. /\ BestTight(s.cell, s.best) /\ Bracketed(s)
      /\ r = Simulated(KeyOf(s))
  BY <1>1 DEF Tight
<1>4. KeyOf(s) \in Key /\ r = Sim(s.k)
  BY <1>2, <1>3, KeyType DEF KeyOf, At
<1>5. s.k \in Nat \ {0} /\ s.best_k \in Nat /\ s.gap \in Nat \ {0} /\ s.hi \in Nat
  BY <1>2 DEF Search
<1>6. /\ v \in Search /\ v.cell = s.cell /\ v.line = s.line /\ v.best = s.best
      /\ v.best_k = s.k /\ v.tpot = r.tpot /\ v.cfg_fail = s.cfg_fail
      /\ v.hi = s.hi
  BY <1>2, VerifiedIs
<1>7. /\ f \in Search /\ f.cell = s.cell /\ f.line = s.line /\ f.best = s.best
      /\ f.best_k = s.best_k /\ f.tpot = s.tpot /\ f.cfg_fail = r
  BY <1>2, RefutedIs
<1>8. r.success => Sim(s.k) = Success(r.tpot)
  BY <1>3, <1>4, SuccessTells
<1>9. s.line \in Line
  BY <1>3 DEF Bracketed
<1> HIDE DEF s, r, v, f
\* A larger probe follows one that holds.
<1>10. ASSUME r.success, NEW t \in Search, ToProbe(w, t),
              t.cell = s.cell, t.line = s.line, t.best = s.best,
              t.best_k = s.k, t.tpot = r.tpot, t.k > s.k,
              t.probe \in {"cap", "widen"}
       PROVE  \E u \in Search, g \in Stages :
                /\ search' = [search EXCEPT ![w] = u]
                /\ stage' = [stage EXCEPT ![w] = g]
                /\ Tight(u, g, r)
  <2>1. Bracketed(t)
    BY <1>5, <1>8, <1>9, <1>10 DEF Bracketed
  <2>2. Tight(t, "lookup", r)
    BY <1>3, <1>10, <2>1 DEF Tight
  <2> QED BY <1>2, <1>10, <2>2 DEF ToProbe
<1>11. ASSUME r.success, NEW gap \in Nat \ {0}, ToProbe(w, Widened(v, gap))
       PROVE  \E u \in Search, g \in Stages :
                /\ search' = [search EXCEPT ![w] = u]
                /\ stage' = [stage EXCEPT ![w] = g]
                /\ Tight(u, g, r)
  <2>1. Widened(v, gap) \in Search
    BY <1>6, SearchSteps
  <2>2. /\ Widened(v, gap).cell = s.cell /\ Widened(v, gap).line = s.line
        /\ Widened(v, gap).best = s.best /\ Widened(v, gap).best_k = s.k
        /\ Widened(v, gap).tpot = r.tpot /\ Widened(v, gap).k = s.k + gap
        /\ Widened(v, gap).probe = "widen"
    BY <1>6 DEF Widened, Search
  <2>3. Widened(v, gap).k > s.k
    BY <1>5, <2>2
  <2> QED BY <1>10, <1>11, <2>1, <2>2, <2>3
<1>12. CASE HintHolds(w)
  <2>1. r.success /\ s.k = KHint(s.line)
    BY <1>3, <1>12 DEF HintHolds, Bracketed, s, r
  <2>2. CASE /\ KCap(v.line) > KHint(v.line)
             /\ ToProbe(w, [v EXCEPT !.probe = "cap", !.k = KCap(v.line)])
    <3> DEFINE t == [v EXCEPT !.probe = "cap", !.k = KCap(v.line)]
    <3>1. KCap(v.line) \in Nat \ {0}
      BY <1>6, <1>9, ProbesType
    <3>2. /\ t \in Search
          /\ t.cell = s.cell /\ t.line = s.line /\ t.best = s.best
          /\ t.best_k = s.k /\ t.tpot = r.tpot /\ t.k = KCap(s.line)
          /\ t.probe = "cap"
      BY <1>6, <3>1 DEF Search
    <3>3. t.k > s.k
      BY <1>6, <2>1, <2>2, <3>2
    <3> HIDE DEF t
    <3>4. ToProbe(w, t)
      BY <2>2 DEF t
    <3> QED BY <1>10, <2>1, <3>2, <3>3, <3>4 DEF r
  <2>3. CASE ToProbe(w, Widened(v, 1))
    BY <1>11, <2>1, <2>3 DEF r
  <2> QED BY <1>12, <2>2, <2>3 DEF HintHolds, v, s, r
<1>13. CASE CapHolds(w)
  <2>1. r.success /\ ToProbe(w, Widened(v, 1))
    BY <1>13 DEF CapHolds, v, s, r
  <2> QED BY <1>11, <2>1 DEF r
<1>14. CASE WidenHolds(w)
  <2>1. r.success /\ ToProbe(w, Widened(v, 2 * s.gap))
    BY <1>14 DEF WidenHolds, v, s, r
  <2>2. 2 * s.gap \in Nat \ {0}
    BY <1>5
  <2> QED BY <1>11, <2>1, <2>2 DEF r
<1>15. CASE BisectHolds(w)
  <2>1. r.success /\ s.probe = "bisect" /\ Bisect(w, v, s.hi)
    BY <1>15 DEF BisectHolds, v, s, r
  <2>2. s.k <= s.hi /\ ~Sim(s.hi + 1).success /\ s.cfg_fail = Sim(s.hi + 1)
    BY <1>3, <2>1 DEF Bracketed
  <2> HIDE DEF Sim
  <2>3. At(s.cell, s.line.config, s.hi + 1) = Sim(s.hi + 1)
        /\ At(s.cell, s.line.config, s.k) = Sim(s.k)
    BY DEF Sim
  <2> QED BY <1>2, <1>3, <1>5, <1>6, <1>8, <1>9, <2>1, <2>2, <2>3, BisectionStep DEF r
<1>16. CASE ProbeFails(w)
  <2>1. ~r.success /\ Bisect(w, f, s.k - 1)
    BY <1>16 DEF ProbeFails, f, s, r
  <2>2. s.k - 1 \in Nat /\ s.k - 1 + 1 = s.k /\ s.best_k <= s.k - 1
    BY <1>3, <1>5 DEF Bracketed
  <2>3. s.best_k > 0 => At(s.cell, s.line.config, s.best_k) = Success(s.tpot)
    BY <1>3 DEF Bracketed
  <2>4. At(s.cell, s.line.config, s.k - 1 + 1) = r
    BY <1>4, <2>2
  <2> QED BY <1>2, <1>3, <1>5, <1>7, <1>9, <2>1, <2>2, <2>3, <2>4, BisectionStep DEF r
<1> QED BY <1>12, <1>13, <1>14, <1>15, <1>16 DEF r

\* A step that concerns one worker.
LEMMA TightAt ==
  ASSUME TightInv, NEW w \in Workers,
         \A v \in Workers \ {w} :
           /\ search'[v] = search[v] /\ stage'[v] = stage[v] /\ res'[v] = res[v]
           /\ hiccup'[v] = hiccup[v] /\ answer'[v] = answer[v],
         stage'[w] # "idle" /\ ~hiccup'[w] => Tight(search'[w], stage'[w], res'[w]),
         ~answer'[w].hiccup => BestTight(answer'[w].cell, answer'[w].best)
  PROVE  TightInv'
<1>1. ASSUME NEW v \in Workers
      PROVE  /\ stage'[v] # "idle" /\ ~hiccup'[v] =>
                  Tight(search'[v], stage'[v], res'[v])
             /\ ~answer'[v].hiccup => BestTight(answer'[v].cell, answer'[v].best)
  <2>1. CASE v = w
    BY <2>1
  <2>2. CASE v # w
    BY <2>2 DEF TightInv
  <2> QED BY <2>1, <2>2
<1> QED BY <1>1 DEF TightInv

\* No search has begun at first.
LEMMA TightInit == Init => TightInv
BY NoBestTight DEF Init, TightInv, NoAnswer

\* Every step keeps the bracket of each search and the boundary of each answer.
LEMMA TightStep ==
  ASSUME "kill" \notin Faults, TypeOK, HitsAreTrue, TightInv, [Next]_vars
  PROVE  TightInv'
<1>1. /\ stage \in [Workers -> Stages] /\ search \in [Workers -> Search]
      /\ res \in [Workers -> Result] /\ hiccup \in [Workers -> BOOLEAN]
      /\ DOMAIN answer = Workers
  BY DEF TypeOK
<1>2. ASSUME NEW w \in Workers, stage[w] # "idle", ~hiccup[w]
      PROVE  Tight(search[w], stage[w], res[w])
  BY <1>2 DEF TightInv
<1>3. \A w \in Workers :
        ~answer[w].hiccup => BestTight(answer[w].cell, answer[w].best)
  BY DEF TightInv
<1>4. HitsAreTrue'
  BY TrueStep
<1>5. ASSUME NEW w \in Workers, Start(w) PROVE TightInv'
  <2>1. /\ stage' = [stage EXCEPT ![w] = "next"] /\ res' = res
        /\ answer' = [answer EXCEPT ![w] = NoAnswer]
        /\ \E c, lines, feasible :
             search' = [search EXCEPT ![w] = NewSearch(c, lines, feasible)]
        /\ \E h : hiccup' = [hiccup EXCEPT ![w] = h]
    BY <1>5, Zenon DEF Start
  <2>2. Tight(search'[w], "next", res[w])
    <3>1. search'[w].best = NoBest
      BY <1>1, <2>1 DEF NewSearch
    <3> QED BY <3>1, NoBestTight DEF Tight
  <2>3. BestTight(answer'[w].cell, answer'[w].best)
    BY <1>1, <2>1, NoBestTight DEF NoAnswer
  <2> QED BY <1>1, <2>1, <2>2, <2>3, TightAt
<1>6. ASSUME NEW w \in Workers, Prune(w) \/ FallBack(w) PROVE TightInv'
  <2>1. /\ UNCHANGED <<res, hiccup, answer>> /\ stage[w] = "next"
        /\ \A v \in Workers \ {w} :
             search'[v] = search[v] /\ stage'[v] = stage[v]
        /\ search'[w].best = search[w].best /\ search'[w].cell = search[w].cell
        /\ \/ stage'[w] = "next"
           \/ stage'[w] = "lookup" /\ search'[w].probe = "auto"
    <3>1. search[w] \in Search
      BY <1>1
    <3>2. CASE Prune(w)
      BY <1>1, <3>1, <3>2 DEF Prune, Search
    <3>3. CASE FallBack(w)
      BY <1>1, <3>1, <3>3 DEF FallBack, Search
    <3> QED BY <1>6, <3>2, <3>3
  <2>2. ~hiccup[w] => Tight(search'[w], stage'[w], res[w])
    BY <1>2, <2>1 DEF Tight
  <2> QED BY <1>3, <2>1, <2>2, TightAt
<1>7. ASSUME NEW w \in Workers, Probe(w) PROVE TightInv'
  <2>1. PICK line \in Foremost(search[w].todo) :
          search' = [search EXCEPT ![w] = Probing(search[w], line)]
    BY <1>7, Zenon DEF Probe
  <2>2. /\ UNCHANGED <<res, hiccup, answer>> /\ stage[w] = "next"
        /\ stage' = [stage EXCEPT ![w] = "lookup"]
    BY <1>7 DEF Probe
  <2> DEFINE t == Probing(search[w], line)
  <2>3. line \in Line
    BY <1>1 DEF Foremost, Search
  <2>4. /\ t.cell = search[w].cell /\ t.best = search[w].best /\ t.line = line
        /\ t.probe = "hint" /\ t.k = KHint(line) /\ t.best_k = 0
    BY <1>1 DEF Probing, Search
  <2> HIDE DEF t
  <2>5. Bracketed(t)
    BY <2>3, <2>4, ProbesType DEF Bracketed
  <2>6. ~hiccup[w] => Tight(t, "lookup", res[w])
    BY <1>2, <2>2, <2>4, <2>5 DEF Tight
  <2>7. search'[w] = t
    BY <1>1, <2>1 DEF t
  <2> QED BY <1>1, <1>3, <2>1, <2>2, <2>6, <2>7, TightAt
<1>8. ASSUME NEW w \in Workers, ReportBest(w) \/ ReportNone(w) \/ FallbackEnds(w)
      PROVE  TightInv'
  <2>1. PICK best : /\ Answer(w, best)
                    /\ best = search[w].best \/ best.config = "auto"
    <3>1. CASE ReportBest(w) \/ ReportNone(w)
      BY <3>1 DEF ReportBest, ReportNone, NoBest
    <3>2. CASE FallbackEnds(w)
      BY <3>2 DEF FallbackEnds
    <3> QED BY <1>8, <3>1, <3>2
  <2>2. stage[w] # "idle"
    BY <1>8 DEF ReportBest, ReportNone, FallbackEnds
  <2>3. stage'[w] = "idle"
    BY <1>1, <2>1 DEF Answer
  <2>4. answer'[w] = [cell |-> search[w].cell, best |-> best, hiccup |-> hiccup[w]]
    BY <1>1, <2>1 DEF Answer
  <2>5. ~hiccup[w] => BestTight(search[w].cell, best)
    BY <1>2, <2>1, <2>2, SearchAssumption DEF Tight, BestTight
  <2>6. \A v \in Workers \ {w} :
          /\ search'[v] = search[v] /\ stage'[v] = stage[v] /\ res'[v] = res[v]
          /\ hiccup'[v] = hiccup[v] /\ answer'[v] = answer[v]
    BY <1>1, <2>1 DEF Answer
  <2> QED BY <2>3, <2>4, <2>5, <2>6, TightAt
\* The result of a search that goes on without a mishap is the simulator's.
<1>9. ASSUME NEW w \in Workers, stage[w] \in {"lookup", "run", "write"},
             UNCHANGED <<search, answer>>,
             \E g : stage' = [stage EXCEPT ![w] = g],
             \E r : res' = [res EXCEPT ![w] = r],
             \E h : hiccup' = [hiccup EXCEPT ![w] = h],
             ~hiccup'[w] =>
               /\ ~hiccup[w]
               /\ stage'[w] \in {"write", "back"} =>
                    res'[w] = Simulated(KeyOf(search[w]))
      PROVE  TightInv'
  <2>1. ~hiccup'[w] => Tight(search[w], stage'[w], res'[w])
    BY <1>2, <1>9 DEF Tight
  <2> QED BY <1>1, <1>3, <1>9, <2>1, TightAt
<1>10. ASSUME NEW w \in Workers, Recall(w) PROVE TightInv'
  <2>1. /\ stage[w] = "lookup" /\ UNCHANGED <<search, answer, hiccup>>
        /\ stage' = [stage EXCEPT ![w] = "back"]
        /\ KeyOf(search[w]) \in DOMAIN mem[w]
        /\ res' = [res EXCEPT ![w] = mem[w][KeyOf(search[w])]]
    BY <1>10, Zenon DEF Recall
  <2>2. res'[w] = Simulated(KeyOf(search[w]))
    BY <1>1, <2>1 DEF HitsAreTrue
  <2>3. hiccup' = [hiccup EXCEPT ![w] = hiccup[w]]
    BY <1>1, <2>1
  <2> QED BY <1>9, <2>1, <2>2, <2>3
<1>11. ASSUME NEW w \in Workers, Refresh(w) PROVE TightInv'
  <2>1. /\ stage[w] = "lookup" /\ UNCHANGED <<search, answer, hiccup>>
        /\ \/ /\ KeyOf(search[w]) \in DOMAIN mem'[w]
              /\ res' = [res EXCEPT ![w] = mem'[w][KeyOf(search[w])]]
              /\ stage' = [stage EXCEPT ![w] = "back"]
           \/ stage' = [stage EXCEPT ![w] = "run"] /\ res' = res
    BY <1>11, Zenon DEF Refresh
  <2>2. stage'[w] # "run" => res'[w] = Simulated(KeyOf(search[w]))
    <3>1. \A key \in DOMAIN mem'[w] : mem'[w][key] = Simulated(key)
      BY <1>4 DEF HitsAreTrue
    <3> QED BY <1>1, <2>1, <3>1
  <2>3. /\ hiccup' = [hiccup EXCEPT ![w] = hiccup[w]]
        /\ \E g : stage' = [stage EXCEPT ![w] = g]
        /\ \E r : res' = [res EXCEPT ![w] = r]
    <3>1. res = [res EXCEPT ![w] = res[w]]
      BY <1>1
    <3> QED BY <1>1, <2>1, <3>1
  <2> QED BY <1>9, <2>1, <2>2, <2>3
<1>12. ASSUME NEW w \in Workers, RunEnds(w) PROVE TightInv'
  <2>1. stage[w] = "run" /\ UNCHANGED <<search, answer>>
    BY <1>12 DEF RunEnds
  <2>2. PICK fault \in Fault({"raise", "kill"}) :
          /\ res' = [res EXCEPT ![w] = Outcome(KeyOf(search[w]), fault)]
          /\ hiccup' = [hiccup EXCEPT ![w] = @ \/ fault # "none"]
          /\ \E g : stage' = [stage EXCEPT ![w] = g]
    BY <1>12, RunLeaves, Zenon
  <2>3. ~hiccup'[w] => fault = "none" /\ ~hiccup[w]
    BY <1>1, <2>2
  <2>4. fault = "none" => res'[w] = Simulated(KeyOf(search[w]))
    BY <1>1, <2>2 DEF Outcome
  <2> QED BY <1>9, <2>1, <2>2, <2>3, <2>4
<1>13. ASSUME NEW w \in Workers, WriteEnds(w) PROVE TightInv'
  <2>1. /\ stage[w] = "write" /\ UNCHANGED <<search, answer, hiccup, res>>
        /\ stage' = [stage EXCEPT ![w] = "back"]
    BY <1>13 DEF WriteEnds
  <2>2. ~hiccup[w] => res[w] = Simulated(KeyOf(search[w]))
    BY <1>2, <2>1 DEF Tight
  <2>3. /\ hiccup' = [hiccup EXCEPT ![w] = hiccup[w]]
        /\ res' = [res EXCEPT ![w] = res[w]]
    BY <1>1, <2>1
  <2> QED BY <1>9, <2>1, <2>2, <2>3
<1>14. ASSUME NEW w \in Workers,
              \/ HintHolds(w) \/ CapHolds(w) \/ WidenHolds(w)
              \/ BisectHolds(w) \/ ProbeFails(w)
       PROVE  TightInv'
  <2>1. /\ UNCHANGED <<res, hiccup, answer>> /\ stage[w] = "back"
    BY <1>14 DEF HintHolds, CapHolds, WidenHolds, BisectHolds, ProbeFails
  <2>2. search[w] \in Search /\ search[w].cell \in Cells /\ res[w] \in Result
    BY <2>1 DEF TypeOK
  <2>3. PICK t \in Search, g \in Stages :
          /\ search' = [search EXCEPT ![w] = t]
          /\ stage' = [stage EXCEPT ![w] = g]
          /\ ~hiccup[w] => Tight(t, g, res[w])
    <3>1. CASE hiccup[w]
      BY <1>14, <2>2, <3>1, AfterProbe, Zenon DEF MovesOn
    <3>2. CASE ~hiccup[w]
      <4>1. Tight(search[w], stage[w], res[w])
        BY <1>2, <2>1, <3>2
      <4> QED BY <1>14, <4>1, ProbeStep, Zenon
    <3> QED BY <3>1, <3>2
  <2> QED BY <1>1, <1>3, <2>1, <2>3, TightAt
<1>15. CASE NextPhase \/ UNCHANGED vars
  BY <1>15 DEF NextPhase, vars, TightInv
<1>16. CASE PoolBreaks
  <2>1. \A w \in Workers : stage'[w] = "idle"
    BY <1>16 DEF PoolBreaks
  <2>2. \A w \in Workers : answer'[w] = answer[w] \/ answer'[w].hiccup
    BY <1>16 DEF PoolBreaks
  <2> QED BY <1>3, <2>1, <2>2 DEF TightInv
<1> QED BY <1>5, <1>6, <1>7, <1>8, <1>10, <1>11, <1>12, <1>13, <1>14, <1>15, <1>16
        DEF Next, Step, Terminating

\* Unless the system kills a run of the simulator, the answer of a search in
\* which nothing went wrong is on a boundary of its configuration and names
\* the reason why the next batch is refused (per_config_max_batch).
THEOREM AnswersAreTight ==
  ASSUME "kill" \notin Faults
  PROVE  Spec => []BoundaryIsTight
<1>1. Init => TypeOK /\ HitsAreTrue /\ TightInv
  BY TypeInit, TrueInit, TightInit
<1>2. TypeOK /\ HitsAreTrue /\ TightInv /\ [Next]_vars =>
        (TypeOK /\ HitsAreTrue /\ TightInv)'
  BY TypeStep, TrueStep, TightStep
<1>3. TightInv => BoundaryIsTight
  BY TightAnswers
<1> QED BY <1>1, <1>2, <1>3, PTL DEF Spec
----------------------------------------------------------------------------
(***************************************************************************)
(* What the analytic run lists                                             *)
(***************************************************************************)

\* Products are monotone, and a positive factor cancels.
LEMMA TimesMonotone ==
  ASSUME NEW a \in Nat, NEW b \in Nat, NEW c \in Nat, a <= b
  PROVE  a * c <= b * c
<1>1. PICK d \in Nat : b = a + d
  <2>1. b - a \in Nat /\ b = a + (b - a)
    OBVIOUS
  <2> QED BY <2>1
<1>2. b * c = a * c + d * c /\ d * c \in Nat /\ a * c \in Nat
  BY <1>1
<1> QED BY <1>2

LEMMA FactorCancels ==
  ASSUME NEW a \in Nat, NEW b \in Nat, NEW c \in Nat \ {0}, a * c <= b * c
  PROVE  a <= b
<1> SUFFICES ASSUME b + 1 <= a
             PROVE  FALSE
  OBVIOUS
<1>1. (b + 1) * c <= a * c
  BY TimesMonotone
<1>2. (b + 1) * c = b * c + c /\ b * c \in Nat /\ a * c \in Nat
  OBVIOUS
<1> QED BY <1>1, <1>2

\* The good batches come first: those up to g.
GoodUpTo(good, g) == \A j \in Nat \ {0} : j \in good <=> j <= g

\* A bisection finds the largest good batch of an interval when the good ones
\* come first.  The equation of step has this solution, and no other.
LEMMA BisectedIs ==
  ASSUME NEW good, NEW g \in Nat, NEW lo \in Nat \ {0}, NEW hi \in Nat,
         NEW k \in Nat, GoodUpTo(good, g)
  PROVE  Bisected(good, lo, hi, k)
           = IF lo > hi \/ g < lo THEN k ELSE IF g < hi THEN g ELSE hi
<1> DEFINE D == [lo : Nat \ {0}, hi : Nat, best : Nat]
           Mid(i) == i.lo + (i.hi - i.lo) \div 2
           Up(i) == [i EXCEPT !.lo = Mid(i) + 1, !.best = Mid(i)]
           Down(i) == [i EXCEPT !.hi = Mid(i) - 1]
           Found(i) ==
             IF i.lo > i.hi \/ g < i.lo THEN i.best
             ELSE IF g < i.hi THEN g ELSE i.hi
           F(f, i) ==
             IF i.lo > i.hi THEN i.best
             ELSE IF Mid(i) \in good THEN f[Up(i)] ELSE f[Down(i)]
           Solves(f) == f = [i \in D |-> F(f, i)]
           found == [i \in D |-> Found(i)]
           first == [lo |-> lo, hi |-> hi, best |-> k]
<1>0. \A j \in Nat \ {0} : j \in good <=> j <= g
  BY DEF GoodUpTo
<1>1. ASSUME NEW i \in D
      PROVE  i.lo \in Nat \ {0} /\ i.hi \in Nat /\ i.best \in Nat
  OBVIOUS
<1>2. ASSUME NEW i \in D, i.lo <= i.hi
      PROVE  /\ Mid(i) \in Nat \ {0} /\ i.lo <= Mid(i) /\ Mid(i) <= i.hi
             /\ Up(i) \in D /\ Down(i) \in D
             /\ Up(i).lo = Mid(i) + 1 /\ Up(i).hi = i.hi /\ Up(i).best = Mid(i)
             /\ Down(i).lo = i.lo /\ Down(i).hi = Mid(i) - 1
             /\ Down(i).best = i.best
  <2>1. Mid(i) \in Nat \ {0} /\ i.lo <= Mid(i) /\ Mid(i) <= i.hi
    BY <1>1, <1>2
  <2>2. Mid(i) + 1 \in Nat \ {0} /\ Mid(i) - 1 \in Nat
    BY <2>1
  <2> HIDE DEF Mid
  <2> QED BY <2>1, <2>2
<1>3. first \in D /\ first.lo = lo /\ first.hi = hi /\ first.best = k
  OBVIOUS
<1>4. Bisected(good, lo, hi, k) = (CHOOSE f : Solves(f))[first]
  BY DEF Bisected
<1> HIDE DEF Mid, Up, Down, D, first
<1>5. ASSUME NEW i \in D, i.lo <= i.hi
      PROVE  Found(i) = IF Mid(i) \in good THEN Found(Up(i))
                        ELSE Found(Down(i))
  BY <1>0, <1>1, <1>2, <1>5
<1>6. ASSUME NEW i \in D
      PROVE  Found(i) = F(found, i)
  <2>1. CASE i.lo > i.hi
    BY <2>1
  <2>2. CASE i.lo <= i.hi
    <3>1. found[Up(i)] = Found(Up(i)) /\ found[Down(i)] = Found(Down(i))
      BY <1>2, <2>2
    <3>2. ~(i.lo > i.hi)
      BY <1>1, <2>2
    <3> HIDE DEF Found, found
    <3> QED
      BY <1>5, <2>2, <3>1, <3>2
  <2> QED
    BY <1>1, <2>1, <2>2
<1>7. Solves(found)
  BY <1>6
<1>8. ASSUME NEW f, Solves(f)
      PROVE  f[first] = Found(first)
  <2> DEFINE P == {n \in Nat : \A i \in D :
                                 i.hi - i.lo < n - 1 => f[i] = Found(i)}
  <2> HIDE DEF Found
  <2>1. \A i \in D : f[i] = F(f, i)
    <3> HIDE DEF F
    <3> QED BY <1>8
  <2>2. ASSUME NEW i \in D, i.lo > i.hi
        PROVE  f[i] = Found(i)
    BY <2>1, <2>2 DEF Found
  <2>3. 0 \in P
    BY <1>1, <2>2
  <2>4. ASSUME NEW n \in 0 .. hi + 1, n \in P
        PROVE  n + 1 \in P
    <3>1. ASSUME NEW i \in D, i.hi - i.lo < n + 1 - 1
          PROVE  f[i] = Found(i)
      <4>1. CASE i.lo > i.hi
        BY <2>2, <4>1
      <4>2. CASE i.lo <= i.hi
        <5>1. /\ Up(i).hi - Up(i).lo < n - 1
              /\ Down(i).hi - Down(i).lo < n - 1
          BY <1>1, <1>2, <3>1, <4>2
        <5>2. f[Up(i)] = Found(Up(i)) /\ f[Down(i)] = Found(Down(i))
          BY <1>2, <2>4, <4>2, <5>1
        <5>3. ~(i.lo > i.hi)
          BY <1>1, <4>2
        <5> QED
          BY <1>5, <2>1, <4>2, <5>2, <5>3
      <4> QED
        BY <1>1, <4>1, <4>2
    <3>2. n + 1 \in Nat
      OBVIOUS
    <3> QED
      BY <3>1, <3>2
  <2>5. P \in SUBSET Nat
    OBVIOUS
  <2> HIDE DEF P
  <2>6. 0 .. hi + 2 \subseteq P
    <3>1. \A n \in 0 .. (hi + 2) - 1 : n \in P => n + 1 \in P
      BY <2>4
    <3>2. 0 \in Nat /\ hi + 2 \in Nat
      OBVIOUS
    <3> QED
      BY <2>3, <2>5, <3>1, <3>2, Induction
  <2>7. hi + 2 \in P
    BY <2>6
  <2> QED
    BY <1>3, <2>7 DEF P
<1> HIDE DEF Solves, found
<1>9. Solves(CHOOSE f : Solves(f))
  BY <1>7
<1>10. Found(first) = IF lo > hi \/ g < lo THEN k ELSE IF g < hi THEN g ELSE hi
  BY <1>3
<1> HIDE DEF Found
<1> QED
  BY <1>4, <1>8, <1>9, <1>10

\* Doubling ends at the last power of two that fits when the limit on batches
\* is beyond the next one.
LEMMA BracketIs ==
  ASSUME NEW c \in Cells, NEW t \in Configs,
         2 * Len(est_lat[c][t]) * dp[t] <= MaxBatch, ~Oom(c, t, 1)
  PROVE  \E x \in 1 .. Len(est_lat[c][t]) :
           /\ Bracket(c, t) = [k_cap |-> x, k_fail |-> 2 * x]
           /\ Len(est_lat[c][t]) < 2 * x
<1> DEFINE L == Len(est_lat[c][t])
           q == dp[t]
           F(f, k) ==
             IF k * q > MaxBatch THEN [k_cap |-> k \div 2, k_fail |-> 0]
             ELSE IF Oom(c, t, k) THEN [k_cap |-> k \div 2, k_fail |-> k]
             ELSE f[2 * k]
           Solves(f) == f = [k \in Nat \ {0} |-> F(f, k)]
           From(n) == {k \in Nat \ {0} : k + n > MaxBatch}
           Partly(f, n) == f = [k \in From(n) |-> F(f, k)]
           P == {n \in Nat : \E f : Partly(f, n)}
<1>1. L \in Nat \ {0} /\ q \in Nat \ {0} /\ MaxBatch \in Nat /\ 2 * L * q <= MaxBatch
  BY ListingAssumption DEF Oom
<1>2. \A k \in Nat : Oom(c, t, k) <=> k > L
  BY DEF Oom
<1>3. Bracket(c, t) = (CHOOSE f : Solves(f))[2]
  BY DEF Bracket
<1> HIDE DEF L, q
<1>4. 0 \in P
  <2> DEFINE f == [k \in From(0) |-> [k_cap |-> k \div 2, k_fail |-> 0]]
  <2>1. ASSUME NEW k \in From(0)
        PROVE  f[k] = F(f, k)
    <3>1. k \in Nat \ {0} /\ k > MaxBatch
      BY <1>1
    <3>2. 1 * k <= q * k /\ q * k = k * q /\ 1 * k = k /\ k * q \in Nat
      <4>1. 1 <= q /\ 1 \in Nat
        BY <1>1
      <4>2. 1 * k <= q * k
        BY <1>1, <3>1, <4>1, TimesMonotone
      <4> QED BY <1>1, <3>1, <4>2
    <3>3. k * q > MaxBatch
      BY <1>1, <3>1, <3>2
    <3> QED BY <3>3
  <2>2. Partly(f, 0)
    BY <2>1
  <2> QED BY <2>2
<1>5. ASSUME NEW n \in 0 .. MaxBatch - 1, n \in P
      PROVE  n + 1 \in P
  <2>1. PICK f : Partly(f, n)
    BY <1>5
  <2> DEFINE m == MaxBatch - n
             v == F(f, m)
             g == [k \in From(n + 1) |-> IF k = m THEN v ELSE f[k]]
  <2>2. m \in Nat \ {0} /\ n \in Nat /\ n + 1 \in Nat
    BY <1>1
  <2>3. /\ m \in From(n + 1) /\ m \notin From(n)
        /\ \A k \in From(n + 1) : k = m \/ k \in From(n)
        /\ \A k \in From(n) : k \in From(n + 1) /\ k # m
        /\ \A k \in From(n + 1) : 2 * k \in From(n) /\ 2 * k # k
    BY <1>1, <2>2
  <2> HIDE DEF m, From
  <2>4. ASSUME NEW k \in From(n)
        PROVE  f[k] = F(f, k)
    <3> HIDE DEF F
    <3> QED BY <2>1
  <2>5. ASSUME NEW k \in From(n + 1)
        PROVE  g[k] = F(g, k)
    <3>1. 2 * k \in From(n) /\ 2 * k \in From(n + 1) /\ 2 * k # m
      BY <2>3
    <3>2. g[2 * k] = f[2 * k]
      BY <3>1
    <3>3. F(g, k) = F(f, k)
      <4> HIDE DEF g
      <4> QED BY <3>2
    <3>4. g[k] = F(f, k)
      <4>1. CASE k = m
        <5> HIDE DEF F
        <5> QED BY <2>3, <4>1
      <4>2. CASE k # m
        <5>1. g[k] = f[k] /\ k \in From(n)
          <6> HIDE DEF F
          <6> QED BY <2>3, <4>2
        <5> QED BY <2>4, <5>1
      <4> QED BY <4>1, <4>2
    <3> HIDE DEF F, g
    <3> QED BY <3>3, <3>4
  <2>6. Partly(g, n + 1)
    <3> HIDE DEF F
    <3>1. [k \in From(n + 1) |-> g[k]] = [k \in From(n + 1) |-> F(g, k)]
      BY <2>5
    <3> QED BY <3>1
  <2> HIDE DEF Partly, g
  <2> QED BY <2>2, <2>6
<1>6. P \in SUBSET Nat
  OBVIOUS
<1>7. \E f : Solves(f)
  <2> HIDE DEF Partly
  <2>1. MaxBatch \in P
    <3> HIDE DEF P
    <3>1. \A n \in 0 .. MaxBatch - 1 : n \in P => n + 1 \in P
      BY <1>5
    <3>2. 0 .. MaxBatch \subseteq P
      BY <1>1, <1>4, <1>6, <3>1, Induction
    <3> QED BY <1>1, <3>2
  <2>2. From(MaxBatch) = Nat \ {0}
    BY <1>1
  <2> HIDE DEF From, F
  <2>3. PICK f : Partly(f, MaxBatch)
    BY <2>1
  <2>4. Solves(f)
    BY <2>2, <2>3 DEF Partly
  <2> QED BY <2>4
<1> HIDE DEF P, Partly, From
<1> DEFINE f == CHOOSE f : Solves(f)
<1>8. \A k \in Nat \ {0} : f[k] = F(f, k)
  <2>1. Solves(f)
    BY <1>7
  <2> HIDE DEF F, f
  <2> QED BY <2>1
<1> HIDE DEF f, Solves
<1> DEFINE Good(m) == \E x \in 1 .. L : /\ f[2 * m] = [k_cap |-> x, k_fail |-> 2 * x]
                                        /\ L < 2 * x
           Q == {n \in Nat : \A m \in 1 .. L : L - m < n => Good(m)}
<1>9. 0 \in Q
  BY <1>1
<1>10. ASSUME NEW n \in 0 .. L - 1, n \in Q
       PROVE  n + 1 \in Q
  <2>1. ASSUME NEW m \in 1 .. L, L - m < n + 1
        PROVE  Good(m)
    <3>1. m \in Nat \ {0} /\ 2 * m \in Nat \ {0} /\ n \in Nat /\ (2 * m) \div 2 = m
      BY <1>1
    <3>2. 2 * m * q <= MaxBatch
      <4>1. (2 * m) * q <= (2 * L) * q
        BY <1>1, <3>1, TimesMonotone
      <4>2. (2 * m) * q \in Nat /\ (2 * L) * q \in Nat
        BY <1>1, <3>1
      <4> QED BY <1>1, <4>1, <4>2
    <3>3. ~(2 * m * q > MaxBatch)
      <4>1. 2 * m * q \in Nat
        BY <1>1, <3>1
      <4> QED BY <1>1, <3>2, <4>1
    <3>4. CASE 2 * m > L
      <4>1. f[2 * m] = [k_cap |-> m, k_fail |-> 2 * m]
        BY <1>2, <1>8, <3>1, <3>3, <3>4
      <4> QED BY <3>4, <4>1
    <3>5. CASE 2 * m <= L
      <4>1. f[2 * m] = f[2 * (2 * m)]
        <5>1. ~Oom(c, t, 2 * m)
          BY <1>1, <1>2, <3>1, <3>5
        <5> QED BY <1>8, <3>1, <3>3, <5>1
      <4>2. 2 * m \in 1 .. L /\ L - 2 * m < n
        BY <1>1, <2>1, <3>1, <3>5
      <4>3. Good(2 * m)
        BY <1>10, <4>2
      <4> QED BY <4>1, <4>3
    <3>6. 2 * m > L \/ 2 * m <= L
      BY <1>1, <3>1
    <3> HIDE DEF Good
    <3> QED BY <3>4, <3>5, <3>6
  <2> HIDE DEF Good
  <2>2. n + 1 \in Nat
    OBVIOUS
  <2> QED BY <2>1, <2>2
<1>11. L \in Q
  <2>1. Q \in SUBSET Nat /\ 0 \in Nat /\ L \in Nat
    BY <1>1
  <2> HIDE DEF Q
  <2>2. \A n \in 0 .. L - 1 : n \in Q => n + 1 \in Q
    BY <1>10
  <2>3. 0 .. L \subseteq Q
    BY <1>9, <2>1, <2>2, Induction
  <2> QED BY <1>1, <2>3
<1>12. Good(1)
  <2> HIDE DEF Good
  <2>1. 1 \in 1 .. L /\ L - 1 < L
    BY <1>1
  <2> QED BY <1>11, <2>1
<1>13. 2 * 1 = 2
  OBVIOUS
<1> QED BY <1>3, <1>12, <1>13 DEF f, L

\* With the limit out of reach, the capacity is the largest batch that fits.
LEMMA CapIs ==
  ASSUME NEW c \in Cells, NEW t \in Configs,
         2 * Len(est_lat[c][t]) * dp[t] <= MaxBatch, ~Oom(c, t, 1)
  PROVE  CapOf(c, t) = Len(est_lat[c][t])
<1> DEFINE L == Len(est_lat[c][t])
<1>1. L \in Nat
  BY ListingAssumption
<1>2. PICK x \in 1 .. L : /\ Bracket(c, t) = [k_cap |-> x, k_fail |-> 2 * x]
                          /\ L < 2 * x
  BY BracketIs
<1>3. x \in Nat \ {0} /\ 2 * x # 0 /\ x + 1 \in Nat \ {0} /\ 2 * x - 1 \in Nat
  BY <1>1
<1>4. CapOf(c, t) = Bisected(Fit(c, t), x + 1, 2 * x - 1, x)
  BY <1>2, <1>3 DEF CapOf
<1>5. GoodUpTo(Fit(c, t), L)
  BY <1>1 DEF GoodUpTo, Fit, Oom
<1> HIDE DEF L
<1>6. CapOf(c, t) = IF x + 1 > 2 * x - 1 \/ L < x + 1 THEN x
                    ELSE IF L < 2 * x - 1 THEN L ELSE 2 * x - 1
  <2> DEFINE lo == x + 1
             hi == 2 * x - 1
             good == Fit(c, t)
  <2>1. lo \in Nat \ {0} /\ hi \in Nat /\ x \in Nat
    BY <1>3
  <2>2. GoodUpTo(good, L)
    BY <1>5
  <2> HIDE DEF lo, hi, good
  <2>3. Bisected(good, lo, hi, x)
          = IF lo > hi \/ L < lo THEN x ELSE IF L < hi THEN L ELSE hi
    BY <1>1, <2>1, <2>2, BisectedIs
  <2> QED BY <1>4, <2>3 DEF lo, hi, good
<1>7. CapOf(c, t) = L
  BY <1>1, <1>2, <1>3, <1>6
<1> QED BY <1>7 DEF L

\* Estimates, and measured times, do not fall as the batch grows.
LEMMA Grows ==
  ASSUME NEW e \in Seq(Nat), \A k \in 1 .. Len(e) - 1 : e[k] <= e[k + 1],
         NEW i \in 1 .. Len(e), NEW j \in i .. Len(e)
  PROVE  e[i] <= e[j]
<1> DEFINE P == {n \in i .. Len(e) : e[i] <= e[n]}
<1>1. Len(e) \in Nat /\ i \in Nat \ {0} /\ j \in Nat \ {0} /\ i <= j
      /\ \A n \in 1 .. Len(e) : e[n] \in Nat
  OBVIOUS
<1>2. i \in P /\ P \in SUBSET Nat
  BY <1>1
<1>3. ASSUME NEW n \in i .. j - 1, n \in P
      PROVE  n + 1 \in P
  <2>1. /\ n \in 1 .. Len(e) - 1 /\ n + 1 \in i .. Len(e)
        /\ e[n] \in Nat /\ e[n + 1] \in Nat /\ e[i] \in Nat
    BY <1>1
  <2> QED BY <1>3, <2>1
<1> HIDE DEF P
<1>4. i .. j \subseteq P
  BY <1>1, <1>2, <1>3, Induction
<1> QED BY <1>1, <1>4 DEF P

\* Estimated throughput does not fall either.
LEMMA ThroughputGrows ==
  ASSUME NEW e \in Seq(Nat),
         \A k \in 1 .. Len(e) - 1 : k * e[k + 1] <= (k + 1) * e[k],
         NEW i \in 1 .. Len(e), NEW j \in i .. Len(e)
  PROVE  i * e[j] <= j * e[i]
<1> DEFINE P == {n \in i .. Len(e) : i * e[n] <= n * e[i]}
<1>1. Len(e) \in Nat /\ i \in Nat \ {0} /\ j \in Nat \ {0} /\ i <= j
      /\ \A n \in 1 .. Len(e) : e[n] \in Nat
  OBVIOUS
<1>2. i \in P /\ P \in SUBSET Nat
  BY <1>1
<1>3. ASSUME NEW n \in i .. j - 1, n \in P
      PROVE  n + 1 \in P
  <2> DEFINE a == e[n]
             b == e[n + 1]
             d == e[i]
  <2>1. /\ n \in Nat \ {0} /\ n \in 1 .. Len(e) - 1 /\ n + 1 \in i .. Len(e)
        /\ a \in Nat /\ b \in Nat /\ d \in Nat
    BY <1>1
  <2>2. n * b <= (n + 1) * a /\ i * a <= n * d
    BY <1>3, <2>1
  <2> HIDE DEF a, b, d
  <2>3. (n * b) * i <= ((n + 1) * a) * i
    <3>1. n * b \in Nat /\ (n + 1) * a \in Nat
      BY <2>1
    <3> QED BY <1>1, <2>2, <3>1, TimesMonotone
  <2>4. (i * a) * (n + 1) <= (n * d) * (n + 1)
    <3>1. i * a \in Nat /\ n * d \in Nat /\ n + 1 \in Nat
      BY <1>1, <2>1
    <3> QED BY <2>2, <3>1, TimesMonotone
  <2>5. /\ (n * b) * i = (i * b) * n
        /\ ((n + 1) * a) * i = (i * a) * (n + 1)
        /\ (n * d) * (n + 1) = ((n + 1) * d) * n
    BY <1>1, <2>1
  <2>6. i * b \in Nat /\ (n + 1) * d \in Nat /\ (i * a) * (n + 1) \in Nat
    BY <1>1, <2>1
  <2>7. (i * b) * n <= ((n + 1) * d) * n
    <3> DEFINE x == (i * b) * n
               y == (i * a) * (n + 1)
               z == ((n + 1) * d) * n
    <3>1. x \in Nat /\ y \in Nat /\ z \in Nat
      BY <1>1, <2>1
    <3>2. x <= y /\ y <= z
      BY <2>3, <2>4, <2>5, Zenon
    <3> HIDE DEF x, y, z
    <3>3. x <= z
      BY <3>1, <3>2
    <3> QED BY <3>3 DEF x, z
  <2>8. i * b <= (n + 1) * d
    BY <2>1, <2>6, <2>7, FactorCancels
  <2> QED BY <2>1, <2>8 DEF b, d
<1> HIDE DEF P
<1>4. i .. j \subseteq P
  BY <1>1, <1>2, <1>3, Induction
<1> QED BY <1>1, <1>4 DEF P

\* The batches that meet the bound come first.
LEMMA MeetIs ==
  ASSUME NEW c \in Cells, NEW t \in Configs, EstimatesAreBounds(c)
  PROVE  \E g \in 0 .. Len(est_lat[c][t]) : GoodUpTo(Meet(c, t), g)
<1> USE DEF GoodUpTo
<1> DEFINE e == est_lat[c][t]
           L == Len(e)
           slo == tpot_slo[c]
           P == {n \in 0 .. L : \A j \in 1 .. n : e[j] <= slo}
<1>1. e \in Seq(Nat) /\ L \in Nat /\ slo \in Nat
  BY ListingAssumption
<1>2. \A j \in Nat \ {0} : j \in Meet(c, t) <=> j \in 1 .. L /\ e[j] <= slo
  BY <1>1 DEF Meet, Fit, Oom
<1>3. \A i \in 1 .. L, j \in 1 .. L : i <= j => e[i] <= e[j] /\ e[j] \in Nat /\ e[i] \in Nat
  <2>1. \A k \in 1 .. L - 1 : e[k] <= e[k + 1]
    BY DEF EstimatesAreBounds
  <2> HIDE DEF e
  <2>2. ASSUME NEW i \in 1 .. L, NEW j \in 1 .. L, i <= j
        PROVE  e[i] <= e[j] /\ e[j] \in Nat /\ e[i] \in Nat
    <3>1. j \in i .. L
      BY <1>1, <2>2
    <3> QED BY <1>1, <2>1, <3>1, Grows
  <2> QED BY <2>2
<1> HIDE DEF e, L, slo
<1>4. CASE L \in P
  <2>1. \A j \in Nat \ {0} : j \in Meet(c, t) <=> j <= L
    BY <1>1, <1>2, <1>4
  <2>2. L \in 0 .. L
    BY <1>1
  <2> QED BY <2>1, <2>2 DEF L, e
<1>5. CASE L \notin P
  <2>1. P \in SUBSET Nat /\ 0 \in P /\ 0 \in Nat
    BY <1>1
  <2>2. PICK n \in 0 .. L - 1 : n \in P /\ n + 1 \notin P
    <3> HIDE DEF P
    <3> SUFFICES ASSUME \A n \in 0 .. L - 1 : n \in P => n + 1 \in P
                 PROVE  FALSE
      OBVIOUS
    <3>1. 0 .. L \subseteq P
      BY <1>1, <2>1, Induction
    <3> QED BY <1>1, <1>5, <3>1
  <2>3. ~(e[n + 1] <= slo) /\ n + 1 \in 1 .. L
    BY <1>1, <2>2
  <2>4. ASSUME NEW j \in Nat \ {0}
        PROVE  j \in Meet(c, t) <=> j <= n
    <3>1. CASE j <= n
      BY <1>1, <1>2, <2>2, <2>4, <3>1
    <3>2. CASE n + 1 <= j
      <4>1. j \in 1 .. L => e[n + 1] <= e[j] /\ e[n + 1] \in Nat /\ e[j] \in Nat
        BY <1>3, <2>3, <3>2
      <4>2. ~(j <= n)
        BY <1>1, <3>2
      <4> QED BY <1>1, <1>2, <2>3, <4>1, <4>2
    <3> QED BY <1>1, <2>2, <3>1, <3>2
  <2> QED BY <1>1, <2>2, <2>4 DEF L, e
<1> QED BY <1>4, <1>5
\* The hint is the largest batch that meets the bound, if any does.
LEMMA HintIs ==
  ASSUME NEW c \in Cells, NEW t \in Configs, EstimatesAreBounds(c),
         2 * Len(est_lat[c][t]) * dp[t] <= MaxBatch, ~Oom(c, t, 1),
         NEW g \in 1 .. Len(est_lat[c][t]), GoodUpTo(Meet(c, t), g)
  PROVE  HintOf(c, t) = g
<1> DEFINE L == Len(est_lat[c][t])
           m == L - 1
<1>1. L \in Nat \ {0} /\ g \in Nat \ {0} /\ g <= L /\ m \in Nat /\ 1 \in Nat \ {0}
  BY ListingAssumption DEF Oom
<1>2. CapOf(c, t) = L
  BY CapIs
<1>3. L \in Meet(c, t) <=> L <= g
  BY <1>1 DEF GoodUpTo
<1>4. HintOf(c, t) = IF L \in Meet(c, t) THEN L ELSE Bisected(Meet(c, t), 1, m, 1)
  BY <1>2 DEF HintOf
<1> HIDE DEF L, m
<1>5. Bisected(Meet(c, t), 1, m, 1)
        = IF 1 > m \/ g < 1 THEN 1 ELSE IF g < m THEN g ELSE m
  BY <1>1, BisectedIs
<1>6. m = L - 1
  BY DEF m
<1> QED BY <1>1, <1>3, <1>4, <1>5, <1>6

\* The order of throughputs, as fractions with positive denominators.
LEMMA HigherTransitive ==
  ASSUME NEW a \in Nat, NEW b \in Nat, NEW c \in Nat, NEW d \in Nat \ {0},
         NEW e \in Nat, NEW f \in Nat,
         ~Higher(<<a, b>>, <<c, d>>), ~Higher(<<c, d>>, <<e, f>>)
  PROVE  ~Higher(<<a, b>>, <<e, f>>)
<1>1. a * d <= c * b /\ c * f <= e * d
  <2>1. a * d \in Nat /\ c * b \in Nat /\ c * f \in Nat /\ e * d \in Nat
    OBVIOUS
  <2> QED BY <2>1 DEF Higher
<1>2. (a * d) * f <= (c * b) * f /\ (c * f) * b <= (e * d) * b
  <2>1. a * d \in Nat /\ c * b \in Nat /\ c * f \in Nat /\ e * d \in Nat
    OBVIOUS
  <2> QED BY <1>1, <2>1, TimesMonotone
<1>3. (a * d) * f = (a * f) * d /\ (c * b) * f = (c * f) * b
      /\ (e * d) * b = (e * b) * d
  OBVIOUS
<1>4. (a * f) * d <= (e * b) * d
  <2> DEFINE x == (a * f) * d
             y == (c * f) * b
             z == (e * b) * d
  <2>1. x \in Nat /\ y \in Nat /\ z \in Nat
    OBVIOUS
  <2>2. x <= y /\ y <= z
    BY <1>2, <1>3, Zenon
  <2> HIDE DEF x, y, z
  <2>3. x <= z
    BY <2>1, <2>2
  <2> QED BY <2>3 DEF x, z
<1>5. a * f \in Nat /\ e * b \in Nat
  OBVIOUS
<1>6. a * f <= e * b
  BY <1>4, <1>5, FactorCancels
<1> QED BY <1>5, <1>6 DEF Higher

\* The lines of the analytic run.
LEMMA ListedLines ==
  ASSUME NEW c \in Cells, listing = Listings
  PROVE  /\ \A t \in Configs : ~Oom(c, t, 1) => ConfigLine(c, t) \in listing[c]
         /\ \A l \in listing[c] : /\ l.config \in Configs
                                  /\ ~Oom(c, l.config, 1)
                                  /\ l = ConfigLine(c, l.config)
<1>1. listing[c] = {ConfigLine(c, t) : t \in Listed(c)}
  BY DEF Listings
<1>2. \A t : ConfigLine(c, t).config = t
  BY DEF ConfigLine
<1> QED BY <1>1, <1>2 DEF Listed

\* A configuration that can run is listed, and what its line promises is at
\* least what any of its batches reaches.
LEMMA LinesPromise ==
  ASSUME NEW c \in Cells, NEW t \in Configs, listing = Listings,
         EstimatesAreBounds(c), 2 * Len(est_lat[c][t]) * dp[t] <= MaxBatch,
         NEW k \in Feasible(c, t)
  PROVE  LET l == ConfigLine(c, t)
         IN /\ l \in listing[c]
            /\ l.slo_hint_batch \in Nat /\ l.est_lat_hint \in Nat \ {0}
            /\ ~Higher(<<k * dp[t], tpot[c][t][k]>>, SeedTps(l))
<1> DEFINE e == est_lat[c][t]
           m == tpot[c][t]
           q == dp[t]
           slo == tpot_slo[c]
<1>1. /\ e \in Seq(Nat) /\ m \in Seq(Nat) /\ q \in Nat \ {0} /\ slo \in Nat
      /\ \A j \in 1 .. Len(e) : e[j] \in Nat \ {0}
  BY ListingAssumption, SearchAssumption
<1>2. /\ Len(m) <= Len(e)
      /\ \A j \in 1 .. Len(m) : e[j] <= m[j]
      /\ \A j \in 1 .. Len(e) - 1 : j * e[j + 1] <= (j + 1) * e[j]
  BY DEF EstimatesAreBounds
<1>3. k \in 1 .. Len(m) /\ m[k] <= slo
  BY DEF Feasible
<1>4. PICK g \in 0 .. Len(e) : GoodUpTo(Meet(c, t), g)
  BY MeetIs
<1>5. \A j \in Nat \ {0} : j \in Meet(c, t) <=> j \in 1 .. Len(e) /\ e[j] <= slo
  BY <1>1 DEF Meet, Fit, Oom
<1>6. ~Oom(c, t, 1)
  <2> HIDE DEF m
  <2> QED BY <1>1, <1>2, <1>3 DEF Oom
<1> HIDE DEF e, m, q, slo
<1>7. k \in Nat \ {0} /\ k \in 1 .. Len(e) /\ e[k] \in Nat \ {0} /\ m[k] \in Nat
      /\ e[k] <= m[k]
  BY <1>1, <1>2, <1>3
<1>8. k <= g /\ g \in 1 .. Len(e)
  <2>1. e[k] <= slo
    BY <1>1, <1>3, <1>7
  <2>2. k \in Meet(c, t)
    BY <1>5, <1>7, <2>1
  <2>3. k <= g
    BY <1>4, <1>7, <2>2 DEF GoodUpTo
  <2> QED BY <1>1, <1>4, <1>7, <2>3
<1>9. HintOf(c, t) = g
  BY <1>4, <1>6, <1>8, HintIs DEF e
<1>10. k * e[g] <= g * e[k]
  <2>1. g \in k .. Len(e)
    BY <1>1, <1>7, <1>8
  <2> QED BY <1>1, <1>2, <1>7, <2>1, ThroughputGrows
<1>11. g \in Nat /\ e[g] \in Nat \ {0}
  BY <1>1, <1>8
<1>12. k * e[g] <= g * m[k]
  <2>1. e[k] * g <= m[k] * g
    BY <1>7, <1>11, TimesMonotone
  <2>2. /\ e[k] * g = g * e[k] /\ m[k] * g = g * m[k]
        /\ k * e[g] \in Nat /\ g * e[k] \in Nat /\ g * m[k] \in Nat
    BY <1>7, <1>11
  <2> QED BY <1>10, <2>1, <2>2
<1>13. (k * q) * e[g] <= (g * q) * m[k]
  <2>1. (k * e[g]) * q <= (g * m[k]) * q
    <3>1. k * e[g] \in Nat /\ g * m[k] \in Nat
      BY <1>7, <1>11
    <3> QED BY <1>1, <1>12, <3>1, TimesMonotone
  <2>2. \A i \in Nat, y \in Nat : (i * y) * q = (i * q) * y
    BY <1>1
  <2>3. (k * e[g]) * q = (k * q) * e[g] /\ (g * m[k]) * q = (g * q) * m[k]
    BY <1>7, <1>11, <2>2
  <2> QED BY <2>1, <2>3
<1> DEFINE l == ConfigLine(c, t)
<1>14. /\ l \in listing[c]
       /\ l.slo_hint_batch = g * q /\ l.est_lat_hint = e[g]
  <2>1. l \in listing[c]
    BY <1>6, ListedLines
  <2> QED BY <1>9, <2>1 DEF ConfigLine, e, q
<1> HIDE DEF l
<1>15. (k * q) * e[g] \in Nat /\ (g * q) * m[k] \in Nat /\ g * q \in Nat
  <2>1. \A i \in Nat, y \in Nat : (i * q) * y \in Nat /\ i * q \in Nat
    BY <1>1
  <2> QED BY <1>7, <1>11, <2>1
<1>16. ~Higher(<<k * q, m[k]>>, SeedTps(l))
  BY <1>13, <1>14, <1>15 DEF Higher, SeedTps
<1>17. /\ l \in listing[c] /\ l.slo_hint_batch \in Nat
       /\ l.est_lat_hint \in Nat \ {0}
  BY <1>11, <1>14, <1>15
<1> QED BY <1>16, <1>17 DEF l, m, q

\* What decides whether a batch can run is its time, and times grow.
LEMMA LargestIs ==
  ASSUME NEW c \in Cells, NEW t \in Configs, EstimatesAreBounds(c),
         NEW h \in Nat,
         h > 0 => Simulated([cell |-> c, config |-> t, k |-> h]).success,
         ~Simulated([cell |-> c, config |-> t, k |-> h + 1]).success,
         NEW k \in Feasible(c, t), \A j \in Feasible(c, t) : j <= k
  PROVE  k = h /\ h > 0
<1> DEFINE m == tpot[c][t]
           slo == tpot_slo[c]
<1>1. m \in Seq(Nat) /\ slo \in Nat
  BY ListingAssumption, SearchAssumption
<1>2. \A j \in Nat \ {0} : Simulated([cell |-> c, config |-> t, k |-> j]).success
                             <=> j \in Feasible(c, t)
  <2> TAKE j \in Nat \ {0}
  <2>1. CASE j > Len(m)
    BY <1>1, <2>1 DEF Simulated, Failure, Feasible
  <2>2. CASE j \in 1 .. Len(m) /\ m[j] > slo
    BY <1>1, <2>2 DEF Simulated, Failure, Feasible
  <2>3. CASE j \in 1 .. Len(m) /\ m[j] <= slo
    BY <1>1, <2>3 DEF Simulated, Success, Feasible
  <2> QED BY <1>1, <2>1, <2>2, <2>3
<1>3. k \in 1 .. Len(m) /\ m[k] <= slo
  BY DEF Feasible
<1>4. \A j \in 1 .. Len(m) - 1 : m[j] <= m[j + 1]
  BY DEF EstimatesAreBounds
<1>5. Feasible(c, t) = {j \in 1 .. Len(m) : m[j] <= slo}
  BY DEF Feasible
<1>6. h + 1 \notin Feasible(c, t) /\ (h > 0 => h \in Feasible(c, t))
  BY <1>2
<1> HIDE DEF m, slo
<1>7. k <= h
  <2> SUFFICES ASSUME h + 1 <= k
               PROVE  FALSE
    BY <1>1, <1>3
  <2>1. h + 1 \in 1 .. Len(m) /\ k \in h + 1 .. Len(m)
    BY <1>1, <1>3
  <2>2. m[h + 1] <= m[k]
    BY <1>1, <1>4, <2>1, Grows
  <2>3. m[h + 1] \in Nat /\ m[k] \in Nat
    BY <1>1, <1>3, <2>1
  <2> QED BY <1>1, <1>3, <1>5, <1>6, <2>1, <2>2, <2>3
<1> QED BY <1>1, <1>3, <1>6, <1>7

----------------------------------------------------------------------------
(***************************************************************************)
(* The answer is the best                                                  *)
(***************************************************************************)

\* The limit on batches is out of reach: doubling from any batch that fits
\* stays below it.  It is 2^30 in the code.
LimitIsAmple ==
  \A c \in Cells, t \in Configs : 2 * Len(est_lat[c][t]) * dp[t] <= MaxBatch

\* The largest batch that configuration t can run in cell c.
Largest(c, t, k) ==
  k \in Feasible(c, t) /\ \A j \in Feasible(c, t) : j <= k

\* b is an answer, and its throughput is not below that of batch k.
Beaten(c, t, k, b) ==
  b.k > 0 /\ ~Higher(<<k * dp[t], tpot[c][t][k]>>, Tps(b))

Probes == {"lookup", "run", "write", "back"}

\* A search s at stage g has still to settle configuration t.
Ahead(s, g, t) ==
  \/ \E l \in s.todo : l.config = t
  \/ g \in Probes /\ s.probe # "auto" /\ s.line.config = t

\* A search s at stage g has looked at every configuration with a batch that
\* runs, or has it ahead, or has found one at least as good.
Thorough(s, g) ==
  /\ s.todo \subseteq listing[s.cell]
  /\ s.best.k > 0 => s.best.config \in Configs
  /\ g \in Probes /\ s.probe = "auto" => s.todo = {} /\ s.best.k = 0
  /\ \A t \in Configs : \A k \in Nat :
       Largest(s.cell, t, k) => Ahead(s, g, t) \/ Beaten(s.cell, t, k, s.best)

\* What AnswerIsTheBest rests on: in a search in which nothing went wrong.
ThoroughInv ==
  \A w \in Workers :
    stage[w] # "idle" /\ ~hiccup[w] /\ EstimatesAreBounds(search[w].cell) =>
      Thorough(search[w], stage[w])

\* The answer a that a worker returned is the best.
IsTheBest(a) ==
  a.cell \in Cells /\ ~a.hiccup /\ EstimatesAreBounds(a.cell) =>
    \A t \in Configs : \A k \in Nat :
      Largest(a.cell, t, k) => Beaten(a.cell, t, k, a.best)

\* The property says so of every worker's.
LEMMA BestAnswers ==
  AnswerIsTheBest <=> \A w \in Workers : IsTheBest(answer[w])
<1>1. \A c, t : Feasible(c, t) \subseteq Nat
  BY DEF Feasible
<1> QED BY <1>1 DEF AnswerIsTheBest, IsTheBest, Largest, Beaten

\* t is the search s with another probe of the same configuration.
SameSearch(s, t) ==
  t.cell = s.cell /\ t.todo = s.todo /\ t.best = s.best /\ t.line = s.line

\* s has verified the largest batch of its configuration.
Exhausted(s) ==
  /\ s.best_k > 0 => At(s.cell, s.line.config, s.best_k) = Success(s.tpot)
  /\ ~At(s.cell, s.line.config, s.best_k + 1).success

\* What follows from a probe: another one, or the end of the configuration.
GoesOn(w) ==
  \E t \in Search :
    /\ SameSearch(search[w], t) /\ t.probe # "auto"
    /\ ToProbe(w, t)

Ends(w) ==
  \E t \in Search :
    /\ SameSearch(search[w], t) /\ Exhausted(t)
    /\ search' = [search EXCEPT ![w] = Settled(t)]
    /\ stage' = [stage EXCEPT ![w] = "next"]

\* In a search in which nothing went wrong a configuration ends at its largest
\* batch.
LEMMA ProbeLeads ==
  ASSUME TypeOK, NEW w \in Workers, Tight(search[w], stage[w], res[w]),
         \/ HintHolds(w) \/ CapHolds(w) \/ WidenHolds(w)
         \/ BisectHolds(w) \/ ProbeFails(w)
  PROVE  GoesOn(w) \/ Ends(w)
<1> DEFINE s == search[w]
           r == res[w]
           v == Verified(s, r)
           f == Refuted(s, r)
<1>1. stage[w] = "back" /\ s.probe # "auto"
  BY DEF HintHolds, CapHolds, WidenHolds, BisectHolds, ProbeFails
<1>2. s \in Search /\ s.cell \in Cells /\ r \in Result
  BY <1>1 DEF TypeOK
<1>3. Bracketed(s) /\ r = Simulated(KeyOf(s))
  BY <1>1 DEF Tight
<1>4. KeyOf(s) \in Key /\ r = At(s.cell, s.line.config, s.k)
  BY <1>2, <1>3, KeyType DEF KeyOf, At
<1>5. s.k \in Nat \ {0} /\ s.best_k \in Nat /\ s.gap \in Nat \ {0} /\ s.hi \in Nat
  BY <1>2 DEF Search
<1>6. /\ v \in Search /\ SameSearch(s, v) /\ v.best_k = s.k /\ v.tpot = r.tpot
      /\ v.probe = s.probe
  <2>1. v \in Search
    BY <1>2, SearchSteps
  <2> QED BY <1>2, <2>1 DEF SameSearch, Verified, Search
<1>7. /\ f \in Search /\ SameSearch(s, f) /\ f.best_k = s.best_k
      /\ f.tpot = s.tpot /\ f.probe = s.probe
  <2>1. f \in Search
    BY <1>2, SearchSteps
  <2> QED BY <1>2, <2>1 DEF SameSearch, Refuted, Search
<1>8. r.success => At(s.cell, s.line.config, s.k) = Success(r.tpot)
  BY <1>3, <1>4, SuccessTells
<1> HIDE DEF v, f
<1>9. ASSUME NEW u \in Search, SameSearch(s, u), NEW hi \in Nat, Bisect(w, u, hi),
             u.best_k <= hi,
             u.best_k > 0 => At(s.cell, s.line.config, u.best_k) = Success(u.tpot),
             ~At(s.cell, s.line.config, hi + 1).success
      PROVE  GoesOn(w) \/ Ends(w)
  <2>1. CASE ~IsNarrow(u, hi) /\ ToProbe(w, Narrowed(u, hi))
    <3>1. /\ Narrowed(u, hi) \in Search
          /\ SameSearch(s, Narrowed(u, hi)) /\ Narrowed(u, hi).probe # "auto"
      <4>1. Narrowed(u, hi) \in Search
        BY <1>9, <2>1, SearchSteps
      <4> QED BY <1>9, <4>1 DEF SameSearch, Narrowed, Search
    <3> QED BY <2>1, <3>1 DEF GoesOn
  <2>2. CASE /\ IsNarrow(u, hi)
             /\ search' = [search EXCEPT ![w] = Settled(u)]
             /\ stage' = [stage EXCEPT ![w] = "next"]
    <3>1. u.best_k = hi
      <4>1. u.best_k \in Nat
        BY DEF Search
      <4> QED BY <1>9, <2>2, <4>1 DEF IsNarrow
    <3>2. u.cell = s.cell /\ u.line = s.line
      BY <1>9 DEF SameSearch
    <3>3. Exhausted(u)
      BY <1>9, <3>1, <3>2 DEF Exhausted
    <3> QED BY <1>9, <2>2, <3>3 DEF Ends
  <2> QED BY <1>9, <2>1, <2>2 DEF Bisect
<1>10. ASSUME NEW gap \in Nat \ {0}, ToProbe(w, Widened(v, gap))
       PROVE  GoesOn(w)
  <2>1. Widened(v, gap) \in Search
    BY <1>6, SearchSteps
  <2>2. SameSearch(s, Widened(v, gap)) /\ Widened(v, gap).probe # "auto"
    BY <1>6 DEF SameSearch, Widened, Search
  <2> QED BY <1>10, <2>1, <2>2 DEF GoesOn
<1>11. CASE HintHolds(w)
  <2>1. CASE ToProbe(w, [v EXCEPT !.probe = "cap", !.k = KCap(v.line)])
    <3> DEFINE t == [v EXCEPT !.probe = "cap", !.k = KCap(v.line)]
    <3>1. KCap(v.line) \in Nat \ {0}
      BY <1>6, ProbesType DEF Search
    <3>2. t \in Search /\ SameSearch(s, t) /\ t.probe # "auto"
      BY <1>6, <3>1 DEF Search, SameSearch
    <3> HIDE DEF t
    <3>3. ToProbe(w, t)
      BY <2>1 DEF t
    <3> QED BY <3>2, <3>3 DEF GoesOn
  <2>2. CASE ToProbe(w, Widened(v, 1))
    BY <1>10, <2>2
  <2> QED BY <1>11, <2>1, <2>2 DEF HintHolds, v
<1>12. CASE CapHolds(w)
  BY <1>10, <1>12 DEF CapHolds, v
<1>13. CASE WidenHolds(w)
  <2>1. 2 * s.gap \in Nat \ {0}
    BY <1>5
  <2> QED BY <1>10, <1>13, <2>1 DEF WidenHolds, v
<1>14. CASE BisectHolds(w)
  <2>1. r.success /\ s.probe = "bisect" /\ Bisect(w, v, s.hi)
    BY <1>14 DEF BisectHolds, v
  <2>2. s.k <= s.hi /\ ~At(s.cell, s.line.config, s.hi + 1).success
    BY <1>3, <2>1 DEF Bracketed
  <2> QED BY <1>5, <1>6, <1>8, <1>9, <2>1, <2>2
<1>15. CASE ProbeFails(w)
  <2>1. ~r.success /\ Bisect(w, f, s.k - 1)
    BY <1>15 DEF ProbeFails, f
  <2>2. s.k - 1 \in Nat /\ s.k - 1 + 1 = s.k /\ s.best_k <= s.k - 1
    BY <1>3, <1>5 DEF Bracketed
  <2>3. s.best_k > 0 => At(s.cell, s.line.config, s.best_k) = Success(s.tpot)
    BY <1>3 DEF Bracketed
  <2>4. ~At(s.cell, s.line.config, s.k - 1 + 1).success
    BY <1>4, <2>1, <2>2
  <2> QED BY <1>7, <1>9, <2>1, <2>2, <2>3, <2>4
<1> QED BY <1>11, <1>12, <1>13, <1>14, <1>15

\* A batch that runs takes the time it is measured to take.
LEMMA SuccessTime ==
  ASSUME NEW c \in Cells, NEW t \in Configs, NEW k \in Nat \ {0}, NEW time,
         At(c, t, k) = Success(time)
  PROVE  time = tpot[c][t][k] /\ time \in Nat \ {0}
<1> DEFINE m == tpot[c][t]
<1>1. m \in Seq(Nat \ {0})
  BY SearchAssumption
<1>2. At(c, t, k) = IF k > Len(m) THEN Failure(bound[c][t])
                    ELSE IF m[k] > tpot_slo[c] THEN Failure("slo")
                    ELSE Success(m[k])
  BY DEF At, Simulated
<1> HIDE DEF m
<1>3. \A why : Failure(why) # Success(time)
  BY DEF Failure, Success
<1>4. ~(k > Len(m)) /\ Success(m[k]) = Success(time)
  BY <1>2, <1>3
<1>5. m[k] = time
  BY <1>4 DEF Success
<1>6. m[k] \in Nat \ {0}
  BY <1>1, <1>4
<1> QED BY <1>5, <1>6 DEF m

\* A better answer beats what the one before it has beaten.
LEMMA BeatenByBetter ==
  ASSUME NEW c \in Cells, NEW t \in Configs, NEW k \in Feasible(c, t),
         NEW b \in Best, NEW d \in Best, b.tpot > 0, d.k > 0,
         Beaten(c, t, k, b), Higher(Tps(d), Tps(b))
  PROVE  Beaten(c, t, k, d)
<1> DEFINE n == k * dp[t]
           time == tpot[c][t][k]
           nb == b.k * dp[b.config]
           nd == d.k * dp[d.config]
<1>1. \A x \in Configs \cup {"auto"} : dp[x] \in Nat \ {0}
  BY SearchAssumption, ListingAssumption
<1>2. n \in Nat /\ time \in Nat
  <2>1. k \in Nat /\ k \in 1 .. Len(tpot[c][t]) /\ tpot[c][t] \in Seq(Nat \ {0})
    BY SearchAssumption DEF Feasible
  <2> QED BY <1>1, <2>1
<1>3. /\ nb \in Nat /\ nd \in Nat /\ b.tpot \in Nat \ {0} /\ d.tpot \in Nat
  <2>1. b.k \in Nat /\ d.k \in Nat /\ b.tpot \in Nat /\ d.tpot \in Nat
        /\ dp[b.config] \in Nat /\ dp[d.config] \in Nat
    BY <1>1 DEF Best
  <2> QED BY <2>1
<1>4. Tps(b) = <<nb, b.tpot>> /\ Tps(d) = <<nd, d.tpot>>
  BY DEF Tps
<1> HIDE DEF n, time, nb, nd
<1>5. ~Higher(<<n, time>>, <<nb, b.tpot>>)
  BY <1>4 DEF Beaten, n, time
<1>6. ~Higher(<<nb, b.tpot>>, <<nd, d.tpot>>)
  <2>1. nd * b.tpot > nb * d.tpot
    BY <1>4 DEF Higher
  <2>2. nd * b.tpot \in Nat /\ nb * d.tpot \in Nat
    BY <1>3
  <2> QED BY <2>1, <2>2 DEF Higher
<1>7. ~Higher(<<n, time>>, <<nd, d.tpot>>)
  BY <1>2, <1>3, <1>5, <1>6, HigherTransitive
<1> QED BY <1>4, <1>7 DEF Beaten, n, time

\* So does one that is not below what a line promises.
LEMMA BeatenByPromise ==
  ASSUME NEW c \in Cells, NEW t \in Configs, listing = Listings, LimitIsAmple,
         EstimatesAreBounds(c), NEW k \in Feasible(c, t), NEW b \in Best,
         Pruned(ConfigLine(c, t), b)
  PROVE  Beaten(c, t, k, b)
<1> DEFINE n == k * dp[t]
           time == tpot[c][t][k]
           nb == b.k * dp[b.config]
           l == ConfigLine(c, t)
<1>1. \A x \in Configs \cup {"auto"} : dp[x] \in Nat \ {0}
  BY SearchAssumption, ListingAssumption
<1>2. n \in Nat /\ time \in Nat
  <2>1. k \in Nat /\ k \in 1 .. Len(tpot[c][t]) /\ tpot[c][t] \in Seq(Nat \ {0})
    BY SearchAssumption DEF Feasible
  <2> QED BY <1>1, <2>1
<1>3. nb \in Nat /\ b.tpot \in Nat
  <2>1. b.k \in Nat /\ b.tpot \in Nat /\ dp[b.config] \in Nat
    BY <1>1 DEF Best
  <2> QED BY <2>1
<1>4. /\ l.slo_hint_batch \in Nat /\ l.est_lat_hint \in Nat \ {0}
      /\ ~Higher(<<n, time>>, SeedTps(l))
  BY LinesPromise DEF LimitIsAmple
<1>5. b.k > 0 /\ ~Higher(SeedTps(l), Tps(b))
  BY DEF Pruned
<1>6. Tps(b) = <<nb, b.tpot>> /\ SeedTps(l) = <<l.slo_hint_batch, l.est_lat_hint>>
  BY DEF Tps, SeedTps
<1> HIDE DEF n, time, nb, l
<1>7. ~Higher(<<n, time>>, <<nb, b.tpot>>)
  BY <1>2, <1>3, <1>4, <1>5, <1>6, HigherTransitive
<1> QED BY <1>5, <1>6, <1>7 DEF Beaten, n, time

\* A configuration that ends at its largest batch is settled.
LEMMA SettledIsThorough ==
  ASSUME NEW s \in Search, NEW u \in Search, s.cell \in Cells,
         EstimatesAreBounds(s.cell), SameSearch(s, u), Exhausted(u),
         s.line \in Line, BestTight(s.cell, s.best), Thorough(s, "back"),
         s.probe # "auto"
  PROVE  Thorough(Settled(u), "next")
<1> DEFINE c == s.cell
           found == [config |-> u.line.config, k |-> u.best_k, tpot |-> u.tpot,
                     reason |-> ClassifyFailure(u.cfg_fail)]
           x == Settled(u)
           better == u.best_k > 0 /\ (s.best.k = 0 \/ Higher(Tps(found), Tps(s.best)))
<1>1. u.cell = c /\ u.todo = s.todo /\ u.best = s.best /\ u.line = s.line
  BY DEF SameSearch
<1>2. /\ x.cell = c /\ x.todo = s.todo
      /\ x.best = IF better THEN found ELSE s.best
  BY <1>1, Zenon DEF Settled, Search
<1>3. /\ s.line.config \in Configs /\ u.best_k \in Nat /\ u.tpot \in Nat
      /\ found.config = s.line.config /\ found.k = u.best_k /\ found.tpot = u.tpot
  BY <1>1 DEF Line, Search
<1>4. found \in Best /\ s.best \in Best
  <2>1. ClassifyFailure(u.cfg_fail) \in Reasons
    BY ClassifiedType DEF Search
  <2> QED BY <1>1, <1>3, <2>1 DEF Best, Search
<1> HIDE DEF x, found
<1>5. ASSUME NEW t \in Configs, NEW k \in Nat, Largest(c, t, k)
      PROVE  Ahead(x, "next", t) \/ Beaten(c, t, k, x.best)
  <2>1. k \in Feasible(c, t) /\ \A j \in Feasible(c, t) : j <= k
    BY <1>5 DEF Largest
  <2>2. CASE \E l \in s.todo : l.config = t
    BY <1>2, <2>2 DEF Ahead
  <2>3. CASE s.line.config = t
    <3>1. k = u.best_k /\ u.best_k > 0
      <4>1. /\ u.best_k > 0 => At(c, t, u.best_k).success
            /\ ~At(c, t, u.best_k + 1).success
        BY <1>1, <2>3 DEF Exhausted, Success
      <4> QED BY <1>3, <2>1, <4>1, LargestIs DEF At
    <3>2. u.tpot = tpot[c][t][k]
      BY <1>1, <1>3, <2>3, <3>1, SuccessTime DEF Exhausted
    <3>3. Tps(found) = <<k * dp[t], tpot[c][t][k]>>
      BY <1>3, <2>3, <3>1, <3>2 DEF Tps
    <3>4. CASE better
      <4>1. ~Higher(Tps(found), Tps(found))
        <5>1. \A i \in Int : ~(i > i)
          OBVIOUS
        <5>2. Tps(found)[1] * Tps(found)[2] \in Int
          <6>1. dp[t] \in Nat
            BY ListingAssumption
          <6>2. k * dp[t] \in Nat /\ u.tpot \in Nat
            BY <1>3, <6>1
          <6>3. (k * dp[t]) * u.tpot \in Nat
            BY <6>2
          <6>4. Tps(found)[1] = k * dp[t] /\ Tps(found)[2] = u.tpot
            BY <3>2, <3>3
          <6> QED BY <6>3, <6>4
        <5> QED BY <5>1, <5>2 DEF Higher
      <4> QED BY <1>2, <1>3, <3>1, <3>3, <3>4, <4>1 DEF Beaten
    <3>5. CASE ~better
      <4>1. s.best.k # 0 /\ ~Higher(Tps(found), Tps(s.best))
        BY <3>1, <3>5
      <4>2. s.best.k > 0
        BY <1>4, <4>1 DEF Best
      <4> QED BY <1>2, <3>3, <3>5, <4>1, <4>2 DEF Beaten
    <3> QED BY <3>4, <3>5
  <2>4. CASE Beaten(c, t, k, s.best)
    <3>1. CASE ~better
      BY <1>2, <2>4, <3>1
    <3>2. CASE better
      <4>1. s.best.k > 0 /\ s.best.k # 0 /\ s.best.k \in Nat \ {0}
        BY <1>4, <2>4 DEF Beaten, Best
      <4>2. Higher(Tps(found), Tps(s.best)) /\ found.k > 0
        BY <1>3, <3>2, <4>1
      <4>3. s.best.tpot > 0
        <5>1. s.best.config \in Configs
          BY <4>1 DEF Thorough
        <5>2. s.best.tpot \in Nat \ {0}
          BY <4>1, <5>1, SuccessTime DEF BestTight
        <5> QED BY <5>2
      <4> QED BY <1>2, <1>4, <2>1, <2>4, <3>2, <4>2, <4>3, BeatenByBetter
    <3> QED BY <3>1, <3>2
  <2> QED BY <1>5, <2>2, <2>3, <2>4 DEF Thorough, Ahead
<1>6. x.best.k > 0 => x.best.config \in Configs
  BY <1>2, <1>3 DEF Thorough
<1>7. "next" \notin Probes
  BY DEF Probes
<1> QED BY <1>2, <1>5, <1>6, <1>7 DEF Thorough, x

\* A search that begins has every configuration ahead.
LEMMA BeginsThorough ==
  ASSUME NEW c \in Cells, listing = Listings, LimitIsAmple,
         EstimatesAreBounds(c), NEW feasible
  PROVE  Thorough(NewSearch(c, listing[c], feasible), "next")
<1> DEFINE x == NewSearch(c, listing[c], feasible)
<1>1. x.cell = c /\ x.todo = listing[c] /\ x.best.k = 0
  BY DEF NewSearch, NoBest
<1> HIDE DEF x
<1>2. ASSUME NEW t \in Configs, NEW k \in Nat, Largest(c, t, k)
      PROVE  Ahead(x, "next", t)
  <2>1. ConfigLine(c, t) \in listing[c]
    BY <1>2, LinesPromise DEF Largest, LimitIsAmple
  <2>2. ConfigLine(c, t).config = t
    BY DEF ConfigLine
  <2> QED BY <1>1, <2>1, <2>2 DEF Ahead
<1>3. "next" \notin Probes
  BY DEF Probes
<1> QED BY <1>1, <1>2, <1>3 DEF Thorough, x

\* A line that is left out promises no more than what has been found.
LEMMA PruneIsThorough ==
  ASSUME NEW s \in Search, s.cell \in Cells, listing = Listings, LimitIsAmple,
         EstimatesAreBounds(s.cell), Thorough(s, "next"),
         NEW line \in s.todo, Pruned(line, s.best)
  PROVE  Thorough([s EXCEPT !.todo = @ \ {line}], "next")
<1> DEFINE x == [s EXCEPT !.todo = @ \ {line}]
<1>1. /\ x.cell = s.cell /\ x.todo = s.todo \ {line} /\ x.best = s.best
      /\ "next" \notin Probes
  BY DEF Search, Probes
<1>2. line = ConfigLine(s.cell, line.config) /\ line.config \in Configs
  BY ListedLines DEF Thorough
<1>3. s.best \in Best
  BY DEF Search
<1> HIDE DEF x
<1>4. ASSUME NEW t \in Configs, NEW k \in Nat, Largest(s.cell, t, k)
      PROVE  Ahead(x, "next", t) \/ Beaten(s.cell, t, k, s.best)
  <2>1. CASE line.config = t
    BY <1>2, <1>3, <1>4, <2>1, BeatenByPromise DEF Largest
  <2>2. CASE line.config # t
    BY <1>1, <1>4, <2>2 DEF Thorough, Ahead
  <2> QED BY <2>1, <2>2
<1> QED BY <1>1, <1>4 DEF Thorough, x

\* A configuration whose line is taken is being probed.
LEMMA ProbingIsThorough ==
  ASSUME NEW s \in Search, Thorough(s, "next"), NEW line \in s.todo
  PROVE  Thorough(Probing(s, line), "lookup")
<1> DEFINE x == Probing(s, line)
<1>1. /\ x.cell = s.cell /\ x.todo = s.todo \ {line} /\ x.best = s.best
      /\ x.line = line /\ x.probe # "auto" /\ "next" \notin Probes
      /\ "lookup" \in Probes
  BY DEF Search, Probes, Probing
<1> HIDE DEF x
<1>2. ASSUME NEW t \in Configs, NEW k \in Nat, Largest(s.cell, t, k)
      PROVE  Ahead(x, "lookup", t) \/ Beaten(s.cell, t, k, s.best)
  BY <1>1, <1>2 DEF Thorough, Ahead
<1> QED BY <1>1, <1>2 DEF Thorough, x

\* When no line is left and nothing was found, no configuration can run.
LEMMA AutoIsThorough ==
  ASSUME NEW s \in Search, Thorough(s, "next"), s.todo = {}, s.best.k = 0,
         NEW x \in Search, x.cell = s.cell, x.todo = {}, x.best = s.best
  PROVE  /\ Thorough(x, "lookup")
         /\ \A t \in Configs : \A k \in Nat : ~Largest(s.cell, t, k)
<1>1. ASSUME NEW t \in Configs, NEW k \in Nat
      PROVE  ~Largest(s.cell, t, k)
  BY DEF Thorough, Ahead, Probes, Beaten
<1> QED BY <1>1 DEF Thorough

\* A search whose locals that matter stay, at a stage of the same kind.
LEMMA StaysThorough ==
  ASSUME NEW s, NEW x, NEW g, NEW h, Thorough(s, g), SameSearch(s, x),
         g \in Probes, h \in Probes, x.probe = s.probe \/ {x.probe, s.probe} \cap {"auto"} = {}
  PROVE  Thorough(x, h)
BY DEF Thorough, SameSearch, Ahead

\* An answer that is returned.
LEMMA BestAt ==
  ASSUME ThoroughInv, AnswerIsTheBest, NEW w \in Workers,
         \A v \in Workers \ {w} :
           /\ search'[v] = search[v] /\ stage'[v] = stage[v]
           /\ hiccup'[v] = hiccup[v] /\ answer'[v] = answer[v],
         stage'[w] # "idle" /\ ~hiccup'[w] /\ EstimatesAreBounds(search'[w].cell) =>
           Thorough(search'[w], stage'[w]),
         IsTheBest(answer'[w])
  PROVE  (ThoroughInv /\ AnswerIsTheBest)'
<1>1. \A v \in Workers : IsTheBest(answer[v])
  BY BestAnswers
<1>2. ASSUME NEW v \in Workers
      PROVE  /\ stage'[v] # "idle" /\ ~hiccup'[v] /\ EstimatesAreBounds(search'[v].cell) =>
                  Thorough(search'[v], stage'[v])
             /\ IsTheBest(answer'[v])
  <2>1. CASE v = w
    BY <2>1
  <2>2. CASE v # w
    BY <1>1, <2>2 DEF ThoroughInv
  <2> QED BY <2>1, <2>2
<1>3. ThoroughInv'
  BY <1>2 DEF ThoroughInv
<1>4. AnswerIsTheBest'
  <2>1. \A v \in Workers : IsTheBest(answer'[v])
    BY <1>2
  <2>2. \A c, t : Feasible(c, t) \subseteq Nat
    BY DEF Feasible
  <2> QED BY <2>1, <2>2 DEF AnswerIsTheBest, IsTheBest, Largest, Beaten
<1> QED BY <1>3, <1>4

\* No answer has been given yet.
LEMMA NoAnswerIsBest == IsTheBest(NoAnswer)
BY SearchAssumption DEF IsTheBest, NoAnswer

\* No search has begun at first.
LEMMA ThoroughInit == Init => ThoroughInv /\ AnswerIsTheBest
<1> SUFFICES ASSUME Init
             PROVE  ThoroughInv /\ AnswerIsTheBest
  OBVIOUS
<1>1. ThoroughInv
  BY DEF Init, ThoroughInv
<1>2. \A w \in Workers : answer[w] = NoAnswer
  BY DEF Init
<1>3. AnswerIsTheBest
  BY <1>2, BestAnswers, NoAnswerIsBest
<1> QED BY <1>1, <1>3

\* Every step keeps each search thorough and each answer the best.
LEMMA ThoroughStep ==
  ASSUME "kill" \notin Faults, listing = Listings, LimitIsAmple,
         TypeOK, HitsAreTrue, TightInv, ThoroughInv, AnswerIsTheBest,
         [Next]_vars
  PROVE  (ThoroughInv /\ AnswerIsTheBest)'
<1>1. /\ stage \in [Workers -> Stages] /\ search \in [Workers -> Search]
      /\ res \in [Workers -> Result] /\ hiccup \in [Workers -> BOOLEAN]
      /\ DOMAIN answer = Workers
      /\ \A w \in Workers : stage[w] # "idle" => search[w].cell \in Cells
  BY DEF TypeOK
<1>2. ASSUME NEW w \in Workers, stage[w] # "idle", ~hiccup[w],
             EstimatesAreBounds(search[w].cell)
      PROVE  Thorough(search[w], stage[w])
  BY <1>2 DEF ThoroughInv
<1>3. \A w \in Workers : IsTheBest(answer[w])
  BY BestAnswers
\* A search that goes on, with the same answers.
<1>4. ASSUME NEW w \in Workers, UNCHANGED answer,
             NEW x, search' = [search EXCEPT ![w] = x],
             NEW g, stage' = [stage EXCEPT ![w] = g],
             NEW h, hiccup' = [hiccup EXCEPT ![w] = h],
             ~h /\ EstimatesAreBounds(x.cell) => Thorough(x, g)
      PROVE  (ThoroughInv /\ AnswerIsTheBest)'
  <2>1. search'[w] = x /\ stage'[w] = g /\ hiccup'[w] = h
    BY <1>1, <1>4
  <2>2. IsTheBest(answer'[w])
    BY <1>3, <1>4
  <2>3. \A v \in Workers \ {w} :
          /\ search'[v] = search[v] /\ stage'[v] = stage[v]
          /\ hiccup'[v] = hiccup[v] /\ answer'[v] = answer[v]
    BY <1>1, <1>4
  <2> QED BY <1>4, <2>1, <2>2, <2>3, BestAt
<1>5. ASSUME NEW w \in Workers, Start(w)
      PROVE  (ThoroughInv /\ AnswerIsTheBest)'
  <2> DEFINE c == sweep[taken + 1]
  <2>1. PICK fault \in Fault({"raise", "kill"}) :
          /\ \E out \in Printed(c, fault) :
               search' = [search EXCEPT ![w] = NewSearch(c, out[1], out[2])]
          /\ hiccup' = [hiccup EXCEPT ![w] = fault # "none"]
    BY <1>5, Zenon DEF Start
  <2>2. /\ stage' = [stage EXCEPT ![w] = "next"]
        /\ answer' = [answer EXCEPT ![w] = NoAnswer]
    BY <1>5 DEF Start
  <2>3. c \in Cells
    <3>1. sweep \in Seq(Cells) /\ taken \in 0 .. Len(sweep) /\ taken < Len(sweep)
      BY <1>5 DEF Start, TypeOK
    <3>2. taken + 1 \in 1 .. Len(sweep)
      BY <3>1
    <3> QED BY <3>1, <3>2
  <2> HIDE DEF c
  <2>4. /\ hiccup'[w] = (fault # "none") /\ stage'[w] = "next"
        /\ answer'[w] = NoAnswer
        /\ \A v \in Workers \ {w} :
             /\ search'[v] = search[v] /\ stage'[v] = stage[v]
             /\ hiccup'[v] = hiccup[v] /\ answer'[v] = answer[v]
    BY <1>1, <2>1, <2>2
  <2>5. fault = "none" => search'[w] = NewSearch(c, listing[c], CapFeasibleAt1(c))
    BY <1>1, <2>1 DEF Printed
  <2>6. \A lines, feasible : NewSearch(c, lines, feasible).cell = c
    BY DEF NewSearch
  <2>7. fault = "none" /\ EstimatesAreBounds(c) => Thorough(search'[w], "next")
    BY <2>3, <2>5, BeginsThorough
  <2>8. fault = "none" => search'[w].cell = c
    BY <2>5, <2>6
  <2> QED BY <2>4, <2>7, <2>8, BestAt, NoAnswerIsBest
<1>6. ASSUME NEW w \in Workers, Prune(w)
      PROVE  (ThoroughInv /\ AnswerIsTheBest)'
  <2>1. PICK line \in Foremost(search[w].todo) :
          /\ Pruned(line, search[w].best)
          /\ search' = [search EXCEPT ![w].todo = @ \ {line}]
    BY <1>6, Zenon DEF Prune
  <2>2. UNCHANGED <<stage, hiccup, answer>> /\ stage[w] = "next"
    BY <1>6 DEF Prune
  <2> DEFINE x == [search[w] EXCEPT !.todo = @ \ {line}]
  <2>3. line \in search[w].todo
    BY DEF Foremost
  <2>4. /\ search' = [search EXCEPT ![w] = x] /\ stage' = [stage EXCEPT ![w] = "next"]
        /\ hiccup' = [hiccup EXCEPT ![w] = hiccup[w]]
    BY <1>1, <2>1, <2>2
  <2>5. x.cell = search[w].cell
    BY <1>1 DEF Search
  <2>6. ~hiccup[w] /\ EstimatesAreBounds(search[w].cell) => Thorough(x, "next")
    BY <1>1, <1>2, <2>1, <2>2, <2>3, PruneIsThorough
  <2> HIDE DEF x
  <2>7. ~hiccup[w] /\ EstimatesAreBounds(x.cell) => Thorough(x, "next")
    BY <2>5, <2>6
  <2>8. UNCHANGED answer
    BY <2>2
  <2> QED BY <1>4, <2>4, <2>7, <2>8, Zenon
<1>7. ASSUME NEW w \in Workers, Probe(w)
      PROVE  (ThoroughInv /\ AnswerIsTheBest)'
  <2>1. PICK line \in Foremost(search[w].todo) :
          search' = [search EXCEPT ![w] = Probing(search[w], line)]
    BY <1>7, Zenon DEF Probe
  <2>2. /\ UNCHANGED <<hiccup, answer>> /\ stage[w] = "next"
        /\ stage' = [stage EXCEPT ![w] = "lookup"]
    BY <1>7 DEF Probe
  <2>3. line \in search[w].todo
    BY DEF Foremost
  <2>4. hiccup' = [hiccup EXCEPT ![w] = hiccup[w]]
    BY <1>1, <2>2
  <2>5. Probing(search[w], line).cell = search[w].cell
    BY <1>1, CellKept
  <2>6. ~hiccup[w] /\ EstimatesAreBounds(search[w].cell) =>
          Thorough(Probing(search[w], line), "lookup")
    BY <1>1, <1>2, <2>2, <2>3, ProbingIsThorough
  <2> QED BY <1>4, <2>1, <2>2, <2>4, <2>5, <2>6
<1>8. ASSUME NEW w \in Workers, FallBack(w)
      PROVE  (ThoroughInv /\ AnswerIsTheBest)'
  <2> DEFINE x == [search[w] EXCEPT !.line = AutoLine, !.probe = "auto", !.k = 1]
  <2>1. /\ UNCHANGED <<hiccup, answer>> /\ stage[w] = "next"
        /\ stage' = [stage EXCEPT ![w] = "lookup"]
        /\ search[w].todo = {} /\ search[w].best.k = 0
    BY <1>8 DEF FallBack
  <2>2. search' = [search EXCEPT ![w] = x]
    BY <1>1, <1>8 DEF FallBack, Search
  <2>3. x \in Search /\ x.cell = search[w].cell /\ x.todo = search[w].todo
        /\ x.best = search[w].best
    <3>1. ASSUME NEW s \in Search
          PROVE  LET y == [s EXCEPT !.line = AutoLine, !.probe = "auto", !.k = 1]
                 IN /\ y \in Search /\ y.cell = s.cell /\ y.todo = s.todo
                    /\ y.best = s.best
      <4>1. AutoLine \in Line \cup {AutoLine} /\ 1 \in Nat \ {0}
        OBVIOUS
      <4> QED BY <4>1 DEF Search
    <3> QED BY <1>1, <3>1
  <2>4. hiccup' = [hiccup EXCEPT ![w] = hiccup[w]]
    BY <1>1, <2>1
  <2> HIDE DEF x
  <2>5. ~hiccup[w] /\ EstimatesAreBounds(search[w].cell) => Thorough(x, "lookup")
    <3> SUFFICES ASSUME ~hiccup[w] /\ EstimatesAreBounds(search[w].cell)
                 PROVE  Thorough(x, "lookup")
      OBVIOUS
    <3>1. Thorough(search[w], "next")
      BY <1>2, <2>1
    <3> QED BY <1>1, <2>1, <2>3, <3>1, AutoIsThorough
  <2>6. ~hiccup[w] /\ EstimatesAreBounds(x.cell) => Thorough(x, "lookup")
    BY <2>3, <2>5
  <2>7. UNCHANGED answer /\ stage' = [stage EXCEPT ![w] = "lookup"]
    BY <2>1
  <2> QED BY <1>4, <2>2, <2>4, <2>6, <2>7, Zenon
\* The answer that is returned is the best of a search at its end.
<1>9. ASSUME NEW w \in Workers, NEW best, Answer(w, best), stage[w] # "idle",
             ~hiccup[w] /\ EstimatesAreBounds(search[w].cell) =>
               \A t \in Configs : \A k \in Nat :
                 Largest(search[w].cell, t, k) =>
                   Beaten(search[w].cell, t, k, best)
      PROVE  (ThoroughInv /\ AnswerIsTheBest)'
  <2>1. /\ stage'[w] = "idle"
        /\ answer'[w] = [cell |-> search[w].cell, best |-> best, hiccup |-> hiccup[w]]
        /\ \A v \in Workers \ {w} :
             /\ search'[v] = search[v] /\ stage'[v] = stage[v]
             /\ hiccup'[v] = hiccup[v] /\ answer'[v] = answer[v]
    BY <1>1, <1>9 DEF Answer
  <2>2. IsTheBest(answer'[w])
    BY <1>9, <2>1 DEF IsTheBest
  <2> QED BY <2>1, <2>2, BestAt
<1>10. ASSUME NEW w \in Workers, ReportBest(w) \/ ReportNone(w)
       PROVE  (ThoroughInv /\ AnswerIsTheBest)'
  <2>1. /\ stage[w] = "next" /\ search[w].todo = {}
        /\ \E best : /\ Answer(w, best)
                     /\ best = search[w].best \/ search[w].best.k = 0
    BY <1>10 DEF ReportBest, ReportNone
  <2>2. PICK best : /\ Answer(w, best)
                    /\ best = search[w].best \/ search[w].best.k = 0
    BY <2>1
  <2>3. ASSUME ~hiccup[w], EstimatesAreBounds(search[w].cell),
               NEW t \in Configs, NEW k \in Nat, Largest(search[w].cell, t, k)
        PROVE  Beaten(search[w].cell, t, k, best)
    <3>1. Thorough(search[w], "next")
      BY <1>2, <2>1, <2>3
    <3>2. ~Ahead(search[w], "next", t)
      BY <2>1 DEF Ahead, Probes
    <3>3. Beaten(search[w].cell, t, k, search[w].best)
      BY <2>3, <3>1, <3>2 DEF Thorough
    <3>4. search[w].best.k # 0
      BY <3>3 DEF Beaten
    <3> QED BY <2>2, <3>3, <3>4
  <2> QED BY <1>9, <2>1, <2>2, <2>3
<1>11. ASSUME NEW w \in Workers, FallbackEnds(w)
       PROVE  (ThoroughInv /\ AnswerIsTheBest)'
  <2>1. stage[w] = "back" /\ search[w].probe = "auto" /\ \E best : Answer(w, best)
    <3>1. Refuted(search[w], res[w]).probe = search[w].probe
      BY <1>1 DEF Refuted, Search
    <3> QED BY <1>11, <3>1 DEF FallbackEnds
  <2>2. ASSUME ~hiccup[w], EstimatesAreBounds(search[w].cell),
               NEW t \in Configs, NEW k \in Nat
        PROVE  ~Largest(search[w].cell, t, k)
    <3>1. Thorough(search[w], "back")
      BY <1>2, <2>1, <2>2
    <3>2. search[w].todo = {} /\ search[w].best.k = 0
      BY <2>1, <3>1 DEF Thorough, Probes
    <3> QED BY <2>1, <3>1, <3>2 DEF Thorough, Ahead, Beaten
  <2> QED BY <1>9, <2>1, <2>2
\* A run of the simulator, or a look at what is remembered, leaves the search.
<1>12. ASSUME NEW w \in Workers,
              Recall(w) \/ Refresh(w) \/ RunEnds(w) \/ WriteEnds(w)
       PROVE  (ThoroughInv /\ AnswerIsTheBest)'
  <2>1. /\ UNCHANGED <<search, answer>> /\ stage[w] \in Probes
        /\ \E g \in Probes : stage' = [stage EXCEPT ![w] = g]
        /\ \E h \in BOOLEAN : /\ hiccup' = [hiccup EXCEPT ![w] = h]
                              /\ hiccup[w] => h
    <3>1. hiccup = [hiccup EXCEPT ![w] = hiccup[w]] /\ hiccup[w] \in BOOLEAN
      BY <1>1
    <3>2. CASE Recall(w)
      BY <3>1, <3>2 DEF Recall, Probes
    <3>3. CASE Refresh(w)
      <4>1. /\ UNCHANGED <<search, answer, hiccup>> /\ stage[w] = "lookup"
            /\ \/ stage' = [stage EXCEPT ![w] = "back"]
               \/ stage' = [stage EXCEPT ![w] = "run"]
        BY <3>3, Zenon DEF Refresh
      <4> QED BY <3>1, <4>1 DEF Probes
    <3>4. CASE RunEnds(w)
      <4>1. /\ UNCHANGED <<search, answer>> /\ stage[w] = "run"
            /\ \/ stage' = [stage EXCEPT ![w] = "back"]
               \/ stage' = [stage EXCEPT ![w] = "write"]
            /\ \E fault : hiccup' = [hiccup EXCEPT ![w] = @ \/ fault # "none"]
        BY <3>4, Zenon DEF RunEnds
      <4>2. PICK fault : hiccup' = [hiccup EXCEPT ![w] = @ \/ fault # "none"]
        BY <4>1
      <4>3. hiccup' = [hiccup EXCEPT ![w] = hiccup[w] \/ fault # "none"]
        BY <4>2
      <4>4. (hiccup[w] \/ fault # "none") \in BOOLEAN
        OBVIOUS
      <4> QED BY <4>1, <4>3, <4>4 DEF Probes
    <3>5. CASE WriteEnds(w)
      BY <3>1, <3>5 DEF WriteEnds, Probes
    <3> QED BY <1>12, <3>2, <3>3, <3>4, <3>5
  <2>2. PICK g \in Probes : stage' = [stage EXCEPT ![w] = g]
    BY <2>1
  <2>3. PICK h \in BOOLEAN : hiccup' = [hiccup EXCEPT ![w] = h] /\ (hiccup[w] => h)
    BY <2>1
  <2>4. ~h /\ EstimatesAreBounds(search[w].cell) => Thorough(search[w], g)
    <3>1. SameSearch(search[w], search[w]) /\ stage[w] # "idle"
      BY <2>1 DEF SameSearch, Probes
    <3> QED BY <1>2, <2>1, <2>3, <3>1, StaysThorough
  <2>5. search' = [search EXCEPT ![w] = search[w]]
    BY <1>1, <2>1
  <2> QED BY <1>4, <2>1, <2>2, <2>3, <2>4, <2>5
<1>13. ASSUME NEW w \in Workers,
              \/ HintHolds(w) \/ CapHolds(w) \/ WidenHolds(w)
              \/ BisectHolds(w) \/ ProbeFails(w)
       PROVE  (ThoroughInv /\ AnswerIsTheBest)'
  <2>1. UNCHANGED <<res, hiccup, answer>> /\ stage[w] = "back"
        /\ search[w].probe # "auto"
    BY <1>13 DEF HintHolds, CapHolds, WidenHolds, BisectHolds, ProbeFails
  <2>2. search[w] \in Search /\ search[w].cell \in Cells /\ res[w] \in Result
        /\ "back" \in Probes /\ "lookup" \in Probes
    BY <1>1, <2>1 DEF Probes
  <2>3. hiccup' = [hiccup EXCEPT ![w] = hiccup[w]]
    BY <1>1, <2>1
  <2>4. CASE hiccup[w]
    <3>1. PICK t \in Search, g \in Stages :
            search' = [search EXCEPT ![w] = t] /\ stage' = [stage EXCEPT ![w] = g]
      BY <1>13, <2>2, AfterProbe, Zenon DEF MovesOn
    <3> QED BY <1>4, <2>1, <2>3, <2>4, <3>1
  <2>5. CASE ~hiccup[w]
    <3>1. Tight(search[w], stage[w], res[w])
      BY <2>1, <2>5 DEF TightInv
    <3>2. search[w].line \in Line /\ BestTight(search[w].cell, search[w].best)
      BY <2>1, <3>1 DEF Tight, Bracketed
    <3>3. EstimatesAreBounds(search[w].cell) => Thorough(search[w], "back")
      BY <1>2, <2>1, <2>5
    <3>4. CASE GoesOn(w)
      <4>1. PICK t \in Search : /\ SameSearch(search[w], t) /\ t.probe # "auto"
                                /\ search' = [search EXCEPT ![w] = t]
                                /\ stage' = [stage EXCEPT ![w] = "lookup"]
        BY <3>4 DEF GoesOn, ToProbe
      <4>2. t.cell = search[w].cell
        BY <4>1 DEF SameSearch
      <4>3. EstimatesAreBounds(t.cell) => Thorough(t, "lookup")
        BY <2>1, <2>2, <3>3, <4>1, <4>2, StaysThorough
      <4> QED BY <1>4, <2>1, <2>3, <4>1, <4>3
    <3>5. CASE Ends(w)
      <4>1. PICK t \in Search : /\ SameSearch(search[w], t) /\ Exhausted(t)
                                /\ search' = [search EXCEPT ![w] = Settled(t)]
                                /\ stage' = [stage EXCEPT ![w] = "next"]
        BY <3>5 DEF Ends
      <4>2. Settled(t).cell = search[w].cell
        BY <4>1, CellKept DEF SameSearch
      <4>3. EstimatesAreBounds(search[w].cell) => Thorough(Settled(t), "next")
        BY <2>1, <2>2, <3>2, <3>3, <4>1, SettledIsThorough
      <4> QED BY <1>4, <2>1, <2>3, <4>1, <4>2, <4>3
    <3> QED BY <1>13, <3>1, <3>4, <3>5, ProbeLeads
  <2> QED BY <2>4, <2>5
<1>14. CASE NextPhase \/ UNCHANGED vars
  <2>1. UNCHANGED <<stage, search, hiccup, answer>>
    BY <1>14 DEF NextPhase, vars
  <2>2. ThoroughInv'
    BY <2>1 DEF ThoroughInv
  <2>3. AnswerIsTheBest'
    BY <2>1 DEF AnswerIsTheBest
  <2> QED BY <2>2, <2>3
<1>15. CASE PoolBreaks
  <2>1. \A w \in Workers : stage'[w] = "idle"
    BY <1>15 DEF PoolBreaks
  <2>2. \A w \in Workers : answer'[w] = answer[w] \/ answer'[w].hiccup
    BY <1>15 DEF PoolBreaks
  <2>3. ThoroughInv'
    BY <2>1 DEF ThoroughInv
  <2>4. AnswerIsTheBest'
    BY <2>2 DEF AnswerIsTheBest
  <2> QED BY <2>3, <2>4
<1> QED BY <1>5, <1>6, <1>7, <1>8, <1>10, <1>11, <1>12, <1>13, <1>14, <1>15
        DEF Next, Step, Terminating

\* Where the estimates are bounds, the listing is the analytic run's and its
\* limit on batches out of reach, and unless the system kills a run of the
\* simulator, no configuration has a higher throughput at its largest batch
\* than the answer of a search in which nothing went wrong, although some are
\* pruned without a simulation (find_max_batch_size).
THEOREM AnswersAreTheBest ==
  ASSUME "kill" \notin Faults, listing = Listings, LimitIsAmple
  PROVE  Spec => []AnswerIsTheBest
<1>1. Init => TypeOK /\ HitsAreTrue /\ TightInv /\ ThoroughInv /\ AnswerIsTheBest
  BY TypeInit, TrueInit, TightInit, ThoroughInit
<1>2. TypeOK /\ HitsAreTrue /\ TightInv /\ [Next]_vars =>
        (TypeOK /\ HitsAreTrue /\ TightInv)'
  BY TypeStep, TrueStep, TightStep
<1>3. TypeOK /\ HitsAreTrue /\ TightInv /\ ThoroughInv /\ AnswerIsTheBest
        /\ [Next]_vars => (ThoroughInv /\ AnswerIsTheBest)'
  BY ThoroughStep
<1> QED BY <1>1, <1>2, <1>3, PTL DEF Spec
=============================================================================
