----------------------------- MODULE ConfigSearch -----------------------------
(***************************************************************************)
(* How the sweep of run_experiments.py finds, for each of its cells, the   *)
(* parallelism configuration with the highest throughput and the largest   *)
(* batch it can run (find_max_batch_size), with worker processes that      *)
(* search cells side by side and share one file of simulation results      *)
(* (run_simulation and the _sim_cache functions).                          *)
(*                                                                         *)
(* A batch is k requests for each of the configuration's dp replicas.  The *)
(* simulator, ./run, is an input: tpot[c][t][k] is the time for a token it *)
(* measures, and a batch beyond the sequence exceeds the capacity that     *)
(* bound[c][t] names.  The configuration "auto" stands for the one the     *)
(* simulator's own optimizer picks.  The sweep has phases, each with a     *)
(* pool of processes of its own; they ask for the same cells, as the       *)
(* script's phases and its next start do.                                  *)
(*                                                                         *)
(* The switches of the environment have their defaults (results are        *)
(* stored, configurations pruned), and the binaries stay as they are.      *)
(*                                                                         *)
(* A definition whose comment starts with "Slip" is not part of the model. *)
(***************************************************************************)
EXTENDS AnalyticListing

CONSTANTS
  Workers,            \* processes of the pool
  Sweeps,             \* the sequences of cells a phase may submit
  Phases,             \* how many phases there are
  listing,            \* of a cell: the lines its analytic run prints
  tpot,               \* of a cell and a configuration, "auto" too: measured
  bound,              \* "sram" or "flash"
  Faults,             \* what may go wrong: "raise", "kill", "death"
  FaultBound          \* and how often

Line == [config : Configs, cap_batch : Nat, slo_hint_batch : Nat,
         est_lat_hint : Nat]

ASSUME SearchAssumption ==
  /\ "auto" \notin Configs
  /\ dp["auto"] = 1
  /\ listing \in [Cells -> SUBSET Line]
  /\ tpot \in [Cells -> [Configs \cup {"auto"} -> Seq(Nat \ {0})]]
  /\ bound \in [Cells -> [Configs \cup {"auto"} -> {"sram", "flash"}]]
  /\ FaultBound \in Nat
  /\ Sweeps \subseteq Seq(Cells)
  /\ Phases \in Nat
  /\ "nobody" \notin Workers
  /\ "none" \notin Cells

VARIABLES
  sweep,              \* the cells a phase submits, fixed
  phase,              \* the phase, from 1
  taken,              \* of its cells, how many a worker has taken
  simcache,           \* the lines of simcache.jsonl
  writer,             \* the worker whose line is being written, or "nobody"
  cut,                \* a write cut short left the last line without its end
  mem,                \* of a worker: _SIM_CACHE, results by key
  pos,                \* of a worker: _SIM_CACHE_POS, in lines
  stage,              \* of a worker: where it is
  search,             \* of a worker: the locals of its search
  res,                \* of a worker: what its last run_simulation returned
  hiccup,             \* history: something went wrong in this search
  answer,             \* of a worker: what its last search returned
  faults              \* history: how much went wrong

vars == <<sweep, phase, taken, simcache, writer, cut, mem, pos, stage, search, res, hiccup,
          answer, faults>>
sweepVars == <<sweep, phase, taken>>
cacheVars == <<sweepVars, simcache, writer, cut, mem, pos>>
Stages == {"idle", "next", "lookup", "run", "write", "back"}

----------------------------------------------------------------------------
(***************************************************************************)
(* What a simulation returns.  Of a failure, its reason and what its       *)
(* output says are one value.                                              *)
(***************************************************************************)
Key == [cell : Cells, config : Configs \cup {"auto"}, k : Nat \ {0}]
Success(t) == [success |-> TRUE, tpot |-> t, reason |-> "none"]
Failure(why) == [success |-> FALSE, tpot |-> 0, reason |-> why]
NoFail == Failure("none")

\* The run of the simulator that nothing disturbs.
Simulated(key) ==
  LET measured == tpot[key.cell][key.config]
  IN IF key.k > Len(measured) THEN Failure(bound[key.cell][key.config])
     ELSE IF measured[key.k] > tpot_slo[key.cell] THEN Failure("slo")
     ELSE Success(measured[key.k])

\* An exception, of which a timeout is one, is told from a process that ended
\* with an error; a process that the system killed is not.
Outcome(key, fault) ==
  CASE fault = "none"  -> Simulated(key)
    [] fault = "raise" -> Failure("_crash")
    [] fault = "kill"  -> Failure("OOM/Crash")

ClassifyFailure(fail) ==
  IF fail.reason \in {"sram", "flash", "slo"} THEN fail.reason ELSE "unknown"

----------------------------------------------------------------------------
(***************************************************************************)
(* The file of results.  A write is one os.write, which other writers wait *)
(* for and readers do not: what they see of its line does not parse until  *)
(* it is complete.                                                         *)
(***************************************************************************)
Garbage == [key |-> [cell |-> "none", config |-> "none", k |-> 0],
            value |-> NoFail]

\* What a reader may find in the file.
Texts ==
  LET before == SubSeq(simcache, 1, Len(simcache) - 1)
  IN IF writer = "nobody" \/ simcache[Len(simcache)] = Garbage THEN {simcache}
     ELSE {before, Append(before, Garbage), simcache}

\* The lines that are read: the loop breaks at one that does not parse.
Parsed(text) == {i \in 1..Len(text) : \A j \in 1..i : text[j] # Garbage}

\* The memory m with the lines of text after the first `from`.  A later line
\* for a key replaces an earlier one.
Absorbed(m, text, from) ==
  LET new == {i \in Parsed(text) : i > from}
      Of(key) == {i \in new : text[i].key = key}
      Last(key) == CHOOSE i \in Of(key) : \A j \in Of(key) : j <= i
  IN [key \in DOMAIN m \cup {text[i].key : i \in new} |->
        IF Of(key) # {} THEN text[Last(key)].value ELSE m[key]]

\* Slip: the position moves past a line that does not parse.
Position_Onward(text, from) == Len(text)

\* After the break f.tell() raises and the position stays what it was; at the
\* end of the file it is the file's end.
Position(text, from) == IF Parsed(text) = 1..Len(text) THEN Len(text) ELSE from

\* The file with one more record; behind a line cut short it becomes a part of
\* that line.
Written(rec) == IF cut THEN simcache ELSE Append(simcache, rec)

\* Slip: it keeps them all.
Cacheable_All(r) == TRUE

\* run_simulation keeps every result but an exception's.
Cacheable(r) == r.reason # "_crash"

----------------------------------------------------------------------------
(***************************************************************************)
(* The locals of a search.  The fallback's request counts as a line.       *)
(***************************************************************************)
AutoLine == [config |-> "auto", cap_batch |-> 1, slo_hint_batch |-> 1,
             est_lat_hint |-> 1]
NoBest == [config |-> "auto", k |-> 0, tpot |-> 1, reason |-> "unknown"]

NewSearch(c, lines, feasible) ==
  [cell |-> c, todo |-> lines,
   auto |-> lines # {} \/ feasible,     \* the fallback is worth a run
   line |-> AutoLine, probe |-> "auto", k |-> 1,
   best_k |-> 0, tpot |-> 0, hi |-> 0, gap |-> 1,
   cfg_fail |-> NoFail, last_fail |-> NoFail, best |-> NoBest]

KeyOf(s) == [cell |-> s.cell, config |-> s.line.config, k |-> s.k]

AtLeastOne(n) == IF n < 1 THEN 1 ELSE n
KCap(line) == AtLeastOne(line.cap_batch \div dp[line.config])
KHint(line) ==
  LET hint == AtLeastOne(line.slo_hint_batch \div dp[line.config])
  IN IF hint < KCap(line) THEN hint ELSE KCap(line)

\* Throughputs, of a result and of a line's estimate, as fractions: requests
\* and the time for a token.
Tps(b) == <<b.k * dp[b.config], b.tpot>>
SeedTps(line) == <<line.slo_hint_batch, line.est_lat_hint>>
Higher(f, g) == f[1] * g[2] > g[1] * f[2]

\* The lines that may come first when they are sorted by seed_tps.
Foremost(lines) ==
  {l \in lines : \A other \in lines : ~Higher(SeedTps(other), SeedTps(l))}

\* Slip: a line is skipped when its batch is not larger.
Pruned_ByBatch(line, best) ==
  best.k > 0 /\ line.slo_hint_batch <= best.k * dp[best.config]

Pruned(line, best) == best.k > 0 /\ ~Higher(SeedTps(line), Tps(best))

\* per_config_max_batch begins with the hint.
Probing(s, line) ==
  [s EXCEPT !.todo = @ \ {line}, !.line = line, !.probe = "hint",
            !.k = KHint(line), !.best_k = 0, !.cfg_fail = NoFail]

Verified(s, r) == [s EXCEPT !.best_k = s.k, !.tpot = r.tpot]
Refuted(s, r) == [s EXCEPT !.cfg_fail = r, !.last_fail = r]

\* Past the verified batch the step doubles until a probe fails.
Widened(s, gap) ==
  [s EXCEPT !.probe = "widen", !.gap = gap, !.k = s.best_k + gap]

\* Slip: lo is set to mid, not to mid + 1.
Narrowed_FromMid(s, hi) ==
  [s EXCEPT !.probe = "bisect", !.hi = hi,
            !.k = ((IF s.best_k = 0 THEN 1 ELSE s.best_k) + hi) \div 2]

\* Bisection of the batches above best_k up to hi; lo is always best_k + 1.
Narrowed(s, hi) ==
  [s EXCEPT !.probe = "bisect", !.hi = hi,
            !.k = (s.best_k + 1 + hi) \div 2]

\* Slip: the loop ends when one batch is left.
IsNarrow_Early(s, hi) == s.best_k + 1 >= hi

IsNarrow(s, hi) == s.best_k + 1 > hi

\* The configuration's result becomes the best so far if it is.
Settled(s) ==
  LET found == [config |-> s.line.config, k |-> s.best_k, tpot |-> s.tpot,
                reason |-> ClassifyFailure(s.cfg_fail)]
  IN [s EXCEPT !.best =
        IF s.best_k > 0 /\ (s.best.k = 0 \/ Higher(Tps(found), Tps(s.best)))
        THEN found ELSE s.best]
----------------------------------------------------------------------------
NoSearch == NewSearch("none", {}, FALSE)
NoAnswer == [cell |-> "none", best |-> NoBest, hiccup |-> FALSE]

Init ==
  /\ sweep \in Sweeps
  /\ phase = 1
  /\ taken = 0
  /\ simcache = <<>>
  /\ writer = "nobody"
  /\ cut = FALSE
  /\ mem = [w \in Workers |-> <<>>]
  /\ pos = [w \in Workers |-> 0]
  /\ stage = [w \in Workers |-> "idle"]
  /\ search = [w \in Workers |-> NoSearch]
  /\ res = [w \in Workers |-> NoFail]
  /\ hiccup = [w \in Workers |-> FALSE]
  /\ answer = [w \in Workers |-> NoAnswer]
  /\ faults = 0

\* Nothing goes wrong, or one of these does.
Fault(kinds) == {"none"} \cup (IF faults < FaultBound THEN Faults \cap kinds
                               ELSE {})
Count(fault) == faults' = IF fault = "none" THEN faults ELSE faults + 1

\* What run_analytic_configs makes of the analytic run: everything, nothing
\* after an exception, and whatever was printed by a process that is killed.
Printed(c, fault) ==
  CASE fault = "none"  -> {<<listing[c], CapFeasibleAt1(c)>>}
    [] fault = "raise" -> {<<{}, FALSE>>}
    [] fault = "kill"  -> (SUBSET listing[c]) \X {FALSE, CapFeasibleAt1(c)}

\* Worker w returns from find_max_batch_size.
Answer(w, best) ==
  /\ stage' = [stage EXCEPT ![w] = "idle"]
  /\ search' = [search EXCEPT ![w] = NoSearch]
  /\ res' = [res EXCEPT ![w] = NoFail]
  /\ hiccup' = [hiccup EXCEPT ![w] = FALSE]
  /\ answer' = [answer EXCEPT ![w] = [cell |-> search[w].cell, best |-> best,
                                      hiccup |-> hiccup[w]]]

Start(w) ==
  /\ stage[w] = "idle"
  /\ taken < Len(sweep)
  /\ taken' = taken + 1
  /\ \E fault \in Fault({"raise", "kill"}) :
       /\ \E out \in Printed(sweep[taken + 1], fault) :
            search' = [search EXCEPT ![w] =
                         NewSearch(sweep[taken + 1], out[1], out[2])]
       /\ hiccup' = [hiccup EXCEPT ![w] = fault # "none"]
       /\ Count(fault)
  /\ stage' = [stage EXCEPT ![w] = "next"]
  /\ answer' = [answer EXCEPT ![w] = NoAnswer]
  /\ UNCHANGED <<sweep, phase, simcache, writer, cut, mem, pos, res>>

Prune(w) ==
  /\ stage[w] = "next"
  /\ \E line \in Foremost(search[w].todo) :
       /\ Pruned(line, search[w].best)
       /\ search' = [search EXCEPT ![w].todo = @ \ {line}]
  /\ UNCHANGED <<cacheVars, stage, res, hiccup, answer, faults>>

Probe(w) ==
  /\ stage[w] = "next"
  /\ \E line \in Foremost(search[w].todo) :
       /\ ~Pruned(line, search[w].best)
       /\ search' = [search EXCEPT ![w] = Probing(search[w], line)]
  /\ stage' = [stage EXCEPT ![w] = "lookup"]
  /\ UNCHANGED <<cacheVars, res, hiccup, answer, faults>>

ReportBest(w) ==
  /\ stage[w] = "next"
  /\ search[w].todo = {} /\ search[w].best.k > 0
  /\ Answer(w, search[w].best)
  /\ UNCHANGED <<cacheVars, faults>>

\* No configuration, not even for a single request.
ReportNone(w) ==
  /\ stage[w] = "next"
  /\ search[w].todo = {} /\ search[w].best.k = 0 /\ ~search[w].auto
  /\ Answer(w, NoBest)
  /\ UNCHANGED <<cacheVars, faults>>

\* No configuration passed: a single request, and the optimizer's choice.
FallBack(w) ==
  /\ stage[w] = "next"
  /\ search[w].todo = {} /\ search[w].best.k = 0 /\ search[w].auto
  /\ search' = [search EXCEPT ![w].line = AutoLine, ![w].probe = "auto",
                              ![w].k = 1]
  /\ stage' = [stage EXCEPT ![w] = "lookup"]
  /\ UNCHANGED <<cacheVars, res, hiccup, answer, faults>>
----------------------------------------------------------------------------
(***************************************************************************)
(* run_simulation                                                          *)
(***************************************************************************)
Recall(w) ==
  LET key == KeyOf(search[w])
  IN /\ stage[w] = "lookup"
     /\ key \in DOMAIN mem[w]
     /\ res' = [res EXCEPT ![w] = mem[w][key]]
     /\ stage' = [stage EXCEPT ![w] = "back"]
     /\ UNCHANGED <<cacheVars, search, hiccup, answer, faults>>

\* _sim_cache_refresh, and then the result if the file had it.
Refresh(w) ==
  LET key == KeyOf(search[w])
  IN /\ stage[w] = "lookup"
     /\ key \notin DOMAIN mem[w]
     /\ \E text \in Texts :
          /\ pos[w] <= Len(text)
          /\ mem' = [mem EXCEPT ![w] = Absorbed(@, text, pos[w])]
          /\ pos' = [pos EXCEPT ![w] = Position(text, @)]
     /\ \/ /\ key \in DOMAIN mem'[w]
           /\ res' = [res EXCEPT ![w] = mem'[w][key]]
           /\ stage' = [stage EXCEPT ![w] = "back"]
        \/ /\ key \notin DOMAIN mem'[w]
           /\ stage' = [stage EXCEPT ![w] = "run"]
           /\ UNCHANGED res
     /\ UNCHANGED <<sweepVars, simcache, writer, cut, search, hiccup, answer, faults>>

\* The simulator ends, or something stops it; its timeout sees to one of them.
RunEnds(w) ==
  LET key == KeyOf(search[w])
  IN /\ stage[w] = "run"
     /\ \E fault \in Fault({"raise", "kill"}) :
          LET r == Outcome(key, fault)
          IN /\ res' = [res EXCEPT ![w] = r]
             /\ hiccup' = [hiccup EXCEPT ![w] = @ \/ fault # "none"]
             /\ Count(fault)
             /\ \/ /\ Cacheable(r) /\ writer = "nobody"
                   /\ mem' = [mem EXCEPT ![w] =
                        [k \in DOMAIN mem[w] \cup {key} |->
                           IF k = key THEN r ELSE mem[w][k]]]
                   /\ simcache' = Written([key |-> key, value |-> r])
                   /\ writer' = w
                   /\ stage' = [stage EXCEPT ![w] = "write"]
                \/ /\ ~Cacheable(r)
                   /\ stage' = [stage EXCEPT ![w] = "back"]
                   /\ UNCHANGED <<mem, simcache, writer>>
     /\ UNCHANGED <<sweepVars, cut, pos, search, answer>>

WriteEnds(w) ==
  /\ stage[w] = "write"
  /\ writer' = "nobody"
  /\ cut' = FALSE
  /\ stage' = [stage EXCEPT ![w] = "back"]
  /\ UNCHANGED <<sweepVars, simcache, mem, pos, search, res, hiccup, answer,
                 faults>>
----------------------------------------------------------------------------
(***************************************************************************)
(* What follows from the result of a probe.                                *)
(***************************************************************************)
ToProbe(w, s) ==
  /\ search' = [search EXCEPT ![w] = s]
  /\ stage' = [stage EXCEPT ![w] = "lookup"]

Bisect(w, s, hi) ==
  \/ ~IsNarrow(s, hi) /\ ToProbe(w, Narrowed(s, hi))
  \/ /\ IsNarrow(s, hi)
     /\ search' = [search EXCEPT ![w] = Settled(s)]
     /\ stage' = [stage EXCEPT ![w] = "next"]

HintHolds(w) ==
  LET s == Verified(search[w], res[w])
  IN /\ stage[w] = "back" /\ search[w].probe = "hint" /\ res[w].success
     /\ \/ /\ KCap(s.line) > KHint(s.line)
           /\ ToProbe(w, [s EXCEPT !.probe = "cap", !.k = KCap(s.line)])
        \/ KCap(s.line) <= KHint(s.line) /\ ToProbe(w, Widened(s, 1))
     /\ UNCHANGED <<cacheVars, res, hiccup, answer, faults>>

CapHolds(w) ==
  /\ stage[w] = "back" /\ search[w].probe = "cap" /\ res[w].success
  /\ ToProbe(w, Widened(Verified(search[w], res[w]), 1))
  /\ UNCHANGED <<cacheVars, res, hiccup, answer, faults>>

WidenHolds(w) ==
  /\ stage[w] = "back" /\ search[w].probe = "widen" /\ res[w].success
  /\ ToProbe(w, Widened(Verified(search[w], res[w]), 2 * search[w].gap))
  /\ UNCHANGED <<cacheVars, res, hiccup, answer, faults>>

BisectHolds(w) ==
  /\ stage[w] = "back" /\ search[w].probe = "bisect" /\ res[w].success
  /\ Bisect(w, Verified(search[w], res[w]), search[w].hi)
  /\ UNCHANGED <<cacheVars, res, hiccup, answer, faults>>

\* Whichever probe fails, what remains is between best_k and it.
ProbeFails(w) ==
  /\ stage[w] = "back" /\ search[w].probe # "auto" /\ ~res[w].success
  /\ Bisect(w, Refuted(search[w], res[w]), search[w].k - 1)
  /\ UNCHANGED <<cacheVars, res, hiccup, answer, faults>>

FallbackEnds(w) ==
  LET s == IF res[w].success THEN search[w] ELSE Refuted(search[w], res[w])
  IN /\ stage[w] = "back" /\ s.probe = "auto"
     /\ Answer(w, [config |-> "auto", k |-> IF res[w].success THEN 1 ELSE 0,
                   tpot |-> res[w].tpot,
                   reason |-> ClassifyFailure(s.last_fail)])
     /\ UNCHANGED <<cacheVars, faults>>
----------------------------------------------------------------------------
(***************************************************************************)
(* The pool of processes                                                   *)
(***************************************************************************)
NewProcesses ==
  /\ mem' = [w \in Workers |-> <<>>]
  /\ pos' = [w \in Workers |-> 0]

PhaseOver == taken = Len(sweep) /\ \A w \in Workers : stage[w] = "idle"

\* A phase is over; the next one starts processes of its own.
NextPhase ==
  /\ PhaseOver /\ phase < Phases
  /\ phase' = phase + 1
  /\ taken' = 0
  /\ NewProcesses
  /\ UNCHANGED <<sweep, simcache, writer, cut, stage, search, res, hiccup,
                 answer, faults>>

\* A process dies and the pool ends the others; the cells in work and those
\* still to be taken get an answer of their own, _crashed_cell.  A line in
\* flight is complete or cut short.
PoolBreaks ==
  LET busy == {w \in Workers : stage[w] # "idle"}
  IN /\ "death" \in Fault({"death"})
     /\ Count("death")
     /\ busy # {}
     /\ NewProcesses
     /\ \/ /\ cut' = (cut /\ writer = "nobody")
           /\ UNCHANGED simcache
        \/ /\ writer # "nobody"
           /\ simcache' = [simcache EXCEPT ![Len(simcache)] = Garbage]
           /\ cut' = TRUE
     /\ writer' = "nobody"
     /\ taken' = Len(sweep)
     /\ UNCHANGED <<sweep, phase>>
     /\ stage' = [w \in Workers |-> "idle"]
     /\ search' = [w \in Workers |-> NoSearch]
     /\ res' = [w \in Workers |-> NoFail]
     /\ hiccup' = [w \in Workers |-> FALSE]
     /\ answer' = [w \in Workers |->
          IF w \in busy THEN [cell |-> search[w].cell,
                              best |-> [NoBest EXCEPT !.reason = "worker_crashed"],
                              hiccup |-> TRUE]
          ELSE answer[w]]

Step(w) ==
  \/ Start(w) \/ Prune(w) \/ Probe(w)
  \/ ReportBest(w) \/ ReportNone(w) \/ FallBack(w)
  \/ Recall(w) \/ Refresh(w) \/ RunEnds(w) \/ WriteEnds(w)
  \/ HintHolds(w) \/ CapHolds(w) \/ WidenHolds(w) \/ BisectHolds(w)
  \/ ProbeFails(w) \/ FallbackEnds(w)

SweepOver == PhaseOver /\ phase = Phases

Terminating == SweepOver /\ UNCHANGED vars

Next ==
  \/ \E w \in Workers : Step(w)
  \/ NextPhase
  \/ PoolBreaks
  \/ Terminating

Spec == Init /\ [][Next]_vars

\* Every process runs, every run of the simulator ends or times out, and the
\* main process goes on when the futures of a phase have their results.
FairSpec ==
  Spec /\ (\A w \in Workers : WF_vars(Step(w))) /\ WF_vars(NextPhase)
----------------------------------------------------------------------------
(***************************************************************************)
(* Properties                                                              *)
(***************************************************************************)
Reasons == {"none", "sram", "flash", "slo", "_crash", "OOM/Crash", "unknown",
            "worker_crashed"}
Result == [success : BOOLEAN, tpot : Nat, reason : Reasons]
Record == [key : Key, value : Result] \cup {Garbage}
Best == [config : Configs \cup {"auto"}, k : Nat, tpot : Nat,
         reason : Reasons]
Search == [cell : Cells \cup {"none"}, todo : SUBSET Line, auto : BOOLEAN,
           line : Line \cup {AutoLine},
           probe : {"auto", "hint", "cap", "widen", "bisect"},
           k : Nat \ {0}, best_k : Nat, tpot : Nat, hi : Nat,
           gap : Nat \ {0}, cfg_fail : Result, last_fail : Result,
           best : Best]

\* Every variable holds a value of its type.
TypeOK ==
  /\ sweep \in Seq(Cells) /\ phase \in Nat /\ taken \in 0..Len(sweep)
  /\ simcache \in Seq(Record)
  /\ writer \in Workers \cup {"nobody"}
  /\ cut \/ writer # "nobody" => simcache # <<>>
  /\ cut \in BOOLEAN
  /\ DOMAIN mem = Workers
  /\ \A w \in Workers : /\ mem[w] \in [DOMAIN mem[w] -> Result]
                         /\ DOMAIN mem[w] \subseteq Key
  /\ pos \in [Workers -> Nat]
  /\ stage \in [Workers -> Stages]
  /\ search \in [Workers -> Search]
  /\ \A w \in Workers : stage[w] # "idle" => search[w].cell \in Cells
  /\ res \in [Workers -> Result]
  /\ hiccup \in [Workers -> BOOLEAN]
  /\ answer \in [Workers -> [cell : Cells \cup {"none"}, best : Best,
                             hiccup : BOOLEAN]]
  /\ faults \in Nat

\* The answer of a search in which nothing went wrong is on a boundary of its
\* configuration, and names what bounds it: the simulator serves the batch in
\* the time reported, refuses the next larger one, and bound_reason is the
\* reason for that refusal.  The bisections need no monotonicity for it
\* (per_config_max_batch, classify_failure).
BoundaryIsTight ==
  \A w \in Workers :
    LET b == answer[w].best
        At(k) == Simulated([cell |-> answer[w].cell, config |-> b.config,
                            k |-> k])
    IN b.config \in Configs /\ ~answer[w].hiccup =>
         /\ At(b.k) = Success(b.tpot)
         /\ ~At(b.k + 1).success
         /\ b.reason = ClassifyFailure(At(b.k + 1))

Feasible(c, t) ==
  {k \in 1..Len(tpot[c][t]) : tpot[c][t][k] <= tpot_slo[c]}

\* What the comment on pruning assumes of a cell: times grow with the batch,
\* the estimate is not above the measured time nor its capacity below the
\* simulator's, and estimated throughput grows with the batch.
EstimatesAreBounds(c) ==
  \A t \in Configs :
    LET est == est_lat[c][t]
        measured == tpot[c][t]
    IN /\ Len(measured) <= Len(est)
       /\ \A k \in 1..Len(measured) : est[k] <= measured[k]
       /\ \A k \in 1..(Len(measured) - 1) : measured[k] <= measured[k + 1]
       /\ \A k \in 1..(Len(est) - 1) :
            est[k] <= est[k + 1] /\ k * est[k + 1] <= (k + 1) * est[k]

\* Then no configuration has a higher throughput at its own largest batch than
\* the answer, although some were never simulated, and a cell that can run
\* has an answer (find_max_batch_size).
AnswerIsTheBest ==
  \A w \in Workers :
    LET c == answer[w].cell
        b == answer[w].best
    IN c \in Cells /\ ~answer[w].hiccup =>
         (EstimatesAreBounds(c) =>
            \A t \in Configs : \A k \in Feasible(c, t) :
              (\A j \in Feasible(c, t) : j <= k) =>
                 b.k > 0 /\ ~Higher(<<k * dp[t], tpot[c][t][k]>>, Tps(b)))

\* What is remembered, in the file or by a worker, is what the simulator would
\* return: a result that belongs to one attempt is not kept (run_simulation).
HitsAreTrue ==
  /\ \A w \in Workers : \A key \in DOMAIN mem[w] :
       mem[w][key] = Simulated(key)
  /\ \A i \in 1..Len(simcache) :
       simcache[i] # Garbage => simcache[i].value = Simulated(simcache[i].key)

\* Keys of the lines that are complete and not behind one cut short.
Kept ==
  {simcache[i].key : i \in {j \in Parsed(simcache) :
                             writer = "nobody" \/ j < Len(simcache)}}

\* A simulation whose result the file holds is not run again, whoever wrote it
\* and however the reads fell among the writes (_sim_cache_refresh).
NeverRunTwice ==
  [][\A w \in Workers :
       stage[w] # "run" /\ stage'[w] = "run" => KeyOf(search[w]) \notin Kept]_vars

\* The sweep comes to its end, whatever the estimates are and whatever goes
\* wrong: every search ends, and no worker waits for ever.
EverySweepEnds == <>SweepOver
=============================================================================
