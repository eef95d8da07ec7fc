--------------------------- MODULE AnalyticListing ---------------------------
(***************************************************************************)
(* The listing of parallelism configurations that eval/test.cpp prints in  *)
(* its mode analytic_configs_only, from which the experiment script's      *)
(* search starts.  For every configuration that can serve one request for  *)
(* each of its dp replicas it finds, with the optimizer's estimates alone, *)
(* the largest batch that fits and the largest one that meets the latency  *)
(* bound.  A batch is k requests for each replica.                         *)
(*                                                                         *)
(* A cell is one point of the sweep: a model, a memory, a number of GPUs   *)
(* and a workload.  The estimates are an input here: est_lat[c][t][k] is   *)
(* the latency of batch k, and what is beyond the sequence does not fit.   *)
(***************************************************************************)
EXTENDS Integers, Sequences

CONSTANTS
  Cells,              \* points of the sweep
  Configs,            \* parallelism configurations
  dp,                 \* data-parallel replicas of a configuration
  tpot_slo,           \* of a cell: the bound on the time for a token
  est_lat,            \* of a cell and a configuration: estimates for k = 1, 2..
  MaxBatch            \* 2^30 in the code: no batch beyond it is tried

ASSUME ListingAssumption ==
  /\ tpot_slo \in [Cells -> Nat]
  /\ est_lat \in [Cells -> [Configs -> Seq(Nat \ {0})]]
  /\ \A t \in Configs : dp[t] \in Nat \ {0}
  /\ MaxBatch \in Nat

Oom(c, t, k) == k > Len(est_lat[c][t])
Fit(c, t) == {k \in Nat : ~Oom(c, t, k)}
Meet(c, t) == {k \in Fit(c, t) : est_lat[c][t][k] <= tpot_slo[c]}

\* The last power of two that fits, and the first that does not: 0 when all up
\* to MaxBatch do.
Bracket(c, t) ==
  LET doubled[k \in Nat \ {0}] ==
        IF k * dp[t] > MaxBatch THEN [k_cap |-> k \div 2, k_fail |-> 0]
        ELSE IF Oom(c, t, k) THEN [k_cap |-> k \div 2, k_fail |-> k]
        ELSE doubled[2 * k]
  IN doubled[2]

\* The largest good k between lo and hi, if the good ones come first; k when
\* none is.
Bisected(good, lo, hi, k) ==
  LET step[i \in [lo : Nat \ {0}, hi : Nat, best : Nat]] ==
        LET mid == i.lo + (i.hi - i.lo) \div 2
        IN IF i.lo > i.hi THEN i.best
           ELSE IF mid \in good THEN step[[i EXCEPT !.lo = mid + 1, !.best = mid]]
           ELSE step[[i EXCEPT !.hi = mid - 1]]
  IN step[[lo |-> lo, hi |-> hi, best |-> k]]

CapOf(c, t) ==
  LET b == Bracket(c, t)
  IN IF b.k_fail = 0 THEN b.k_cap
     ELSE Bisected(Fit(c, t), b.k_cap + 1, b.k_fail - 1, b.k_cap)

\* 1 when no batch meets the bound: the estimate rejects nothing by itself.
HintOf(c, t) ==
  LET k_cap == CapOf(c, t)
  IN IF k_cap \in Meet(c, t) THEN k_cap
     ELSE Bisected(Meet(c, t), 1, k_cap - 1, 1)

ConfigLine(c, t) ==
  [config |-> t, cap_batch |-> CapOf(c, t) * dp[t],
   slo_hint_batch |-> HintOf(c, t) * dp[t],
   est_lat_hint |-> est_lat[c][t][HintOf(c, t)]]

Listed(c) == {t \in Configs : ~Oom(c, t, 1)}

\* What the mode prints for each cell: a line for each configuration, and
\* whether some configuration without replicas serves a single request.
Listings == [c \in Cells |-> {ConfigLine(c, t) : t \in Listed(c)}]
CapFeasibleAt1(c) == \E t \in Listed(c) : dp[t] = 1
=============================================================================
