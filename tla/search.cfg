\* Two workers search cells and share the file of results; a run raises, or a
\* process dies.
SPECIFICATION FairSpec
CONSTANTS
  Workers = {"w1", "w2"}
  Cells <- SearchCells
  Configs = {"A", "B"}
  dp <- Replicas
  tpot_slo <- Slo
  est_lat <- Estimates
  MaxBatch = 16
  Phases = 2
  Sweeps <- SearchSweeps
  listing <- Listings
  tpot <- Measured
  bound <- Bounds
  Faults = {"raise", "death"}
  FaultBound = 1
INVARIANTS BoundaryIsTight AnswerIsTheBest HitsAreTrue
PROPERTIES NeverRunTwice EverySweepEnds
