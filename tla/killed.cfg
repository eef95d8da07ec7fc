\* A run of the simulator that the system kills.
SPECIFICATION Spec
CONSTANTS
  Workers = {"w1", "w2"}
  Cells <- SearchCells
  Configs = {"A", "B"}
  dp <- Replicas
  tpot_slo <- Slo
  est_lat <- Estimates
  MaxBatch = 8
  Phases = 2
  Sweeps <- SearchSweeps
  listing <- Listings
  tpot <- Measured
  bound <- Bounds
  Faults = {"kill"}
  FaultBound = 1
INVARIANT HitsAreTrue

