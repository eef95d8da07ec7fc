\* Batches of up to four sequences, of up to six tokens.
SPECIFICATION Spec
CONSTANTS
  Machines <- CostMachines
  Starts = {0, 2}
  MaxBatch = 4
  MaxLen = 5
INVARIANTS OneFillPerLayer SameWork ReconstructsTheMicrobatch OffloadConserves ReadsThenWrites
PROPERTIES WindowCaps
CHECK_DEADLOCK FALSE
