\* The same layer where two processors compete for the experts.
SPECIFICATION Spec
CONSTANTS
  N = 2
  Machines <- CompetingMachines
  Batches <- StepBatches
INVARIANTS FirstExpertPaysOnce
