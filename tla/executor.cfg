\* One layer with two experts, on nine machines.
SPECIFICATION Spec
CONSTANTS
  N = 2
  Machines <- ExecutorMachines
  Batches <- StepBatches
INVARIANTS TypeOK NoFlagLeaks FirstExpertPaysOnce TagsAreExact PicksTheCheapest
