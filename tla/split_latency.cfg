\* Prefill and decode on separate machines.
SPECIFICATION ClusterSpec
CONSTANTS
  Ids = {1, 2, 3, 4, 5, 6, 7, 8, 9, 10}
  DpDegree = 2
  TotalBatch = 4
  Configs <- TwoMachineConfigs
  Iter = 9
  StepTimes = {1, 2}
INVARIANTS E2ELatencyIsElapsed
