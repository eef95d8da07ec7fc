\* One machine and a lull between two arrivals.
SPECIFICATION ClusterFairSpec
CONSTANTS
  Ids = {1, 2, 3, 4}
  DpDegree = 1
  TotalBatch = 2
  Configs <- IdleConfigs
  Iter = 6
  StepTimes = {1, 2}
PROPERTIES IdleAddsTime
