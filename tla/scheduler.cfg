\* Two batches of two requests, in every mode, for ever.
SPECIFICATION FairSpec
CONSTANTS
  Ids = {1, 2, 3, 4}
  DpDegree = 2
  TotalBatch = 4
  Configs <- SchedulerConfigs
INVARIANTS TypeOK WithinCapacity InOnePlace NoZombie WorkConserving QueueDrained SteadyDecode AgesStayUniform OffloadCoversKv
PROPERTIES ImplementsBatchServer ImplementsFairBatchServer
