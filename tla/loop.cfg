\* The timed loop: one machine that requests keep full or arrive at, and
\* separate machines for prefill and decode; five places, of which the batches
\* have four.
SPECIFICATION ClusterSpec
CONSTANTS
  Ids = {1, 2, 3, 4, 5, 6, 7, 8, 9, 10, 11, 12}
  DpDegree = 2
  TotalBatch = 5
  Configs <- LoopConfigs
  Iter = 5
  StepTimes = {1, 2}
CONSTRAINTS QueueBound WarmedUp
INVARIANTS ClusterTypeOK RowsTellTheTime ArrivalsInjectedOnce PrefillAfterAdmission NoEarlyDecode
PROPERTIES KvCountedOnce
