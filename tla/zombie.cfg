\* Decode mode with an output of one token.
SPECIFICATION FairSpec
CONSTANTS
  Ids = {1, 2, 3, 4}
  DpDegree = 2
  TotalBatch = 4
  Configs <- OneTokenConfigs
INVARIANTS NoZombie
