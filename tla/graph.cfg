\* Four devices run their graphs twice.
SPECIFICATION FairSpec
CONSTANTS
  NumDevice = 4
  Layouts <- GraphLayouts
  Loads = {0, 2}
  ExpertLoads <- GraphExpertLoads
  Dependence <- GraphDependence
  Runs = 2
INVARIANTS TypeOK BarrierHolds SyncTakesTheLatest FlagsLowered TpPeersAgree ReconstructionIsSound
PROPERTIES EveryRunEnds
