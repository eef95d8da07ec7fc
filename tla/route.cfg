\* Two pipeline stages with experts.
SPECIFICATION FairSpec
CONSTANTS
  NumDevice = 4
  Layouts <- PipelineLayouts
  Loads = {1}
  ExpertLoads <- GraphExpertLoads
  Dependence <- GraphDependence
  Runs = 1
INVARIANTS RouteReadsOwnDraw
