\* Three layers of two files with names of their own, two workers, and all that
\* can go wrong outside but a failing CopyLayer.
SPECIFICATION Spec
CONSTANTS
  n1 = n1
  n2 = n2
  n3 = n3
  Names = {n1, n2, n3}
  NoName = NoName
  NoTable = NoTable
  Main <- MCMain
  Concurrency = 2
  Env = {"cancel", "config", "rival", "http", "postgis", "source"}
  LayerCount <- TwoFiles
  Callers <- TwoFilesCallers
  LayerName <- DistinctLayerNames
INVARIANTS
  TypeOK
  PublishBounded
  TargetOutlivesWorkers
  SourcesFollowTheCopy
  EveryLayerAccountedFor
  NilMeansServed
  NoSpuriousFailure
  CancelStopsLoading
PROPERTY
  KeepsContract
