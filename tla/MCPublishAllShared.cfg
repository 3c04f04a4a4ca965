\* Two layers have one name, so that their workers race and their handles go
\* stale, and CopyLayer may fail: what holds even so, and that PublishAll ends.
SPECIFICATION FairSpec
CONSTANTS
  n1 = n1
  n2 = n2
  n3 = n3
  Names = {n1, n2}
  NoName = NoName
  NoTable = NoTable
  Main <- MCMain
  Concurrency = 2
  Env = {"cancel", "copy"}
  LayerCount <- TwoFiles
  Callers <- TwoFilesCallers
  LayerName <- SharedLayerNames
INVARIANTS
  EveryLayerAccountedFor
  NoSpuriousFailure
PROPERTY
  PublishAllReturns
