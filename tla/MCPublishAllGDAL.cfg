\* Layers with names of their own, and nothing outside goes wrong.
SPECIFICATION Spec
CONSTANTS
  n1 = n1
  n2 = n2
  n3 = n3
  Names = {n1, n2, n3}
  NoName = NoName
  NoTable = NoTable
  Main <- MCMain
  Concurrency = 2
  Env = {}
  LayerCount <- TwoFiles
  Callers <- TwoFilesCallers
  LayerName <- DistinctLayerNames
INVARIANT
  GDALCallsAreSerial
