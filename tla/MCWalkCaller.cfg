SPECIFICATION FairSpec
CONSTANTS
  Env = {"cancel", "source"}
  LayerCount <- FourFiles
  Fids <- MixedFids
INVARIANTS
  TypeOK
  SourcesReleased
  YieldedLayerIsUsable
  FeaturesReleased
  InOrderWithoutGaps
  CancelStopsYields
PROPERTY
  WalkEnds
