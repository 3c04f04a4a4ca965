\* Nothing goes wrong outside; a layer numbers its features from 1.
SPECIFICATION FairSpec
CONSTANTS
  Env = {}
  LayerCount <- FourFiles
  Fids <- MixedFids
INVARIANT
  EveryFeatureIsRead
