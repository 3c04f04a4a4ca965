SPECIFICATION FairSpec
CONSTANTS
  Env = {}
  LayerCount <- FourFiles
  Fids <- MixedFids
INVARIANT
  NeverLeaks
