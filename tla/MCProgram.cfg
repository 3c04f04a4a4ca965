\* Both commands with all their flags, any configuration, and a cancellation, a
\* failing source, a vanishing file or a full disk; and programs that call New.
SPECIFICATION Spec
CONSTANTS
  Env = {"cancel", "source", "file", "stdout"}
  LayerCount <- TwoFiles
  Contents <- ManyContents
  Environments <- ManyEnvironments
  OptionLists <- ManyOptionLists
INVARIANTS
  TypeOK
  NeverHalfConfigured
  RefusalSaysWhy
  LastOptionWins
  ExitTellsTheTruth
