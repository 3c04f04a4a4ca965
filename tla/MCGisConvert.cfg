\* Every entry point, by itself and through the command; sources that are not
\* there, or go away; failures and a cancellation at any point.
SPECIFICATION Spec
CONSTANTS
  s1 = s1
  s2 = s2
  Env = {"cancel", "file", "gdal"}
  Sources = {s1, s2}
  Requests <- ManyRequests
  Commands <- ManyCommands
INVARIANTS
  TypeOK
  NothingLeftOpen
  NilMeansWritten
  CanceledMeansUntouched
  OnlyBandsAndCutlineAreLost
  ExitTellsTheTruth
  ReprojectionComesFirst
