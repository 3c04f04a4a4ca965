\* Two callers with layers of the same name that call until they get nil;
\* everything the environment can do, from every catalog an earlier run can
\* leave.
SPECIFICATION FairSpec
CONSTANTS
  c1 = c1
  c2 = c2
  n1 = n1
  n2 = n2
  Callers = {c1, c2}
  Names = {n1, n2}
  NoName = NoName
  LayerName <- SameName
  Env = {"cancel", "config", "http", "rival"}
INVARIANTS
  TypeOK
  SuccessMeansPublished
  ParentsFirst
  LoserFindsResource
PROPERTY
  RepeatedCallSucceeds
