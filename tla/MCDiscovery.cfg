\* 1944 trees of seven nodes, with a failure possible at every node.
SPECIFICATION Spec
CONSTANTS
  Env = {"source"}
  Tree <- SmallTree
  Kinds <- AllKinds
INVARIANTS
  TypeOK
  FindsWhatIsThere
  FoundFilesExist
  LossesHaveAReason
