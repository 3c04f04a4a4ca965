\* One reprojection of some of the bands, and nothing that goes wrong.
SPECIFICATION Spec
CONSTANTS
  s1 = s1
  s2 = s2
  Env = {}
  Sources = {s1, s2}
  Requests <- BandsOfAWarp
  Commands = {}
INVARIANT
  EveryOptionReachesGDAL
