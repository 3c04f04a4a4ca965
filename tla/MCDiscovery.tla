----------------------------- MODULE MCDiscovery -----------------------------
(***************************************************************************)
(* Discovery for TLC: one shape of tree, and every way to make its inner   *)
(* nodes directories or bundles, three of its leaves files, bundles        *)
(* (without content) or something else, and the fourth any kind of file.   *)
(***************************************************************************)
EXTENDS Discovery

SmallTree == {<<>>, <<1>>, <<1, 1>>, <<1, 1, 1>>, <<1, 1, 2>>, <<1, 2>>, <<2>>}
DeepLeaves == {<<1, 1, 1>>, <<1, 1, 2>>, <<1, 2>>}

KindsOf(n) ==
  IF n \in Parents THEN {"dir", ".zip"}
  ELSE IF n \in DeepLeaves THEN {".zip", ".kml", "other"}
  ELSE Extensions

AllKinds ==
  {k \in [SmallTree -> {"dir"} \cup Extensions] :
     \A n \in SmallTree : k[n] \in KindsOf(n)}
=============================================================================
