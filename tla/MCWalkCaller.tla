----------------------------- MODULE MCWalkCaller -----------------------------
(***************************************************************************)
(* WalkCaller for TLC: four files, one of them without layers, of which    *)
(* layers number their features from 0, from 1, or have none.              *)
(***************************************************************************)
EXTENDS WalkCaller, TLC

FourFiles == <<2, 0, 1, 2>>
MixedFids ==
  <<1, 1>> :> {0, 1} @@ <<1, 2>> :> {} @@ <<3, 1>> :> {1, 2} @@
  <<4, 1>> :> {0} @@ <<4, 2>> :> {3}
=============================================================================
