----------------------------- MODULE MCPublishAll -----------------------------
(* PublishAll for TLC: sources of a few layers, with and without shared names. *)
EXTENDS PublishAll, TLC

CONSTANTS n1, n2, n3

MCMain == <<0, 0>>

(* Two files, of two layers and of one. *)
TwoFiles == <<2, 1>>
TwoFilesCallers == {MCMain, <<1, 1>>, <<1, 2>>, <<2, 1>>}
DistinctLayerNames == <<1, 1>> :> n1 @@ <<1, 2>> :> n2 @@ <<2, 1>> :> n3
SharedLayerNames == <<1, 1>> :> n1 @@ <<1, 2>> :> n2 @@ <<2, 1>> :> n2
=============================================================================
