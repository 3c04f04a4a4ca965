--------------------------- MODULE MCDirectPublish ---------------------------
(***************************************************************************)
(* DirectPublish for TLC: two callers whose layers have the same name.     *)
(***************************************************************************)
EXTENDS DirectPublish, TLC

CONSTANTS c1, c2, n1, n2

SameName == c1 :> n1 @@ c2 :> n1
=============================================================================
