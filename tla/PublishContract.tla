---------------------------- MODULE PublishContract ----------------------------
(***************************************************************************)
(* What PublishAll promises its caller (its doc comment, walk.go:150-160), *)
(* with nothing of how: every layer is settled once, as published or as    *)
(* failed; a setup error means that no layer was attempted; the result is  *)
(* given after the last layer is settled, is nil only if all of them were  *)
(* published, and nothing happens after it.  Published is what the code    *)
(* goes by: that PublishGeoserverLayer has returned nil for the layer.     *)
(***************************************************************************)
CONSTANT Layers

VARIABLES
  status,   (* what has become of each layer *)
  result    (* what the call has returned, "running" before that *)

vars == <<status, result>>

TypeOK ==
  /\ status \in [Layers -> {"pending", "published", "failed"}]
  /\ result \in {"running", "nil", "error", "setupError"}

Init ==
  /\ status = [l \in Layers |-> "pending"]
  /\ result = "running"

Pending == {l \in Layers : status[l] = "pending"}

Publish(l) ==
  /\ result = "running"
  /\ status[l] = "pending"
  /\ status' = [status EXCEPT ![l] = "published"]
  /\ UNCHANGED result

(* One error may settle many layers: those of a file, or all that are left. *)
Fail(S) ==
  /\ result = "running"
  /\ S \subseteq Pending
  /\ status' = [l \in Layers |-> IF l \in S THEN "failed" ELSE status[l]]
  /\ UNCHANGED result

Return ==
  /\ result = "running"
  /\ Pending = {}
  /\ result' \in IF \A l \in Layers : status[l] = "published"
                 THEN {"nil", "error"}
                 ELSE {"error"}
  /\ UNCHANGED status

SetupError ==
  /\ result = "running"
  /\ Pending = Layers
  /\ result' = "setupError"
  /\ UNCHANGED status

Next ==
  \/ \E l \in Layers : Publish(l)
  \/ \E S \in SUBSET Layers : Fail(S)
  \/ Return
  \/ SetupError

Spec == Init /\ [][Next]_vars
=============================================================================
