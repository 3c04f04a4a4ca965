------------------------------- MODULE Features -------------------------------
(***************************************************************************)
(* Layer.Features: the iter.Seq that reads the features of a layer one by  *)
(* one and destroys each before it reads the next.  Like Walk it takes     *)
(* turns with the body of a for-range loop on one goroutine, and has no    *)
(* Next of its own.  The layer is given by the caller; one made by         *)
(* NewLayer from an open source is never nil.                              *)
(*                                                                         *)
(* Data sets number their features as they like: GDAL's feature ids (FIDs) *)
(* count from 0 in a shapefile, from 1 in a GeoPackage, with gaps where    *)
(* features were deleted.  Reading an FID that is not there gives a null   *)
(* feature, which is yielded and owns nothing.                             *)
(***************************************************************************)
EXTENDS RunContext, Naturals, FiniteSets

CONSTANT Fids   (* Fids[l]: the ids of the features of layer l *)

ASSUME FidsAssumption ==
  \A l \in DOMAIN Fids : Fids[l] \subseteq Nat /\ IsFiniteSet(Fids[l])

VARIABLES
  turn,     (* where the iterator over the features is *)
  fid,      (* the loop variable i, read as an FID *)
  alive     (* <<layer, FID>> of the features read and not destroyed *)

featureVars == <<turn, fid, alive>>

(* What FeatureCount returns. *)
FeatureCount(l) == Cardinality(Fids[l])

FeaturesTypeOK ==
  /\ turn \in {"idle", "count", "read", "fetch", "feature", "over"}
  /\ fid \in Nat
  /\ alive \subseteq UNION {{<<l, i>> : i \in Fids[l]} : l \in DOMAIN Fids}

FeaturesInit ==
  /\ turn = "idle"
  /\ fid = 0
  /\ alive = {}
-----------------------------------------------------------------------------
(* Mutants: bugs of the kind the properties are there to catch. *)

(* yield's false leaves without the Destroy. *)
BreakFeaturesWithoutDestroy(l) ==
  /\ turn = "feature"
  /\ turn' = "over"
  /\ UNCHANGED <<fid, alive>>

(* The context is looked at before the loop only. *)
CheckFeatureSkipped(l) ==
  /\ turn = "read"
  /\ fid < FeatureCount(l)
  /\ turn' = "fetch"
  /\ UNCHANGED <<ctxVars, fid, alive>>
-----------------------------------------------------------------------------
(* The loop begins. *)
StartFeatures ==
  /\ turn = "idle"
  /\ turn' = "count"
  /\ fid' = 0
  /\ UNCHANGED <<ctxVars, alive>>

CountFeatures ==
  /\ turn = "count"
  /\ turn' = "read"
  /\ UNCHANGED <<ctxVars, fid, alive>>

(* FeatureCount is not ok: logged, and no feature is given. *)
CountFails ==
  /\ turn = "count"
  /\ Disturb("source")
  /\ turn' = "over"
  /\ UNCHANGED <<fid, alive>>

(* The iterator returns without a word: no more FIDs, or ctx.Err() # nil. *)
FeaturesEnd(l) ==
  /\ turn = "read"
  /\ fid >= FeatureCount(l) \/ canceled
  /\ turn' = "over"
  /\ UNCHANGED <<ctxVars, fid, alive>>

(* ctx.Err() = nil: whatever happens to the context now, FID i is read. *)
CheckFeature(l) ==
  /\ turn = "read"
  /\ fid < FeatureCount(l)
  /\ ~canceled
  /\ turn' = "fetch"
  /\ UNCHANGED <<ctxVars, fid, alive>>

(* layer.Feature(int64(i)), yielded. *)
ReadFeature(l) ==
  /\ turn = "fetch"
  /\ turn' = "feature"
  /\ alive' = IF fid \in Fids[l] THEN alive \cup {<<l, fid>>} ELSE alive
  /\ UNCHANGED <<ctxVars, fid>>

IterateFeatures(l) ==
  \/ CountFeatures
  \/ CountFails
  \/ FeaturesEnd(l)
  \/ CheckFeature(l)
  \/ ReadFeature(l)

(* The body wants the next one, or leaves: f.Destroy() comes first. *)
ResumeFeatures(l) ==
  /\ turn = "feature"
  /\ alive' = alive \ {<<l, fid>>}
  /\ fid' = fid + 1
  /\ turn' = "read"

BreakFeatures(l) ==
  /\ turn = "feature"
  /\ alive' = alive \ {<<l, fid>>}
  /\ turn' = "over"
  /\ UNCHANGED fid
=============================================================================
