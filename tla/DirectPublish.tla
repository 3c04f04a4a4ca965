---------------------------- MODULE DirectPublish ----------------------------
(***************************************************************************)
(* Goroutines, or processes with the same configuration, that call         *)
(* PublishGeoserverLayer directly and concurrently, without the warm-up    *)
(* PublishAll does first.  Each caller has a live layer handle of its own  *)
(* and may call again after an error.                                      *)
(***************************************************************************)
EXTENDS GeoServerClient

CONSTANT LayerName    (* LayerName[c]: the name of the layer c publishes *)

ASSUME LayerNameAssumption == LayerName \in [Callers -> Names]

vars == <<ctxVars, clientVars>>

TypeOK ==
  /\ CtxTypeOK
  /\ ServerTypeOK
  /\ step \in [Callers -> CallSteps]
  /\ name \in [Callers -> Names \cup {NoName}]

Init == ClientInit

(* The caller got an error and calls again. *)
CallAgain(c) ==
  /\ step[c] = "failed"
  /\ Goto(c, "idle")
  /\ UNCHANGED <<ctxVars, serverVars, urlOk, name>>

Publish(c) ==
  \/ StartPublish(c)
  \/ ReadName(c, LayerName[c])
  \/ RestCall(c)

Environment ==
  \/ Cancel /\ UNCHANGED clientVars
  \/ RivalWorkspace
  \/ RivalResource

AllPublished == \A c \in Callers : step[c] = "published"

Finished ==
  /\ AllPublished
  /\ UNCHANGED vars

Next ==
  \/ \E c \in Callers : Publish(c) \/ CallAgain(c)
  \/ Environment
  \/ Finished

Spec == Init /\ [][Next]_vars

(***************************************************************************)
(* Callers run, and a call that is made over and over is answered now and  *)
(* then: strong fairness of every answered step, for a caller that does    *)
(* not give up.  The code retries nothing by itself.                       *)
(***************************************************************************)
PersistentCallers ==
  \A c \in Callers :
    /\ WF_vars(Publish(c) \/ CallAgain(c))
    /\ SF_vars(GetWorkspace(c))
    /\ SF_vars(CreateWorkspace(c))
    /\ SF_vars(GetDatastore(c))
    /\ SF_vars(CreateDatastore(c))
    /\ SF_vars(GetFeatureType(c))
    /\ SF_vars(CreateFeatureType(c))

FairSpec == Spec /\ PersistentCallers
-----------------------------------------------------------------------------
(* Whoever is told nil can rely on it: the feature type of that caller's  *)
(* own layer is in the catalog, under its workspace and datastore, and it *)
(* stays there (layer.go:93-97, 107-111).                                 *)
SuccessMeansPublished ==
  \A c \in Callers :
    step[c] = "published" =>
      ws /\ ds /\ name[c] = LayerName[c] /\ LayerName[c] \in fts

(* A caller that fails though nothing outside went wrong has lost a race  *)
(* for a resource that is there now, so it never fails for the workspace  *)
(* (ErrConflict is tolerated, layer.go:137-139) and a second call gets    *)
(* past the step that failed.                                             *)
LoserFindsResource ==
  \A c \in Callers : ~trouble /\ step[c] = "failed" => ws /\ ds

(* Calling again is enough: with lost answers, half-done creates and      *)
(* rivals, a caller that repeats its call until it gets nil gets it, short *)
(* of a cancellation, as Get before Create makes the call idempotent      *)
(* (layer.go:93-101).                                                     *)
RepeatedCallSucceeds ==
  urlOk => \A c \in Callers : <>(step[c] = "published" \/ canceled)
=============================================================================
