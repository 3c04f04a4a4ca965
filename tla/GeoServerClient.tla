--------------------------- MODULE GeoServerClient ---------------------------
(***************************************************************************)
(* Manager.PublishGeoserverLayer with ensureWorkspace and                  *)
(* ensureDatastore, run by any number of goroutines (Callers) against one  *)
(* GeoServer catalog.  Every REST call is one atomic step at the server,   *)
(* so the Get and the Create of a resource are two steps and other callers *)
(* move in between.  The module has no Init or Next of its own:            *)
(* DirectPublish runs it with free callers, PublishAll with its worker     *)
(* pool.                                                                   *)
(*                                                                         *)
(* All calls of one manager use one workspace and one datastore (its       *)
(* configuration), so the catalog is: does the workspace exist, does the   *)
(* datastore exist, and which feature types the datastore has.             *)
(***************************************************************************)
EXTENDS RunContext

CONSTANTS
  Callers,    (* goroutines that talk to GeoServer *)
  Names,      (* layer names, hence feature type names *)
  NoName      (* the empty string GDAL names a null layer with *)

ASSUME NoNameAssumption == NoName \notin Names

VARIABLES
  ws,         (* the workspace exists *)
  ds,         (* the datastore exists in it *)
  fts,        (* names of the feature types of the datastore *)
  urlOk,      (* the configured server URL parses *)
  step,       (* step[c]: the next thing caller c does *)
  name        (* name[c]: the layer name c has read, layerName in the code *)

serverVars == <<ws, ds, fts>>
callVars == <<step, name>>
clientVars == <<serverVars, urlOk, callVars>>

(***************************************************************************)
(* "ensured" is the point between ensureDatastore and the first use of the *)
(* name, where layer.Name() calls into GDAL.                               *)
(***************************************************************************)
CallSteps ==
  {"idle", "connect", "getWorkspace", "createWorkspace", "getDatastore",
   "createDatastore", "ensured", "getFeatureType", "createFeatureType",
   "published", "failed"}

(* Steps whose next action is a REST call. *)
RestSteps ==
  {"getWorkspace", "createWorkspace", "getDatastore", "createDatastore",
   "getFeatureType", "createFeatureType"}

ServerTypeOK ==
  /\ ws \in BOOLEAN
  /\ ds \in BOOLEAN
  /\ fts \subseteq Names
  /\ urlOk \in BOOLEAN

(* What an earlier run, finished or killed half-way, leaves behind. *)
ConsistentCatalog ==
  /\ ds => ws
  /\ fts # {} => ds

ClientInit ==
  /\ ws \in BOOLEAN
  /\ ds \in BOOLEAN
  /\ fts \in SUBSET Names
  /\ ConsistentCatalog
  /\ urlOk \in BOOLEAN
  /\ "config" \notin Env => urlOk
  /\ canceled = FALSE
  /\ trouble = ~urlOk
  /\ step = [c \in Callers |-> "idle"]
  /\ name = [c \in Callers |-> NoName]
-----------------------------------------------------------------------------
Goto(c, s) == step' = [step EXCEPT ![c] = s]

(* A REST call that reaches the server and is answered. *)
Answered(c, from) ==
  /\ step[c] = from
  /\ ~canceled
  /\ UNCHANGED <<ctxVars, urlOk, name>>

-----------------------------------------------------------------------------
(* Mutants: bugs of the kind the properties are there to catch. *)

(* 409 Conflict is not tolerated for the workspace. *)
CreateWorkspaceNoConflict(c) ==
  /\ Answered(c, "createWorkspace")
  /\ ws' = TRUE
  /\ Goto(c, IF ws THEN "failed" ELSE "getDatastore")
  /\ UNCHANGED <<ds, fts>>

(* A workspace that is not found is taken for one that is. *)
GetWorkspaceSwallow(c) ==
  /\ Answered(c, "getWorkspace")
  /\ Goto(c, "getDatastore")
  /\ UNCHANGED serverVars

(* Create without Get: a feature type of an earlier call is an error. *)
GetFeatureTypeSkipped(c) ==
  /\ Answered(c, "getFeatureType")
  /\ Goto(c, "createFeatureType")
  /\ UNCHANGED serverVars

(* What names the caller is taken for the name of its layer. *)
ReadNameWrong(c, n) ==
  /\ step[c] = "ensured"
  /\ name' = [name EXCEPT ![c] = c]
  /\ Goto(c, "getFeatureType")
  /\ UNCHANGED <<ctxVars, serverVars, urlOk>>

(* An error of any call ends PublishGeoserverLayer with nil. *)
CallFailsSilently(c) ==
  /\ step[c] \in RestSteps
  /\ \/ canceled /\ UNCHANGED ctxVars
     \/ Disturb("http")
  /\ Goto(c, "published")
  /\ UNCHANGED <<serverVars, urlOk, name>>
-----------------------------------------------------------------------------
StartPublish(c) ==
  /\ step[c] = "idle"
  /\ Goto(c, "connect")
  /\ UNCHANGED <<ctxVars, serverVars, urlOk, name>>

(* GetGeoserverCatalog: no traffic, fails only on a malformed URL. *)
Connect(c) ==
  /\ step[c] = "connect"
  /\ Goto(c, IF urlOk THEN "getWorkspace" ELSE "failed")
  /\ UNCHANGED <<ctxVars, serverVars, urlOk, name>>

GetWorkspace(c) ==
  /\ Answered(c, "getWorkspace")
  /\ Goto(c, IF ws THEN "getDatastore" ELSE "createWorkspace")
  /\ UNCHANGED serverVars

(* 201, or 409 Conflict when another caller was first: both are success. *)
CreateWorkspace(c) ==
  /\ Answered(c, "createWorkspace")
  /\ ws' = TRUE
  /\ Goto(c, "getDatastore")
  /\ UNCHANGED <<ds, fts>>

GetDatastore(c) ==
  /\ Answered(c, "getDatastore")
  /\ Goto(c, IF ds THEN "ensured" ELSE "createDatastore")
  /\ UNCHANGED serverVars

(***************************************************************************)
(* GeoServer answers a duplicate datastore with 500, not with 409, so      *)
(* ensureDatastore's tolerance of ErrConflict does not apply and the loser *)
(* of the race fails.                                                      *)
(***************************************************************************)
CreateDatastore(c) ==
  /\ Answered(c, "createDatastore")
  /\ ds' = (ds \/ ws)
  /\ Goto(c, IF ws /\ ~ds THEN "ensured" ELSE "failed")
  /\ UNCHANGED <<ws, fts>>

(* layer.Name(): n is the name GDAL gives for the handle the caller has. *)
ReadName(c, n) ==
  /\ step[c] = "ensured"
  /\ name' = [name EXCEPT ![c] = n]
  /\ Goto(c, "getFeatureType")
  /\ UNCHANGED <<ctxVars, serverVars, urlOk>>

(***************************************************************************)
(* A found feature type ends the call with success.  The empty name is not *)
(* the name of any feature type, and what the server answers to it is left *)
(* open.                                                                   *)
(***************************************************************************)
GetFeatureType(c) ==
  /\ Answered(c, "getFeatureType")
  /\ \E found \in BOOLEAN :
       /\ name[c] \in Names => found = (name[c] \in fts)
       /\ Goto(c, IF found THEN "published" ELSE "createFeatureType")
  /\ UNCHANGED serverVars

(* Any answer but success is an error here, a duplicate name included. *)
CreateFeatureType(c) ==
  /\ Answered(c, "createFeatureType")
  /\ LET created == ds /\ name[c] \in Names \ fts
     IN /\ fts' = IF created THEN fts \cup {name[c]} ELSE fts
        /\ Goto(c, IF created THEN "published" ELSE "failed")
  /\ UNCHANGED <<ws, ds>>

(* What the server may have done before the answer to c's call was lost. *)
LostEffect(c) ==
  \/ UNCHANGED serverVars
  \/ /\ step[c] = "createWorkspace"
     /\ ws' = TRUE
     /\ UNCHANGED <<ds, fts>>
  \/ /\ step[c] = "createDatastore"
     /\ ds' = (ds \/ ws)
     /\ UNCHANGED <<ws, fts>>
  \/ /\ step[c] = "createFeatureType"
     /\ ds
     /\ fts' = fts \cup ({name[c]} \cap Names)
     /\ UNCHANGED <<ws, ds>>

(* A REST call errs: the context is canceled, or the network or server fails. *)
CallFails(c) ==
  /\ step[c] \in RestSteps
  /\ \/ canceled /\ UNCHANGED ctxVars
     \/ Disturb("http")
  /\ LostEffect(c)
  /\ Goto(c, "failed")
  /\ UNCHANGED <<urlOk, name>>

(* The steps of a publish other than reading the layer's name. *)
RestCall(c) ==
  \/ Connect(c)
  \/ GetWorkspace(c)
  \/ CreateWorkspace(c)
  \/ GetDatastore(c)
  \/ CreateDatastore(c)
  \/ GetFeatureType(c)
  \/ CreateFeatureType(c)
  \/ CallFails(c)
-----------------------------------------------------------------------------
(***************************************************************************)
(* Another client of the same server.  That it creates the workspace is    *)
(* not counted as trouble: the code promises to live with it.              *)
(***************************************************************************)
RivalWorkspace ==
  /\ "rival" \in Env
  /\ ~ws
  /\ ws' = TRUE
  /\ UNCHANGED <<ctxVars, ds, fts, urlOk, callVars>>

RivalResource ==
  /\ Disturb("rival")
  /\ \/ ws /\ ~ds /\ ds' = TRUE /\ UNCHANGED fts
     \/ ds /\ (\E n \in Names \ fts : fts' = fts \cup {n}) /\ UNCHANGED ds
  /\ UNCHANGED <<ws, urlOk, callVars>>
-----------------------------------------------------------------------------
(* No call asks the server to create a child whose parent is not there,   *)
(* whatever the other callers do in between (layer.go:79-92).             *)
ParentsFirst ==
  \A c \in Callers :
    /\ step[c] \in {"getDatastore", "createDatastore"} => ws
    /\ step[c] \in {"ensured", "getFeatureType", "createFeatureType"} => ws /\ ds

(* A canceled context and a malformed URL are outside trouble. *)
TroubleRecorded == canceled \/ ~urlOk => trouble
=============================================================================
