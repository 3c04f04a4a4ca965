------------------------- MODULE DirectPublishProofs -------------------------
(***************************************************************************)
(* The safety of concurrent direct publishing, for any set of callers, any *)
(* names and any environment.                                              *)
(***************************************************************************)
EXTENDS DirectPublish, GeoServerClientProofs

(* A caller past layer.Name() has the name of its own layer. *)
OwnName ==
  \A c \in Callers :
    step[c] \in {"getFeatureType", "createFeatureType", "published"} =>
      name[c] = LayerName[c]

(* The inductive invariant: nothing of the catalog is ever removed, so what *)
(* a caller has seen of it stays true.                                      *)
DirectInv ==
  /\ TypeOK
  /\ ParentsFirst
  /\ TroubleRecorded
  /\ OwnName
  /\ SuccessMeansPublished
  /\ LoserFindsResource

(* The type invariant in the form the lemmas of the client use. *)
LEMMA TypeOKIsCallType == TypeOK <=> CallTypeOK(CallSteps)
BY DEF TypeOK, CallTypeOK

LEMMA DirectInit == Init => DirectInv
<1>1. SUFFICES ASSUME Init PROVE DirectInv
  OBVIOUS
<1> USE <1>1 DEF Init, ClientInit
<1>2. TypeOK
  BY DEF TypeOK, CtxTypeOK, ServerTypeOK, CallSteps
<1>3. \A c \in Callers : step[c] = "idle"
  OBVIOUS
<1>4. ParentsFirst /\ OwnName /\ SuccessMeansPublished /\ LoserFindsResource
  BY <1>3 DEF ParentsFirst, OwnName, SuccessMeansPublished, LoserFindsResource
<1>5. TroubleRecorded
  BY DEF TroubleRecorded
<1>6. QED
  BY <1>2, <1>4, <1>5 DEF DirectInv

(* A step that moves one caller to a place that claims nothing. *)
LEMMA DirectPlain ==
  ASSUME DirectInv, NEW c \in Callers, StartPublish(c) \/ CallAgain(c)
  PROVE  DirectInv'
<1> USE DEF DirectInv, StartPublish, CallAgain, Goto, ctxVars, serverVars
<1>1. /\ step' = [step EXCEPT ![c] = "idle"] \/ step' = [step EXCEPT ![c] = "connect"]
      /\ UNCHANGED <<canceled, trouble, ws, ds, fts, urlOk, name>>
  OBVIOUS
<1>2. TypeOK'
  BY <1>1 DEF TypeOK, CtxTypeOK, ServerTypeOK, CallSteps
<1>3. \A d \in Callers : step'[d] = step[d] \/ step'[d] \in {"idle", "connect"}
  BY <1>1 DEF TypeOK
<1>4. ParentsFirst' /\ OwnName' /\ SuccessMeansPublished' /\ LoserFindsResource'
  BY <1>1, <1>3 DEF ParentsFirst, OwnName, SuccessMeansPublished, LoserFindsResource
<1>5. TroubleRecorded'
  BY <1>1 DEF TroubleRecorded
<1>6. QED
  BY <1>2, <1>4, <1>5

LEMMA DirectReadName ==
  ASSUME DirectInv, NEW c \in Callers, ReadName(c, LayerName[c])
  PROVE  DirectInv'
<1> USE DEF DirectInv, ReadName, Goto, ctxVars, serverVars
<1>1. TypeOK'
  BY LayerNameAssumption DEF TypeOK, CtxTypeOK, ServerTypeOK, CallSteps
<1>2. step'[c] = "getFeatureType" /\ name'[c] = LayerName[c]
  BY DEF TypeOK
<1>3. \A d \in Callers \ {c} : step'[d] = step[d] /\ name'[d] = name[d]
  BY DEF TypeOK
<1>4. ws /\ ds
  BY DEF ParentsFirst
<1>5. ParentsFirst' /\ OwnName' /\ SuccessMeansPublished' /\ LoserFindsResource'
  BY <1>2, <1>3, <1>4 DEF ParentsFirst, OwnName, SuccessMeansPublished, LoserFindsResource
<1>6. TroubleRecorded'
  BY DEF TroubleRecorded
<1>7. QED
  BY <1>1, <1>5, <1>6

LEMMA DirectRestCall ==
  ASSUME DirectInv, NEW c \in Callers, RestCall(c)
  PROVE  DirectInv'
<1>0. CallTypeOK(CallSteps) /\ ParentsFirst /\ TroubleRecorded
  BY TypeOKIsCallType DEF DirectInv
<1>1. /\ step[c] \in RestSteps \cup {"connect"}
      /\ step'[c] \in CallSteps \ {"idle", "connect"}
      /\ \A d \in Callers \ {c} : step'[d] = step[d]
      /\ UNCHANGED <<name, urlOk, canceled>>
      /\ ws => ws'
      /\ ds => ds'
      /\ fts \subseteq fts'
      /\ trouble => trouble'
  BY <1>0, RestCallFrame
<1>2. TypeOK'
  <2>1. CallTypeOK(CallSteps)'
    BY <1>0, RestCallType
  <2>2. QED
    BY <2>1 DEF TypeOK, CallTypeOK
<1>3. ParentsFirst' /\ TroubleRecorded'
  BY <1>0, RestCallParents, RestCallTrouble
<1>4. OwnName'
  <2>1. step'[c] \in {"getFeatureType", "createFeatureType", "published"} =>
          step[c] \in {"getFeatureType", "createFeatureType"}
    BY <1>0 DEF RestCall, Connect, GetWorkspace, CreateWorkspace, GetDatastore,
         CreateDatastore, GetFeatureType, CreateFeatureType, CallFails, Goto,
         Answered, CallTypeOK
  <2>2. QED
    BY <1>1, <2>1 DEF OwnName, DirectInv
<1>5. SuccessMeansPublished'
  <2>1. SUFFICES ASSUME NEW d \in Callers, step'[d] = "published"
                 PROVE  ws' /\ ds' /\ name'[d] = LayerName[d] /\ LayerName[d] \in fts'
    BY DEF SuccessMeansPublished
  <2>2. name'[d] = LayerName[d] /\ name[d] = LayerName[d] /\ LayerName[d] \in Names
    BY <1>1, <1>4, <2>1, LayerNameAssumption DEF OwnName
  <2>3. CASE d = c
    BY <1>0, <2>1, <2>2, <2>3, RestCallSuccess
  <2>4. CASE d # c
    BY <1>1, <2>1, <2>2, <2>4 DEF SuccessMeansPublished, DirectInv
  <2>5. QED
    BY <2>3, <2>4
<1>6. LoserFindsResource'
  <2>1. SUFFICES ASSUME NEW d \in Callers, ~trouble', step'[d] = "failed"
                 PROVE  ws' /\ ds'
    BY DEF LoserFindsResource
  <2>2. CASE d = c
    BY <1>0, <2>1, <2>2, RestCallLoser
  <2>3. CASE d # c
    BY <1>1, <2>1, <2>3 DEF LoserFindsResource, DirectInv
  <2>4. QED
    BY <2>2, <2>3
<1>7. QED
  BY <1>2, <1>3, <1>4, <1>5, <1>6 DEF DirectInv

(* The environment only adds to the catalog and moves no caller. *)
LEMMA DirectEnvironment ==
  ASSUME DirectInv, Environment
  PROVE  DirectInv'
<1> USE DEF DirectInv, Environment, Cancel, RivalWorkspace, RivalResource, Disturb,
            ctxVars, clientVars, serverVars, callVars
<1>1. /\ UNCHANGED <<step, name, urlOk>>
      /\ ws => ws'
      /\ ds => ds'
      /\ fts \subseteq fts'
      /\ trouble => trouble'
  OBVIOUS
<1>2. TypeOK'
  BY <1>1 DEF TypeOK, CtxTypeOK, ServerTypeOK
<1>3. ParentsFirst' /\ OwnName' /\ SuccessMeansPublished' /\ LoserFindsResource'
  BY <1>1 DEF ParentsFirst, OwnName, SuccessMeansPublished, LoserFindsResource
<1>4. TroubleRecorded'
  BY <1>1 DEF TroubleRecorded
<1>5. QED
  BY <1>2, <1>3, <1>4

LEMMA DirectNext == DirectInv /\ [Next]_vars => DirectInv'
<1>1. SUFFICES ASSUME DirectInv, [Next]_vars PROVE DirectInv'
  OBVIOUS
<1>2. CASE \E c \in Callers : Publish(c) \/ CallAgain(c)
  BY <1>1, <1>2, DirectPlain, DirectReadName, DirectRestCall DEF Publish
<1>3. CASE Environment
  BY <1>1, <1>3, DirectEnvironment
<1>4. CASE UNCHANGED vars
  BY <1>1, <1>4 DEF DirectInv, TypeOK, CtxTypeOK, ServerTypeOK, ParentsFirst,
     TroubleRecorded, OwnName, SuccessMeansPublished, LoserFindsResource,
     vars, ctxVars, clientVars, serverVars, callVars
<1>5. QED
  BY <1>1, <1>2, <1>3, <1>4 DEF Next, Finished

LEMMA DirectInvariant == Spec => []DirectInv
BY DirectInit, DirectNext, PTL DEF Spec

(* Every variable stays in its range, whatever the callers, their layers   *)
(* and the disturbances are (GeoServerClient's state, layer.go:72-172).    *)
THEOREM DirectTypeOK == Spec => []TypeOK
BY DirectInvariant, PTL DEF DirectInv

(* nil means published: no interleaving of callers, rivals, lost answers   *)
(* and cancellation lets PublishGeoserverLayer return nil without the      *)
(* layer's feature type in the catalog (layer.go:93-111).                  *)
THEOREM DirectSuccess == Spec => []SuccessMeansPublished
BY DirectInvariant, PTL DEF DirectInv

(* No create is sent before its parent exists (layer.go:79-92). *)
THEOREM DirectParentsFirst == Spec => []ParentsFirst
BY DirectInvariant, PTL DEF DirectInv

(* A call that fails without outside trouble has lost a race, and leaves a *)
(* catalog on which its repetition gets to the feature type                *)
(* (layer.go:136-142, 165-171).                                            *)
THEOREM DirectLosers == Spec => []LoserFindsResource
BY DirectInvariant, PTL DEF DirectInv
=============================================================================
