------------------------ MODULE GeoServerClientProofs ------------------------
(***************************************************************************)
(* Lemmas about one step of a publish, for the modules that compose        *)
(* GeoServerClient with callers of different kinds.  S is the set of steps *)
(* the composing module has.                                               *)
(***************************************************************************)
EXTENDS GeoServerClient, TLAPS

CallTypeOK(S) ==
  /\ CtxTypeOK
  /\ ServerTypeOK
  /\ step \in [Callers -> S]
  /\ name \in [Callers -> Names \cup {NoName}]

(* A call moves its own caller only, along the steps of a call, and nothing *)
(* a call does takes anything out of the catalog.                           *)
LEMMA RestCallFrame ==
  ASSUME NEW S, CallSteps \subseteq S, CallTypeOK(S),
         NEW c \in Callers, RestCall(c)
  PROVE  /\ step[c] \in RestSteps \cup {"connect"}
         /\ step' = [step EXCEPT ![c] = step'[c]]
         /\ step'[c] \in CallSteps \ {"idle", "connect"}
         /\ \A d \in Callers \ {c} : step'[d] = step[d]
         /\ UNCHANGED <<name, urlOk, canceled>>
         /\ ws => ws'
         /\ ds => ds'
         /\ fts \subseteq fts'
         /\ trouble => trouble'
<1> USE DEF CallTypeOK, CtxTypeOK, ServerTypeOK, RestSteps, CallSteps, Goto,
            Answered, ctxVars, serverVars
<1>1. CASE Connect(c)
  BY <1>1 DEF Connect
<1>2. CASE GetWorkspace(c)
  BY <1>2 DEF GetWorkspace
<1>3. CASE CreateWorkspace(c)
  BY <1>3 DEF CreateWorkspace
<1>4. CASE GetDatastore(c)
  BY <1>4 DEF GetDatastore
<1>5. CASE CreateDatastore(c)
  BY <1>5 DEF CreateDatastore
<1>6. CASE GetFeatureType(c)
  BY <1>6 DEF GetFeatureType
<1>7. CASE CreateFeatureType(c)
  BY <1>7 DEF CreateFeatureType
<1>8. CASE CallFails(c)
  BY <1>8 DEF CallFails, LostEffect, Disturb
<1>9. QED
  BY <1>1, <1>2, <1>3, <1>4, <1>5, <1>6, <1>7, <1>8 DEF RestCall

(* A call keeps every variable in its range. *)
LEMMA RestCallType ==
  ASSUME NEW S, CallSteps \subseteq S, CallTypeOK(S),
         NEW c \in Callers, RestCall(c)
  PROVE  CallTypeOK(S)'
<1> USE DEF CallTypeOK, CtxTypeOK, ServerTypeOK, CallSteps, Goto, Answered,
            ctxVars, serverVars
<1>1. CASE Connect(c)
  BY <1>1 DEF Connect
<1>2. CASE GetWorkspace(c)
  BY <1>2 DEF GetWorkspace
<1>3. CASE CreateWorkspace(c)
  BY <1>3 DEF CreateWorkspace
<1>4. CASE GetDatastore(c)
  BY <1>4 DEF GetDatastore
<1>5. CASE CreateDatastore(c)
  BY <1>5 DEF CreateDatastore
<1>6. CASE GetFeatureType(c)
  BY <1>6 DEF GetFeatureType
<1>7. CASE CreateFeatureType(c)
  BY <1>7 DEF CreateFeatureType
<1>8. CASE CallFails(c)
  <2>1. trouble' \in BOOLEAN /\ canceled' \in BOOLEAN
    BY <1>8 DEF CallFails, Disturb
  <2>2. ws' \in BOOLEAN /\ ds' \in BOOLEAN /\ fts' \subseteq Names
    BY <1>8 DEF CallFails, LostEffect
  <2>3. step' \in [Callers -> S] /\ UNCHANGED <<urlOk, name>>
    BY <1>8 DEF CallFails
  <2>4. QED
    BY <2>1, <2>2, <2>3
<1>9. QED
  BY <1>1, <1>2, <1>3, <1>4, <1>5, <1>6, <1>7, <1>8 DEF RestCall

(* Creates only under a parent that exists: the caller's own Get or Create *)
(* has seen the parent, and nothing takes it away again.                   *)
LEMMA RestCallParents ==
  ASSUME NEW S, CallSteps \subseteq S, CallTypeOK(S), ParentsFirst,
         NEW c \in Callers, RestCall(c)
  PROVE  ParentsFirst'
<1>1. SUFFICES ASSUME NEW d \in Callers
               PROVE  /\ step'[d] \in {"getDatastore", "createDatastore"} => ws'
                      /\ step'[d] \in {"ensured", "getFeatureType", "createFeatureType"}
                           => ws' /\ ds'
  BY DEF ParentsFirst
<1>2. (ws => ws') /\ (ds => ds')
  BY RestCallFrame
<1>3. CASE d # c
  <2>1. step'[d] = step[d]
    BY <1>3, RestCallFrame
  <2>2. QED
    BY <1>2, <2>1 DEF ParentsFirst
<1>4. CASE d = c
  <2> USE <1>4 DEF Goto, Answered, ParentsFirst, CallTypeOK, ctxVars, serverVars
  <2>1. CASE Connect(c)
    BY <2>1 DEF Connect
  <2>2. CASE GetWorkspace(c)
    BY <2>2 DEF GetWorkspace
  <2>3. CASE CreateWorkspace(c)
    BY <2>3 DEF CreateWorkspace
  <2>4. CASE GetDatastore(c)
    BY <2>4 DEF GetDatastore
  <2>5. CASE CreateDatastore(c)
    BY <2>5 DEF CreateDatastore
  <2>6. CASE GetFeatureType(c)
    BY <2>6 DEF GetFeatureType
  <2>7. CASE CreateFeatureType(c)
    BY <2>7 DEF CreateFeatureType
  <2>8. CASE CallFails(c)
    BY <2>8 DEF CallFails
  <2>9. QED
    BY <2>1, <2>2, <2>3, <2>4, <2>5, <2>6, <2>7, <2>8 DEF RestCall
<1>5. QED
  BY <1>3, <1>4

LEMMA RestCallTrouble ==
  ASSUME NEW S, CallSteps \subseteq S, CallTypeOK(S), TroubleRecorded,
         NEW c \in Callers, RestCall(c)
  PROVE  TroubleRecorded'
BY RestCallFrame DEF TroubleRecorded

(* A call that ends in success leaves the feature type it was for in the   *)
(* catalog, when the name it was for is the name of a layer.               *)
LEMMA RestCallSuccess ==
  ASSUME NEW S, CallSteps \subseteq S, CallTypeOK(S), ParentsFirst,
         NEW c \in Callers, RestCall(c), name[c] \in Names,
         step'[c] = "published"
  PROVE  ws' /\ ds' /\ name[c] \in fts'
<1> USE DEF CallTypeOK, ParentsFirst, Goto, Answered, ctxVars, serverVars
<1>1. CASE GetFeatureType(c)
  BY <1>1 DEF GetFeatureType
<1>2. CASE CreateFeatureType(c)
  BY <1>2 DEF CreateFeatureType
<1>3. CASE Connect(c) \/ GetWorkspace(c) \/ CreateWorkspace(c)
  BY <1>3 DEF Connect, GetWorkspace, CreateWorkspace
<1>4. CASE GetDatastore(c) \/ CreateDatastore(c) \/ CallFails(c)
  BY <1>4 DEF GetDatastore, CreateDatastore, CallFails
<1>5. QED
  BY <1>1, <1>2, <1>3, <1>4 DEF RestCall

(* Without outside trouble a call fails for want of nothing but a race: the *)
(* workspace and the datastore are there when it fails.                     *)
LEMMA RestCallLoser ==
  ASSUME NEW S, CallSteps \subseteq S, CallTypeOK(S), ParentsFirst,
         TroubleRecorded, NEW c \in Callers, RestCall(c),
         step'[c] = "failed", ~trouble'
  PROVE  ws' /\ ds'
<1>0. ~canceled /\ urlOk /\ ~trouble
  BY RestCallFrame DEF TroubleRecorded
<1> USE <1>0 DEF CallTypeOK, ParentsFirst, Goto, Answered, ctxVars, serverVars
<1>1. CASE CreateDatastore(c)
  BY <1>1 DEF CreateDatastore
<1>2. CASE CreateFeatureType(c)
  BY <1>2 DEF CreateFeatureType
<1>3. CASE CallFails(c)
  BY <1>3 DEF CallFails, Disturb
<1>4. CASE Connect(c) \/ GetWorkspace(c) \/ CreateWorkspace(c)
  BY <1>4 DEF Connect, GetWorkspace, CreateWorkspace
<1>5. CASE GetDatastore(c) \/ GetFeatureType(c)
  BY <1>5 DEF GetDatastore, GetFeatureType
<1>6. QED
  BY <1>1, <1>2, <1>3, <1>4, <1>5 DEF RestCall

(* The way through a call: the parents come first, and only the calls that  *)
(* are about the feature type change the feature types, by the caller's own *)
(* name.                                                                    *)
LEMMA RestCallMoves ==
  ASSUME NEW S, CallSteps \subseteq S, CallTypeOK(S), NEW c \in Callers, RestCall(c)
  PROVE  /\ fts' \subseteq fts \cup {name[c]}
         /\ step[c] \notin {"getFeatureType", "createFeatureType"} =>
              /\ fts' = fts
              /\ step'[c] \in {"getWorkspace", "createWorkspace", "getDatastore",
                                "createDatastore", "ensured", "failed"}
         /\ step[c] \in {"getFeatureType", "createFeatureType"} =>
              step'[c] \in {"createFeatureType", "published", "failed"}
         /\ step'[c] = "createFeatureType" =>
              /\ step[c] = "getFeatureType"
              /\ fts' = fts
              /\ name[c] \in Names => name[c] \notin fts
         /\ step'[c] = "createDatastore" => ~ds'
         /\ ws /\ ds /\ step[c] \notin {"createWorkspace", "createDatastore"} =>
              step'[c] \notin {"createWorkspace", "createDatastore"}
<1> USE DEF CallTypeOK, ServerTypeOK, Goto, Answered, ctxVars, serverVars
<1>1. CASE Connect(c)
  BY <1>1 DEF Connect
<1>2. CASE GetWorkspace(c)
  BY <1>2 DEF GetWorkspace
<1>3. CASE CreateWorkspace(c)
  BY <1>3 DEF CreateWorkspace
<1>4. CASE GetDatastore(c)
  BY <1>4 DEF GetDatastore
<1>5. CASE CreateDatastore(c)
  BY <1>5 DEF CreateDatastore
<1>6. CASE GetFeatureType(c)
  BY <1>6 DEF GetFeatureType
<1>7. CASE CreateFeatureType(c)
  BY <1>7 DEF CreateFeatureType
<1>8. CASE CallFails(c)
  <2>1. step[c] \in RestSteps /\ step'[c] = "failed" /\ LostEffect(c)
    BY <1>8 DEF CallFails
  <2>2. fts' \subseteq fts \cup {name[c]} /\ (step[c] # "createFeatureType" => fts' = fts)
    BY <2>1 DEF LostEffect
  <2>3. QED
    BY <2>1, <2>2 DEF RestSteps
<1>9. QED
  BY <1>1, <1>2, <1>3, <1>4, <1>5, <1>6, <1>7, <1>8 DEF RestCall

(* Without outside trouble two of the calls can fail: the Create of a       *)
(* datastore that is there, or whose workspace is not, and the Create of a  *)
(* feature type that is there or has no name or no datastore.               *)
LEMMA RestCallFailure ==
  ASSUME NEW S, CallSteps \subseteq S, CallTypeOK(S), TroubleRecorded,
         NEW c \in Callers, RestCall(c), step'[c] = "failed", ~trouble'
  PROVE  \/ step[c] = "createDatastore" /\ ~(ws /\ ~ds)
         \/ step[c] = "createFeatureType" /\ ~(ds /\ name[c] \in Names \ fts)
<1>0. ~canceled /\ urlOk
  BY RestCallFrame DEF TroubleRecorded
<1> USE <1>0 DEF CallTypeOK, Goto, Answered, ctxVars, serverVars
<1>1. CASE CreateDatastore(c)
  BY <1>1 DEF CreateDatastore
<1>2. CASE CreateFeatureType(c)
  BY <1>2 DEF CreateFeatureType
<1>3. CASE CallFails(c)
  BY <1>3 DEF CallFails, Disturb
<1>4. CASE Connect(c) \/ GetWorkspace(c) \/ CreateWorkspace(c)
  BY <1>4 DEF Connect, GetWorkspace, CreateWorkspace
<1>5. CASE GetDatastore(c) \/ GetFeatureType(c)
  BY <1>5 DEF GetDatastore, GetFeatureType
<1>6. QED
  BY <1>1, <1>2, <1>3, <1>4, <1>5 DEF RestCall
=============================================================================
