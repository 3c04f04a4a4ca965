------------------------------ MODULE PublishAll ------------------------------
(***************************************************************************)
(* Manager.PublishAll: one goroutine (Main) walks the source files and     *)
(* loads every layer into PostGIS, and hands each loaded layer to a worker *)
(* goroutine that publishes it in GeoServer.  A channel used as a          *)
(* semaphore bounds the workers, a WaitGroup waits for them, and the       *)
(* errors of the layers are collected and joined.                          *)
(*                                                                         *)
(* Composed of Walk (the iterator Main ranges over) and GeoServerClient    *)
(* (Main's warm-up and the workers' publishing).  The worker of layer l is *)
(* named l.                                                                *)
(*                                                                         *)
(* GDAL and PostGIS are external: CopyLayer with OVERWRITE=YES drops the   *)
(* table of that name and frees the layer object of an earlier copy, so a  *)
(* handle to that object goes stale; using it may give any name or end the *)
(* process.  A layer's name is the one GDAL gives the table.               *)
(***************************************************************************)
EXTENDS Walk, GeoServerClient, Integers, FiniteSets

CONSTANTS
  Main,          (* the goroutine that called PublishAll *)
  Concurrency,   (* WithPublishConcurrency, any int *)
  LayerName,     (* LayerName[l]: table, hence feature type, of layer l *)
  NoTable        (* no layer of this run is in the table *)

ASSUME PublishAllAssumption ==
  /\ Main \notin Layers
  /\ Callers = Layers \cup {Main}
  /\ Concurrency \in Int
  /\ LayerName \in [Layers -> Names]
  /\ NoTable \notin Layers

VARIABLES
  pc,        (* where Main is *)
  target,    (* the *gdal.DataSource of the PostGIS target *)
  handle,    (* handle[l]: the *gdal.Layer CopyLayer returned for l *)
  table,     (* table[n]: the layer whose features are in table n *)
  sem,       (* tokens in the channel *)
  wg,        (* counter of the WaitGroup *)
  perLayerErrs,  (* errors collected, <<kind, <<file, layer>>>> *)
  result,    (* what PublishAll has returned, "running" before that *)
  late       (* history: layers whose load began on a canceled context *)

poolVars == <<sem, wg>>
loadVars == <<handle, table, late>>
mainVars == <<pc, target, perLayerErrs, result>>
vars == <<ctxVars, walkVars, clientVars, poolVars, loadVars, mainVars>>

DefaultPublishConcurrency == 8
Pool == IF Concurrency <= 0 THEN DefaultPublishConcurrency ELSE Concurrency

(* A worker is idle, then in PublishGeoserverLayer, then in its defers. *)
WorkerSteps == CallSteps \cup {"release", "signal", "finished"}
ErrorKinds == YieldErrors \cup {"load", "publish"}

TypeOK ==
  /\ CtxTypeOK
  /\ WalkTypeOK
  /\ ServerTypeOK
  /\ step \in [Callers -> WorkerSteps]
  /\ name \in [Callers -> Names \cup {NoName}]
  /\ pc \in {"openTarget", "warm", "range", "copying", "dispatch", "wait",
             "returned", "crashed"}
  /\ target \in {"closed", "open", "destroyed"}
  /\ handle \in [Layers -> {"none", "live", "stale", "null"}]
  /\ table \in [Names -> Layers \cup {NoTable}]
  /\ sem \in 0..Pool
  /\ wg \in Nat
  /\ perLayerErrs \subseteq ErrorKinds \X (Nat \X Nat)
  /\ result \in {"running", "nil", "error", "setupError"}
  /\ late \subseteq Layers

Init ==
  /\ WalkInit
  /\ ClientInit
  /\ pc = "openTarget"
  /\ target = "closed"
  /\ handle = [l \in Layers |-> "none"]
  /\ table = [n \in Names |-> NoTable]
  /\ sem = 0
  /\ wg = 0
  /\ perLayerErrs = {}
  /\ result = "running"
  /\ late = {}
-----------------------------------------------------------------------------
RecordErr(kind, where) == perLayerErrs' = perLayerErrs \cup {<<kind, where>>}
-----------------------------------------------------------------------------
(* Mutants: bugs of the kind the properties are there to catch. *)

(* The semaphore is acquired by the goroutine, not before it is started. *)
DispatchUnbounded ==
  /\ pc = "dispatch"
  /\ sem' = IF sem < Pool THEN sem + 1 ELSE sem
  /\ wg' = wg + 1
  /\ Goto(Current, "connect")
  /\ pc' = "range"
  /\ Resume
  /\ UNCHANGED <<ctxVars, serverVars, urlOk, name, loadVars, target, perLayerErrs, result>>

(* No error is recorded for a layer whose load failed. *)
PingFailsSilently ==
  /\ pc = "range"
  /\ at = "item"
  /\ Disturb("postgis")
  /\ Resume
  /\ UNCHANGED <<clientVars, poolVars, loadVars, pc, target, perLayerErrs, result>>

(* PublishAll returns without waiting for the workers. *)
ReturnWithoutWait ==
  /\ pc = "wait"
  /\ pc' = "returned"
  /\ target' = "destroyed"
  /\ result' = IF perLayerErrs = {} THEN "nil" ELSE "error"
  /\ UNCHANGED <<ctxVars, walkVars, clientVars, poolVars, loadVars, perLayerErrs>>

(* The workers' errors are read before wg.Wait: Return sees an old slice. *)
ReturnStale ==
  /\ pc = "wait"
  /\ wg = 0
  /\ pc' = "returned"
  /\ target' = "destroyed"
  /\ result' = IF \A e \in perLayerErrs : e[1] = "publish" THEN "nil" ELSE "error"
  /\ UNCHANGED <<ctxVars, walkVars, clientVars, poolVars, loadVars, perLayerErrs>>

(* The workers start without the warm-up. *)
WarmUpSkipped ==
  /\ pc = "warm"
  /\ pc' = "range"
  /\ UNCHANGED <<ctxVars, walkVars, clientVars, poolVars, loadVars, target,
                 perLayerErrs, result>>

(* The goroutine ends without giving its token back. *)
ReleaseTokenForgotten(l) ==
  /\ step[l] = "release"
  /\ Goto(l, "signal")
  /\ UNCHANGED <<ctxVars, walkVars, serverVars, urlOk, name, poolVars, loadVars, mainVars>>
-----------------------------------------------------------------------------
(* Main: setup *)

(* A return before the loop: an open target is destroyed by the defer. *)
ReturnSetupError ==
  /\ pc' = "returned"
  /\ target' = IF target = "open" THEN "destroyed" ELSE target
  /\ result' = "setupError"
  /\ UNCHANGED perLayerErrs

OpenTarget ==
  /\ pc = "openTarget"
  /\ pc' = "warm"
  /\ target' = "open"
  /\ Goto(Main, "connect")
  /\ UNCHANGED <<ctxVars, walkVars, serverVars, urlOk, name, poolVars, loadVars,
                 perLayerErrs, result>>

OpenTargetFails ==
  /\ pc = "openTarget"
  /\ Disturb("postgis")
  /\ ReturnSetupError
  /\ UNCHANGED <<walkVars, clientVars, poolVars, loadVars>>

(* The client, then ensureWorkspace and ensureDatastore, once and alone. *)
WarmUp ==
  /\ pc = "warm"
  /\ RestCall(Main)
  /\ UNCHANGED <<walkVars, poolVars, loadVars, mainVars>>

WarmedUp ==
  /\ pc = "warm"
  /\ step[Main] = "ensured"
  /\ pc' = "range"
  /\ UNCHANGED <<ctxVars, walkVars, clientVars, poolVars, loadVars, target,
                 perLayerErrs, result>>

WarmUpFails ==
  /\ pc = "warm"
  /\ step[Main] = "failed"
  /\ ReturnSetupError
  /\ UNCHANGED <<ctxVars, walkVars, clientVars, poolVars, loadVars>>
-----------------------------------------------------------------------------
(* Main: the loop over the walk *)

WalkOn ==
  /\ pc = "range"
  /\ Iterate
  /\ UNCHANGED <<clientVars, poolVars, loadVars, mainVars>>

RecordWalkErr ==
  /\ pc = "range"
  /\ at \in YieldErrors
  /\ RecordErr(at, Current)
  /\ Resume
  /\ UNCHANGED <<ctxVars, clientVars, poolVars, loadVars, pc, target, result>>

(* LayerToPostgis: the ping of PostGIS fails, nothing was touched. *)
PingFails ==
  /\ pc = "range"
  /\ at = "item"
  /\ Disturb("postgis")
  /\ RecordErr("load", Current)
  /\ Resume
  /\ UNCHANGED <<clientVars, poolVars, loadVars, pc, target, result>>

SameName(l) == {k \in Layers : LayerName[k] = LayerName[l]}

(* LayerToPostgis: CopyLayer begins by overwriting what has that name. *)
StartCopy ==
  /\ pc = "range"
  /\ at = "item"
  /\ pc' = "copying"
  /\ handle' = [k \in Layers |->
                  IF k \in SameName(Current) /\ handle[k] = "live" THEN "stale" ELSE handle[k]]
  /\ table' = [table EXCEPT ![LayerName[Current]] = NoTable]
  /\ late' = IF canceled THEN late \cup {Current} ELSE late
  /\ UNCHANGED <<ctxVars, walkVars, clientVars, poolVars, target, perLayerErrs, result>>

CopyDone ==
  /\ pc = "copying"
  /\ pc' = "dispatch"
  /\ handle' = [handle EXCEPT ![Current] = "live"]
  /\ table' = [table EXCEPT ![LayerName[Current]] = Current]
  /\ UNCHANGED <<ctxVars, walkVars, clientVars, poolVars, late, target, perLayerErrs, result>>

(* A null layer comes back; newLayer.Layer points at it and is not nil, so *)
(* the check before the dispatch lets it pass.                             *)
CopyFails ==
  /\ pc = "copying"
  /\ Disturb("copy")
  /\ pc' = "dispatch"
  /\ handle' = [handle EXCEPT ![Current] = "null"]
  /\ UNCHANGED <<walkVars, clientVars, poolVars, table, late, target, perLayerErrs, result>>

(* sem <- struct{}{} blocks while the channel is full; then wg.Add and go. *)
Dispatch ==
  /\ pc = "dispatch"
  /\ sem < Pool
  /\ sem' = sem + 1
  /\ wg' = wg + 1
  /\ Goto(Current, "connect")
  /\ pc' = "range"
  /\ Resume
  /\ UNCHANGED <<ctxVars, serverVars, urlOk, name, loadVars, target, perLayerErrs, result>>

WalkDone ==
  /\ pc = "range"
  /\ at = "done"
  /\ pc' = "wait"
  /\ UNCHANGED <<ctxVars, walkVars, clientVars, poolVars, loadVars, target,
                 perLayerErrs, result>>

(* wg.Wait returns; errors.Join of nothing is nil; the defer runs. *)
Return ==
  /\ pc = "wait"
  /\ wg = 0
  /\ pc' = "returned"
  /\ target' = "destroyed"
  /\ result' = IF perLayerErrs = {} THEN "nil" ELSE "error"
  /\ UNCHANGED <<ctxVars, walkVars, clientVars, poolVars, loadVars, perLayerErrs>>

MainStep ==
  \/ OpenTarget
  \/ OpenTargetFails
  \/ WarmUp
  \/ WarmedUp
  \/ WarmUpFails
  \/ WalkOn
  \/ RecordWalkErr
  \/ PingFails
  \/ StartCopy
  \/ CopyDone
  \/ CopyFails
  \/ Dispatch
  \/ WalkDone
  \/ Return
-----------------------------------------------------------------------------
(* The worker of layer l *)

Alive == pc # "crashed"

(* Only GeoServer's side of the publish; no GDAL in these steps. *)
WorkerRestCall(l) ==
  /\ Alive
  /\ RestCall(l)
  /\ UNCHANGED <<walkVars, poolVars, loadVars, mainVars>>

(* layer.Name() in PublishGeoserverLayer, a call into GDAL. *)
WorkerReadName(l) ==
  /\ Alive
  /\ \E n \in Names \cup {NoName} :
       /\ handle[l] = "live" => n = LayerName[l]
       /\ handle[l] = "null" => n = NoName
       /\ ReadName(l, n)
  /\ UNCHANGED <<walkVars, poolVars, loadVars, mainVars>>

(* newLayer.Name() in the log record of a success, a call into GDAL. *)
LogPublished(l) ==
  /\ Alive
  /\ step[l] = "published"
  /\ Goto(l, "release")
  /\ UNCHANGED <<ctxVars, walkVars, serverVars, urlOk, name, poolVars, loadVars, mainVars>>

(* Either call into GDAL with a handle whose object was freed. *)
StaleHandleCrash(l) ==
  /\ Alive
  /\ step[l] \in {"ensured", "published"}
  /\ handle[l] = "stale"
  /\ pc' = "crashed"
  /\ UNCHANGED <<ctxVars, walkVars, clientVars, poolVars, loadVars, target,
                 perLayerErrs, result>>

RecordPublishErr(l) ==
  /\ Alive
  /\ step[l] = "failed"
  /\ RecordErr("publish", l)
  /\ Goto(l, "release")
  /\ UNCHANGED <<ctxVars, walkVars, serverVars, urlOk, name, poolVars, loadVars,
                 pc, target, result>>

(* The defers run last-in first-out: the token first, wg.Done after it. *)
ReleaseToken(l) ==
  /\ Alive
  /\ step[l] = "release"
  /\ sem' = sem - 1
  /\ Goto(l, "signal")
  /\ UNCHANGED <<ctxVars, walkVars, serverVars, urlOk, name, wg, loadVars, mainVars>>

SignalDone(l) ==
  /\ Alive
  /\ step[l] = "signal"
  /\ wg' = wg - 1
  /\ Goto(l, "finished")
  /\ UNCHANGED <<ctxVars, walkVars, serverVars, urlOk, name, sem, loadVars, mainVars>>

Worker(l) ==
  \/ WorkerRestCall(l)
  \/ WorkerReadName(l)
  \/ LogPublished(l)
  \/ StaleHandleCrash(l)
  \/ RecordPublishErr(l)
  \/ ReleaseToken(l)
  \/ SignalDone(l)
-----------------------------------------------------------------------------
Environment ==
  /\ pc \notin {"returned", "crashed"}
  /\ \/ Cancel /\ UNCHANGED clientVars
     \/ RivalWorkspace
     \/ RivalResource
  /\ UNCHANGED <<walkVars, poolVars, loadVars, mainVars>>

Finished ==
  /\ pc \in {"returned", "crashed"}
  /\ UNCHANGED vars

Next ==
  \/ MainStep
  \/ \E l \in Layers : Worker(l)
  \/ Environment
  \/ Finished

Spec == Init /\ [][Next]_vars

(* Go schedules every runnable goroutine, and every call returns in the end. *)
Fairness ==
  /\ WF_vars(MainStep)
  /\ \A l \in Layers : WF_vars(Worker(l))

FairSpec == Spec /\ Fairness
-----------------------------------------------------------------------------
(* Safety *)

(* Workers between the acquisition and the release of a token. *)
Holders == {l \in Layers : step[l] \notin {"idle", "signal", "finished"}}
(* Worker goroutines that have not called wg.Done. *)
LiveWorkers == {l \in Layers : step[l] \notin {"idle", "finished"}}
Returned == result # "running"

(* At most WithPublishConcurrency layers (8 when that is not positive) are  *)
(* in PublishGeoserverLayer at once, however fast the producer is           *)
(* (walk.go:219-230, 257-265).                                              *)
PublishBounded == Cardinality(Holders) <= Pool

(* The target is open as long as any goroutine may call into GDAL with a    *)
(* layer of it, and no goroutine of PublishAll is left when it returns      *)
(* (walk.go:193, 275-279).                                                  *)
TargetOutlivesWorkers ==
  /\ LiveWorkers # {} => target = "open"
  /\ Returned => LiveWorkers = {} /\ target # "open"

(* A layer is copied while its source is open and never two sources are     *)
(* open; nothing is open once PublishAll has returned (walk.go:96-103).     *)
SourcesFollowTheCopy ==
  /\ Cardinality(open) <= 1
  /\ pc \in {"copying", "dispatch"} => open = {file} /\ Current \in Layers
  /\ Returned => open = {}

(* Error e is the reason that layer l was not published. *)
Covers(e, l) ==
  CASE e[1] = "discoverErr" -> TRUE
    [] e[1] = "ctxErr" -> ~Before(l, e[2])
    [] e[1] = "openErr" -> l[1] = e[2][1]
    [] OTHER -> l = e[2]

Failed(l) == \E e \in perLayerErrs : Covers(e, l)

(* PublishGeoserverLayer has returned nil for l.  That alone does not mean  *)
(* that there is anything of l to see.                                      *)
Published(l) ==
  /\ step[l] \in {"published", "release", "signal", "finished"}
  /\ <<"publish", l>> \notin perLayerErrs

(* What publishing l is for: its features, and their feature type.          *)
Served(l) == LayerName[l] \in fts /\ table[LayerName[l]] = l

(* The two ways in which the code loses a layer it reports as published: a  *)
(* copy that failed unnoticed, and the copy of a later layer of its name.   *)
CopyFailed(l) == handle[l] = "null"
Overwritten(l) == \E k \in SameName(l) : Before(l, k) /\ handle[k] # "none"

(* When PublishAll returns, every layer of every file is covered by a       *)
(* collected error or is served, unless it is one of those two: of several  *)
(* of one name the last that was copied is served, whatever the workers do  *)
(* with stale handles.  No layer both fails and is published; and nil means *)
(* that none has failed (walk.go:155-160; layer.go:202-209).                *)
EveryLayerAccountedFor ==
  /\ \A l \in Layers : ~(Published(l) /\ Failed(l))
  /\ result \in {"nil", "error"} =>
       \A l \in Layers :
         \/ Failed(l)
         \/ Published(l) /\ (Served(l) \/ CopyFailed(l) \/ Overwritten(l))
  /\ result = "nil" => \A l \in Layers : ~Failed(l)

DistinctNames == \A k, l \in Layers : LayerName[k] = LayerName[l] => k = l

(* nil means done: every layer's features are in its table and its feature  *)
(* type is in the catalog, provided no two layers share a name and          *)
(* CopyLayer has not failed (walk.go:159-160).                              *)
NilMeansServed ==
  result = "nil" /\ DistinctNames /\ (\A l \in Layers : ~CopyFailed(l)) =>
    \A l \in Layers : Served(l)

(* What a worker may wrongly read from a stale handle is told apart. *)
NamesReadRight == \A l \in Layers : name[l] \in {NoName, LayerName[l]}

(* Without outside trouble only the publish of a layer that shares its name *)
(* can fail: the others do not get in each other's way, because the warm-up *)
(* made the datastore before they start (walk.go:195-207), even if another  *)
(* client creates the workspace.  Two of one name may both miss the feature *)
(* type and the second Create fails (layer.go:92-111).                      *)
NoSpuriousFailure ==
  ~trouble =>
    /\ result # "setupError"
    /\ \A e \in perLayerErrs :
         /\ e[1] = "publish"
         /\ NamesReadRight => SameName(e[2]) # {e[2]}

(* After a cancellation at most the layer already handed out, or about to   *)
(* be, is still loaded into PostGIS (walk.go:115-121).                      *)
CancelStopsLoading == Cardinality(late) <= 1

(* What the caller sees of the layers. *)
Status ==
  [l \in Layers |->
     IF Failed(l) THEN "failed" ELSE IF Published(l) THEN "published" ELSE "pending"]

Contract == INSTANCE PublishContract WITH status <- Status

(* Every behaviour is one the contract allows: layers are settled one by    *)
(* one and for good, a setup error comes before any of them, the result     *)
(* after all of them, and no worker settles a layer after the return.       *)
KeepsContract == Contract!Spec

(* Liveness *)

(* PublishAll returns, whichever copy fails, whichever worker loses a race  *)
(* and whenever the context is canceled: no worker keeps its token, no      *)
(* token is waited for forever and wg comes down to zero, unless GDAL has   *)
(* ended the process (walk.go:261-265, 278).                                *)
PublishAllReturns == <>(Returned \/ pc = "crashed")
-----------------------------------------------------------------------------
(* What docs and comments say and the code does not do *)

(* "PublishGeoserverLayer (HTTP-only ...)" in the pool, all that touches    *)
(* the target "SERIAL across the whole call" (walk.go:138-146): no worker   *)
(* is about to call into GDAL while CopyLayer runs on the same target.      *)
GDALCallsAreSerial ==
  pc = "copying" => \A l \in Layers : step[l] \notin {"ensured", "published"}

(* "Publish each PostGIS table as a GeoServer feature type"                 *)
(* (walk.go:128-129): a worker is only started for a table that exists.     *)
OnlyTablesArePublished ==
  \A l \in Layers : step[l] = "connect" => handle[l] # "null"
=============================================================================
