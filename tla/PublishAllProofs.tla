--------------------------- MODULE PublishAllProofs ---------------------------
(***************************************************************************)
(* Safety of PublishAll for every source, every Concurrency and every      *)
(* environment: the counters of the pool, the lifetime of the target and   *)
(* of the sources, and what a cancellation stops; then what its result     *)
(* says, that no layer is lost and none fails without a reason, and that   *)
(* it implements PublishContract.                                          *)
(***************************************************************************)
EXTENDS PublishAll, GeoServerClientProofs, WalkProofs

(* TypeOK without the two counters, whose ranges follow from PoolInv. *)
PlainTypeOK ==
  /\ CtxTypeOK
  /\ ServerTypeOK
  /\ step \in [Callers -> WorkerSteps]
  /\ name \in [Callers -> Names \cup {NoName}]
  /\ pc \in {"openTarget", "warm", "range", "copying", "dispatch", "wait",
             "returned", "crashed"}
  /\ target \in {"closed", "open", "destroyed"}
  /\ handle \in [Layers -> {"none", "live", "stale", "null"}]
  /\ table \in [Names -> Layers \cup {NoTable}]
  /\ perLayerErrs \subseteq ErrorKinds \X (Nat \X Nat)
  /\ result \in {"running", "nil", "error", "setupError"}
  /\ late \subseteq Layers

(* The counters count: tokens in the channel, goroutines in the WaitGroup. *)
PoolInv ==
  /\ IsFiniteSet(Holders)
  /\ sem = Cardinality(Holders)
  /\ sem <= Pool
  /\ IsFiniteSet(LiveWorkers)
  /\ wg = Cardinality(LiveWorkers)

(* Where Main is tells where the walk is and whether the target is open. *)
MainInv ==
  /\ pc \in {"openTarget", "warm"} => at = "discover" /\ \A l \in Layers : step[l] = "idle"
  /\ pc = "openTarget" => target = "closed"
  /\ pc \in {"warm", "range", "copying", "dispatch", "wait", "crashed"} => target = "open"
  /\ pc \in {"copying", "dispatch"} => at = "item"
  /\ pc = "wait" => at = "done"
  /\ pc = "returned" => target # "open" /\ open = {} /\ LiveWorkers = {}
  /\ pc = "returned" <=> Returned

(* Workers exist only for layers the walk has gone past. *)
OrderInv ==
  /\ at # "panicked"
  /\ \A l \in Layers : step[l] # "idle" => Before(l, Current)

(* A load that began on a canceled context was of the layer handed out at  *)
(* the time or about to be, and no layer is handed out after it.           *)
LateInv ==
  /\ pc \in {"openTarget", "warm"} => late = {}
  /\ late # {} => canceled
  /\ \A j, k \in late : j = k
  /\ late # {} /\ at \in {"lookup", "item"} => pc \in {"copying", "dispatch", "crashed"}

PublishInv ==
  PlainTypeOK /\ WalkInv /\ PoolInv /\ MainInv /\ OrderInv /\ LateInv

LEMMA PoolSize == Pool \in Nat /\ Pool >= 1
BY PublishAllAssumption DEF Pool, DefaultPublishConcurrency

LEMMA LayersAreCallers == Layers \subseteq Callers /\ Main \in Callers /\ Main \notin Layers
BY PublishAllAssumption
-----------------------------------------------------------------------------
LEMMA PublishInit == Init => PublishInv
<1>1. SUFFICES ASSUME Init PROVE PublishInv
  OBVIOUS
<1> USE <1>1 DEF Init
<1>2. CtxTypeOK /\ ServerTypeOK
  BY DEF ClientInit, CtxTypeOK, ServerTypeOK
<1>3. step \in [Callers -> WorkerSteps] /\ name \in [Callers -> Names \cup {NoName}]
  BY DEF ClientInit, WorkerSteps, CallSteps
<1>4. PlainTypeOK
  BY <1>2, <1>3 DEF PlainTypeOK
<1>5. WalkInv
  BY LayerCounts DEF WalkInit, WalkInv, WalkTypeOK
<1>6. \A l \in Layers : step[l] = "idle"
  BY LayersAreCallers DEF ClientInit
<1>7. Holders = {} /\ LiveWorkers = {}
  BY <1>6 DEF Holders, LiveWorkers
<1>8. PoolInv
  BY <1>7, FS_EmptySet, PoolSize DEF PoolInv
<1>9. MainInv /\ OrderInv /\ LateInv
  BY <1>6 DEF MainInv, OrderInv, LateInv, Returned, WalkInit
<1>10. QED
  BY <1>4, <1>5, <1>8, <1>9 DEF PublishInv
-----------------------------------------------------------------------------
(* The two sets of workers depend on the steps of the workers alone. *)
LEMMA SameWorkers ==
  ASSUME \A l \in Layers : step'[l] = step[l]
  PROVE  Holders' = Holders /\ LiveWorkers' = LiveWorkers
BY DEF Holders, LiveWorkers

LEMMA PoolStutters ==
  ASSUME PoolInv, UNCHANGED poolVars, \A l \in Layers : step'[l] = step[l]
  PROVE  PoolInv'
<1>1. Holders' = Holders /\ LiveWorkers' = LiveWorkers
  BY SameWorkers
<1>2. sem' = sem /\ wg' = wg
  BY DEF poolVars
<1>3. QED
  BY <1>1, <1>2 DEF PoolInv

(* The type of the client's state, as GeoServerClientProofs has it. *)
LEMMA WorkerCallType ==
  /\ CallSteps \subseteq WorkerSteps
  /\ PlainTypeOK => CallTypeOK(WorkerSteps)
BY DEF WorkerSteps, PlainTypeOK, CallTypeOK
-----------------------------------------------------------------------------
(* Main: setup *)

(* A step of Main that leaves the workers, the pool and the walk alone. *)
LEMMA SetupKeeps ==
  ASSUME PublishInv, PlainTypeOK', MainInv',
         UNCHANGED <<walkVars, poolVars, late>>,
         \A l \in Layers : step'[l] = step[l],
         canceled' = canceled,
         late = {}
  PROVE  PublishInv'
<1>1. WalkInv' /\ PoolInv'
  <2>1. WalkInv'
    BY DEF PublishInv, WalkInv, WalkTypeOK, walkVars
  <2>2. PoolInv'
    BY PoolStutters DEF PublishInv
  <2>3. QED
    BY <2>1, <2>2
<1>2. OrderInv' /\ LateInv'
  BY DEF PublishInv, OrderInv, LateInv, walkVars, Current
<1>3. QED
  BY <1>1, <1>2 DEF PublishInv

(* late is still empty while Main is in its setup. *)
LEMMA OpenTargetStep ==
  ASSUME PublishInv, late = {}, OpenTarget
  PROVE  PublishInv'
<1> USE DEF PublishInv, OpenTarget
<1>1. \A l \in Layers : step'[l] = step[l]
  BY LayersAreCallers DEF Goto, PlainTypeOK
<1>2. PlainTypeOK'
  BY LayersAreCallers DEF PlainTypeOK, CtxTypeOK, ServerTypeOK, WorkerSteps, CallSteps, Goto,
     ctxVars, serverVars, loadVars
<1>3. MainInv'
  BY <1>1 DEF MainInv, Returned, walkVars
<1>4. QED
  BY <1>1, <1>2, <1>3, SetupKeeps DEF loadVars, ctxVars

LEMMA OpenTargetFailsStep ==
  ASSUME PublishInv, late = {}, OpenTargetFails
  PROVE  PublishInv'
<1> USE DEF PublishInv, OpenTargetFails, ReturnSetupError, Disturb
<1>1. \A l \in Layers : step'[l] = step[l]
  BY DEF clientVars, callVars
<1>2. PlainTypeOK'
  BY DEF PlainTypeOK, CtxTypeOK, ServerTypeOK, clientVars, callVars, serverVars, loadVars
<1>3. MainInv'
  BY <1>1 DEF MainInv, Returned, walkVars, LiveWorkers, WalkInv
<1>4. QED
  BY <1>1, <1>2, <1>3, SetupKeeps DEF loadVars

LEMMA WarmUpStep ==
  ASSUME PublishInv, late = {}, WarmUp
  PROVE  PublishInv'
<1> USE DEF PublishInv, WarmUp
<1>0. CallTypeOK(WorkerSteps) /\ CallSteps \subseteq WorkerSteps /\ RestCall(Main)
  BY WorkerCallType
<1>1. (\A l \in Layers : step'[l] = step[l]) /\ canceled' = canceled
  BY <1>0, LayersAreCallers, RestCallFrame
<1>2. PlainTypeOK'
  <2>1. CallTypeOK(WorkerSteps)'
    BY <1>0, LayersAreCallers, RestCallType
  <2>2. QED
    BY <2>1 DEF PlainTypeOK, CallTypeOK, loadVars, mainVars
<1>3. MainInv'
  BY <1>1 DEF MainInv, Returned, walkVars, mainVars, LiveWorkers
<1>4. QED
  BY <1>1, <1>2, <1>3, SetupKeeps DEF loadVars

LEMMA WarmUpEndsStep ==
  ASSUME PublishInv, late = {}, WarmedUp \/ WarmUpFails
  PROVE  PublishInv'
<1> USE DEF PublishInv, WarmedUp, WarmUpFails, ReturnSetupError
<1>1. \A l \in Layers : step'[l] = step[l]
  BY DEF clientVars, callVars
<1>2. PlainTypeOK'
  BY DEF PlainTypeOK, CtxTypeOK, ServerTypeOK, ctxVars, clientVars, callVars, serverVars,
     loadVars
<1>3. MainInv'
  BY <1>1 DEF MainInv, Returned, walkVars, LiveWorkers, WalkInv
<1>4. QED
  BY <1>1, <1>2, <1>3, SetupKeeps DEF loadVars, ctxVars
-----------------------------------------------------------------------------
(* Main: the loop *)

(* A step of the loop that starts no worker and begins no load: the walk    *)
(* keeps its place or goes forward.                                         *)
LEMMA LoopKeeps ==
  ASSUME PublishInv, PlainTypeOK', WalkInv', MainInv',
         UNCHANGED <<poolVars, late, step, pc>>,
         canceled' = canceled,
         \A l \in Layers : Before(l, Current) => Before(l, Current'),
         at' # "panicked",
         late # {} /\ at' \in {"lookup", "item"} =>
           pc' \in {"copying", "dispatch", "crashed"}
  PROVE  PublishInv'
<1>1. PoolInv'
  BY PoolStutters DEF PublishInv
<1>2. OrderInv'
  BY DEF PublishInv, OrderInv
<1>3. LateInv'
  BY DEF PublishInv, LateInv
<1>4. QED
  BY <1>1, <1>2, <1>3 DEF PublishInv

LEMMA WalkOnStep ==
  ASSUME PublishInv, WalkOn
  PROVE  PublishInv'
<1> USE DEF PublishInv, WalkOn
<1>0. WalkInv /\ CtxTypeOK /\ Iterate
  BY DEF PlainTypeOK
<1>1. UNCHANGED <<step, late, handle, table, name, ws, ds, fts, urlOk, pc, target,
                  perLayerErrs, result>>
  BY DEF clientVars, callVars, serverVars, loadVars, mainVars
<1>2. PlainTypeOK'
  <2>1. CtxTypeOK'
    BY <1>0, IterateStep
  <2>2. QED
    BY <1>1, <2>1 DEF PlainTypeOK, ServerTypeOK
<1>3. MainInv'
  BY <1>1 DEF MainInv, Returned
<1>4. late # {} /\ at' \in {"lookup", "item"} => pc' \in {"copying", "dispatch", "crashed"}
  BY <1>0, IterateStep DEF LateInv
<1>5. QED
  BY <1>0, <1>1, <1>2, <1>3, <1>4, IterateStep, LoopKeeps

LEMMA RecordWalkErrStep ==
  ASSUME PublishInv, RecordWalkErr
  PROVE  PublishInv'
<1> USE DEF PublishInv, RecordWalkErr
<1>1. UNCHANGED <<step, late, handle, table, name, ws, ds, fts, urlOk, pc, target,
                  result, canceled, trouble>>
  BY DEF clientVars, callVars, serverVars, loadVars, ctxVars
<1>2. Current \in Nat \X Nat
  BY LayerCounts DEF WalkInv, WalkTypeOK, Current
<1>3. PlainTypeOK'
  <2>1. perLayerErrs' \subseteq ErrorKinds \X (Nat \X Nat)
    BY <1>2 DEF PlainTypeOK, RecordErr, ErrorKinds
  <2>2. QED
    BY <1>1, <2>1 DEF PlainTypeOK, ServerTypeOK, CtxTypeOK
<1>4. WalkInv /\ Resume
  OBVIOUS
<1>5. MainInv'
  BY <1>1 DEF MainInv, Returned
<1>6. QED
  BY <1>1, <1>3, <1>4, <1>5, ResumeStep, LoopKeeps

LEMMA PingFailsStep ==
  ASSUME PublishInv, PingFails
  PROVE  PublishInv'
<1> USE DEF PublishInv, PingFails
<1>1. UNCHANGED <<step, late, handle, table, name, ws, ds, fts, urlOk, pc, target,
                  result, canceled>>
  BY DEF clientVars, callVars, serverVars, loadVars, Disturb
<1>2. Current \in Nat \X Nat
  BY LayerCounts DEF WalkInv, WalkTypeOK, Current
<1>3. PlainTypeOK'
  <2>1. perLayerErrs' \subseteq ErrorKinds \X (Nat \X Nat)
    BY <1>2 DEF PlainTypeOK, RecordErr, ErrorKinds
  <2>2. trouble' \in BOOLEAN
    BY DEF Disturb
  <2>3. QED
    BY <1>1, <2>1, <2>2 DEF PlainTypeOK, ServerTypeOK, CtxTypeOK
<1>4. WalkInv /\ Resume
  OBVIOUS
<1>5. MainInv'
  BY <1>1 DEF MainInv, Returned
<1>6. QED
  BY <1>1, <1>3, <1>4, <1>5, ResumeStep, LoopKeeps

LEMMA StartCopyStep ==
  ASSUME PublishInv, StartCopy
  PROVE  PublishInv'
<1> USE DEF PublishInv, StartCopy
<1>1. UNCHANGED <<step, name, ws, ds, fts, urlOk, target, perLayerErrs, result,
                  canceled, trouble, at, file, layer, open, sem, wg>>
  BY DEF clientVars, callVars, serverVars, ctxVars, walkVars, poolVars
<1>2. Current \in Layers
  BY LayersMembers, LayerCounts DEF WalkInv, WalkTypeOK, Current
<1>3. PlainTypeOK'
  <2>1. late' \subseteq Layers
    BY <1>2 DEF PlainTypeOK
  <2>2. table' \in [Names -> Layers \cup {NoTable}]
    BY DEF PlainTypeOK
  <2>3. handle' \in [Layers -> {"none", "live", "stale", "null"}]
    BY DEF PlainTypeOK
  <2>4. QED
    BY <1>1, <2>1, <2>2, <2>3 DEF PlainTypeOK, ServerTypeOK, CtxTypeOK
<1>4. WalkInv' /\ OrderInv' /\ PoolInv'
  BY <1>1, PoolStutters DEF WalkInv, WalkTypeOK, OrderInv, Current, poolVars
<1>5. MainInv'
  BY <1>1 DEF MainInv, Returned
<1>6. LateInv'
  BY <1>1 DEF LateInv
<1>7. QED
  BY <1>3, <1>4, <1>5, <1>6

LEMMA CopyEndsStep ==
  ASSUME PublishInv, CopyDone \/ CopyFails
  PROVE  PublishInv'
<1> USE DEF PublishInv, CopyDone, CopyFails
<1>1. UNCHANGED <<step, name, ws, ds, fts, urlOk, target, perLayerErrs, result,
                  canceled, at, file, layer, open, sem, wg, late>>
  BY DEF clientVars, callVars, serverVars, ctxVars, walkVars, poolVars, Disturb
<1>2. Current \in Layers
  BY LayersMembers, LayerCounts DEF WalkInv, WalkTypeOK, Current, MainInv
<1>3. PlainTypeOK'
  <2>1. trouble' \in BOOLEAN
    BY DEF PlainTypeOK, CtxTypeOK, Disturb, ctxVars
  <2>2. table' \in [Names -> Layers \cup {NoTable}]
    BY <1>2 DEF PlainTypeOK
  <2>3. handle' \in [Layers -> {"none", "live", "stale", "null"}]
    BY DEF PlainTypeOK
  <2>4. pc' = "dispatch"
    OBVIOUS
  <2>5. QED
    BY <1>1, <2>1, <2>2, <2>3, <2>4 DEF PlainTypeOK, ServerTypeOK, CtxTypeOK
<1>4. WalkInv' /\ OrderInv' /\ PoolInv'
  BY <1>1, PoolStutters DEF WalkInv, WalkTypeOK, OrderInv, Current, poolVars
<1>5. MainInv'
  BY <1>1 DEF MainInv, Returned
<1>6. LateInv'
  BY <1>1 DEF LateInv
<1>7. QED
  BY <1>3, <1>4, <1>5, <1>6

(* Starting a worker: one more holder and one more live worker, because the *)
(* layer the walk is at has no worker yet.                                  *)
LEMMA DispatchStep ==
  ASSUME PublishInv, Dispatch
  PROVE  PublishInv'
<1> USE DEF PublishInv, Dispatch
<1>1. UNCHANGED <<name, ws, ds, fts, urlOk, target, perLayerErrs, result,
                  canceled, trouble, late, handle, table>>
  BY DEF serverVars, ctxVars, loadVars
<1>2. Current \in Layers /\ WalkInv' /\ Before(Current, Current')
      /\ (\A l \in Layers : Before(l, Current) => Before(l, Current'))
      /\ at' \in {"layer", "file", "done"}
  BY ResumeStep DEF MainInv
<1>3. step[Current] = "idle"
  BY <1>2, LayersArePairs DEF OrderInv, Before
<1>4. /\ \A l \in Layers : l # Current => step'[l] = step[l]
      /\ step'[Current] = "connect"
  BY <1>2, LayersAreCallers DEF PlainTypeOK, Goto
<1>5. PlainTypeOK'
  <2>1. step' \in [Callers -> WorkerSteps]
    BY DEF PlainTypeOK, Goto, WorkerSteps, CallSteps
  <2>2. QED
    BY <1>1, <2>1 DEF PlainTypeOK, ServerTypeOK, CtxTypeOK
<1>6. PoolInv'
  <2>1. Holders' = Holders \cup {Current} /\ Current \notin Holders
    BY <1>2, <1>3, <1>4 DEF Holders
  <2>2. LiveWorkers' = LiveWorkers \cup {Current} /\ Current \notin LiveWorkers
    BY <1>2, <1>3, <1>4 DEF LiveWorkers
  <2>3. IsFiniteSet(Holders') /\ Cardinality(Holders') = Cardinality(Holders) + 1
    BY <2>1, FS_AddElement DEF PoolInv
  <2>4. IsFiniteSet(LiveWorkers') /\ Cardinality(LiveWorkers') = Cardinality(LiveWorkers) + 1
    BY <2>2, FS_AddElement DEF PoolInv
  <2>5. sem \in Nat
    BY FS_CardinalityType DEF PoolInv
  <2>6. QED
    BY <2>3, <2>4, <2>5, PoolSize DEF PoolInv
<1>7. MainInv'
  BY <1>1, <1>2 DEF MainInv, Returned
<1>8. OrderInv'
  BY <1>2, <1>4 DEF OrderInv
<1>9. LateInv'
  BY <1>1, <1>2 DEF LateInv
<1>10. QED
  BY <1>2, <1>5, <1>6, <1>7, <1>8, <1>9

LEMMA LoopEndsStep ==
  ASSUME PublishInv, WalkDone \/ Return
  PROVE  PublishInv'
<1> USE DEF PublishInv, WalkDone, Return
<1>1. UNCHANGED <<step, name, ws, ds, fts, urlOk, perLayerErrs, handle, table,
                  canceled, trouble, at, file, layer, open, sem, wg, late>>
  BY DEF clientVars, callVars, serverVars, ctxVars, walkVars, poolVars, loadVars
<1>2. PlainTypeOK'
  BY <1>1 DEF PlainTypeOK, ServerTypeOK, CtxTypeOK
<1>3. WalkInv' /\ OrderInv' /\ PoolInv' /\ LateInv'
  BY <1>1, PoolStutters DEF WalkInv, WalkTypeOK, OrderInv, Current, poolVars, LateInv, MainInv
<1>4. LiveWorkers' = LiveWorkers
  BY <1>1 DEF LiveWorkers
<1>5. MainInv'
  <2>1. CASE WalkDone
    BY <1>1, <1>4, <2>1 DEF MainInv, Returned
  <2>2. CASE Return
    <3>1. LiveWorkers = {}
      BY <2>2, FS_EmptySet DEF PoolInv
    <3>2. open = {}
      BY <2>2 DEF MainInv, WalkInv
    <3>3. QED
      BY <1>1, <1>4, <2>2, <3>1, <3>2 DEF MainInv, Returned
  <2>3. QED
    BY <2>1, <2>2
<1>6. QED
  BY <1>2, <1>3, <1>5
-----------------------------------------------------------------------------
(* The workers *)

(* A worker's step leaves Main, the walk and the other workers alone. *)
LEMMA WorkerKeeps ==
  ASSUME PublishInv, PlainTypeOK', PoolInv', NEW l \in Layers, step[l] # "idle",
         UNCHANGED <<walkVars, late, target, result>>, canceled' = canceled,
         pc' = pc \/ (pc' = "crashed" /\ LiveWorkers # {} /\ pc # "returned"),
         \A k \in Layers : step'[k] # step[k] => k = l /\ k \in LiveWorkers
  PROVE  PublishInv'
<1> USE DEF PublishInv
<1>1. WalkInv'
  BY DEF WalkInv, WalkTypeOK, walkVars
<1>2. OrderInv'
  BY DEF OrderInv, Current, walkVars
<1>3. pc \notin {"openTarget", "warm"}
  BY DEF MainInv
<1>4. LiveWorkers = {} => LiveWorkers' = {}
  BY DEF LiveWorkers
<1>5. LateInv' /\ MainInv'
  <2>1. CASE pc' = pc
    BY <1>3, <1>4, <2>1 DEF LateInv, MainInv, Returned, walkVars, LiveWorkers
  <2>2. CASE pc' = "crashed" /\ pc # "returned"
    <3>1. target = "open"
      BY <1>3, <2>2 DEF MainInv, PlainTypeOK
    <3>2. QED
      BY <1>3, <2>2, <3>1 DEF LateInv, MainInv, Returned, walkVars
  <2>3. QED
    BY <2>1, <2>2
<1>6. QED
  BY <1>1, <1>2, <1>5

(* A worker that goes on without passing a defer is where it was for both *)
(* counters.                                                              *)
LEMMA WorkerStays ==
  ASSUME PublishInv, NEW l \in Layers, step[l] \notin {"idle", "signal", "finished"},
         step'[l] \notin {"idle", "signal", "finished"},
         \A k \in Layers : k # l => step'[k] = step[k],
         UNCHANGED poolVars
  PROVE  PoolInv'
<1>1. Holders' = Holders
  BY DEF Holders
<1>2. LiveWorkers' = LiveWorkers
  BY DEF LiveWorkers
<1>3. QED
  BY <1>1, <1>2 DEF PublishInv, PoolInv, poolVars

LEMMA WorkerRestCallStep ==
  ASSUME PublishInv, NEW l \in Layers, WorkerRestCall(l)
  PROVE  PublishInv'
<1> USE DEF WorkerRestCall
<1>0. /\ CallTypeOK(WorkerSteps) /\ CallSteps \subseteq WorkerSteps /\ RestCall(l)
      /\ l \in Callers
  BY WorkerCallType, LayersAreCallers DEF PublishInv
<1>1. /\ step[l] \in RestSteps \cup {"connect"}
      /\ step'[l] \in CallSteps \ {"idle", "connect"}
      /\ \A d \in Callers \ {l} : step'[d] = step[d]
      /\ canceled' = canceled
  BY <1>0, RestCallFrame
<1>2. /\ step[l] \notin {"idle", "signal", "finished"}
      /\ step'[l] \notin {"idle", "signal", "finished"}
      /\ \A k \in Layers : k # l => step'[k] = step[k]
  BY <1>1, LayersAreCallers DEF RestSteps, CallSteps
<1>3. PlainTypeOK'
  <2>1. CallTypeOK(WorkerSteps)'
    BY <1>0, RestCallType
  <2>2. QED
    BY <2>1 DEF PublishInv, PlainTypeOK, CallTypeOK, loadVars, mainVars
<1>4. PoolInv'
  BY <1>2, WorkerStays
<1>5. l \in LiveWorkers
  BY <1>2 DEF LiveWorkers
<1>6. QED
  BY <1>1, <1>2, <1>3, <1>4, <1>5, WorkerKeeps DEF loadVars, mainVars

LEMMA WorkerReadNameStep ==
  ASSUME PublishInv, NEW l \in Layers, WorkerReadName(l)
  PROVE  PublishInv'
<1> USE DEF WorkerReadName, ReadName, Goto
<1>1. /\ step[l] = "ensured"
      /\ step' = [step EXCEPT ![l] = "getFeatureType"]
      /\ name' \in [Callers -> Names \cup {NoName}]
      /\ UNCHANGED <<canceled, trouble, ws, ds, fts, urlOk, late, handle, table,
                     pc, target, perLayerErrs, result>>
  BY DEF PublishInv, PlainTypeOK, ctxVars, serverVars, loadVars, mainVars
<1>2. /\ step'[l] = "getFeatureType"
      /\ \A k \in Layers : k # l => step'[k] = step[k]
  BY <1>1, LayersAreCallers DEF PublishInv, PlainTypeOK
<1>3. PlainTypeOK'
  BY <1>1 DEF PublishInv, PlainTypeOK, CtxTypeOK, ServerTypeOK, WorkerSteps, CallSteps
<1>4. PoolInv'
  BY <1>1, <1>2, WorkerStays
<1>5. l \in LiveWorkers
  BY <1>1 DEF LiveWorkers
<1>6. QED
  BY <1>1, <1>2, <1>3, <1>4, <1>5, WorkerKeeps

LEMMA WorkerOutcomeStep ==
  ASSUME PublishInv, NEW l \in Layers, LogPublished(l) \/ RecordPublishErr(l)
  PROVE  PublishInv'
<1> USE DEF LogPublished, RecordPublishErr, RecordErr, Goto
<1>1. /\ step[l] \in {"published", "failed"}
      /\ step' = [step EXCEPT ![l] = "release"]
      /\ UNCHANGED <<canceled, trouble, ws, ds, fts, urlOk, name, late, handle, table,
                     pc, target, result>>
      /\ UNCHANGED walkVars
      /\ UNCHANGED poolVars
  BY DEF ctxVars, serverVars, loadVars, mainVars
<1>2. /\ step'[l] = "release"
      /\ \A k \in Layers : k # l => step'[k] = step[k]
  BY <1>1, LayersAreCallers DEF PublishInv, PlainTypeOK
<1>3. perLayerErrs' \subseteq ErrorKinds \X (Nat \X Nat)
  BY LayersArePairs DEF PublishInv, PlainTypeOK, ErrorKinds, mainVars
<1>4. PlainTypeOK'
  BY <1>1, <1>3, ZenonT(60) DEF PublishInv, PlainTypeOK, CtxTypeOK, ServerTypeOK, WorkerSteps
<1>5. PoolInv'
  BY <1>1, <1>2, WorkerStays
<1>6. l \in LiveWorkers
  BY <1>1 DEF LiveWorkers
<1>7. QED
  BY <1>1, <1>2, <1>4, <1>5, <1>6, WorkerKeeps

(* The token goes back: one holder less. *)
LEMMA ReleaseTokenStep ==
  ASSUME PublishInv, NEW l \in Layers, ReleaseToken(l)
  PROVE  PublishInv'
<1> USE DEF ReleaseToken, Goto
<1>1. /\ step[l] = "release"
      /\ step' = [step EXCEPT ![l] = "signal"]
      /\ UNCHANGED <<canceled, trouble, ws, ds, fts, urlOk, name, late, handle, table,
                     pc, target, perLayerErrs, result, wg>>
      /\ UNCHANGED walkVars
  BY DEF ctxVars, serverVars, loadVars, mainVars
<1>2. /\ step'[l] = "signal"
      /\ \A k \in Layers : k # l => step'[k] = step[k]
  BY <1>1, LayersAreCallers DEF PublishInv, PlainTypeOK
<1>3. PlainTypeOK'
  BY <1>1, ZenonT(60) DEF PublishInv, PlainTypeOK, CtxTypeOK, ServerTypeOK, WorkerSteps
<1>4. PoolInv'
  <2>1. Holders' = Holders \ {l} /\ l \in Holders
    BY <1>1, <1>2 DEF Holders
  <2>2. LiveWorkers' = LiveWorkers
    BY <1>1, <1>2 DEF LiveWorkers
  <2>3. IsFiniteSet(Holders') /\ Cardinality(Holders') = Cardinality(Holders) - 1
    BY <2>1, FS_RemoveElement DEF PublishInv, PoolInv
  <2>4. sem \in Nat
    BY FS_CardinalityType DEF PublishInv, PoolInv
  <2>5. QED
    BY <1>1, <2>2, <2>3, <2>4, PoolSize DEF PublishInv, PoolInv
<1>5. l \in LiveWorkers
  BY <1>1 DEF LiveWorkers
<1>6. QED
  BY <1>1, <1>2, <1>3, <1>4, <1>5, WorkerKeeps

(* wg.Done: one live worker less. *)
LEMMA SignalDoneStep ==
  ASSUME PublishInv, NEW l \in Layers, SignalDone(l)
  PROVE  PublishInv'
<1> USE DEF SignalDone, Goto
<1>1. /\ step[l] = "signal"
      /\ step' = [step EXCEPT ![l] = "finished"]
      /\ UNCHANGED <<canceled, trouble, ws, ds, fts, urlOk, name, late, handle, table,
                     pc, target, perLayerErrs, result, sem>>
      /\ UNCHANGED walkVars
  BY DEF ctxVars, serverVars, loadVars, mainVars
<1>2. /\ step'[l] = "finished"
      /\ \A k \in Layers : k # l => step'[k] = step[k]
  BY <1>1, LayersAreCallers DEF PublishInv, PlainTypeOK
<1>3. PlainTypeOK'
  BY <1>1, ZenonT(60) DEF PublishInv, PlainTypeOK, CtxTypeOK, ServerTypeOK, WorkerSteps
<1>4. PoolInv'
  <2>1. LiveWorkers' = LiveWorkers \ {l} /\ l \in LiveWorkers
    BY <1>1, <1>2 DEF LiveWorkers
  <2>2. Holders' = Holders
    BY <1>1, <1>2 DEF Holders
  <2>3. IsFiniteSet(LiveWorkers') /\ Cardinality(LiveWorkers') = Cardinality(LiveWorkers) - 1
    BY <2>1, FS_RemoveElement DEF PublishInv, PoolInv
  <2>4. QED
    BY <1>1, <2>2, <2>3 DEF PublishInv, PoolInv
<1>5. l \in LiveWorkers
  BY <1>1 DEF LiveWorkers
<1>6. QED
  BY <1>1, <1>2, <1>3, <1>4, <1>5, WorkerKeeps

LEMMA StaleHandleCrashStep ==
  ASSUME PublishInv, NEW l \in Layers, StaleHandleCrash(l)
  PROVE  PublishInv'
<1> USE DEF StaleHandleCrash
<1>1. /\ step[l] \in {"ensured", "published"}
      /\ pc' = "crashed"
      /\ UNCHANGED <<canceled, trouble, ws, ds, fts, urlOk, name, step, late, handle,
                     table, target, perLayerErrs, result>>
      /\ UNCHANGED walkVars
      /\ UNCHANGED poolVars
  BY DEF ctxVars, clientVars, callVars, serverVars, loadVars
<1>2. PlainTypeOK'
  BY <1>1 DEF PublishInv, PlainTypeOK, CtxTypeOK, ServerTypeOK
<1>3. PoolInv'
  BY <1>1, PoolStutters DEF PublishInv
<1>4. l \in LiveWorkers /\ pc # "returned"
  BY <1>1 DEF LiveWorkers, PublishInv, MainInv
<1>5. QED
  BY <1>1, <1>2, <1>3, <1>4, WorkerKeeps
-----------------------------------------------------------------------------
LEMMA EnvironmentStep ==
  ASSUME PublishInv, Environment
  PROVE  PublishInv'
<1> USE DEF PublishInv, Environment, Cancel, RivalWorkspace, RivalResource, Disturb
<1>1. /\ UNCHANGED <<step, name, urlOk, sem, wg, late, handle, table, pc, target,
                     perLayerErrs, result, at, file, layer, open>>
      /\ canceled => canceled'
  BY DEF ctxVars, clientVars, serverVars, callVars, walkVars, poolVars, loadVars, mainVars
<1>2. CtxTypeOK' /\ ServerTypeOK'
  BY DEF PlainTypeOK, CtxTypeOK, ServerTypeOK, ctxVars, clientVars, serverVars, callVars
<1>3. PlainTypeOK'
  BY <1>1, <1>2 DEF PlainTypeOK
<1>4. WalkInv' /\ OrderInv' /\ PoolInv'
  BY <1>1, PoolStutters DEF WalkInv, WalkTypeOK, OrderInv, Current, poolVars
<1>5. MainInv' /\ LateInv'
  BY <1>1 DEF MainInv, LateInv, Returned, LiveWorkers
<1>6. QED
  BY <1>3, <1>4, <1>5

LEMMA PublishStutter ==
  ASSUME PublishInv, UNCHANGED vars
  PROVE  PublishInv'
<1> USE DEF PublishInv, vars, ctxVars, clientVars, serverVars, callVars, walkVars, poolVars,
            loadVars, mainVars
<1>1. PlainTypeOK'
  BY DEF PlainTypeOK, CtxTypeOK, ServerTypeOK
<1>2. WalkInv' /\ OrderInv' /\ PoolInv'
  BY PoolStutters DEF WalkInv, WalkTypeOK, OrderInv, Current
<1>3. MainInv' /\ LateInv'
  BY DEF MainInv, LateInv, Returned, LiveWorkers
<1>4. QED
  BY <1>1, <1>2, <1>3

LEMMA PublishNext == PublishInv /\ [Next]_vars => PublishInv'
<1>1. SUFFICES ASSUME PublishInv, [Next]_vars PROVE PublishInv'
  OBVIOUS
<1>2. CASE MainStep
  <2>0. pc \in {"openTarget", "warm"} => late = {}
    BY <1>1 DEF PublishInv, LateInv
  <2>1. CASE OpenTarget
    BY <1>1, <2>0, <2>1, OpenTargetStep DEF OpenTarget
  <2>2. CASE OpenTargetFails
    BY <1>1, <2>0, <2>2, OpenTargetFailsStep DEF OpenTargetFails
  <2>3. CASE WarmUp
    BY <1>1, <2>0, <2>3, WarmUpStep DEF WarmUp
  <2>4. CASE WarmedUp \/ WarmUpFails
    BY <1>1, <2>0, <2>4, WarmUpEndsStep DEF WarmedUp, WarmUpFails
  <2>5. CASE WalkOn
    BY <1>1, <2>5, WalkOnStep
  <2>6. CASE RecordWalkErr
    BY <1>1, <2>6, RecordWalkErrStep
  <2>7. CASE PingFails
    BY <1>1, <2>7, PingFailsStep
  <2>8. CASE StartCopy
    BY <1>1, <2>8, StartCopyStep
  <2>9. CASE CopyDone \/ CopyFails
    BY <1>1, <2>9, CopyEndsStep
  <2>10. CASE Dispatch
    BY <1>1, <2>10, DispatchStep
  <2>11. CASE WalkDone \/ Return
    BY <1>1, <2>11, LoopEndsStep
  <2>12. QED
    BY <1>2, <2>1, <2>2, <2>3, <2>4, <2>5, <2>6, <2>7, <2>8, <2>9, <2>10, <2>11 DEF MainStep
<1>3. CASE \E l \in Layers : Worker(l)
  BY <1>1, <1>3, WorkerRestCallStep, WorkerReadNameStep, WorkerOutcomeStep,
     ReleaseTokenStep, SignalDoneStep, StaleHandleCrashStep DEF Worker
<1>4. CASE Environment
  BY <1>1, <1>4, EnvironmentStep
<1>5. CASE UNCHANGED vars
  BY <1>1, <1>5, PublishStutter
<1>6. QED
  BY <1>1, <1>2, <1>3, <1>4, <1>5 DEF Next, Finished

LEMMA PublishInvariant == Spec => []PublishInv
BY PublishInit, PublishNext, PTL DEF Spec
-----------------------------------------------------------------------------
(* Every variable stays in its range; in particular the channel never holds *)
(* more than its capacity and the WaitGroup's counter is never negative     *)
(* (which would panic), for any list of files and any Concurrency.          *)
THEOREM PublishTypeOK == Spec => []TypeOK
<1>1. PublishInv => TypeOK
  <2>1. SUFFICES ASSUME PublishInv PROVE TypeOK
    OBVIOUS
  <2>2. sem \in 0..Pool /\ wg \in Nat
    BY <2>1, PoolSize, FS_CardinalityType DEF PublishInv, PoolInv
  <2>3. QED
    BY <2>1, <2>2 DEF PublishInv, PlainTypeOK, WalkInv, TypeOK
<1>2. QED
  BY <1>1, PublishInvariant, PTL

(* At most Pool layers are being published at once, whatever the number of  *)
(* files and layers and however late the workers are (walk.go:257-265).     *)
THEOREM PublishIsBounded == Spec => []PublishBounded
<1>1. PublishInv => PublishBounded
  BY DEF PublishInv, PoolInv, PublishBounded
<1>2. QED
  BY <1>1, PublishInvariant, PTL

(* No worker uses the target after its Destroy, and PublishAll leaves no    *)
(* goroutine and no open target behind (walk.go:193, 278).                  *)
THEOREM TargetIsOutlived == Spec => []TargetOutlivesWorkers
<1>1. PublishInv => TargetOutlivesWorkers
  <2>1. SUFFICES ASSUME PublishInv PROVE TargetOutlivesWorkers
    OBVIOUS
  <2>2. LiveWorkers # {} => pc \notin {"openTarget", "warm", "returned"}
    BY <2>1 DEF PublishInv, MainInv, LiveWorkers
  <2>3. QED
    BY <2>1, <2>2 DEF PublishInv, MainInv, PlainTypeOK, TargetOutlivesWorkers
<1>2. QED
  BY <1>1, PublishInvariant, PTL

(* A layer is copied from an open source, at most one source is open, and   *)
(* none is when PublishAll returns (walk.go:96-103, 247).                   *)
THEOREM SourcesFollow == Spec => []SourcesFollowTheCopy
<1>1. PublishInv => SourcesFollowTheCopy
  <2>1. SUFFICES ASSUME PublishInv PROVE SourcesFollowTheCopy
    OBVIOUS
  <2>2. open \subseteq {file}
    BY <2>1 DEF PublishInv, WalkInv, WalkTypeOK, Yields, YieldItem, YieldErrors
  <2>3. Cardinality(open) <= 1
    BY <2>2, SubsetOfOne
  <2>4. at = "item" => open = {file} /\ Current \in Layers
    BY <2>1, LayersMembers, LayerCounts DEF PublishInv, WalkInv, WalkTypeOK, Current
  <2>5. QED
    BY <2>1, <2>3, <2>4 DEF PublishInv, MainInv, SourcesFollowTheCopy
<1>2. QED
  BY <1>1, PublishInvariant, PTL

(* A cancellation lets at most one more load begin (walk.go:115-118, 247).  *)
THEOREM CancelStops == Spec => []CancelStopsLoading
<1>1. PublishInv => CancelStopsLoading
  <2>1. SUFFICES ASSUME PublishInv PROVE CancelStopsLoading
    OBVIOUS
  <2>2. PICK k : late \subseteq {k}
    BY <2>1 DEF PublishInv, LateInv
  <2>3. QED
    BY <2>2, SubsetOfOne DEF CancelStopsLoading
<1>2. QED
  BY <1>1, PublishInvariant, PTL
-----------------------------------------------------------------------------
(* What the result says.  PublishInv, above, says where the goroutines are. *)
(* Added to it are, in two invariants, what has become of each layer        *)
(* (AccountInv), and what GDAL and GeoServer have of it (CatalogInv).       *)

(* Every error is about layers that are settled, or will never be reached. *)
ErrInv ==
  \A e \in perLayerErrs :
    /\ e[1] = "publish" =>
         e[2] \in Layers /\ step[e[2]] \in {"release", "signal", "finished"}
    /\ e[1] = "load" => e[2] \in Layers /\ step[e[2]] = "idle" /\ Before(e[2], Current)
    /\ e[1] = "openErr" =>
         e[2][1] < file /\ \A l \in Layers : l[1] = e[2][1] => step[l] = "idle"
    /\ e[1] \in {"ctxErr", "discoverErr"} => at = "done"
    /\ e[1] = "ctxErr" => e[2] = Current
    /\ e[1] = "discoverErr" => \A l \in Layers : ~Before(l, Current)

Reached(l) == Before(l, Current) \/ at = "done"

(* A layer the walk has gone past has a worker or an error. *)
CoverInv == \A l \in Layers : Reached(l) => step[l] # "idle" \/ Failed(l)

ResultInv ==
  /\ result \in {"nil", "error"} => at = "done"
  /\ result = "nil" => perLayerErrs = {}
  /\ pc \in {"openTarget", "warm"} => perLayerErrs = {}

AccountInv == ErrInv /\ CoverInv /\ ResultInv
-----------------------------------------------------------------------------
Alone(l) == SameName(l) = {l}

(* What is known of a handle: it goes stale only for a later layer of the   *)
(* same name, and as long as it is live its table is its own: an overwrite frees *)
(* first every layer that has the name, and copies then.                    *)
HandleInv ==
  /\ \A l \in Layers :
       \/ handle[l] = "none"
       \/ Before(l, Current)
       \/ l = Current /\ pc \in {"dispatch", "crashed"}
  /\ \A l \in Layers : step[l] # "idle" => handle[l] # "none"
  /\ pc = "dispatch" => handle[Current] # "none"
  /\ \A l \in Layers : handle[l] = "stale" =>
       \E k \in SameName(l) :
         /\ Before(l, k)
         /\ handle[k] # "none" \/ (k = Current /\ pc \in {"copying", "crashed"})
  /\ \A l \in Layers : handle[l] = "live" => table[LayerName[l]] = l
  /\ pc = "copying" => \A l \in SameName(Current) : handle[l] # "live"

(* The warm-up has made the parents before a worker looks for them. *)
ParentsInv ==
  /\ ParentsFirst
  /\ pc \in {"range", "copying", "dispatch", "wait"} => ws /\ ds
  /\ \A l \in Layers : step[l] # "idle" => ws /\ ds
  /\ \A l \in Layers : step[l] \notin {"createWorkspace", "createDatastore"}
  /\ step[Main] \notin {"getFeatureType", "createFeatureType", "published"}

(* A worker reads the name once, and publishes under the name it has read. *)
NameInv ==
  /\ \A l \in Layers :
       step[l] \in {"idle", "connect", "getWorkspace", "getDatastore", "ensured"} =>
         name[l] = NoName
  /\ \A l \in Layers :
       handle[l] = "live" /\ step[l] \in {"getFeatureType", "createFeatureType", "published"} =>
         name[l] = LayerName[l]
  /\ \A l \in Layers : handle[l] = "live" /\ Published(l) => LayerName[l] \in fts

(* While nothing outside has gone wrong. *)
QuietInv ==
  /\ TroubleRecorded
  /\ ~trouble =>
       /\ at \notin YieldErrors
       /\ result # "setupError"
       /\ step[Main] # "failed"
       /\ pc = "warm" /\ step[Main] = "createDatastore" => ~ds
       /\ \A e \in perLayerErrs : e[1] = "publish"
       /\ \A l \in Layers : handle[l] # "null"
  /\ ~trouble /\ NamesReadRight =>
       \A l \in Layers : Alone(l) =>
         /\ step[l] = "createFeatureType" => LayerName[l] \notin fts
         /\ step[l] # "failed"
         /\ <<"publish", l>> \notin perLayerErrs

CatalogInv == HandleInv /\ ParentsInv /\ NameInv /\ QuietInv
-----------------------------------------------------------------------------

(* The accounting *)

(* No worker starts, and none takes back how it ended. *)
WorkersGoOn ==
  \A l \in Layers :
    /\ step'[l] = "idle" <=> step[l] = "idle"
    /\ step[l] \in {"release", "signal", "finished"} =>
         step'[l] \in {"release", "signal", "finished"}

LEMMA SameErrors ==
  ASSUME perLayerErrs' = perLayerErrs
  PROVE  \A l \in Layers : Failed(l)' <=> Failed(l)
BY DEF Failed, Covers, Before

LEMMA MoreErrors ==
  ASSUME NEW kind, NEW where, RecordErr(kind, where)
  PROVE  \A l \in Layers : Failed(l)' <=> Failed(l) \/ Covers(<<kind, where>>, l)
BY DEF Failed, Covers, Before, RecordErr

LEMMA AccountKeeps ==
  ASSUME AccountInv, WorkersGoOn, UNCHANGED <<perLayerErrs, walkVars>>,
         result' \in {result, "setupError"},
         pc' \in {"openTarget", "warm"} => pc \in {"openTarget", "warm"}
  PROVE  AccountInv'
<1> USE DEF AccountInv, WorkersGoOn, walkVars
<1>1. ErrInv'
  BY DEF ErrInv, Before, Current
<1>2. CoverInv'
  BY SameErrors DEF CoverInv, Reached, Before, Current
<1>3. ResultInv'
  BY DEF ResultInv
<1>4. QED
  BY <1>1, <1>2, <1>3

LEMMA AccountInit == Init => AccountInv
<1>1. SUFFICES ASSUME Init PROVE AccountInv
  OBVIOUS
<1>2. \A l \in Layers : ~Before(l, Current) /\ at # "done"
  BY <1>1, LayersArePairs, LayersMembers, LayerCounts DEF Init, WalkInit, Before, Current
<1>3. perLayerErrs = {} /\ result = "running"
  BY <1>1 DEF Init
<1>4. QED
  BY <1>2, <1>3 DEF AccountInv, ErrInv, CoverInv, ResultInv, Reached

LEMMA WalkOnAccount ==
  ASSUME PublishInv, AccountInv, WalkOn
  PROVE  AccountInv'
<1>1. /\ WalkInv /\ CtxTypeOK /\ Iterate
      /\ UNCHANGED <<step, perLayerErrs, result, pc>> /\ pc = "range"
  BY DEF PublishInv, PlainTypeOK, WalkOn, clientVars, callVars, mainVars
<1>2. at # "done" /\ result \notin {"nil", "error"}
  BY <1>1, IterateStep DEF AccountInv, ResultInv
<1>3. ErrInv'
  <2>1. SUFFICES ASSUME NEW e \in perLayerErrs
                 PROVE  /\ e[1] = "publish" =>
                             e[2] \in Layers /\ step[e[2]] \in {"release", "signal", "finished"}
                        /\ e[1] = "load" =>
                             e[2] \in Layers /\ step[e[2]] = "idle" /\ Before(e[2], Current')
                        /\ e[1] = "openErr" =>
                             e[2][1] < file' /\ \A l \in Layers : l[1] = e[2][1] => step[l] = "idle"
                        /\ e[1] \notin {"ctxErr", "discoverErr"}
    BY <1>1 DEF ErrInv
  <2>2. e[1] \notin {"ctxErr", "discoverErr"}
    BY <1>2 DEF AccountInv, ErrInv
  <2>3. e[1] = "load" => Before(e[2], Current')
    BY <1>1, IterateStep DEF AccountInv, ErrInv
  <2>4. e[1] = "openErr" => e[2][1] < file'
    <3>1. file \in Nat /\ file' \in Nat /\ file <= file' /\ e[2][1] \in Nat
      BY <1>1, IterateStep, IterateReach, LayerCounts
         DEF WalkInv, WalkTypeOK, PublishInv, PlainTypeOK
    <3>2. QED
      BY <3>1 DEF AccountInv, ErrInv
  <2>5. QED
    BY <2>2, <2>3, <2>4 DEF AccountInv, ErrInv
<1>4. CoverInv'
  BY <1>1, IterateReach, SameErrors DEF AccountInv, CoverInv, Reached
<1>5. ResultInv'
  BY <1>1, <1>2 DEF AccountInv, ResultInv
<1>6. QED
  BY <1>3, <1>4, <1>5 DEF AccountInv

(* The error of the walk is about the layers that its next step goes past, *)
(* or that it will never come to.                                           *)
LEMMA RecordWalkErrAccount ==
  ASSUME PublishInv, AccountInv, RecordWalkErr
  PROVE  AccountInv'
<1>1. /\ WalkInv /\ Resume /\ at \in YieldErrors /\ RecordErr(at, Current)
      /\ UNCHANGED <<step, result, pc>> /\ pc = "range"
  BY DEF PublishInv, PlainTypeOK, RecordWalkErr, clientVars, callVars
<1>2. at # "done" /\ result \notin {"nil", "error"}
  BY <1>1 DEF AccountInv, ResultInv, YieldErrors
<1>3. \A l \in Layers : step[l] # "idle" => Before(l, Current)
  BY DEF PublishInv, OrderInv
<1>4. /\ file \in Nat /\ file' \in Nat /\ Current = <<file, layer>>
      /\ at \in {"discoverErr", "openErr"} => layer = 1
      /\ at = "discoverErr" => file = 1
  BY <1>1, ResumeStep, LayerCounts DEF WalkInv, WalkTypeOK, Current
<1>5. ErrInv'
  <2>1. SUFFICES ASSUME NEW e \in perLayerErrs'
                 PROVE  /\ e[1] = "publish" =>
                             e[2] \in Layers /\ step[e[2]] \in {"release", "signal", "finished"}
                        /\ e[1] = "load" =>
                             e[2] \in Layers /\ step[e[2]] = "idle" /\ Before(e[2], Current')
                        /\ e[1] = "openErr" =>
                             e[2][1] < file' /\ \A l \in Layers : l[1] = e[2][1] => step[l] = "idle"
                        /\ e[1] \in {"ctxErr", "discoverErr"} => at' = "done"
                        /\ e[1] = "ctxErr" => e[2] = Current'
                        /\ e[1] = "discoverErr" => \A l \in Layers : ~Before(l, Current')
    BY <1>1 DEF ErrInv
  <2>2. CASE e \in perLayerErrs
    <3>1. e[1] \notin {"ctxErr", "discoverErr"}
      BY <1>2, <2>2 DEF AccountInv, ErrInv
    <3>2. e[1] = "load" => Before(e[2], Current')
      BY <1>1, <2>2, ResumeStep DEF AccountInv, ErrInv
    <3>3. e[1] = "openErr" => e[2][1] < file'
      <4>1. file <= file' /\ e[2][1] \in Nat
        BY <1>1, <2>2, ResumeReach DEF PublishInv, PlainTypeOK
      <4>2. QED
        BY <1>4, <2>2, <4>1 DEF AccountInv, ErrInv
    <3>4. QED
      BY <2>2, <3>1, <3>2, <3>3 DEF AccountInv, ErrInv
  <2>3. CASE e = <<at, Current>>
    <3>1. e[1] = at /\ e[2] = Current /\ e[2][1] = file
      BY <1>4, <2>3
    <3>2. CASE at = "openErr"
      <4>1. file' = file + 1
        BY <1>1, <3>2, ResumeReach
      <4>2. \A l \in Layers : l[1] = file => ~Before(l, Current)
        BY <1>4, <3>2, LayersMembers, LayersArePairs, LayerCounts DEF Before
      <4>3. QED
        BY <1>3, <1>4, <3>1, <3>2, <4>1, <4>2
    <3>3. CASE at \in {"ctxErr", "discoverErr"}
      <4>1. at' = "done" /\ Current' = Current
        BY <1>1, <3>3, ResumeReach
      <4>2. at = "discoverErr" => \A l \in Layers : ~Before(l, Current)
        BY <1>4, LayersMembers, LayersArePairs, LayerCounts DEF Before
      <4>3. QED
        BY <3>1, <3>3, <4>1, <4>2
    <3>4. QED
      BY <1>1, <3>2, <3>3 DEF YieldErrors
  <2>4. QED
    BY <1>1, <2>2, <2>3 DEF RecordErr
<1>6. CoverInv'
  <2>1. SUFFICES ASSUME NEW l \in Layers, Reached(l)', step[l] = "idle"
                 PROVE  Failed(l) \/ Covers(<<at, Current>>, l)
    BY <1>1, MoreErrors DEF CoverInv
  <2>2. CASE Before(l, Current)
    BY <2>1, <2>2 DEF AccountInv, CoverInv, Reached
  <2>3. CASE ~Before(l, Current)
    <3>1. CASE at = "openErr"
      BY <1>1, <1>4, <2>1, <2>3, <3>1, ResumeReach DEF Covers, Reached
    <3>2. CASE at \in {"ctxErr", "discoverErr"}
      BY <2>3, <3>2 DEF Covers
    <3>3. QED
      BY <1>1, <3>1, <3>2 DEF YieldErrors
  <2>4. QED
    BY <2>2, <2>3
<1>7. ResultInv'
  BY <1>1, <1>2 DEF AccountInv, ResultInv
<1>8. QED
  BY <1>5, <1>6, <1>7 DEF AccountInv

LEMMA PingFailsAccount ==
  ASSUME PublishInv, AccountInv, PingFails
  PROVE  AccountInv'
<1>1. /\ WalkInv /\ Resume /\ at = "item" /\ RecordErr("load", Current)
      /\ UNCHANGED <<step, result, pc>> /\ pc = "range"
  BY DEF PublishInv, PlainTypeOK, PingFails, clientVars, callVars
<1>2. /\ Current \in Layers /\ Before(Current, Current') /\ at' = "layer"
      /\ \A l \in Layers : Before(l, Current') <=> Before(l, Current) \/ l = Current
  BY <1>1, ResumeStep, ResumeReach
<1>3. step[Current] = "idle"
  BY <1>2, LayersArePairs DEF PublishInv, OrderInv, Before
<1>4. file \in Nat /\ file' = file
  BY <1>1, LayerCounts DEF WalkInv, WalkTypeOK, Resume
<1>5. ErrInv'
  <2>1. \A e \in perLayerErrs : e[1] \notin {"ctxErr", "discoverErr"}
    BY <1>1 DEF AccountInv, ErrInv
  <2>2. perLayerErrs' = perLayerErrs \cup {<<"load", Current>>}
    BY <1>1 DEF RecordErr
  <2>3. QED
    BY <1>1, <1>2, <1>3, <1>4, <2>1, <2>2 DEF AccountInv, ErrInv
<1>6. CoverInv'
  <2>1. \A l \in Layers : Failed(l)' <=> Failed(l) \/ l = Current
    BY <1>1, MoreErrors DEF Covers
  <2>2. QED
    BY <1>1, <1>2, <2>1 DEF AccountInv, CoverInv, Reached
<1>7. ResultInv'
  BY <1>1 DEF AccountInv, ResultInv
<1>8. QED
  BY <1>5, <1>6, <1>7 DEF AccountInv

LEMMA DispatchAccount ==
  ASSUME PublishInv, AccountInv, Dispatch
  PROVE  AccountInv'
<1>1. /\ WalkInv /\ Resume /\ at = "item"
      /\ UNCHANGED <<perLayerErrs, result>> /\ pc' = "range" /\ pc = "dispatch"
  BY DEF PublishInv, MainInv, Dispatch
<1>2. /\ Current \in Layers /\ at' = "layer"
      /\ \A l \in Layers : Before(l, Current') <=> Before(l, Current) \/ l = Current
  BY <1>1, ResumeStep, ResumeReach
<1>3. step[Current] = "idle" /\ ~Before(Current, Current)
  BY <1>2, LayersArePairs DEF PublishInv, OrderInv, Before
<1>4. /\ step'[Current] = "connect"
      /\ \A l \in Layers : l # Current => step'[l] = step[l]
  BY <1>2, LayersAreCallers DEF PublishInv, PlainTypeOK, Dispatch, Goto
<1>5. file \in Nat /\ file' = file /\ Current[1] = file
  BY <1>1, LayerCounts DEF WalkInv, WalkTypeOK, Resume, Current
<1>6. ErrInv'
  <2>1. SUFFICES ASSUME NEW e \in perLayerErrs
                 PROVE  /\ e[1] = "publish" =>
                             e[2] \in Layers /\ step'[e[2]] \in {"release", "signal", "finished"}
                        /\ e[1] = "load" =>
                             e[2] \in Layers /\ step'[e[2]] = "idle" /\ Before(e[2], Current')
                        /\ e[1] = "openErr" =>
                             e[2][1] < file' /\ \A l \in Layers : l[1] = e[2][1] => step'[l] = "idle"
                        /\ e[1] \notin {"ctxErr", "discoverErr"}
    BY <1>1 DEF ErrInv
  <2>2. e[1] \notin {"ctxErr", "discoverErr"}
    BY <1>1 DEF AccountInv, ErrInv
  <2>3. e[1] = "publish" => e[2] # Current
    BY <1>3 DEF AccountInv, ErrInv
  <2>4. e[1] = "load" => e[2] # Current
    BY <1>3 DEF AccountInv, ErrInv
  <2>5. e[1] = "openErr" => \A l \in Layers : l[1] = e[2][1] => l # Current
    BY <1>5 DEF AccountInv, ErrInv, PublishInv, PlainTypeOK
  <2>6. QED
    BY <1>2, <1>4, <1>5, <2>2, <2>3, <2>4, <2>5 DEF AccountInv, ErrInv
<1>7. CoverInv'
  BY <1>1, <1>2, <1>4, SameErrors DEF AccountInv, CoverInv, Reached
<1>8. ResultInv'
  BY <1>1 DEF AccountInv, ResultInv
<1>9. QED
  BY <1>6, <1>7, <1>8 DEF AccountInv

LEMMA RecordPublishErrAccount ==
  ASSUME PublishInv, AccountInv, NEW l \in Layers, RecordPublishErr(l)
  PROVE  AccountInv'
<1>1. /\ step[l] = "failed" /\ perLayerErrs' = perLayerErrs \cup {<<"publish", l>>}
      /\ UNCHANGED <<walkVars, pc, result>>
      /\ step'[l] = "release" /\ \A k \in Layers : k # l => step'[k] = step[k]
  BY LayersAreCallers DEF PublishInv, PlainTypeOK, RecordPublishErr, RecordErr, Goto
<1>2. UNCHANGED <<at, file, layer>> /\ Current' = Current
  BY <1>1 DEF walkVars, Current
<1>3. ErrInv'
  BY <1>1, <1>2 DEF AccountInv, ErrInv
<1>4. CoverInv'
  <2>1. \A k \in Layers : Failed(k) => Failed(k)'
    BY MoreErrors DEF RecordPublishErr
  <2>2. QED
    BY <1>1, <1>2, <2>1 DEF AccountInv, CoverInv, Reached
<1>5. ResultInv'
  <2>1. l \in LiveWorkers
    BY <1>1 DEF LiveWorkers
  <2>2. result = "running" /\ pc \notin {"openTarget", "warm"}
    BY <1>1, <2>1 DEF PublishInv, MainInv, Returned
  <2>3. QED
    BY <1>1, <2>2 DEF ResultInv
<1>6. QED
  BY <1>3, <1>4, <1>5 DEF AccountInv

LEMMA ReturnAccount ==
  ASSUME PublishInv, AccountInv, Return
  PROVE  AccountInv'
<1>1. /\ at = "done" /\ UNCHANGED <<walkVars, step, perLayerErrs>> /\ pc' = "returned"
      /\ result' = IF perLayerErrs = {} THEN "nil" ELSE "error"
  BY DEF PublishInv, MainInv, Return, clientVars, callVars
<1>2. UNCHANGED <<at, file, layer>> /\ Current' = Current
  BY <1>1 DEF walkVars, Current
<1>3. ErrInv'
  BY <1>1, <1>2 DEF AccountInv, ErrInv
<1>4. CoverInv'
  BY <1>1, <1>2, SameErrors DEF AccountInv, CoverInv, Reached
<1>5. ResultInv'
  BY <1>1, <1>2 DEF ResultInv
<1>6. QED
  BY <1>3, <1>4, <1>5 DEF AccountInv

(* The other steps of a worker: it is at work, and goes on with it. *)
LEMMA WorkerGoesOn ==
  ASSUME PublishInv, NEW l \in Layers,
         \/ WorkerRestCall(l) \/ WorkerReadName(l) \/ LogPublished(l)
         \/ StaleHandleCrash(l) \/ ReleaseToken(l) \/ SignalDone(l)
  PROVE  /\ WorkersGoOn
         /\ UNCHANGED <<perLayerErrs, walkVars, result>>
         /\ pc' \in {pc, "crashed"}
<1>1. CASE WorkerRestCall(l)
  <2>1. /\ step[l] \in RestSteps \cup {"connect"}
        /\ step'[l] \in CallSteps \ {"idle", "connect"}
        /\ \A k \in Layers : k # l => step'[k] = step[k]
    BY <1>1, WorkerCallType, LayersAreCallers, RestCallFrame DEF PublishInv, WorkerRestCall
  <2>2. WorkersGoOn
    BY <2>1 DEF WorkersGoOn, RestSteps, CallSteps
  <2>3. QED
    BY <1>1, <2>2 DEF WorkerRestCall, mainVars
<1>2. CASE ~WorkerRestCall(l)
  <2>1. /\ \A k \in Layers : k # l => step'[k] = step[k]
        /\ \/ step[l] \in {"ensured", "published"} /\ step'[l] \notin {"idle"}
           \/ step[l] \in {"release", "signal"} /\ step'[l] \in {"signal", "finished"}
    BY <1>2, LayersAreCallers DEF PublishInv, PlainTypeOK, WorkerReadName, ReadName,
       LogPublished, StaleHandleCrash, ReleaseToken, SignalDone, Goto, clientVars, callVars
  <2>2. WorkersGoOn
    BY <2>1 DEF WorkersGoOn
  <2>3. QED
    BY <1>2, <2>2 DEF WorkerReadName, LogPublished, StaleHandleCrash, ReleaseToken,
       SignalDone, mainVars
<1>3. QED
  BY <1>1, <1>2

(* The other steps of Main, and those of the environment. *)
LEMMA OthersGoOn ==
  ASSUME PublishInv,
         \/ OpenTarget \/ OpenTargetFails \/ WarmUp \/ WarmedUp \/ WarmUpFails
         \/ StartCopy \/ CopyDone \/ CopyFails \/ WalkDone \/ Environment
         \/ UNCHANGED vars
  PROVE  /\ \A l \in Layers : step'[l] = step[l]
         /\ UNCHANGED <<perLayerErrs, walkVars>>
         /\ result' \in {result, "setupError"}
         /\ pc' \in {"openTarget", "warm"} => pc \in {"openTarget", "warm"}
<1>1. CASE WarmUp
  <2>1. \A l \in Layers : step'[l] = step[l]
    BY <1>1, WorkerCallType, LayersAreCallers, RestCallFrame DEF PublishInv, WarmUp
  <2>2. QED
    BY <1>1, <2>1 DEF WarmUp, mainVars
<1>2. CASE OpenTarget \/ OpenTargetFails \/ WarmedUp \/ WarmUpFails
  BY <1>2, LayersAreCallers DEF PublishInv, PlainTypeOK, OpenTarget, OpenTargetFails,
     WarmedUp, WarmUpFails, ReturnSetupError, Goto, clientVars, callVars
<1>3. CASE StartCopy \/ CopyDone \/ CopyFails \/ WalkDone
  BY <1>3 DEF StartCopy, CopyDone, CopyFails, WalkDone, clientVars, callVars
<1>4. CASE Environment
  BY <1>4 DEF Environment, RivalWorkspace, RivalResource, clientVars, callVars, mainVars
<1>5. CASE UNCHANGED vars
  BY <1>5 DEF vars, clientVars, callVars, mainVars
<1>6. QED
  BY <1>1, <1>2, <1>3, <1>4, <1>5

LEMMA AccountNext == PublishInv /\ AccountInv /\ [Next]_vars => AccountInv'
<1>1. SUFFICES ASSUME PublishInv, AccountInv, [Next]_vars PROVE AccountInv'
  OBVIOUS
<1>2. CASE WalkOn
  BY <1>1, <1>2, WalkOnAccount
<1>3. CASE RecordWalkErr
  BY <1>1, <1>3, RecordWalkErrAccount
<1>4. CASE PingFails
  BY <1>1, <1>4, PingFailsAccount
<1>5. CASE Dispatch
  BY <1>1, <1>5, DispatchAccount
<1>6. CASE Return
  BY <1>1, <1>6, ReturnAccount
<1>7. ASSUME NEW l \in Layers, RecordPublishErr(l) PROVE AccountInv'
  BY <1>1, <1>7, RecordPublishErrAccount
<1>8. ASSUME NEW l \in Layers, Worker(l), ~RecordPublishErr(l) PROVE AccountInv'
  BY <1>1, <1>8, WorkerGoesOn, AccountKeeps DEF Worker
<1>9. CASE \/ OpenTarget \/ OpenTargetFails \/ WarmUp \/ WarmedUp \/ WarmUpFails
           \/ StartCopy \/ CopyDone \/ CopyFails \/ WalkDone \/ Environment
           \/ UNCHANGED vars
  BY <1>1, <1>9, OthersGoOn, AccountKeeps DEF WorkersGoOn
<1>10. QED
  BY <1>1, <1>2, <1>3, <1>4, <1>5, <1>6, <1>7, <1>8, <1>9 DEF Next, MainStep, Finished

LEMMA AccountInvariant == Spec => [](PublishInv /\ AccountInv)
<1>1. PublishInv /\ AccountInv /\ [Next]_vars => (PublishInv /\ AccountInv)'
  BY PublishNext, AccountNext
<1>2. QED
  BY <1>1, PublishInit, AccountInit, PTL DEF Spec

(* A layer is settled in one way only, every layer is when PublishAll       *)
(* returns, and none has failed when it returns nil.                        *)
Settled ==
  /\ \A l \in Layers : ~(Published(l) /\ Failed(l))
  /\ result \in {"nil", "error"} => \A l \in Layers : Published(l) \/ Failed(l)
  /\ result = "nil" => \A l \in Layers : ~Failed(l)

(* Only a worker publishes, and no error is about a layer it has published. *)
LEMMA AccountedFor == PublishInv /\ AccountInv => Settled
<1>1. SUFFICES ASSUME PublishInv, AccountInv PROVE Settled
  OBVIOUS
<1>2. ASSUME NEW l \in Layers, Published(l), Failed(l) PROVE FALSE
  <2>1. PICK e \in perLayerErrs : Covers(e, l)
    BY <1>2 DEF Failed
  <2>2. e[1] \in ErrorKinds /\ e = <<e[1], e[2]>> /\ step[l] # "idle"
    BY <1>1, <1>2, <2>1 DEF PublishInv, PlainTypeOK, Published
  <2>3. Before(l, Current)
    BY <1>1, <2>2 DEF PublishInv, OrderInv
  <2>4. CASE e[1] \in {"load", "publish"}
    BY <1>1, <1>2, <2>1, <2>2, <2>4 DEF Covers, AccountInv, ErrInv, Published
  <2>5. CASE e[1] = "openErr"
    BY <1>1, <2>1, <2>2, <2>5 DEF Covers, AccountInv, ErrInv
  <2>6. CASE e[1] \in {"ctxErr", "discoverErr"}
    BY <1>1, <2>1, <2>3, <2>6 DEF Covers, AccountInv, ErrInv
  <2>7. QED
    BY <2>2, <2>4, <2>5, <2>6 DEF ErrorKinds, YieldErrors
<1>3. ASSUME result \in {"nil", "error"}, NEW l \in Layers PROVE Published(l) \/ Failed(l)
  <2>1. at = "done" /\ LiveWorkers = {}
    BY <1>1, <1>3 DEF AccountInv, ResultInv, PublishInv, MainInv, Returned
  <2>2. step[l] = "finished" \/ Failed(l)
    BY <1>1, <2>1 DEF AccountInv, CoverInv, Reached, LiveWorkers
  <2>3. <<"publish", l>> \in perLayerErrs => Failed(l)
    BY DEF Failed, Covers
  <2>4. QED
    BY <2>2, <2>3 DEF Published
<1>4. result = "nil" => \A l \in Layers : ~Failed(l)
  BY <1>1 DEF AccountInv, ResultInv, Failed
<1>5. QED
  BY <1>2, <1>3, <1>4 DEF Settled
-----------------------------------------------------------------------------
(* The catalog *)

LEMMA NamesDiffer ==
  ASSUME NEW k \in Layers, NEW l \in Layers, k # l, Alone(l)
  PROVE  LayerName[k] # LayerName[l]
BY DEF Alone, SameName

LEMMA CatalogInit == Init => CatalogInv
<1>1. SUFFICES ASSUME Init PROVE CatalogInv
  OBVIOUS
<1>2. \A c \in Callers : step[c] = "idle" /\ name[c] = NoName
  BY <1>1 DEF Init, ClientInit
<1>3. \A l \in Layers : step[l] = "idle" /\ name[l] = NoName /\ handle[l] = "none"
  BY <1>1, <1>2, LayersAreCallers DEF Init
<1>4. pc = "openTarget" /\ result = "running" /\ perLayerErrs = {} /\ at = "discover"
      /\ ~canceled /\ trouble = ~urlOk
  BY <1>1 DEF Init, ClientInit, WalkInit
<1>5. HandleInv
  BY <1>3, <1>4 DEF HandleInv
<1>6. ParentsInv
  BY <1>2, <1>3, <1>4, LayersAreCallers DEF ParentsInv, ParentsFirst
<1>7. NameInv
  BY <1>3 DEF NameInv
<1>8. QuietInv
  BY <1>2, <1>3, <1>4, LayersAreCallers DEF QuietInv, TroubleRecorded, YieldErrors
<1>9. QED
  BY <1>5, <1>6, <1>7, <1>8 DEF CatalogInv

(* What the handles and tables are changes only while Main copies. *)
LEMMA HandleKeeps ==
  ASSUME HandleInv, UNCHANGED <<handle, table>>,
         \A l \in Layers : step'[l] # "idle" => step[l] # "idle",
         \A l \in Layers : Before(l, Current) => Before(l, Current'),
         pc \in {"dispatch", "crashed"} =>
           pc' \in {"dispatch", "crashed"} /\ Current' = Current,
         pc \in {"copying", "crashed"} =>
           pc' \in {"copying", "crashed"} /\ Current' = Current,
         pc' = "dispatch" => pc = "dispatch",
         pc' = "copying" => pc = "copying" /\ Current' = Current
  PROVE  HandleInv'
BY DEF HandleInv, Before, SameName

(* A layer of a name of its own never loses its handle. *)
LEMMA AloneNotStale ==
  ASSUME HandleInv, NEW l \in Layers, Alone(l)
  PROVE  handle[l] # "stale"
<1>1. ~Before(l, l)
  BY LayersArePairs DEF Before
<1>2. QED
  BY <1>1 DEF HandleInv, Alone

(* A step of Main in which nothing of the catalog moves. *)
LEMMA ClientRests ==
  ASSUME ParentsInv, NameInv, UNCHANGED <<step, name, ws, ds, fts, handle>>,
         pc' \in {"range", "copying", "dispatch", "wait"} => ws /\ ds,
         \A l \in Layers : <<"publish", l>> \in perLayerErrs' <=> <<"publish", l>> \in perLayerErrs
  PROVE  ParentsInv' /\ NameInv'
BY DEF ParentsInv, ParentsFirst, NameInv, Published

(* Trouble is never forgotten; without it the loop meets no error. *)
LEMMA QuietRests ==
  ASSUME QuietInv, TroubleRecorded', trouble => trouble',
         UNCHANGED <<step, name, ds, fts, handle>>,
         ~trouble' =>
           at' \notin YieldErrors /\ result' # "setupError" /\ perLayerErrs' = perLayerErrs,
         pc' = "warm" => pc = "warm"
  PROVE  QuietInv'
BY DEF QuietInv, NamesReadRight, Alone, SameName

LEMMA IterateQuiet ==
  ASSUME TroubleRecorded, Iterate, ~trouble'
  PROVE  at' \notin YieldErrors
<1> USE DEF TroubleRecorded, YieldErrors, Disturb, ctxVars
<1>1. CASE Discover \/ DiscoverFails \/ FilesExhausted
  BY <1>1 DEF Discover, DiscoverFails, FilesExhausted
<1>2. CASE FileCanceled \/ CheckFile \/ OpenSource \/ OpenFails
  BY <1>2 DEF FileCanceled, CheckFile, OpenSource, OpenFails
<1>3. CASE LayersExhausted \/ LayerCanceled \/ CheckLayer \/ YieldLayer
  BY <1>3 DEF LayersExhausted, LayerCanceled, CheckLayer, YieldLayer
<1>4. QED
  BY <1>1, <1>2, <1>3 DEF Iterate

LEMMA WalkOnCatalog ==
  ASSUME PublishInv, CatalogInv, WalkOn
  PROVE  CatalogInv'
<1>1. /\ WalkInv /\ CtxTypeOK /\ Iterate /\ pc = "range"
      /\ UNCHANGED <<step, name, ws, ds, fts, urlOk, handle, table, perLayerErrs, result, pc>>
  BY DEF PublishInv, PlainTypeOK, WalkOn, clientVars, callVars, serverVars, loadVars, mainVars
<1>2. HandleInv'
  BY <1>1, IterateStep, HandleKeeps DEF CatalogInv
<1>3. ParentsInv' /\ NameInv'
  BY <1>1, ClientRests DEF CatalogInv, ParentsInv
<1>4. canceled' = canceled /\ (trouble => trouble')
  BY <1>1, IterateStep
<1>5. ~trouble' => at' \notin YieldErrors /\ result # "setupError"
  BY <1>1, <1>4, IterateQuiet DEF CatalogInv, QuietInv
<1>6. QuietInv'
  BY <1>1, <1>4, <1>5, QuietRests DEF CatalogInv, QuietInv, TroubleRecorded
<1>7. QED
  BY <1>2, <1>3, <1>6 DEF CatalogInv

LEMMA LoopBodyCatalog ==
  ASSUME PublishInv, CatalogInv, RecordWalkErr \/ PingFails
  PROVE  CatalogInv'
<1>1. /\ WalkInv /\ Resume /\ pc = "range"
      /\ UNCHANGED <<step, name, ws, ds, fts, urlOk, handle, table, result, pc, canceled>>
  BY DEF PublishInv, PlainTypeOK, RecordWalkErr, PingFails, clientVars, callVars, serverVars,
     loadVars, ctxVars, Disturb
<1>2. HandleInv'
  BY <1>1, ResumeStep, HandleKeeps DEF CatalogInv
<1>3. \A l \in Layers : <<"publish", l>> \in perLayerErrs' <=> <<"publish", l>> \in perLayerErrs
  BY DEF RecordWalkErr, PingFails, RecordErr, YieldErrors
<1>4. ParentsInv' /\ NameInv'
  BY <1>1, <1>3, ClientRests DEF CatalogInv, ParentsInv
<1>5. trouble'
  BY DEF CatalogInv, QuietInv, RecordWalkErr, PingFails, Disturb, ctxVars
<1>6. QuietInv'
  BY <1>1, <1>5, QuietRests DEF CatalogInv, QuietInv, TroubleRecorded
<1>7. QED
  BY <1>2, <1>4, <1>6 DEF CatalogInv

(* The other steps in which Main is on its own, and the last one. *)
LEMMA MainRestsCatalog ==
  ASSUME PublishInv, CatalogInv,
         \/ OpenTargetFails \/ WarmedUp \/ WarmUpFails \/ WalkDone \/ Return
         \/ UNCHANGED vars
  PROVE  CatalogInv'
<1>1. /\ UNCHANGED <<step, name, ws, ds, fts, urlOk, handle, table, canceled, perLayerErrs>>
      /\ UNCHANGED walkVars
      /\ trouble => trouble'
  BY DEF OpenTargetFails, WarmedUp, WarmUpFails, WalkDone, Return, ReturnSetupError, Disturb,
     vars, ctxVars, clientVars, callVars, serverVars, loadVars, mainVars
<1>2. UNCHANGED <<at, file, layer, Current>>
  BY <1>1 DEF walkVars, Current
<1>3. pc' = pc \/ (pc \in {"openTarget", "warm", "range", "wait"}
                   /\ pc' \in {"range", "wait", "returned"})
  BY DEF OpenTargetFails, WarmedUp, WarmUpFails, WalkDone, Return, ReturnSetupError, vars, mainVars
<1>4. HandleInv'
  BY <1>1, <1>2, <1>3, HandleKeeps DEF CatalogInv
<1>5. pc' \in {"range", "copying", "dispatch", "wait"} => ws /\ ds
  <2>1. CASE WarmedUp
    BY <2>1, LayersAreCallers DEF WarmedUp, CatalogInv, ParentsInv, ParentsFirst
  <2>2. CASE ~WarmedUp
    BY <2>2 DEF CatalogInv, ParentsInv, OpenTargetFails, WarmUpFails, WalkDone, Return,
       ReturnSetupError, vars, mainVars
  <2>3. QED
    BY <2>1, <2>2
<1>6. ParentsInv' /\ NameInv'
  BY <1>1, <1>5, ClientRests DEF CatalogInv
<1>7. ~trouble' => at' \notin YieldErrors /\ result' # "setupError"
  BY <1>1, <1>2 DEF CatalogInv, QuietInv, OpenTargetFails, WarmedUp, WarmUpFails, WalkDone,
     Return, ReturnSetupError, Disturb, vars, mainVars
<1>8. QuietInv'
  BY <1>1, <1>3, <1>7, QuietRests DEF CatalogInv, QuietInv, TroubleRecorded
<1>9. QED
  BY <1>4, <1>6, <1>8 DEF CatalogInv

LEMMA OpenTargetCatalog ==
  ASSUME PublishInv, CatalogInv, OpenTarget
  PROVE  CatalogInv'
<1>1. /\ UNCHANGED <<name, ws, ds, fts, urlOk, handle, table, canceled, trouble, perLayerErrs,
                     result>>
      /\ UNCHANGED walkVars
      /\ pc = "openTarget" /\ pc' = "warm"
  BY DEF OpenTarget, ctxVars, serverVars, loadVars
<1>2. UNCHANGED <<at, file, layer, Current>>
  BY <1>1 DEF walkVars, Current
<1>3. /\ step'[Main] = "connect"
      /\ \A c \in Callers : c # Main => step'[c] = step[c]
      /\ \A l \in Layers : step'[l] = step[l]
  BY LayersAreCallers DEF PublishInv, PlainTypeOK, OpenTarget, Goto
<1>4. HandleInv'
  BY <1>1, <1>2, <1>3, HandleKeeps DEF CatalogInv
<1>5. ParentsInv'
  <2>1. ParentsFirst'
    BY <1>1, <1>3 DEF CatalogInv, ParentsInv, ParentsFirst
  <2>2. QED
    BY <1>1, <1>3, <2>1 DEF CatalogInv, ParentsInv
<1>6. NameInv'
  BY <1>1, <1>3 DEF CatalogInv, NameInv, Published
<1>7. QuietInv'
  <2>1. NamesReadRight' <=> NamesReadRight
    BY <1>1 DEF NamesReadRight
  <2>2. QED
    BY <1>1, <1>2, <1>3, <2>1 DEF CatalogInv, QuietInv, TroubleRecorded, Alone, SameName
<1>8. QED
  BY <1>4, <1>5, <1>6, <1>7 DEF CatalogInv

(* An OVERWRITE frees what an earlier layer of the same name has, and that  *)
(* layer's handle goes stale; no other layer notices.                       *)
LEMMA StartCopyCatalog ==
  ASSUME PublishInv, CatalogInv, StartCopy
  PROVE  CatalogInv'
<1>1. /\ UNCHANGED <<step, name, ws, ds, fts, urlOk, canceled, trouble, perLayerErrs, result>>
      /\ UNCHANGED <<at, file, layer, Current>>
      /\ pc = "range" /\ pc' = "copying"
  BY DEF StartCopy, ctxVars, walkVars, clientVars, callVars, serverVars, Current
<1>2. Current \in Layers /\ LayerName \in [Layers -> Names]
  BY LayersMembers, LayerCounts, PublishAllAssumption
     DEF StartCopy, PublishInv, WalkInv, WalkTypeOK, Current
<1>3. ~Before(Current, Current)
  BY <1>2, LayersArePairs DEF Before
<1>4. handle[Current] = "none"
  BY <1>1, <1>2, <1>3 DEF CatalogInv, HandleInv
<1>5. \A l \in Layers :
        /\ handle'[l] = "live" => handle[l] = "live" /\ l \notin SameName(Current)
        /\ handle'[l] = "none" <=> handle[l] = "none"
        /\ handle'[l] = "null" <=> handle[l] = "null"
        /\ handle'[l] = "stale" => handle[l] = "stale" \/ l \in SameName(Current)
  BY DEF StartCopy
<1>6. \A l \in Layers : l \notin SameName(Current) => table'[LayerName[l]] = table[LayerName[l]]
  BY <1>2 DEF StartCopy, PublishInv, PlainTypeOK, SameName
<1>8. HandleInv'
  <2>1. \A l \in Layers : \/ handle'[l] = "none"
                          \/ Before(l, Current')
                          \/ l = Current' /\ pc' \in {"dispatch", "crashed"}
    BY <1>1, <1>5 DEF CatalogInv, HandleInv, Before
  <2>2. \A l \in Layers : step'[l] # "idle" => handle'[l] # "none"
    BY <1>1, <1>5 DEF CatalogInv, HandleInv
  <2>3. ASSUME NEW l \in Layers, handle'[l] = "stale"
        PROVE  \E k \in SameName(l) :
                 Before(l, k) /\ (handle'[k] # "none" \/ (k = Current /\ pc' = "copying"))
    <3>1. CASE handle[l] = "stale"
      BY <1>1, <1>5, <3>1 DEF CatalogInv, HandleInv, SameName
    <3>2. CASE handle[l] # "stale"
      <4>1. l \in SameName(Current) /\ handle[l] # "none"
        BY <1>5, <2>3, <3>2
      <4>2. Before(l, Current)
        BY <1>1, <4>1 DEF CatalogInv, HandleInv
      <4>3. Current \in SameName(l)
        BY <1>2, <4>1 DEF SameName
      <4>4. QED
        BY <1>1, <4>2, <4>3
    <3>3. QED
      BY <3>1, <3>2
  <2>4. \A l \in Layers : handle'[l] = "live" => table'[LayerName[l]] = l
    BY <1>5, <1>6 DEF CatalogInv, HandleInv
  <2>5. \A l \in SameName(Current') : handle'[l] # "live"
    BY <1>1, <1>5 DEF SameName
  <2>6. QED
    BY <1>1, <2>1, <2>2, <2>3, <2>4, <2>5 DEF HandleInv, Before, SameName
<1>9. ParentsInv' /\ NameInv'
  <2>1. ws /\ ds
    BY <1>1 DEF CatalogInv, ParentsInv
  <2>2. ParentsInv'
    BY <1>1, <2>1 DEF CatalogInv, ParentsInv, ParentsFirst
  <2>3. NameInv'
    BY <1>1, <1>5 DEF CatalogInv, NameInv, Published
  <2>4. QED
    BY <2>2, <2>3
<1>10. QuietInv'
  BY <1>1, <1>5 DEF CatalogInv, QuietInv, TroubleRecorded, NamesReadRight, Alone, SameName
<1>11. QED
  BY <1>8, <1>9, <1>10 DEF CatalogInv

(* The layer that was copied has no worker yet. *)
LEMMA CopyEndsCatalog ==
  ASSUME PublishInv, CatalogInv, CopyDone \/ CopyFails
  PROVE  CatalogInv'
<1>1. /\ UNCHANGED <<step, name, ws, ds, fts, urlOk, canceled, perLayerErrs, result>>
      /\ UNCHANGED <<at, file, layer, Current>>
      /\ pc = "copying" /\ pc' = "dispatch"
  BY DEF CopyDone, CopyFails, Disturb, ctxVars, walkVars, clientVars, callVars, serverVars, Current
<1>2. Current \in Layers /\ LayerName \in [Layers -> Names]
  BY <1>1, LayersMembers, LayerCounts, PublishAllAssumption
     DEF PublishInv, MainInv, WalkInv, WalkTypeOK, Current
<1>3. step[Current] = "idle"
  BY <1>2, LayersArePairs DEF PublishInv, OrderInv, Before
<1>4. /\ \A l \in Layers : l # Current => handle'[l] = handle[l]
      /\ CopyDone => handle'[Current] = "live" /\ trouble' = trouble
      /\ CopyFails => handle'[Current] = "null" /\ trouble'
  BY <1>2 DEF PublishInv, PlainTypeOK, CopyDone, CopyFails, Disturb, ctxVars
<1>5. /\ \A l \in Layers : l \notin SameName(Current) =>
           table'[LayerName[l]] = table[LayerName[l]]
      /\ CopyDone => table'[LayerName[Current]] = Current
      /\ \A l \in SameName(Current) : handle[l] # "live"
  BY <1>1, <1>2 DEF PublishInv, PlainTypeOK, CopyDone, CopyFails, SameName, CatalogInv, HandleInv
<1>6. HandleInv'
  <2>1. \A l \in Layers : \/ handle'[l] = "none"
                          \/ Before(l, Current')
                          \/ l = Current' /\ pc' \in {"dispatch", "crashed"}
    BY <1>1, <1>4 DEF CatalogInv, HandleInv, Before
  <2>2. \A l \in Layers : step'[l] # "idle" => handle'[l] # "none"
    BY <1>1, <1>3, <1>4 DEF CatalogInv, HandleInv
  <2>3. handle'[Current] \in {"live", "null"}
    BY <1>4
  <2>4. ASSUME NEW l \in Layers, handle'[l] = "stale"
        PROVE  \E k \in SameName(l) : Before(l, k) /\ handle'[k] # "none"
    <3>1. l # Current /\ handle[l] = "stale"
      BY <1>4, <2>3, <2>4
    <3>2. PICK k \in SameName(l) : Before(l, k) /\ (handle[k] # "none" \/ k = Current)
      BY <3>1 DEF CatalogInv, HandleInv
    <3>3. handle'[k] # "none"
      BY <1>4, <2>3, <3>2 DEF SameName
    <3>4. QED
      BY <3>2, <3>3
  <2>5. \A l \in Layers : handle'[l] = "live" => table'[LayerName[l]] = l
    BY <1>4, <1>5 DEF CatalogInv, HandleInv
  <2>6. QED
    BY <1>1, <2>1, <2>2, <2>3, <2>4, <2>5 DEF HandleInv, Before, SameName
<1>7. ParentsInv'
  BY <1>1 DEF CatalogInv, ParentsInv, ParentsFirst
<1>8. NameInv'
  <2>1. \A l \in Layers : step[l] # "idle" => handle'[l] = handle[l]
    BY <1>3, <1>4
  <2>2. QED
    BY <1>1, <2>1 DEF CatalogInv, NameInv, Published
<1>9. QuietInv'
  <2>1. NamesReadRight' <=> NamesReadRight
    BY <1>1 DEF NamesReadRight
  <2>2. TroubleRecorded' /\ (trouble => trouble')
    BY <1>1, <1>4 DEF CatalogInv, QuietInv, TroubleRecorded
  <2>3. ~trouble' => \A l \in Layers : handle'[l] # "null"
    BY <1>4, <2>2 DEF CatalogInv, QuietInv
  <2>4. QED
    BY <1>1, <2>1, <2>2, <2>3 DEF CatalogInv, QuietInv, Alone, SameName
<1>10. QED
  BY <1>6, <1>7, <1>8, <1>9 DEF CatalogInv

LEMMA DispatchCatalog ==
  ASSUME PublishInv, CatalogInv, Dispatch
  PROVE  CatalogInv'
<1>1. /\ UNCHANGED <<name, ws, ds, fts, urlOk, handle, table, canceled, trouble, perLayerErrs,
                     result>>
      /\ WalkInv /\ Resume /\ at = "item" /\ pc = "dispatch" /\ pc' = "range"
  BY DEF Dispatch, PublishInv, MainInv, ctxVars, serverVars, loadVars
<1>2. /\ Current \in Layers /\ at' = "layer"
      /\ \A l \in Layers : Before(l, Current') <=> Before(l, Current) \/ l = Current
  BY <1>1, ResumeStep, ResumeReach
<1>3. /\ step'[Current] = "connect"
      /\ \A c \in Callers : c # Current => step'[c] = step[c]
      /\ \A l \in Layers : l # Current => step'[l] = step[l]
  BY <1>2, LayersAreCallers DEF PublishInv, PlainTypeOK, Dispatch, Goto
<1>4. step[Current] = "idle" /\ Main # Current
  BY <1>2, LayersArePairs, LayersAreCallers DEF PublishInv, OrderInv, Before
<1>5. HandleInv'
  BY <1>1, <1>2, <1>3 DEF CatalogInv, HandleInv, SameName, Before
<1>6. ParentsInv'
  BY <1>1, <1>3, <1>4, LayersAreCallers DEF CatalogInv, ParentsInv, ParentsFirst
<1>7. NameInv'
  BY <1>1, <1>3, <1>4 DEF CatalogInv, NameInv, Published
<1>8. QuietInv'
  <2>1. NamesReadRight' <=> NamesReadRight
    BY <1>1 DEF NamesReadRight
  <2>2. QED
    BY <1>1, <1>2, <1>3, <1>4, <2>1, LayersAreCallers
       DEF CatalogInv, QuietInv, TroubleRecorded, Alone, SameName, YieldErrors
<1>9. QED
  BY <1>5, <1>6, <1>7, <1>8 DEF CatalogInv

LEMMA EnvironmentCatalog ==
  ASSUME PublishInv, CatalogInv, Environment
  PROVE  CatalogInv'
<1>1. /\ UNCHANGED <<step, name, urlOk, handle, table, pc, perLayerErrs, result>>
      /\ UNCHANGED <<at, file, layer, Current>>
  BY DEF Environment, RivalWorkspace, RivalResource, clientVars, callVars, loadVars, mainVars,
     walkVars, Current
<1>2. /\ (ws => ws') /\ (ds => ds') /\ fts \subseteq fts' /\ (trouble => trouble')
      /\ trouble' \/ UNCHANGED <<canceled, trouble, ds, fts>>
  BY DEF Environment, RivalWorkspace, RivalResource, Cancel, Disturb, clientVars, serverVars,
     ctxVars
<1>3. HandleInv'
  BY <1>1, HandleKeeps DEF CatalogInv
<1>4. ParentsInv'
  BY <1>1, <1>2 DEF CatalogInv, ParentsInv, ParentsFirst
<1>5. NameInv'
  BY <1>1, <1>2 DEF CatalogInv, NameInv, Published
<1>6. QuietInv'
  BY <1>1, <1>2, QuietRests DEF CatalogInv, QuietInv, TroubleRecorded
<1>7. QED
  BY <1>3, <1>4, <1>5, <1>6 DEF CatalogInv

(* A worker's step: the handles and tables stay, and so does every name     *)
(* but its own.                                                             *)
LEMMA WorkerHandles ==
  ASSUME PublishInv, CatalogInv, NEW l \in Layers, Worker(l)
  PROVE  /\ HandleInv'
         /\ UNCHANGED <<at, handle, table, result>>
         /\ pc' \in {pc, "crashed"}
         /\ pc \notin {"openTarget", "warm"}
         /\ step[l] # "idle" /\ step'[l] # "idle"
         /\ \A k \in Layers : k # l => step'[k] = step[k]
         /\ step'[Main] = step[Main]
<1>1. UNCHANGED <<handle, table, result, walkVars>> /\ pc' \in {pc, "crashed"}
  BY DEF Worker, WorkerRestCall, WorkerReadName, LogPublished, StaleHandleCrash,
     RecordPublishErr, ReleaseToken, SignalDone, loadVars, mainVars
<1>2. UNCHANGED <<at, file, layer, Current>>
  BY <1>1 DEF walkVars, Current
<1>3. /\ step[l] # "idle" /\ step'[l] # "idle"
      /\ \A c \in Callers : c # l => step'[c] = step[c]
  <2>1. CASE WorkerRestCall(l)
    BY <2>1, WorkerCallType, LayersAreCallers, RestCallFrame
       DEF PublishInv, WorkerRestCall, RestSteps, CallSteps
  <2>2. CASE ~WorkerRestCall(l)
    BY <2>2, LayersAreCallers DEF PublishInv, PlainTypeOK, Worker, WorkerReadName, ReadName,
       LogPublished, StaleHandleCrash, RecordPublishErr, ReleaseToken, SignalDone, Goto,
       clientVars, callVars
  <2>3. QED
    BY <2>1, <2>2
<1>4. /\ \A k \in Layers : k # l => step'[k] = step[k]
      /\ step'[Main] = step[Main]
  BY <1>3, LayersAreCallers
<1>5. pc \notin {"openTarget", "warm"}
  BY <1>3 DEF PublishInv, MainInv
<1>6. HandleInv'
  BY <1>1, <1>2, <1>3, <1>4, HandleKeeps DEF CatalogInv
<1>7. QED
  BY <1>1, <1>2, <1>3, <1>4, <1>5, <1>6

(* Main is past its setup while a worker moves. *)
LEMMA WorkerParents ==
  ASSUME PublishInv, CatalogInv, NEW l \in Layers, Worker(l),
         ParentsFirst', ws => ws', ds => ds',
         step'[l] \notin {"createWorkspace", "createDatastore"}
  PROVE  ParentsInv'
<1>1. ws' /\ ds'
  BY WorkerHandles DEF CatalogInv, ParentsInv
<1>2. QED
  BY <1>1, WorkerHandles DEF CatalogInv, ParentsInv

LEMMA WorkerRestCallCatalog ==
  ASSUME PublishInv, CatalogInv, NEW l \in Layers, WorkerRestCall(l)
  PROVE  CatalogInv'
<1>1. /\ CallSteps \subseteq WorkerSteps /\ CallTypeOK(WorkerSteps) /\ ParentsFirst
      /\ TroubleRecorded /\ l \in Callers /\ RestCall(l) /\ Worker(l)
      /\ UNCHANGED perLayerErrs
  BY WorkerCallType, LayersAreCallers
     DEF PublishInv, CatalogInv, ParentsInv, QuietInv, WorkerRestCall, Worker, mainVars
<1>2. /\ step[l] \in RestSteps \cup {"connect"}
      /\ step'[l] \in CallSteps \ {"idle", "connect"}
      /\ UNCHANGED <<name, urlOk, canceled>>
      /\ (ws => ws') /\ (ds => ds') /\ fts \subseteq fts' /\ (trouble => trouble')
  BY <1>1, RestCallFrame
<1>3. ws /\ ds /\ step[l] \notin {"createWorkspace", "createDatastore"}
  BY <1>2 DEF CatalogInv, ParentsInv, RestSteps
<1>4. /\ fts' \subseteq fts \cup {name[l]}
      /\ step[l] \notin {"getFeatureType", "createFeatureType"} =>
           /\ fts' = fts
           /\ step'[l] \in {"getWorkspace", "getDatastore", "ensured", "failed"}
      /\ step[l] \in {"getFeatureType", "createFeatureType"} =>
           step'[l] \in {"createFeatureType", "published", "failed"}
      /\ step'[l] = "createFeatureType" =>
           /\ step[l] = "getFeatureType"
           /\ fts' = fts
           /\ name[l] \in Names => name[l] \notin fts
      /\ step'[l] \notin {"createWorkspace", "createDatastore"}
  BY <1>1, <1>3, RestCallMoves
<1>5. /\ HandleInv' /\ UNCHANGED <<at, handle, table, result>>
      /\ \A k \in Layers : k # l => step'[k] = step[k]
      /\ step'[Main] = step[Main] /\ pc' # "warm" /\ l # Main
  BY <1>1, WorkerHandles, LayersAreCallers
<1>6. LayerName \in [Layers -> Names] /\ NoName \notin Names
  BY PublishAllAssumption, NoNameAssumption
<1>7. ParentsInv'
  BY <1>1, <1>2, <1>4, RestCallParents, WorkerParents
<1>8. handle[l] = "live" /\ step[l] \in {"getFeatureType", "createFeatureType"} =>
        name[l] = LayerName[l] /\ name[l] \in Names
  BY <1>6 DEF CatalogInv, NameInv
<1>9. NameInv'
  <2>1. step'[l] \in {"idle", "connect", "getWorkspace", "getDatastore", "ensured"} =>
          name[l] = NoName
    BY <1>2, <1>3, <1>4 DEF CatalogInv, NameInv, RestSteps
  <2>2. handle[l] = "live" /\ step'[l] \in {"getFeatureType", "createFeatureType", "published"}
          => name[l] = LayerName[l]
    BY <1>4, <1>8
  <2>3. handle[l] = "live" /\ step'[l] = "published" => LayerName[l] \in fts'
    BY <1>1, <1>4, <1>8, RestCallSuccess
  <2>4. step'[l] \notin {"release", "signal", "finished"}
    BY <1>2 DEF CallSteps
  <2>5. \A k \in Layers : handle[k] = "live" /\ Published(k)' => LayerName[k] \in fts'
    BY <1>1, <1>2, <1>5, <2>3, <2>4 DEF CatalogInv, NameInv, Published
  <2>6. QED
    BY <1>2, <1>5, <2>1, <2>2, <2>5 DEF CatalogInv, NameInv
<1>10. QuietInv'
  <2>1. TroubleRecorded'
    BY <1>1, RestCallTrouble
  <2>2. ASSUME ~trouble', NamesReadRight', NEW k \in Layers, Alone(k)
        PROVE  /\ step'[k] = "createFeatureType" => LayerName[k] \notin fts'
               /\ step'[k] # "failed"
               /\ <<"publish", k>> \notin perLayerErrs'
    <3>1. /\ ~trouble /\ NamesReadRight
          /\ step[k] = "createFeatureType" => LayerName[k] \notin fts
          /\ step[k] # "failed"
          /\ <<"publish", k>> \notin perLayerErrs
      BY <1>2, <2>2 DEF CatalogInv, QuietInv, NamesReadRight
    <3>2. CASE k # l
      <4>1. name[l] \in {NoName, LayerName[l]} /\ LayerName[l] # LayerName[k]
        BY <2>2, <3>1, <3>2, NamesDiffer DEF NamesReadRight
      <4>2. LayerName[k] \in fts' => LayerName[k] \in fts
        BY <1>4, <1>6, <4>1
      <4>3. QED
        BY <1>1, <1>5, <3>1, <3>2, <4>2
    <3>3. CASE k = l
      <4>1. step[l] # "idle" /\ handle[l] = "live"
        <5>1. step[l] # "idle"
          BY <1>2 DEF RestSteps
        <5>2. handle[l] \notin {"none", "stale", "null"}
          BY <2>2, <3>1, <3>3, <5>1, AloneNotStale DEF CatalogInv, HandleInv, QuietInv
        <5>3. QED
          BY <5>1, <5>2 DEF PublishInv, PlainTypeOK
      <4>2. step'[l] = "createFeatureType" => LayerName[l] \notin fts'
        BY <1>4, <1>8, <4>1
      <4>3. step'[l] # "failed"
        <5>1. SUFFICES ASSUME step'[l] = "failed" PROVE FALSE
          OBVIOUS
        <5>2. step[l] = "createFeatureType" /\ ~(ds /\ name[l] \in Names \ fts)
          BY <1>1, <1>3, <2>2, <5>1, RestCallFailure
        <5>3. QED
          BY <1>3, <1>8, <3>1, <3>3, <4>1, <5>2
      <4>4. QED
        BY <1>1, <3>1, <3>3, <4>2, <4>3
    <3>4. QED
      BY <3>2, <3>3
  <2>3. ~trouble' => /\ at' \notin YieldErrors
                     /\ result' # "setupError"
                     /\ step'[Main] # "failed"
                     /\ pc' # "warm"
                     /\ \A e \in perLayerErrs' : e[1] = "publish"
                     /\ \A k \in Layers : handle'[k] # "null"
    BY <1>1, <1>2, <1>5 DEF CatalogInv, QuietInv
  <2>4. QED
    BY <2>1, <2>2, <2>3 DEF QuietInv, Alone, SameName
<1>11. QED
  BY <1>5, <1>7, <1>9, <1>10 DEF CatalogInv

LEMMA WorkerReadNameCatalog ==
  ASSUME PublishInv, CatalogInv, NEW l \in Layers, WorkerReadName(l)
  PROVE  CatalogInv'
<1>1. /\ UNCHANGED <<ws, ds, fts, urlOk, canceled, trouble, perLayerErrs>>
      /\ step[l] = "ensured" /\ Worker(l)
  BY DEF WorkerReadName, ReadName, Worker, ctxVars, serverVars, mainVars
<1>2. /\ HandleInv' /\ UNCHANGED <<at, handle, table, result>>
      /\ \A k \in Layers : k # l => step'[k] = step[k]
      /\ step'[Main] = step[Main] /\ pc' # "warm" /\ l # Main
  BY <1>1, WorkerHandles, LayersAreCallers
<1>3. /\ step'[l] = "getFeatureType"
      /\ \A c \in Callers : c # l => step'[c] = step[c]
      /\ \A k \in Layers : k # l => name'[k] = name[k]
      /\ handle[l] = "live" => name'[l] = LayerName[l]
  BY LayersAreCallers DEF PublishInv, PlainTypeOK, WorkerReadName, ReadName, Goto
<1>4. name[l] = NoName /\ ws /\ ds
  BY <1>1 DEF CatalogInv, NameInv, ParentsInv
<1>5. ParentsInv'
  <2>1. ParentsFirst'
    BY <1>1, <1>3, <1>4 DEF CatalogInv, ParentsInv, ParentsFirst
  <2>2. QED
    BY <1>1, <1>3, <2>1, WorkerParents
<1>6. NameInv'
  BY <1>1, <1>2, <1>3 DEF CatalogInv, NameInv, Published
<1>7. QuietInv'
  <2>1. NamesReadRight' => NamesReadRight
    BY <1>3, <1>4 DEF NamesReadRight
  <2>2. QED
    BY <1>1, <1>2, <1>3, <2>1 DEF CatalogInv, QuietInv, TroubleRecorded, Alone, SameName
<1>8. QED
  BY <1>2, <1>5, <1>6, <1>7 DEF CatalogInv

(* The defers, the record of the outcome before them, and the crash. *)
LEMMA WorkerEndsCatalog ==
  ASSUME PublishInv, CatalogInv, NEW l \in Layers,
         \/ LogPublished(l) \/ RecordPublishErr(l) \/ ReleaseToken(l) \/ SignalDone(l)
         \/ StaleHandleCrash(l)
  PROVE  CatalogInv'
<1>1. /\ UNCHANGED <<name, ws, ds, fts, urlOk, canceled, trouble>>
      /\ Worker(l)
  BY DEF LogPublished, RecordPublishErr, ReleaseToken, SignalDone, StaleHandleCrash, Worker,
     ctxVars, clientVars, callVars, serverVars
<1>2. /\ HandleInv' /\ UNCHANGED <<at, handle, table, result>>
      /\ \A k \in Layers : k # l => step'[k] = step[k]
      /\ step'[Main] = step[Main] /\ pc' # "warm" /\ l # Main
  BY <1>1, WorkerHandles, LayersAreCallers
<1>3. /\ \A c \in Callers : c # l => step'[c] = step[c]
      /\ step'[l] \in {"release", "signal", "finished"} \/ step'[l] = step[l]
      /\ \/ step[l] # "failed" /\ UNCHANGED perLayerErrs
         \/ step[l] = "failed" /\ perLayerErrs' = perLayerErrs \cup {<<"publish", l>>}
  BY LayersAreCallers DEF PublishInv, PlainTypeOK, LogPublished, RecordPublishErr, RecordErr,
     ReleaseToken, SignalDone, StaleHandleCrash, Goto, mainVars, clientVars, callVars
<1>4. ParentsInv'
  <2>1. ParentsFirst'
    BY <1>1, <1>3 DEF CatalogInv, ParentsInv, ParentsFirst
  <2>2. step'[l] \notin {"createWorkspace", "createDatastore"}
    BY <1>3 DEF CatalogInv, ParentsInv
  <2>3. QED
    BY <1>1, <2>1, <2>2, WorkerParents
<1>5. NameInv'
  <2>1. \A k \in Layers : Published(k)' => Published(k)
    BY <1>2, <1>3 DEF Published, LogPublished, RecordPublishErr, RecordErr, ReleaseToken,
       SignalDone, StaleHandleCrash, clientVars, callVars
  <2>2. QED
    BY <1>1, <1>2, <1>3, <2>1 DEF CatalogInv, NameInv
<1>6. QuietInv'
  <2>1. NamesReadRight' <=> NamesReadRight
    BY <1>1 DEF NamesReadRight
  <2>2. ~trouble' => \A e \in perLayerErrs' : e[1] = "publish"
    BY <1>1, <1>3 DEF CatalogInv, QuietInv
  <2>3. ~trouble' /\ NamesReadRight' =>
          \A k \in Layers : Alone(k) =>
            /\ step'[k] = "createFeatureType" => LayerName[k] \notin fts'
            /\ step'[k] # "failed"
            /\ <<"publish", k>> \notin perLayerErrs'
    BY <1>1, <1>2, <1>3, <2>1 DEF CatalogInv, QuietInv
  <2>4. QED
    BY <1>1, <1>2, <2>2, <2>3 DEF CatalogInv, QuietInv, TroubleRecorded, Alone, SameName
<1>7. QED
  BY <1>2, <1>4, <1>5, <1>6 DEF CatalogInv

(* Main makes the datastore alone: only trouble makes that fail. *)
LEMMA WarmUpCatalog ==
  ASSUME PublishInv, AccountInv, CatalogInv, WarmUp
  PROVE  CatalogInv'
<1>1. /\ CallSteps \subseteq WorkerSteps /\ CallTypeOK(WorkerSteps) /\ ParentsFirst
      /\ TroubleRecorded /\ Main \in Callers /\ RestCall(Main)
  BY WorkerCallType, LayersAreCallers DEF PublishInv, CatalogInv, ParentsInv, QuietInv, WarmUp
<1>2. /\ UNCHANGED <<handle, table, result, perLayerErrs, pc>> /\ UNCHANGED walkVars
      /\ pc = "warm"
  BY DEF WarmUp, loadVars, mainVars
<1>3. UNCHANGED <<at, file, layer, Current>>
  BY <1>2 DEF walkVars, Current
<1>4. /\ \A l \in Layers : step'[l] = step[l] /\ step[l] = "idle"
      /\ UNCHANGED <<name, urlOk, canceled>>
      /\ (ws => ws') /\ (ds => ds') /\ (trouble => trouble')
  BY <1>1, <1>2, RestCallFrame, LayersAreCallers DEF PublishInv, MainInv
<1>5. /\ step'[Main] \notin {"getFeatureType", "createFeatureType", "published"}
      /\ step'[Main] = "createDatastore" => ~ds'
  <2>1. step[Main] \notin {"getFeatureType", "createFeatureType"}
    BY DEF CatalogInv, ParentsInv
  <2>2. QED
    BY <1>1, <2>1, RestCallMoves
<1>6. HandleInv'
  BY <1>2, <1>3, <1>4, HandleKeeps DEF CatalogInv
<1>7. ParentsInv'
  <2>1. ParentsFirst'
    BY <1>1, RestCallParents
  <2>2. QED
    BY <1>2, <1>4, <1>5, <2>1 DEF ParentsInv
<1>8. NameInv'
  BY <1>2, <1>4 DEF CatalogInv, NameInv, Published
<1>9. QuietInv'
  <2>1. TroubleRecorded'
    BY <1>1, RestCallTrouble
  <2>2. ~trouble' => step'[Main] # "failed"
    <3>1. SUFFICES ASSUME ~trouble', step'[Main] = "failed" PROVE FALSE
      OBVIOUS
    <3>2. step[Main] = "createDatastore" /\ ~(ws /\ ~ds)
      BY <1>1, <3>1, RestCallFailure DEF CatalogInv, ParentsInv
    <3>3. QED
      BY <1>1, <1>2, <1>4, <3>1, <3>2 DEF ParentsFirst, CatalogInv, QuietInv
  <2>3. \A l \in Layers : <<"publish", l>> \notin perLayerErrs
    BY <1>2 DEF AccountInv, ResultInv
  <2>4. QED
    BY <1>2, <1>3, <1>4, <1>5, <2>1, <2>2, <2>3 DEF CatalogInv, QuietInv
<1>10. QED
  BY <1>6, <1>7, <1>8, <1>9 DEF CatalogInv

LEMMA CatalogNext == PublishInv /\ AccountInv /\ CatalogInv /\ [Next]_vars => CatalogInv'
<1>1. SUFFICES ASSUME PublishInv, AccountInv, CatalogInv, [Next]_vars PROVE CatalogInv'
  OBVIOUS
<1>2. CASE WarmUp \/ OpenTarget
  BY <1>1, <1>2, WarmUpCatalog, OpenTargetCatalog
<1>3. CASE WalkOn \/ RecordWalkErr \/ PingFails
  BY <1>1, <1>3, WalkOnCatalog, LoopBodyCatalog
<1>4. CASE StartCopy \/ CopyDone \/ CopyFails \/ Dispatch
  BY <1>1, <1>4, StartCopyCatalog, CopyEndsCatalog, DispatchCatalog
<1>5. CASE \/ OpenTargetFails \/ WarmedUp \/ WarmUpFails \/ WalkDone \/ Return
           \/ UNCHANGED vars
  BY <1>1, <1>5, MainRestsCatalog
<1>6. ASSUME NEW l \in Layers, Worker(l) PROVE CatalogInv'
  BY <1>1, <1>6, WorkerRestCallCatalog, WorkerReadNameCatalog, WorkerEndsCatalog DEF Worker
<1>7. CASE Environment
  BY <1>1, <1>7, EnvironmentCatalog
<1>8. QED
  BY <1>1, <1>2, <1>3, <1>4, <1>5, <1>6, <1>7 DEF Next, MainStep, Finished

LEMMA OutcomeInvariant == Spec => [](PublishInv /\ AccountInv /\ CatalogInv)
<1>1. Init => PublishInv /\ AccountInv /\ CatalogInv
  BY PublishInit, AccountInit, CatalogInit
<1>2. PublishInv /\ AccountInv /\ CatalogInv /\ [Next]_vars =>
        (PublishInv /\ AccountInv /\ CatalogInv)'
  BY PublishNext, AccountNext, CatalogNext
<1>3. QED
  BY <1>1, <1>2, PTL DEF Spec

(* A layer that was published is served, unless its copy failed or a later  *)
(* layer of its name was copied.                                            *)
LEMMA PublishedIsServed ==
  ASSUME PublishInv, CatalogInv, NEW l \in Layers, Published(l), pc = "returned"
  PROVE  Served(l) \/ CopyFailed(l) \/ Overwritten(l)
<1>1. step[l] # "idle"
  BY DEF Published
<1>2. handle[l] \in {"live", "stale", "null"}
  BY <1>1 DEF PublishInv, PlainTypeOK, CatalogInv, HandleInv
<1>3. CASE handle[l] = "live"
  BY <1>3 DEF CatalogInv, HandleInv, NameInv, Served
<1>4. CASE handle[l] = "stale"
  BY <1>4 DEF CatalogInv, HandleInv, Overwritten
<1>5. CASE handle[l] = "null"
  BY <1>5 DEF CopyFailed
<1>6. QED
  BY <1>2, <1>3, <1>4, <1>5

(* When PublishAll returns, each layer of each file has a returned error or *)
(* its features are in its table and its feature type in the catalog, but   *)
(* for the two ways in which the code loses a layer unnoticed; none is both *)
(* published and failed, and nil means that none failed (walk.go:155-160).  *)
(* For any files, layers, names and workers, and whatever fails.            *)
THEOREM NoLayerIsLost == Spec => []EveryLayerAccountedFor
<1>1. PublishInv /\ AccountInv /\ CatalogInv => EveryLayerAccountedFor
  <2>1. SUFFICES ASSUME PublishInv, AccountInv, CatalogInv PROVE EveryLayerAccountedFor
    OBVIOUS
  <2>2. Settled
    BY <2>1, AccountedFor
  <2>3. ASSUME result \in {"nil", "error"}, NEW l \in Layers, Published(l)
        PROVE  Served(l) \/ CopyFailed(l) \/ Overwritten(l)
    <3>1. pc = "returned"
      BY <2>1, <2>3 DEF PublishInv, MainInv, Returned
    <3>2. QED
      BY <2>1, <2>3, <3>1, PublishedIsServed
  <2>4. QED
    BY <2>2, <2>3 DEF Settled, EveryLayerAccountedFor
<1>2. QED
  BY <1>1, OutcomeInvariant, PTL

(* nil means done (walk.go:159-160): each layer has a worker that published *)
(* it, from a table that no layer of another name has touched.              *)
THEOREM NilIsServed == Spec => []NilMeansServed
<1>1. PublishInv /\ AccountInv /\ CatalogInv => NilMeansServed
  <2>1. SUFFICES ASSUME PublishInv, AccountInv, CatalogInv, NEW l \in Layers,
                        result = "nil", DistinctNames, ~CopyFailed(l)
                 PROVE  Served(l)
    BY DEF NilMeansServed
  <2>2. Published(l)
    BY <2>1, AccountedFor DEF Settled
  <2>3. ~Overwritten(l)
    <3>1. SameName(l) = {l} /\ ~Before(l, l)
      BY <2>1, LayersArePairs DEF SameName, DistinctNames, Before
    <3>2. QED
      BY <3>1 DEF Overwritten
  <2>4. pc = "returned"
    BY <2>1 DEF PublishInv, MainInv, Returned
  <2>5. QED
    BY <2>1, <2>2, <2>3, <2>4, PublishedIsServed
<1>2. QED
  BY <1>1, OutcomeInvariant, PTL

(* The layers do not get in each other's way (walk.go:195-207): without     *)
(* outside trouble only a layer that shares its name can fail, for any      *)
(* number of workers and whatever the catalog held before.                  *)
THEOREM NothingFailsForNoReason == Spec => []NoSpuriousFailure
<1>1. PublishInv /\ AccountInv /\ CatalogInv => NoSpuriousFailure
  <2>1. SUFFICES ASSUME PublishInv, AccountInv, CatalogInv, ~trouble
                 PROVE  /\ result # "setupError"
                        /\ \A e \in perLayerErrs :
                             /\ e[1] = "publish"
                             /\ NamesReadRight => SameName(e[2]) # {e[2]}
    BY DEF NoSpuriousFailure
  <2>2. ASSUME NEW e \in perLayerErrs, NamesReadRight PROVE SameName(e[2]) # {e[2]}
    <3>1. e[1] = "publish" /\ e = <<e[1], e[2]>>
      BY <2>1 DEF CatalogInv, QuietInv, PublishInv, PlainTypeOK
    <3>2. e[2] \in Layers /\ <<"publish", e[2]>> \in perLayerErrs
      BY <2>1, <3>1 DEF AccountInv, ErrInv
    <3>3. QED
      BY <2>1, <2>2, <3>2 DEF CatalogInv, QuietInv, Alone
  <2>3. QED
    BY <2>1, <2>2 DEF CatalogInv, QuietInv
<1>2. QED
  BY <1>1, OutcomeInvariant, PTL
-----------------------------------------------------------------------------
(* The contract *)

LEMMA ContractInit == Init => Contract!Init
<1>1. SUFFICES ASSUME Init PROVE Contract!Init
  OBVIOUS
<1>2. perLayerErrs = {} /\ result = "running" /\ \A l \in Layers : step[l] = "idle"
  BY <1>1, LayersAreCallers DEF Init, ClientInit
<1>3. \A l \in Layers : ~Failed(l) /\ ~Published(l)
  BY <1>2 DEF Failed, Published
<1>4. QED
  BY <1>2, <1>3 DEF Contract!Init, Status

(* The status of a layer, when it is not accounted for twice. *)
LEMMA StatusMeans ==
  ASSUME Settled, NEW l \in Layers
  PROVE  /\ Status[l] = "failed" <=> Failed(l)
         /\ Status[l] = "published" <=> Published(l)
         /\ Status[l] = "pending" <=> ~Failed(l) /\ ~Published(l)
BY DEF Status, Settled

(* The three ways in which a step of PublishAll is one of the contract.      *)
LEMMA SettlesNothing ==
  ASSUME \A l \in Layers : (Failed(l)' <=> Failed(l)) /\ (Published(l)' <=> Published(l)),
         UNCHANGED result
  PROVE  UNCHANGED Contract!vars
BY DEF Status, Contract!vars

LEMMA SettlesOne ==
  ASSUME Settled, Settled', result = "running", UNCHANGED result,
         NEW l \in Layers, Published(l)', ~Published(l),
         \A k \in Layers : Failed(k)' <=> Failed(k),
         \A k \in Layers : k # l => (Published(k)' <=> Published(k))
  PROVE  Contract!Next
<1>1. ~Failed(l)
  BY DEF Settled
<1>2. Status[l] = "pending"
  BY <1>1 DEF Status
<1>3. Status' = [Status EXCEPT ![l] = "published"]
  BY <1>1 DEF Status
<1>4. Contract!Publish(l)
  BY <1>2, <1>3 DEF Contract!Publish
<1>5. QED
  BY <1>4 DEF Contract!Next

LEMMA SettlesByError ==
  ASSUME Settled', result = "running", UNCHANGED result,
         \A l \in Layers : Failed(l) => Failed(l)',
         \A l \in Layers : Published(l)' <=> Published(l)
  PROVE  Contract!Next
<1> DEFINE S == {l \in Layers : Failed(l)' /\ ~Failed(l)}
<1>1. \A l \in S : ~Published(l)
  BY DEF Settled
<1>2. S \subseteq Contract!Pending
  BY <1>1 DEF Contract!Pending, Status
<1>3. Status' = [l \in Layers |-> IF l \in S THEN "failed" ELSE Status[l]]
  BY DEF Status
<1>4. Contract!Fail(S)
  BY <1>2, <1>3 DEF Contract!Fail
<1>5. S \in SUBSET Layers
  OBVIOUS
<1>6. QED
  BY <1>4, <1>5 DEF Contract!Next

(* An error of the loop settles the layers it covers. *)
LEMMA LoopErrorContract ==
  ASSUME PublishInv, Settled', RecordWalkErr \/ PingFails
  PROVE  Contract!Next
<1>1. pc = "range" /\ UNCHANGED <<step, result>>
  BY DEF RecordWalkErr, PingFails, clientVars, callVars
<1>2. result = "running"
  BY <1>1 DEF PublishInv, MainInv, Returned
<1>3. \A l \in Layers : Failed(l) => Failed(l)'
  BY MoreErrors DEF RecordWalkErr, PingFails
<1>4. \A l \in Layers : <<"publish", l>> \in perLayerErrs' <=> <<"publish", l>> \in perLayerErrs
  BY DEF RecordWalkErr, PingFails, RecordErr, YieldErrors
<1>5. QED
  BY <1>1, <1>2, <1>3, <1>4, SettlesByError DEF Published

(* A worker's error settles its layer; its success has settled it before. *)
LEMMA WorkerContract ==
  ASSUME PublishInv, AccountInv, Settled, Settled',
         NEW l \in Layers, Worker(l)
  PROVE  Contract!Next \/ UNCHANGED Contract!vars
<1>1. /\ \A k \in Layers : k # l => step'[k] = step[k]
      /\ UNCHANGED result
      /\ step[l] \notin {"idle", "finished"}
  <2>1. CASE WorkerRestCall(l)
    BY <2>1, WorkerCallType, LayersAreCallers, RestCallFrame
       DEF PublishInv, WorkerRestCall, RestSteps, mainVars
  <2>2. CASE ~WorkerRestCall(l)
    BY <2>2, LayersAreCallers DEF PublishInv, PlainTypeOK, Worker, WorkerReadName, ReadName,
       LogPublished, StaleHandleCrash, RecordPublishErr, ReleaseToken, SignalDone, Goto,
       clientVars, callVars, mainVars
  <2>3. QED
    BY <2>1, <2>2
<1>2. result = "running"
  <2>1. LiveWorkers # {}
    BY <1>1 DEF LiveWorkers
  <2>2. QED
    BY <2>1 DEF PublishInv, MainInv, Returned
<1>3. CASE RecordPublishErr(l)
  <2>1. \A k \in Layers : Failed(k) => Failed(k)'
    BY <1>3, MoreErrors DEF RecordPublishErr
  <2>2. \A k \in Layers : Published(k)' <=> Published(k)
    BY <1>1, <1>3 DEF RecordPublishErr, RecordErr, Published
  <2>3. QED
    BY <1>1, <1>2, <2>1, <2>2, SettlesByError
<1>4. CASE ~RecordPublishErr(l)
  <2>1. UNCHANGED perLayerErrs
    BY <1>4, WorkerGoesOn DEF Worker
  <2>2. \A k \in Layers : Failed(k)' <=> Failed(k)
    BY <2>1, SameErrors
  <2>3. \A k \in Layers : k # l => (Published(k)' <=> Published(k))
    BY <1>1, <2>1 DEF Published
  <2>4. Published(l) => Published(l)'
    <3>1. CASE WorkerRestCall(l)
      BY <3>1, WorkerCallType, LayersAreCallers, RestCallFrame
         DEF PublishInv, WorkerRestCall, RestSteps, Published
    <3>2. CASE ~WorkerRestCall(l)
      BY <1>4, <2>1, <3>2, LayersAreCallers DEF PublishInv, PlainTypeOK, Worker, WorkerReadName,
         ReadName, LogPublished, StaleHandleCrash, ReleaseToken, SignalDone, Goto, Published,
         clientVars, callVars
    <3>3. QED
      BY <3>1, <3>2
  <2>5. CASE Published(l)' /\ ~Published(l)
    BY <1>1, <1>2, <2>2, <2>3, <2>5, SettlesOne
  <2>6. CASE Published(l)' <=> Published(l)
    BY <1>1, <2>2, <2>3, <2>6, SettlesNothing
  <2>7. QED
    BY <2>4, <2>5, <2>6
<1>5. QED
  BY <1>3, <1>4

LEMMA ReturnContract ==
  ASSUME PublishInv, Settled, Settled', Return
  PROVE  Contract!Next
<1>1. /\ result = "running" /\ result' \in {"nil", "error"}
      /\ UNCHANGED <<step, perLayerErrs>>
  BY DEF PublishInv, MainInv, Returned, Return, clientVars, callVars
<1>2. \A l \in Layers : (Failed(l)' <=> Failed(l)) /\ (Published(l)' <=> Published(l))
  BY <1>1, SameErrors DEF Published
<1>3. UNCHANGED Status
  BY <1>2 DEF Status
<1>4. \A l \in Layers : Published(l) \/ Failed(l)
  BY <1>1, <1>2 DEF Settled
<1>5. Contract!Pending = {}
  BY <1>4, StatusMeans DEF Contract!Pending
<1>6. result' = "nil" => \A l \in Layers : Status[l] = "published"
  BY <1>2, StatusMeans DEF Settled
<1>7. Contract!Return
  BY <1>1, <1>3, <1>5, <1>6 DEF Contract!Return
<1>8. QED
  BY <1>7 DEF Contract!Next

(* A setup error comes before any worker and before any error. *)
LEMMA SetupErrorContract ==
  ASSUME PublishInv, AccountInv, OpenTargetFails \/ WarmUpFails
  PROVE  Contract!Next
<1>1. /\ pc \in {"openTarget", "warm"} /\ result' = "setupError"
      /\ UNCHANGED <<step, perLayerErrs>>
  BY DEF OpenTargetFails, WarmUpFails, ReturnSetupError, clientVars, callVars
<1>2. result = "running" /\ perLayerErrs = {} /\ \A l \in Layers : step[l] = "idle"
  BY <1>1 DEF PublishInv, MainInv, Returned, AccountInv, ResultInv
<1>3. \A l \in Layers : ~Failed(l) /\ ~Published(l) /\ ~Failed(l)' /\ ~Published(l)'
  BY <1>1, <1>2 DEF Failed, Published
<1>4. Contract!SetupError
  BY <1>1, <1>2, <1>3 DEF Contract!SetupError, Contract!Pending, Status
<1>5. QED
  BY <1>4 DEF Contract!Next

LEMMA DispatchIdle ==
  ASSUME PublishInv, Dispatch
  PROVE  Current \in Layers /\ step[Current] = "idle"
<1>1. WalkInv /\ Resume /\ at = "item"
  BY DEF PublishInv, MainInv, Dispatch
<1>2. QED
  BY <1>1, ResumeStep, LayersArePairs DEF PublishInv, OrderInv, Before

(* The other steps of Main and those of the environment settle nothing. *)
LEMMA OthersContract ==
  ASSUME PublishInv, AccountInv,
         \/ OpenTarget \/ WarmUp \/ WarmedUp \/ WalkOn \/ StartCopy \/ CopyDone \/ CopyFails
         \/ Dispatch \/ WalkDone \/ Environment \/ UNCHANGED vars
  PROVE  UNCHANGED Contract!vars
<1>1. UNCHANGED <<perLayerErrs, result>>
  BY DEF OpenTarget, WarmUp, WarmedUp, WalkOn, StartCopy, CopyDone, CopyFails, Dispatch,
     WalkDone, Environment, vars, mainVars
<1>2. \A l \in Layers : step'[l] = step[l] \/ (step[l] = "idle" /\ step'[l] = "connect")
  <2>1. CASE Dispatch
    BY <2>1, LayersAreCallers, DispatchIdle DEF PublishInv, PlainTypeOK, Dispatch, Goto
  <2>2. CASE WalkOn
    BY <2>2 DEF WalkOn, clientVars, callVars
  <2>3. CASE ~Dispatch /\ ~WalkOn
    BY <2>3, OthersGoOn
  <2>4. QED
    BY <2>1, <2>2, <2>3
<1>3. \A l \in Layers : (Failed(l)' <=> Failed(l)) /\ (Published(l)' <=> Published(l))
  BY <1>1, <1>2, SameErrors DEF Published
<1>4. QED
  BY <1>1, <1>3, SettlesNothing

LEMMA ContractNext ==
  ASSUME PublishInv, AccountInv, AccountInv', PublishInv', [Next]_vars
  PROVE  [Contract!Next]_(Contract!vars)
<1>1. Settled /\ Settled'
  BY AccountedFor, PTL
<1>2. CASE RecordWalkErr \/ PingFails
  BY <1>1, <1>2, LoopErrorContract
<1>3. ASSUME NEW l \in Layers, Worker(l) PROVE Contract!Next \/ UNCHANGED Contract!vars
  BY <1>1, <1>3, WorkerContract
<1>4. CASE Return
  BY <1>1, <1>4, ReturnContract
<1>5. CASE OpenTargetFails \/ WarmUpFails
  BY <1>5, SetupErrorContract
<1>6. CASE \/ OpenTarget \/ WarmUp \/ WarmedUp \/ WalkOn \/ StartCopy \/ CopyDone \/ CopyFails
           \/ Dispatch \/ WalkDone \/ Environment \/ UNCHANGED vars
  BY <1>6, OthersContract
<1>7. QED
  BY <1>2, <1>3, <1>4, <1>5, <1>6 DEF Next, MainStep, Finished

(* PublishAll implements its contract: whatever the workers, the servers and *)
(* the other clients do, its caller sees a call that settles the layers one  *)
(* by one and for good, and returns what became of them (walk.go:150-160).   *)
THEOREM PublishAllKeepsContract == Spec => KeepsContract
<1>1. PublishInv /\ AccountInv /\ (PublishInv /\ AccountInv)' /\ [Next]_vars =>
        [Contract!Next]_(Contract!vars)
  BY ContractNext
<1>2. QED
  BY <1>1, ContractInit, AccountInvariant, PTL DEF Spec, KeepsContract, Contract!Spec
=============================================================================
