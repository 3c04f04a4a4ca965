------------------------------ MODULE WalkCaller ------------------------------
(***************************************************************************)
(* A for-range loop over Walk whose body may do anything a body can do:    *)
(* range over the features of the layer it was given, take the next        *)
(* element, break (or return), or panic, in the inner loop too.            *)
(* cmd/layerSchema and library callers are such loops.  A body ranges over *)
(* the features of a layer at most once, with the context of the walk.     *)
(* seen records what Walk yielded.                                         *)
(***************************************************************************)
EXTENDS Walk, Features

ASSUME FidsOfLayers == DOMAIN Fids = Layers

VARIABLES
  seen,   (* history: the yields so far, <<kind, file, layer>> *)
  late    (* history: how much was done for the body after a cancellation *)

historyVars == <<seen, late>>
vars == <<ctxVars, walkVars, featureVars, historyVars>>

TypeOK ==
  /\ CtxTypeOK
  /\ WalkTypeOK
  /\ FeaturesTypeOK
  /\ seen \in Seq(Yields \X Nat \X Nat)
  /\ late \in Nat

Init ==
  /\ WalkInit
  /\ FeaturesInit
  /\ canceled = FALSE
  /\ trouble = FALSE
  /\ seen = <<>>
  /\ late = 0

CountIfLate(done) == late' = IF canceled /\ done THEN late + 1 ELSE late

(* A source is opened, or cannot be, or one of its layers is yielded. *)
Iterator ==
  /\ Iterate
  /\ seen' = IF at' \in Yields THEN Append(seen, <<at', file', layer'>>) ELSE seen
  /\ CountIfLate(~(open' \subseteq open) \/ at' \in {"openErr", YieldItem})
  /\ UNCHANGED featureVars

(* The body ranges over the features of its layer. *)
InnerLoop ==
  /\ at = "item"
  /\ \/ StartFeatures
     \/ IterateFeatures(Current)
     \/ (ResumeFeatures(Current) \/ BreakFeatures(Current)) /\ UNCHANGED ctxVars
  /\ CountIfLate(turn' = "feature")
  /\ UNCHANGED <<walkVars, seen>>

(* The body is done with the element it was given. *)
LeaveBody ==
  /\ turn \in {"idle", "over"}
  /\ Resume \/ Break
  /\ turn' = "idle"
  /\ UNCHANGED <<ctxVars, fid, alive, historyVars>>

(* The body, or the inner loop's body, panics: nothing is deferred. *)
PanicInBody ==
  /\ turn \in {"idle", "feature", "over"}
  /\ Panic
  /\ UNCHANGED <<ctxVars, featureVars, historyVars>>

Body == InnerLoop \/ LeaveBody \/ PanicInBody

Environment ==
  /\ at \notin {"done", "panicked"}
  /\ Cancel
  /\ UNCHANGED <<walkVars, featureVars, historyVars>>

Finished ==
  /\ at \in {"done", "panicked"}
  /\ UNCHANGED vars

Next == Iterator \/ Body \/ Environment \/ Finished

(* The iterators run and the body always comes back to them. *)
FairSpec == Init /\ [][Next]_vars /\ WF_vars(Iterator) /\ WF_vars(Body)
-----------------------------------------------------------------------------
SeenAs(kind) == {k \in DOMAIN seen : seen[k][1] = kind}
SeenLayers == {Tail(seen[k]) : k \in SeenAs(YieldItem)}
SkippedFiles == {seen[k][2] : k \in SeenAs("openErr")}
Reported(l) == l \in SeenLayers \/ l[1] \in SkippedFiles

(* At most one file's worth of OGR state at a time, and none once the loop *)
(* is over, however the body left it short of a panic (walk.go:53-57,      *)
(* 71-72, 96-103).                                                         *)
SourcesReleased ==
  /\ Cardinality(open) <= 1
  /\ at = "done" => open = {}

(* The source of the layer the body is looking at is open while it looks. *)
YieldedLayerIsUsable == at = "item" => open = {file} /\ Current \in Layers

(* Files-outer, layers-inner, nothing twice and nothing left out: every   *)
(* layer before the one just yielded was yielded too, or its file was     *)
(* reported as impossible to open; and nothing follows the error of a     *)
(* canceled context or of the listing (walk.go:49-61, 79-88, 115-118).    *)
InOrderWithoutGaps ==
  /\ \A j, k \in SeenAs(YieldItem) : j < k => Before(Tail(seen[j]), Tail(seen[k]))
  /\ at \in Yields \ {"discoverErr"} =>
       \A l \in Layers : Before(l, Current) => Reported(l)
  /\ file \notin Files => \A l \in Layers : Reported(l)
  /\ \A k \in SeenAs("ctxErr") \cup SeenAs("discoverErr") : k = Len(seen)

(* A cancellation may come between a check of the context and what the     *)
(* check is for, in either of the two nested iterators.  Still, after it   *)
(* one thing at most is done of all these: a source opened or found        *)
(* impossible to open, a layer yielded, a feature read.  A late layer has  *)
(* no features any more and a late feature no layer after it (walk.go:     *)
(* 85-89, 115-121, layer.go:274-278).                                      *)
CancelStopsYields == late <= 1

(* At most one feature is held, only while the body looks at it, and never *)
(* longer than the source its layer belongs to is open: no feature is left *)
(* when the loop is over, short of a panic (layer.go:248-253, 277-282).    *)
FeaturesReleased ==
  /\ Cardinality(alive) <= 1
  /\ at # "panicked" =>
       \A f \in alive : f = <<Current, fid>> /\ turn = "feature" /\ open = {file}

(* The loop comes to an end. *)
WalkEnds == <>(at \in {"done", "panicked"})
-----------------------------------------------------------------------------
(* What docs and comments say and the code does not do *)

(* "Per-file CGo handles never leak", "Walk and PublishAll do this         *)
(* automatically (defer source.Destroy() per file)", "the still-yielded    *)
(* feature is destroyed when the for-range loop exits, regardless of why"  *)
(* (architecture.md:107, README.md:286, layer.go:251-253): a deferred      *)
(* Destroy would also run when the body panics.                            *)
NeverLeaks == at \in {"done", "panicked"} => open = {} /\ alive = {}

(* "Features returns an iterator over every feature in the layer"          *)
(* (layer.go:248): every feature has been read when the FIDs run out.      *)
EveryFeatureIsRead ==
  turn = "read" /\ fid >= FeatureCount(Current) =>
    \A i \in Fids[Current] : i < fid
=============================================================================
