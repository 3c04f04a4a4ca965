--------------------------- MODULE WalkCallerProofs ---------------------------
(***************************************************************************)
(* What a loop over Walk can rely on, for every list of files and whatever *)
(* the body of the loop does.                                              *)
(***************************************************************************)
EXTENDS WalkCaller, WalkProofs

(* The one feature that can be alive is the one the body holds. *)
FeaturesInv ==
  /\ FeaturesTypeOK
  /\ alive \subseteq {<<Current, fid>>}
  /\ alive # {} => turn = "feature"
  /\ turn # "idle" => at \in {"item", "panicked"}

CallerInv == WalkInv /\ CtxTypeOK /\ FeaturesInv

LEMMA CallerInit == Init => CallerInv
<1>1. SUFFICES ASSUME Init PROVE CallerInv
  OBVIOUS
<1>2. CtxTypeOK
  BY <1>1 DEF Init, CtxTypeOK
<1>3. WalkInv
  BY <1>1, LayerCounts DEF Init, WalkInit, WalkInv, WalkTypeOK
<1>4. FeaturesInv
  BY <1>1 DEF Init, FeaturesInit, FeaturesInv, FeaturesTypeOK
<1>5. QED
  BY <1>2, <1>3, <1>4 DEF CallerInv

(* The inner loop: a feature is added when none is there, and the one that *)
(* is there is removed before the next.                                    *)
LEMMA InnerStep ==
  ASSUME CallerInv, InnerLoop
  PROVE  CallerInv'
<1> USE DEF CallerInv
<1>1. Current \in DOMAIN Fids
  BY LayersMembers, LayerCounts, FidsOfLayers
     DEF InnerLoop, WalkInv, WalkTypeOK, Current
<1>2. WalkInv' /\ Current' = Current /\ at = "item" /\ at' = "item"
  BY DEF InnerLoop, walkVars, WalkInv, WalkTypeOK, Current
<1>3. CtxTypeOK' /\ FeaturesInv'
  <2> USE <1>1, <1>2 DEF FeaturesInv, FeaturesTypeOK, CtxTypeOK, ctxVars
  <2>1. CASE StartFeatures
    BY <2>1 DEF StartFeatures
  <2>2. CASE CountFeatures
    BY <2>2 DEF CountFeatures
  <2>3. CASE CountFails
    BY <2>3 DEF CountFails, Disturb
  <2>4. CASE FeaturesEnd(Current)
    BY <2>4 DEF FeaturesEnd
  <2>5. CASE CheckFeature(Current)
    BY <2>5 DEF CheckFeature
  <2>6. CASE ReadFeature(Current)
    BY <2>6 DEF ReadFeature
  <2>7. CASE ResumeFeatures(Current) /\ UNCHANGED ctxVars
    BY <2>7 DEF ResumeFeatures
  <2>8. CASE BreakFeatures(Current) /\ UNCHANGED ctxVars
    BY <2>8 DEF BreakFeatures
  <2>9. QED
    BY <2>1, <2>2, <2>3, <2>4, <2>5, <2>6, <2>7, <2>8 DEF InnerLoop, IterateFeatures
<1>4. QED
  BY <1>2, <1>3

(* Outside the inner loop no feature is alive, so the walk may go on. *)
LEMMA LeaveBodyStep ==
  ASSUME CallerInv, LeaveBody
  PROVE  CallerInv'
<1> USE DEF CallerInv
<1>1. WalkInv' /\ CtxTypeOK'
  BY ResumeStep, LeaveStep DEF LeaveBody, CtxTypeOK, ctxVars
<1>2. FeaturesInv'
  BY DEF LeaveBody, FeaturesInv, FeaturesTypeOK
<1>3. QED
  BY <1>1, <1>2

LEMMA PanicStep ==
  ASSUME CallerInv, PanicInBody
  PROVE  CallerInv'
<1> USE DEF CallerInv
<1>1. WalkInv' /\ CtxTypeOK'
  BY LeaveStep DEF PanicInBody, CtxTypeOK, ctxVars
<1>2. FeaturesInv'
  BY DEF PanicInBody, Panic, FeaturesInv, FeaturesTypeOK, featureVars, Current
<1>3. QED
  BY <1>1, <1>2

LEMMA CallerNext == CallerInv /\ [Next]_vars => CallerInv'
<1>1. SUFFICES ASSUME CallerInv, [Next]_vars PROVE CallerInv'
  OBVIOUS
<1> USE <1>1 DEF CallerInv
<1>2. CASE Iterator
  <2>1. WalkInv' /\ CtxTypeOK' /\ at \notin {"item", "panicked"}
    BY <1>2, IterateStep DEF Iterator, Yields, YieldItem
  <2>2. turn = "idle" /\ alive = {} /\ UNCHANGED featureVars
    BY <1>2, <2>1 DEF Iterator, FeaturesInv
  <2>3. FeaturesInv'
    BY <2>2 DEF FeaturesInv, FeaturesTypeOK, featureVars
  <2>4. QED
    BY <2>1, <2>3
<1>3. CASE Body
  BY <1>3, InnerStep, LeaveBodyStep, PanicStep DEF Body
<1>4. CASE Environment
  BY <1>4 DEF Environment, Cancel, WalkInv, WalkTypeOK, CtxTypeOK, walkVars,
     featureVars, FeaturesInv, FeaturesTypeOK, Current
<1>5. CASE UNCHANGED vars
  BY <1>5 DEF vars, ctxVars, walkVars, featureVars, WalkInv, WalkTypeOK, CtxTypeOK,
     FeaturesInv, FeaturesTypeOK, Current
<1>6. QED
  BY <1>2, <1>3, <1>4, <1>5 DEF Next, Finished

LEMMA CallerInvariant == FairSpec => []CallerInv
BY CallerInit, CallerNext, PTL DEF FairSpec

(* For every list of files and every loop body, Walk has at most one source *)
(* open and none once the loop is over (walk.go:53-57, 96-103).             *)
THEOREM WalkReleasesSources == FairSpec => []SourcesReleased
<1>1. CallerInv => SourcesReleased
  <2>1. SUFFICES ASSUME CallerInv PROVE SourcesReleased
    OBVIOUS
  <2>2. open \subseteq {file}
    BY <2>1 DEF CallerInv, WalkInv, WalkTypeOK, Yields, YieldItem, YieldErrors
  <2>3. Cardinality(open) <= 1
    BY <2>2, SubsetOfOne
  <2>4. QED
    BY <2>1, <2>3 DEF CallerInv, WalkInv, SourcesReleased
<1>2. QED
  BY <1>1, CallerInvariant, PTL

(* The layer a body is given belongs to the source that is open. *)
THEOREM WalkYieldsUsableLayers == FairSpec => []YieldedLayerIsUsable
<1>1. CallerInv => YieldedLayerIsUsable
  BY LayersMembers, LayerCounts
     DEF CallerInv, WalkInv, WalkTypeOK, YieldedLayerIsUsable, Current
<1>2. QED
  BY <1>1, CallerInvariant, PTL

(* No feature outlives the body that looks at it, nor the source of its    *)
(* layer, whatever the features' numbers are.                              *)
THEOREM FeaturesAreReleased == FairSpec => []FeaturesReleased
<1>1. CallerInv => FeaturesReleased
  <2>1. SUFFICES ASSUME CallerInv PROVE FeaturesReleased
    OBVIOUS
  <2>2. Cardinality(alive) <= 1
    BY <2>1, SubsetOfOne DEF CallerInv, FeaturesInv
  <2>3. ASSUME at # "panicked", NEW f \in alive
        PROVE  f = <<Current, fid>> /\ turn = "feature" /\ open = {file}
    BY <2>1, <2>3 DEF CallerInv, FeaturesInv, WalkInv
  <2>4. QED
    BY <2>2, <2>3 DEF FeaturesReleased
<1>2. QED
  BY <1>1, CallerInvariant, PTL
-----------------------------------------------------------------------------
(* What Walk has yielded *)

LayerOf(k) == <<seen[k][2], seen[k][3]>>

(* The layers seen are in order and behind the iterator, and so is every    *)
(* layer that was skipped; an error that ends the walk was the last.        *)
OrderedInv ==
  \A j, k \in SeenAs("item") : j < k => Before(LayerOf(j), LayerOf(k))

BehindInv ==
  \A k \in SeenAs("item") :
    \/ Before(LayerOf(k), Current)
    \/ LayerOf(k) = Current /\ at \in {"item", "done", "panicked"}

ReportedInv ==
  /\ \A l \in Layers : Before(l, Current) => Reported(l)
  /\ at = "item" => Current \in SeenLayers
  /\ at = "openErr" => file \in SkippedFiles

LastInv ==
  \A k \in SeenAs("ctxErr") \cup SeenAs("discoverErr") :
    k = Len(seen) /\ at \in {"ctxErr", "discoverErr", "done", "panicked"}

SeenInv ==
  /\ seen \in Seq(Yields \X Nat \X Nat)
  /\ OrderedInv
  /\ BehindInv
  /\ ReportedInv
  /\ LastInv

LEMMA TailOfTriple ==
  ASSUME NEW a, NEW b, NEW c
  PROVE  Tail(<<a, b, c>>) = <<b, c>>
OBVIOUS

LEMMA SeenYields ==
  ASSUME SeenInv, NEW k \in DOMAIN seen
  PROVE  /\ seen[k] = <<seen[k][1], seen[k][2], seen[k][3]>>
         /\ seen[k][1] \in Yields /\ seen[k][2] \in Nat /\ seen[k][3] \in Nat
         /\ Tail(seen[k]) = LayerOf(k)
         /\ k \in 1..Len(seen)
<1>1. /\ seen[k] = <<seen[k][1], seen[k][2], seen[k][3]>>
      /\ seen[k][1] \in Yields /\ seen[k][2] \in Nat /\ seen[k][3] \in Nat
      /\ k \in 1..Len(seen)
  BY DEF SeenInv
<1>2. Tail(seen[k]) = LayerOf(k)
  <2>1. PICK a, b, c : seen[k] = <<a, b, c>>
    BY <1>1
  <2>2. Tail(seen[k]) = <<b, c>>
    BY <2>1, TailOfTriple, Zenon
  <2>3. LayerOf(k) = <<b, c>>
    BY <2>1 DEF LayerOf
  <2>4. QED
    BY <2>2, <2>3
<1>3. QED
  BY <1>1, <1>2

LEMMA SeenInit == Init => SeenInv
<1>1. SUFFICES ASSUME Init PROVE SeenInv
  OBVIOUS
<1>2. seen = <<>> /\ at = "discover" /\ Current = <<1, 1>>
  BY <1>1 DEF Init, WalkInit, Current
<1>3. DOMAIN seen = {}
  BY <1>2
<1>4. \A l \in Layers : ~Before(l, Current)
  BY <1>2, LayersMembers, LayersArePairs, LayerCounts DEF Before
<1>5. QED
  BY <1>2, <1>3, <1>4
     DEF SeenInv, OrderedInv, BehindInv, ReportedInv, LastInv, SeenAs

(* Nothing is yielded, and the iterator stays or has nothing to go past. *)
LEMMA SeenKeeps ==
  ASSUME SeenInv, UNCHANGED seen,
         \A l \in Nat \X Nat : Before(l, Current) => Before(l, Current'),
         \A l \in Layers : Before(l, Current') => Before(l, Current) \/ Reported(l),
         at \in {"item", "done", "panicked"} =>
           \/ Before(Current, Current')
           \/ Current' = Current /\ at' \in {"item", "done", "panicked"},
         at' = "item" => at = "item" /\ Current' = Current,
         at' = "openErr" => at = "openErr" /\ Current' = Current,
         at \in {"ctxErr", "discoverErr", "done", "panicked"} =>
           at' \in {"ctxErr", "discoverErr", "done", "panicked"}
  PROVE  SeenInv'
<1>1. \A kind : SeenAs(kind)' = SeenAs(kind)
  BY DEF SeenAs
<1>2. OrderedInv'
  BY <1>1 DEF SeenInv, OrderedInv, LayerOf, Before
<1>3. BehindInv'
  <2>1. SUFFICES ASSUME NEW k \in SeenAs("item")
                 PROVE  \/ Before(LayerOf(k), Current')
                        \/ LayerOf(k) = Current' /\ at' \in {"item", "done", "panicked"}
    BY <1>1 DEF BehindInv, LayerOf, Before
  <2>2. LayerOf(k) \in Nat \X Nat
    BY SeenYields DEF SeenAs, LayerOf
  <2>3. QED
    BY <2>2 DEF SeenInv, BehindInv
<1>4. ReportedInv'
  <2>1. SeenLayers' = SeenLayers /\ SkippedFiles' = SkippedFiles
    BY <1>1 DEF SeenLayers, SkippedFiles
  <2>2. \A l \in Layers : Reported(l)' <=> Reported(l)
    BY <2>1 DEF Reported
  <2>3. QED
    BY <2>1, <2>2 DEF SeenInv, ReportedInv, Before, Current
<1>5. LastInv'
  BY <1>1 DEF SeenInv, LastInv
<1>6. QED
  BY <1>2, <1>3, <1>4, <1>5 DEF SeenInv

(* The iterator never goes back, the body's answer neither. *)
LEMMA IterateForward ==
  ASSUME WalkInv, Iterate
  PROVE  \A l \in Nat \X Nat : Before(l, Current) => Before(l, Current')
BY LayerCounts DEF WalkInv, WalkTypeOK, Iterate, Discover, DiscoverFails, FilesExhausted,
   FileCanceled, CheckFile, OpenSource, OpenFails, LayersExhausted, LayerCanceled, CheckLayer,
   YieldLayer, Before, Current

LEMMA ResumeForward ==
  ASSUME WalkInv, Resume
  PROVE  \A l \in Nat \X Nat : Before(l, Current) => Before(l, Current')
BY LayerCounts DEF WalkInv, WalkTypeOK, Resume, Before, Current

(* The iterator yields: everything seen before is behind it. *)
LEMMA SeenGrows ==
  ASSUME SeenInv, CallerInv, Iterator, at' \in Yields
  PROVE  SeenInv'
<1>1. /\ Current' = Current
      /\ at \notin {"item", "done", "panicked"} \cup Yields
      /\ file' = file /\ layer' = layer /\ file \in Nat /\ layer \in Nat
  BY IterateStep, IterateReach, LayerCounts
     DEF Iterator, CallerInv, WalkInv, WalkTypeOK, Yields, YieldItem, Current
<1>2. seen \in Seq(Yields \X Nat \X Nat) /\ seen' = Append(seen, <<at', file, layer>>)
  BY <1>1 DEF Iterator, SeenInv
<1>0. PICK n, kind0 : n = Len(seen) + 1 /\ kind0 = at'
  OBVIOUS
<1>3. /\ n \in Nat /\ Len(seen') = n /\ DOMAIN seen' = DOMAIN seen \cup {n}
      /\ DOMAIN seen = 1..Len(seen) /\ n \notin DOMAIN seen
      /\ \A k \in DOMAIN seen : seen'[k] = seen[k]
      /\ seen'[n] = <<at', file, layer>>
      /\ seen' \in Seq(Yields \X Nat \X Nat)
  BY <1>0, <1>1, <1>2
<1>4. /\ \A k \in DOMAIN seen : LayerOf(k)' = LayerOf(k)
      /\ LayerOf(n)' = Current
  BY <1>3 DEF LayerOf, Current
<1>5. /\ \A kind : \A k \in SeenAs(kind)' : k \in SeenAs(kind) \/ (k = n /\ kind = kind0)
      /\ \A kind : SeenAs(kind) \subseteq SeenAs(kind)'
      /\ n \in SeenAs(kind0)'
  BY <1>0, <1>3 DEF SeenAs
<1>6. \A kind : SeenAs(kind) \subseteq DOMAIN seen
  BY DEF SeenAs
<1>7. \A k \in SeenAs("item") : Before(LayerOf(k), Current)
  BY <1>1 DEF SeenInv, BehindInv
<1>8. OrderedInv'
  <2>1. SUFFICES ASSUME NEW j \in SeenAs("item")', NEW k \in SeenAs("item")', j < k
                 PROVE  Before(LayerOf(j)', LayerOf(k)')
    BY DEF OrderedInv, Before
  <2>2. j \in SeenAs("item")
    BY <1>3, <1>5, <1>6, <2>1
  <2>3. CASE k \in SeenAs("item")
    BY <1>4, <1>6, <2>1, <2>2, <2>3 DEF SeenInv, OrderedInv
  <2>4. CASE k = n
    BY <1>4, <1>6, <1>7, <2>2, <2>4
  <2>5. QED
    BY <1>5, <2>3, <2>4
<1>9. BehindInv'
  BY <1>0, <1>1, <1>4, <1>5, <1>6, <1>7 DEF BehindInv, Before
<1>10. ReportedInv'
  <2>1. SeenLayers \subseteq SeenLayers' /\ (at' = "item" => Current \in SeenLayers')
    <3>1. \A k \in DOMAIN seen : Tail(seen'[k]) = Tail(seen[k])
      BY <1>3
    <3>2. Tail(seen'[n]) = Current
      BY <1>3, TailOfTriple DEF Current
    <3>3. QED
      BY <1>0, <1>5, <1>6, <3>1, <3>2 DEF SeenLayers, YieldItem
  <2>2. SkippedFiles \subseteq SkippedFiles' /\ (at' = "openErr" => file \in SkippedFiles')
    <3>1. (\A k \in DOMAIN seen : seen'[k][2] = seen[k][2]) /\ seen'[n][2] = file
      BY <1>3
    <3>2. QED
      BY <1>0, <1>5, <1>6, <3>1 DEF SkippedFiles
  <2>3. \A l \in Layers : Reported(l) => Reported(l)'
    BY <2>1, <2>2 DEF Reported
  <2>4. QED
    BY <1>1, <2>1, <2>2, <2>3 DEF SeenInv, ReportedInv, Before
<1>11. LastInv'
  <2>1. SeenAs("ctxErr") = {} /\ SeenAs("discoverErr") = {}
    BY <1>1 DEF SeenInv, LastInv, Yields, YieldErrors
  <2>2. QED
    BY <1>0, <1>3, <1>5, <2>1 DEF LastInv
<1>12. QED
  BY <1>3, <1>8, <1>9, <1>10, <1>11 DEF SeenInv

LEMMA SeenNext == CallerInv /\ SeenInv /\ [Next]_vars => SeenInv'
<1>1. SUFFICES ASSUME CallerInv, SeenInv, [Next]_vars PROVE SeenInv'
  OBVIOUS
<1>2. WalkInv /\ CtxTypeOK /\ Current \in Nat \X Nat
  BY <1>1, LayerCounts DEF CallerInv, WalkInv, WalkTypeOK, Current
<1>3. CASE Iterator
  <2>1. CASE at' \in Yields
    BY <1>1, <1>3, <2>1, SeenGrows
  <2>2. CASE at' \notin Yields
    <3>1. Iterate /\ UNCHANGED seen
      BY <1>3, <2>2 DEF Iterator
    <3>2. /\ \A l \in Nat \X Nat : Before(l, Current) => Before(l, Current')
          /\ at \notin {"item", "done", "panicked", "ctxErr", "discoverErr"}
          /\ at' \notin {"item", "openErr"}
      BY <1>2, <2>2, <3>1, IterateForward, IterateStep DEF Yields, YieldItem, YieldErrors
    <3>3. \A l \in Layers : Before(l, Current') => Before(l, Current)
      BY <1>2, <3>1, IterateReach
    <3>4. QED
      BY <1>1, <3>1, <3>2, <3>3, SeenKeeps
  <2>3. QED
    BY <2>1, <2>2
<1>4. CASE LeaveBody /\ Resume
  <2>1. UNCHANGED seen /\ \A l \in Nat \X Nat : Before(l, Current) => Before(l, Current')
    BY <1>2, <1>4, ResumeForward DEF LeaveBody, historyVars
  <2>2. \A l \in Layers : Before(l, Current') => Before(l, Current) \/ Reported(l)
    BY <1>1, <1>2, <1>4, ResumeReach DEF SeenInv, ReportedInv, Reported, Resume, Yields,
       YieldItem, YieldErrors
  <2>3. at = "item" => Before(Current, Current')
    BY <1>2, <1>4, ResumeStep
  <2>4. /\ at \in Yields /\ at' \in {"layer", "file", "done"}
        /\ at \in {"ctxErr", "discoverErr"} => at' = "done"
    BY <1>4 DEF Resume
  <2>5. QED
    BY <1>1, <2>1, <2>2, <2>3, <2>4, SeenKeeps DEF Yields, YieldItem, YieldErrors
<1>5. CASE (LeaveBody /\ Break) \/ PanicInBody
  <2>1. UNCHANGED <<seen, Current>> /\ at' \in {"done", "panicked"}
    BY <1>5 DEF LeaveBody, Break, PanicInBody, Panic, Current, historyVars
  <2>2. QED
    BY <1>1, <2>1, SeenKeeps
<1>6. CASE InnerLoop \/ Environment \/ UNCHANGED vars
  <2>1. UNCHANGED <<seen, at, Current>>
    BY <1>6 DEF InnerLoop, Environment, vars, walkVars, Current, historyVars
  <2>2. QED
    BY <1>1, <2>1, SeenKeeps
<1>7. QED
  BY <1>1, <1>3, <1>4, <1>5, <1>6 DEF Next, Body, LeaveBody, Finished

LEMMA SeenInvariant == FairSpec => [](CallerInv /\ SeenInv)
<1>1. CallerInv /\ SeenInv /\ [Next]_vars => (CallerInv /\ SeenInv)'
  BY CallerNext, SeenNext
<1>2. QED
  BY <1>1, CallerInit, SeenInit, PTL DEF FairSpec

(* Past a check of the context, before what the check is for.              *)
Checked == at \in {"open", "lookup"} \/ turn = "fetch"

(* What is done late was checked in time; nothing is checked after it.     *)
LateInv ==
  /\ late \in Nat
  /\ late > 0 => late = 1 /\ canceled /\ ~Checked

(* Something is done for the body at the end of a check, and a check ends   *)
(* well on a context that is not canceled.                                  *)
DoneOrChecked(done) ==
  /\ done => Checked /\ ~Checked'
  /\ Checked' => Checked \/ ~canceled
  /\ canceled => canceled'

LEMMA LateCount ==
  ASSUME LateInv, NEW done \in BOOLEAN, CountIfLate(done), DoneOrChecked(done)
  PROVE  LateInv'
<1>1. CASE canceled /\ done
  <2>1. late = 0 /\ late' = 1 /\ canceled' /\ ~Checked'
    BY <1>1 DEF LateInv, CountIfLate, DoneOrChecked
  <2>2. QED
    BY <2>1 DEF LateInv
<1>2. CASE ~(canceled /\ done)
  <2>1. late' = late
    BY <1>2 DEF CountIfLate
  <2>2. QED
    BY <2>1 DEF LateInv, DoneOrChecked
<1>3. QED
  BY <1>1, <1>2

LEMMA LateNext == CallerInv /\ LateInv /\ [Next]_vars => LateInv'
<1>1. SUFFICES ASSUME CallerInv, LateInv, [Next]_vars PROVE LateInv'
  OBVIOUS
<1>2. CASE Iterator
  <2> DEFINE done == ~(open' \subseteq open) \/ at' \in {"openErr", YieldItem}
  <2>1. turn' = turn /\ turn = "idle"
    <3>1. at \notin {"item", "panicked"}
      BY <1>1, <1>2, IterateStep DEF Iterator, CallerInv, Yields, YieldItem
    <3>2. QED
      BY <1>1, <1>2, <3>1 DEF Iterator, featureVars, CallerInv, FeaturesInv
  <2>2. /\ done => at \in {"open", "lookup"} /\ at' \notin {"open", "lookup"}
        /\ at' \in {"open", "lookup"} => ~canceled
        /\ canceled => canceled'
    BY <1>2 DEF Iterator, Iterate, Discover, DiscoverFails, FilesExhausted, FileCanceled,
       CheckFile, OpenSource, OpenFails, LayersExhausted, LayerCanceled, CheckLayer, YieldLayer,
       YieldItem, Disturb, ctxVars
  <2>3. DoneOrChecked(done)
    BY <2>1, <2>2 DEF DoneOrChecked, Checked
  <2>4. QED
    BY <1>1, <1>2, <2>3, LateCount DEF Iterator
<1>3. CASE InnerLoop
  <2>1. at = "item" /\ at' = "item"
    BY <1>3 DEF InnerLoop, walkVars
  <2>2. /\ turn' = "feature" => turn = "fetch"
        /\ turn' = "fetch" => ~canceled
        /\ canceled => canceled'
    BY <1>3 DEF InnerLoop, StartFeatures, IterateFeatures, CountFeatures, CountFails, FeaturesEnd,
       CheckFeature, ReadFeature, ResumeFeatures, BreakFeatures, Disturb, ctxVars
  <2>3. DoneOrChecked(turn' = "feature")
    BY <2>1, <2>2 DEF DoneOrChecked, Checked
  <2>4. QED
    BY <1>1, <1>3, <2>3, LateCount DEF InnerLoop
<1>4. CASE LeaveBody \/ PanicInBody \/ Environment \/ UNCHANGED vars
  <2>1. late' = late /\ (canceled => canceled') /\ (Checked' => Checked)
    BY <1>4 DEF LeaveBody, Resume, Break, PanicInBody, Panic, Environment, Cancel, Checked,
       vars, historyVars, ctxVars, walkVars, featureVars
  <2>2. QED
    BY <1>1, <2>1 DEF LateInv
<1>5. QED
  BY <1>1, <1>2, <1>3, <1>4 DEF Next, Body, Finished

LEMMA LateInvariant == FairSpec => []LateInv
<1>1. Init => LateInv
  BY DEF Init, LateInv
<1>2. CallerInv /\ LateInv /\ [Next]_vars => LateInv'
  BY LateNext
<1>3. QED
  BY <1>1, <1>2, CallerInvariant, PTL DEF FairSpec

(* After a cancellation, which may come between a check of the context and *)
(* what the check is for, one thing at most is still done for the body: a   *)
(* source opened or found impossible to open, a layer yielded or a feature  *)
(* read (walk.go:85-89, 115-121, layer.go:274-278), for every list of files *)
(* and layers and whatever the body does.                                   *)
THEOREM CancellationStopsYields == FairSpec => []CancelStopsYields
<1>1. LateInv => CancelStopsYields
  BY DEF LateInv, CancelStopsYields
<1>2. QED
  BY <1>1, LateInvariant, PTL

(* Every variable stays in its range, the history too. *)
THEOREM WalkCallerTypeOK == FairSpec => []TypeOK
<1>1. CallerInv /\ SeenInv /\ LateInv => TypeOK
  BY DEF CallerInv, WalkInv, FeaturesInv, SeenInv, LateInv, TypeOK
<1>2. QED
  BY <1>1, SeenInvariant, LateInvariant, PTL

(* Whatever the body of the loop does, Walk hands out the layers in order,  *)
(* none twice and none left out, and says nothing after the error that ends *)
(* it (walk.go:49-61, 79-88, 115-118), for every list of files.             *)
THEOREM WalkIsInOrder == FairSpec => []InOrderWithoutGaps
<1>1. CallerInv /\ SeenInv => InOrderWithoutGaps
  <2>1. SUFFICES ASSUME CallerInv, SeenInv PROVE InOrderWithoutGaps
    OBVIOUS
  <2>2. \A j, k \in SeenAs("item") : j < k => Before(Tail(seen[j]), Tail(seen[k]))
    BY <2>1, SeenYields DEF SeenInv, OrderedInv, SeenAs
  <2>3. \A l \in Layers : file \notin Files => Before(l, Current)
    BY <2>1, LayerCounts, LayersMembers, LayersArePairs
       DEF CallerInv, WalkInv, WalkTypeOK, Before, Current
  <2>4. QED
    BY <2>1, <2>2, <2>3
       DEF InOrderWithoutGaps, SeenInv, ReportedInv, LastInv, Yields, YieldItem
<1>2. QED
  BY <1>1, SeenInvariant, PTL
=============================================================================
