------------------------------ MODULE WalkProofs ------------------------------
(***************************************************************************)
(* Lemmas about one step of the iterator, or of the loop body's answer,    *)
(* for the modules that run Walk.                                          *)
(***************************************************************************)
EXTENDS Walk, FiniteSets, FiniteSetTheorems, TLAPS

(* The source that is open, and the file and layer the iterator is at, as  *)
(* `at` determines them.                                                   *)
WalkInv ==
  /\ WalkTypeOK
  /\ at \in {"layer", "lookup", "item"} => file \in Files /\ open = {file}
  /\ at \in {"lookup", "item"} => layer <= LayerCount[file]
  /\ at \in {"open", "openErr"} => file \in Files
  /\ at \in {"ctxErr", "panicked"} => open \subseteq {file}
  /\ at \in {"discover", "file", "open", "done", "discoverErr", "openErr"} => open = {}
  /\ at \in {"discover", "discoverErr"} => file = 1
  /\ at \in {"discover", "discoverErr", "file", "open", "openErr"} => layer = 1

LEMMA LayerCounts ==
  /\ Len(LayerCount) \in Nat
  /\ Files = 1..Len(LayerCount)
  /\ \A f \in Files : LayerCount[f] \in Nat
BY LayerCountAssumption DEF Files

LEMMA LayersMembers ==
  \A f, i : <<f, i>> \in Layers <=> f \in Files /\ i \in 1..LayerCount[f]
BY DEF Layers

LEMMA LayersArePairs == \A l \in Layers : l \in Nat \X Nat /\ l = <<l[1], l[2]>>
BY LayerCounts DEF Layers

(* A step of the iterator keeps the invariant and never goes back. *)
LEMMA IterateStep ==
  ASSUME WalkInv, CtxTypeOK, Iterate
  PROVE  /\ WalkInv'
         /\ \A l \in Layers : Before(l, Current) => Before(l, Current')
         /\ canceled' = canceled
         /\ CtxTypeOK'
         /\ trouble => trouble'
         /\ at \notin {"done", "panicked"} \cup Yields
         /\ at' # "panicked"
         /\ at' = "item" => at = "lookup"
         /\ at' \in {"open", "lookup"} => ~canceled
<1> USE LayerCounts, LayersArePairs
    DEF WalkInv, WalkTypeOK, CtxTypeOK, Yields, YieldItem, YieldErrors, Current,
        Before, ctxVars
<1>1. CASE Discover
  BY <1>1 DEF Discover
<1>2. CASE DiscoverFails
  BY <1>2 DEF DiscoverFails, Disturb
<1>3. CASE FilesExhausted
  BY <1>3 DEF FilesExhausted
<1>4. CASE FileCanceled
  BY <1>4 DEF FileCanceled
<1>5. CASE OpenSource
  BY <1>5 DEF OpenSource
<1>6. CASE OpenFails
  BY <1>6 DEF OpenFails, Disturb
<1>7. CASE LayersExhausted
  BY <1>7 DEF LayersExhausted
<1>8. CASE LayerCanceled
  BY <1>8 DEF LayerCanceled
<1>9. CASE YieldLayer
  BY <1>9 DEF YieldLayer
<1>10. CASE CheckFile
  BY <1>10 DEF CheckFile
<1>11. CASE CheckLayer
  BY <1>11 DEF CheckLayer
<1>12. QED
  BY <1>1, <1>2, <1>3, <1>4, <1>5, <1>6, <1>7, <1>8, <1>9, <1>10, <1>11 DEF Iterate

(* So does the body's wish for the next element, and it goes on past the   *)
(* layer the body was given.                                               *)
LEMMA ResumeStep ==
  ASSUME WalkInv, Resume
  PROVE  /\ WalkInv'
         /\ \A l \in Layers : Before(l, Current) => Before(l, Current')
         /\ at = "item" => Before(Current, Current') /\ Current \in Layers
         /\ at' \in {"layer", "file", "done"}
<1> USE LayerCounts, LayersArePairs
    DEF WalkInv, WalkTypeOK, Yields, YieldItem, YieldErrors, Current, Before
<1>1. CASE at = "item"
  BY <1>1, LayersMembers DEF Resume
<1>2. CASE at = "openErr"
  BY <1>2 DEF Resume
<1>3. CASE at \in {"discoverErr", "ctxErr"}
  BY <1>3 DEF Resume
<1>4. QED
  BY <1>1, <1>2, <1>3 DEF Resume

(* Where a step of the iterator leaves the layers it has gone past: the     *)
(* same, and all of them when there is no file left.                        *)
LEMMA IterateReach ==
  ASSUME WalkInv, Iterate
  PROVE  /\ \A l \in Layers : Before(l, Current') => Before(l, Current)
         /\ at' = "done" => \A l \in Layers : Before(l, Current)
         /\ file <= file'
         /\ at' \in Yields \cup {"done"} => Current' = Current
<1> USE LayerCounts, LayersArePairs, LayersMembers
    DEF WalkInv, WalkTypeOK, Yields, YieldItem, YieldErrors, Current, Before
<1>1. CASE FilesExhausted
  BY <1>1 DEF FilesExhausted
<1>2. CASE LayersExhausted
  <2>1. \A l \in Layers : l[1] \in Files /\ l[1] \in Nat /\ l[2] \in 1..LayerCount[l[1]]
    OBVIOUS
  <2>2. file' = file + 1 /\ layer' = 1 /\ at' = "file" /\ layer > LayerCount[file]
    BY <1>2 DEF LayersExhausted
  <2>3. \A l \in Layers : Before(l, Current') => Before(l, Current)
    BY <2>1, <2>2
  <2>4. QED
    BY <2>2, <2>3
<1>3. CASE Discover \/ DiscoverFails \/ FileCanceled
  BY <1>3 DEF Discover, DiscoverFails, FileCanceled
<1>4. CASE CheckFile \/ OpenSource \/ OpenFails
  BY <1>4 DEF CheckFile, OpenSource, OpenFails
<1>5. CASE LayerCanceled \/ CheckLayer \/ YieldLayer
  BY <1>5 DEF LayerCanceled, CheckLayer, YieldLayer
<1>6. QED
  BY <1>1, <1>2, <1>3, <1>4, <1>5 DEF Iterate

(* What the wish for the next element goes past: the layer yielded, or the  *)
(* file that was not opened, or nothing when the walk is over.              *)
LEMMA ResumeReach ==
  ASSUME WalkInv, Resume
  PROVE  /\ at = "item" =>
              at' = "layer" /\ \A l \in Layers : Before(l, Current') <=> Before(l, Current) \/ l = Current
         /\ at = "openErr" =>
              at' = "file" /\ \A l \in Layers : Before(l, Current') <=> Before(l, Current) \/ l[1] = file
         /\ at \in {"ctxErr", "discoverErr"} => at' = "done" /\ Current' = Current
         /\ file <= file'
         /\ at = "openErr" => file' = file + 1
<1> USE LayerCounts, LayersArePairs, LayersMembers
    DEF WalkInv, WalkTypeOK, Yields, YieldItem, YieldErrors, Current, Before
<1>1. CASE at = "item"
  BY <1>1 DEF Resume
<1>2. CASE at = "openErr"
  <2>1. \A l \in Layers : l[1] \in Nat /\ l[2] \in Nat \ {0}
    OBVIOUS
  <2>2. file' = file + 1 /\ layer' = 1 /\ layer = 1 /\ at' = "file"
    BY <1>2 DEF Resume
  <2>3. QED
    BY <1>2, <2>1, <2>2
<1>3. CASE at \in {"discoverErr", "ctxErr"}
  BY <1>3 DEF Resume
<1>4. QED
  BY <1>1, <1>2, <1>3 DEF Resume

(* The body leaves the loop, or panics. *)
LEMMA LeaveStep ==
  ASSUME WalkInv, Break \/ Panic
  PROVE  WalkInv'
BY DEF WalkInv, WalkTypeOK, Yields, YieldItem, YieldErrors, Break, Panic

LEMMA SubsetOfOne ==
  ASSUME NEW S, NEW x, S \subseteq {x}
  PROVE  Cardinality(S) <= 1
<1>1. CASE S = {}
  BY <1>1, FS_EmptySet
<1>2. CASE S = {x}
  BY <1>2, FS_Singleton
<1>3. QED
  BY <1>1, <1>2
=============================================================================
