--------------------------------- MODULE Walk ---------------------------------
(***************************************************************************)
(* Manager.Walk and walkLayers: the iter.Seq2 that opens one discovered    *)
(* file after the other and hands its layers to the body of a for-range    *)
(* loop.  Iterator and body take turns on one goroutine: `at` says whose   *)
(* turn it is and, when it is the body's, what was yielded.  The body      *)
(* answers with Resume, Break or Panic.  The module has no Next of its     *)
(* own: WalkCaller runs it with any body, PublishAll with its own.         *)
(***************************************************************************)
EXTENDS RunContext, Naturals, Sequences

CONSTANT LayerCount   (* LayerCount[f]: layers of the f-th discovered file *)

ASSUME LayerCountAssumption == LayerCount \in Seq(Nat)

Files == DOMAIN LayerCount
Layers == UNION {{<<f, i>> : i \in 1..LayerCount[f]} : f \in Files}

VARIABLES
  at,       (* where the iterator is *)
  file,     (* index of the current file *)
  layer,    (* index of the current layer in it, 1 before it is opened *)
  open      (* files whose *gdal.DataSource is open *)

walkVars == <<at, file, layer, open>>

YieldItem == "item"
YieldErrors == {"discoverErr", "ctxErr", "openErr"}
Yields == {YieldItem} \cup YieldErrors

(* Where the iterator is <<file, layer>>, the WalkItem it yields. *)
Current == <<file, layer>>

(* a comes before b: files-outer, layers-inner. *)
Before(a, b) == a[1] < b[1] \/ (a[1] = b[1] /\ a[2] < b[2])

WalkTypeOK ==
  /\ at \in {"discover", "file", "open", "layer", "lookup", "done", "panicked"} \cup Yields
  /\ file \in 1..(Len(LayerCount) + 1)
  /\ layer \in Nat \ {0}
  /\ open \subseteq Files

WalkInit ==
  /\ at = "discover"
  /\ file = 1
  /\ layer = 1
  /\ open = {}
-----------------------------------------------------------------------------
(* Mutants: bugs of the kind the properties are there to catch. *)

(* yield's false after an item leaves without the Destroy. *)
BreakWithoutDestroy ==
  /\ at \in Yields
  /\ at' = "done"
  /\ UNCHANGED <<file, layer, open>>

(* The Destroy is deferred to the end of the iterator, not of the file. *)
LayersExhaustedDeferred ==
  /\ at = "layer"
  /\ layer > LayerCount[file]
  /\ file' = file + 1
  /\ layer' = 1
  /\ at' = "file"
  /\ UNCHANGED <<ctxVars, open>>

(* The context is not looked at between the layers of a file. *)
CheckLayerSkipped ==
  /\ at = "layer"
  /\ layer <= LayerCount[file]
  /\ at' = "lookup"
  /\ UNCHANGED <<ctxVars, file, layer, open>>

(* The loop over the layers stops one short. *)
LayersExhaustedEarly ==
  /\ at = "layer"
  /\ layer >= LayerCount[file]
  /\ open' = open \ {file}
  /\ file' = file + 1
  /\ layer' = 1
  /\ at' = "file"
  /\ UNCHANGED ctxVars

(* The loop over the files goes one too far. *)
CheckFileUnbounded ==
  /\ at = "file"
  /\ ~canceled
  /\ at' = "open"
  /\ UNCHANGED <<ctxVars, file, layer, open>>

(* So does the loop over the layers. *)
CheckLayerPastEnd ==
  /\ at = "layer"
  /\ layer <= LayerCount[file] + 1
  /\ ~canceled
  /\ at' = "lookup"
  /\ UNCHANGED <<ctxVars, file, layer, open>>

(* A file that has been read to its end is opened again, not the next. *)
LayersExhaustedAgain ==
  /\ at = "layer"
  /\ layer > LayerCount[file]
  /\ open' = open \ {file}
  /\ at' = "file"
  /\ UNCHANGED <<ctxVars, file, layer>>
-----------------------------------------------------------------------------
(* getGISFiles(manager.Source.Path) lists the files, or fails as a whole. *)
Discover ==
  /\ at = "discover"
  /\ at' = "file"
  /\ UNCHANGED <<ctxVars, file, layer, open>>

DiscoverFails ==
  /\ at = "discover"
  /\ Disturb("source")
  /\ at' = "discoverErr"
  /\ UNCHANGED <<file, layer, open>>

FilesExhausted ==
  /\ at = "file"
  /\ file \notin Files
  /\ at' = "done"
  /\ UNCHANGED <<ctxVars, file, layer, open>>

(* ctx.Err() # nil before a file. *)
FileCanceled ==
  /\ at = "file"
  /\ file \in Files
  /\ canceled
  /\ at' = "ctxErr"
  /\ UNCHANGED <<ctxVars, file, layer, open>>

(* ctx.Err() = nil: whatever happens to the context now, the file is opened. *)
CheckFile ==
  /\ at = "file"
  /\ file \in Files
  /\ ~canceled
  /\ at' = "open"
  /\ UNCHANGED <<ctxVars, file, layer, open>>

OpenSource ==
  /\ at = "open"
  /\ open' = open \cup {file}
  /\ at' = "layer"
  /\ UNCHANGED <<ctxVars, file, layer>>

(* No driver for the path, or the driver cannot open it. *)
OpenFails ==
  /\ at = "open"
  /\ Disturb("source")
  /\ at' = "openErr"
  /\ UNCHANGED <<file, layer, open>>

(* walkLayers returns false: source.Destroy(), and on to the next file. *)
LayersExhausted ==
  /\ at = "layer"
  /\ layer > LayerCount[file]
  /\ open' = open \ {file}
  /\ file' = file + 1
  /\ layer' = 1
  /\ at' = "file"
  /\ UNCHANGED ctxVars

(* ctx.Err() # nil before a layer; the source is still open. *)
LayerCanceled ==
  /\ at = "layer"
  /\ layer <= LayerCount[file]
  /\ canceled
  /\ at' = "ctxErr"
  /\ UNCHANGED <<ctxVars, file, layer, open>>

(* ctx.Err() = nil: from here on the layer will be yielded. *)
CheckLayer ==
  /\ at = "layer"
  /\ layer <= LayerCount[file]
  /\ ~canceled
  /\ at' = "lookup"
  /\ UNCHANGED <<ctxVars, file, layer, open>>

(* LayerByIndex, NewLayer, yield. *)
YieldLayer ==
  /\ at = "lookup"
  /\ at' = "item"
  /\ UNCHANGED <<ctxVars, file, layer, open>>

Iterate ==
  \/ Discover
  \/ DiscoverFails
  \/ FilesExhausted
  \/ FileCanceled
  \/ CheckFile
  \/ OpenSource
  \/ OpenFails
  \/ LayersExhausted
  \/ LayerCanceled
  \/ CheckLayer
  \/ YieldLayer
-----------------------------------------------------------------------------
(* The body wants the next element: yield returns true. *)
Resume ==
  /\ at \in Yields
  /\ \/ /\ at = "item"
        /\ layer' = layer + 1
        /\ at' = "layer"
        /\ UNCHANGED <<file, open>>
     \/ /\ at = "openErr"
        /\ file' = file + 1
        /\ at' = "file"
        /\ UNCHANGED <<layer, open>>
     \/ /\ at \in {"discoverErr", "ctxErr"}
        /\ open' = open \ {file}
        /\ at' = "done"
        /\ UNCHANGED <<file, layer>>

(* The body leaves the loop: yield returns false, the source is destroyed. *)
Break ==
  /\ at \in Yields
  /\ open' = open \ {file}
  /\ at' = "done"
  /\ UNCHANGED <<file, layer>>

(* The body panics: the Destroy after walkLayers is not deferred. *)
Panic ==
  /\ at \in Yields
  /\ at' = "panicked"
  /\ UNCHANGED <<file, layer, open>>
=============================================================================
