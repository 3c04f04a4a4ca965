# gismanager in TLA+

gismanager loads geospatial files into PostGIS and publishes the tables in
GeoServer.  These modules specify what its Go code does where it is hard to
test: the worker pool of `PublishAll`, concurrent publishing against one
GeoServer catalog, the iterators that own the GDAL handles, the search for data
files in nested zip bundles, the conversion calls, and the way of a command from
its configuration file to its exit status.  TLC checks small
instances, and TLAPS proves every safety property of the passing runs for every
number of files, layers, names, workers, options and requests, every tree of
directories and bundles and every configuration file, and that PublishAll keeps the
contract its callers are promised.  Liveness is left to TLC.

    tlc -workers 2 -config MCPublishAll.cfg MCPublishAll
    tlapm PublishAllProofs.tla

`PROJECT.json` maps every definition to the lines it stands for, and lists the
runs, a mutant for every property, the findings, the hazards and the theorems.

## The system

| part | state it keeps | operations | hard behaviour |
|---|---|---|---|
| `Manager.PublishAll` (publish/walk.go) | the PostGIS target, the semaphore, the WaitGroup, the collected errors | open, warm up, walk, load, dispatch, wait, join | a producer and N workers share the error slice, the tokens and GDAL; partial failure; cancellation |
| `Layer.LayerToPostgis` (publish/layer.go) | tables of the target, GDAL layer objects | ping, `CopyLayer` with OVERWRITE=YES | overwriting frees objects other handles point to; a failed copy gives a null layer and no error |
| `Manager.PublishGeoserverLayer`, `ensureWorkspace`, `ensureDatastore` (publish/layer.go) | none of its own; workspace, datastore, feature types in GeoServer | Get, then Create if not found | races between Get and Create, lost answers, rivals, repeats |
| `Manager.Walk`, `walkLayers`, `OpenSource` (publish/walk.go, manager.go) | position, the open source | open a file, yield its layers, destroy | the loop body may resume, break or panic at every yield; cancellation between and within files |
| `Layer.Features`, `GetLayerSchema` (publish/layer.go) | position in the layer, one feature | read by FID, yield, destroy | FIDs are taken to be 0..count-1; destruction on break and panic |
| `GetGISFiles`, `preprocessFile` (publish/utils.go) | temporary directories | recursive listing, unzip, choose a file | errors below the root are dropped; a bundle yields its first file only; nothing removes the directories |
| `zipx.Extract` (internal/zipx) | files under the destination | check a name, create, copy up to a cap | stops half-way; the file over the cap stays |
| `New`, `FromConfig`, `Validate`, `expandEnv` (publish) | the Manager | options in order, decode, expand, validate | order of options, zero values, a `Manager{}` without logger |
| `errs.GISError` | a chain of causes | `Is`, `Unwrap` | which sentinels the joined result still matches |
| `convert` (vector, raster, COG, warp, VRT, rasterize, DEM, PMTiles) | datasets for the length of a call, a scratch file | check ctx, check the driver, open, render arguments, run, close | every early return must close what was opened; the order of the flags |
| commands `gismanager`, `layerSchema`, `gisconvert` | flags, the signal context | parse, validate, dispatch, exit code | which errors end the program with which code |

`PublishAll` ranges over `Walk`, calls `LayerToPostgis` in the loop body and
starts a goroutine per loaded layer that calls `PublishGeoserverLayer`.  The
producer and the iterator take turns on one goroutine; producer and workers
share the semaphore, the WaitGroup, the mutex-protected error slice and - by
way of the `*gdal.Layer` each worker is given - GDAL.  The context is looked at
before each file and layer (Walk) and by every REST call; not by CopyLayer, not
by the ping (`DBIsAlive` uses `context.Background()`), and not while the
producer waits for a token.

What makes each part correct: every layer is either published or accounted for
by a returned error; no more workers than configured; no handle used before it
is opened or after it is released; nothing left running or open after a return;
cancellation stops the work; the call returns; publishing is idempotent and
keeps to the order workspace, datastore, feature type; the walk is complete, in
order and free of repetitions.

## Modules

| module | models | code |
|---|---|---|
| `RunContext` | the context and the outside failures a model lets happen (`Env`) | cli.SignalContext |
| `GeoServerClient` | PublishGeoserverLayer and both `ensure` functions, for any set of callers; one step per REST call | layer.go:72-172, manager.go:137-142 |
| `DirectPublish` | callers of GeoServerClient without the warm-up, who may call again after an error | layer.go:72-112 |
| `Walk` | the iterator; the loop body answers a yield by `Resume`, `Break` or `Panic` | walk.go:73-126, manager.go:153-165 |
| `Features` | the iterator over the features of one layer, in turns with a body like Walk | layer.go:261-285 |
| `WalkCaller` | composes Walk and Features with any loop bodies, and a history of what was yielded | walk.go:73-126, layer.go:261-285, layerSchema.go:84-101 |
| `Formats` | the extensions that are looked for, and the drivers they are opened with | vars.go:13, manager.go:173-194 |
| `Discovery` | getGISFiles, preprocessFile and zipx.Extract, with the call stack as a variable | utils.go:87-196, extract.go:37-127 |
| `Errs` | GISError and what errors.Is finds in its chain | errs.go:119-139 |
| `Config` | FromConfig and New: read, decode, expand, apply options, validate | utils.go:30-61, options.go, manager.go:61-131 |
| `Program` | the commands gismanager and layerSchema, and programs that use New; composes Config, Walk and PublishContract | gismanager.go, layerSchema.go, cli.go |
| `ConvertArgs` | the options of the conversion calls and the arguments they are rendered to | the `With` and `build...Args` functions of convert/ |
| `Convert` | one call of any entry point of convert/, from the context check to the deferred closes | convert/*.go |
| `GisConvert` | composes Convert with its callers: a program, or the command | gisconvert.go |
| `PublishAll` | composes Walk and GeoServerClient with the producer, the pool, the load and the target | walk.go:184-280, layer.go:182-210 |
| `PublishContract` | what the caller of PublishAll is promised, with nothing of how | walk.go:150-160 |
| `MC*` | instances for TLC | |
| `*Proofs` | theorems and their proofs | |

State and code:

- `pc` is where PublishAll's goroutine is; `at`, `file`, `layer` are the program
  counter and the loop variables of the iterator, `open` the sources opened and
  not yet destroyed.  The turn passes to the body when `at` is a yield and back
  when `Resume`, `Break` or `Panic` is taken, in the same step as the body's
  own effect, as yield is a function call.  A check of the context and what it
  guards are steps of their own, as the context may be canceled in between: at
  `"open"` and `"lookup"` of Walk and at `"fetch"` of Features the check has
  passed, and the file will be opened, the layer yielded or the feature read.
- `step[c]` is where caller `c` is in PublishGeoserverLayer, and `name[c]` its
  local `layerName`.  The worker of layer `l` is the caller `l`; its deferred
  functions are the steps `"release"` (the token) and `"signal"` (wg.Done), in
  the order Go runs them.
- `ws`, `ds`, `fts` are the catalog: each manager has one workspace and one
  datastore.  Initially they are anything an earlier run, complete or killed
  half-way, can have left.
- `sem`, `wg` are the channel's fill and the WaitGroup's counter; `perLayerErrs`
  the error slice as a set of pairs of kind and place; `result` the return value.
- `handle[l]` is the `*gdal.Layer` the copy of `l` returned: live, null (the copy
  failed), or stale (a later layer of the same name overwrote it).  `table[n]` is
  whose features table `n` holds.
- `turn` and `fid` are the place and the loop variable of the feature iterator,
  `alive` the features read and not yet destroyed.  `Fids[l]` are the ids the data
  set really has.
- `stack` in Discovery is the Go call stack of getGISFiles and preprocessFile; each
  frame has the set of nodes still to visit and the files found so far.  A directory
  is gone through in the order of names (`First`), as os.ReadDir lists it, an archive
  in any order, as its entries may be stored.  `disk` is what
  has been unpacked, `temps` the directories made for it, and `lost` (a history)
  the nodes for which a call returned an error.
- `kind[n]` in Discovery is "dir" or the extension of a file; the guards of the
  actions use `supportedEXT`, the reference the properties compare with uses the
  drivers of `GetDriver`, so that the two tables of the code are checked against
  each other.
- in Config `phase` is where FromConfig or New is, `m` the Manager, `todo` the
  options still to be applied, and `given` (a history) those New was called with.
  A text is a sequence of literal pieces and references to variables, so that an
  expanded value can look like a reference; a variable that is not set is empty
  (`Getenv`).  An error is the chain errors.Is goes
  down, each link of it the sequence of the names it is made of.
- in Program `pc` is where `run` is; gismanager's call of PublishAll is the
  contract's `status` and `result`, layerSchema's loop is Walk itself, with what
  it has output in `listed` and the state of the JSON document in `stdout`.
- in Convert `at` is the place in the entry point, `datasets` the open GDAL handles,
  `written` and `from` what is at the destination and what it was made of, and
  `gone` the source files that do not exist.  ToCOG rewrites the request and goes
  on as ConvertRaster, as its code does.  `args` is the part of the option sequence of
  the call that is given, a function with gaps: what is rendered, and in which order.
- `trouble`, `late` and `seen` are histories: something outside has failed; which
  loads began on a canceled context (in WalkCaller: how many things were done for the
  body after a cancellation, of sources opened or found impossible to open, layers
  yielded and features read); what the iterator has yielded.

Outside the repository and modelled from how it is used: GeoServer answers a
duplicate workspace with 409, a duplicate datastore with 500 (both documented at
walk.go:195-207) and a duplicate feature type with an error; a REST call may
fail before or after it has taken effect (`LostEffect`); CopyLayer with
OVERWRITE=YES first drops the table and layer object of that name and, when it
fails, returns a null layer, whose name is empty; using a freed layer object
gives any name or ends the process (`StaleHandleCrash`); GDAL's ids of features start and
skip where the data set says (`Fids`); a conversion GDAL cannot make sense of ends
without error and without output (validate.go:18-25), and gdalbuildvrt leaves out
sources it cannot open (buildvrt.go:159-165).  Two layers of one name
are what two files of the same base name in two directories are, and every
GeoJSON or GeoPackage that was not renamed.

## Runs

| run | instance | shows |
|---|---|---|
| `direct` | 2 callers of one name who repeat after an error; cancel, malformed URL, failing calls, lost answers, rivals; every consistent initial catalog; under fairness | nil means published and stays so; no child without its parent; who loses a race finds the resource there; a caller that repeats its call gets nil |
| `walk` | 4 files with 2, 0, 1 and 2 layers, with ids from 0, from 1, from 3 or none; cancel, failing listing, opens and counts; any bodies; under fairness | order and completeness, sources and features, at most one more element after a cancellation, termination |
| `discovery` | 1944 trees of 7 nodes: directories, nested bundles, files of every format, others; archives unpacked in every order; a failure possible at every node and entry | every file there is a driver for is found if no error and no bundle hides it, and exists when it is handed on |
| `convert` | 8 entry points, up to 2 sources that may be missing or vanish, options none, one, all but one, all; about 150 command lines; cancel, failing and silent GDAL | handles and scratch file, what nil and a canceled call mean, which options reach GDAL, exit status |
| `publish` | 2 files (2 + 1 layers), distinct names, 2 workers, every failure but a failing copy | the pool, the accounting, the handles, at most one load after a cancellation, and the refinement of PublishContract |
| `shared` | the same files with two layers of one name, 2 workers, cancel and failing copies, under fairness | that only a failed copy or a later layer of its name loses a layer without an error, whatever is done with stale and null handles; that PublishAll returns or GDAL has ended the process |
| `program` | 2 files (1 + 2 layers), all flags of both commands, 58 documents in 9 environments, unreadable, malformed and vanishing files; cancel, failing sources, a full disk; all lists of up to 3 of 11 options | what the work begins with, why a configuration is refused, that the last option wins, and what the exit status and the listing mean |
| `publish_gdal`, `publish_copy`, `walk_panic`, `walk_fids`, `convert_bands` | the smallest environment each needs, mostly none | one disagreement between a doc and the code each (see Findings) |

The bounds.  Three layers and two tokens are the smallest instance in which the
producer blocks on a full pool while a worker is at every possible step, and a
third layer is loaded after a token came back.  In `shared` two of them have one
name, so that a copy pulls the table from under a worker and two workers create
one feature type.  Two files are enough for the
producer to close one source and open the next while workers of the first still
run.  In `walk` an empty file between others and a file after a file of one layer
give every boundary of the two loops.  Two callers of one name race for all three
kinds of resource; what they are promised is proved for any number of callers.
The tree of `discovery` has a bundle in a bundle in a directory, siblings on two
levels and a leaf beside them, the smallest in which an error or a second file can
hide the wrong sibling; what the inner nodes are is not bounded, and one leaf has every extension there
is.  In `program` one field at a time is empty, a literal, one or two references,
or a mixture: the fields do not look at each other but in Validate, which an empty
document and one with two references to the same variable try out as well; three
options are enough for one to be overwritten by a second with another in between.
Options are
independent of each other in the code but for the pairs that `convert` has
(the two CRSs, color-relief and its file, -t-srs with -cog and -cutline), so sets
with or without a single option tell all renderings apart.  The options of `convert` include a tolerance below 0, which
stands for itself as it is the one value that is given and not rendered.  No counter needs a
bound: repeated calls of a caller return to a state already seen.  The theorems
below remove the bounds for the properties they cover.

`Deadlock` is checked in every run; the models end in a `Finished` step that says
where stopping is right.

### What accounting means

`EveryLayerAccountedFor` says of every layer, after a return, that it has an error
of its own, of its file or of the walk, or that its features are in its table and its
feature type is in the catalog.  The code loses a layer under a nil result in two
ways, and the property names both where it leaves them out.  `CopyFailed`: a
failed CopyLayer is not noticed, and a worker publishes the null layer under
no name (finding `publish_copy`).  `Overwritten`: a later layer of the same name was
copied, which drops the table.  Of several layers of one name it is thus the last that must be
served, whatever the workers of the others do with their stale handles.
So "nil loses no layer", as the doc has it (walk.go:155-160), is not claimed of these; `NilMeansServed` has it for distinct names and copies that
succeed.  `PublishContract` has a weaker "published": PublishGeoserverLayer returned
nil for the layer.  It is about what is settled when, and `Program` takes only
that from it.

### Fairness

- `walk`: weak fairness of the iterator and of the body with its inner loop: all are plain function
  calls on one goroutine, and the body is assumed to come back.
- `shared`: weak fairness of the producer and of every worker: the Go scheduler
  runs every runnable goroutine, and REST and GDAL calls return in the end (an
  error is a return).  A channel send blocked on a full channel and `wg.Wait` are
  disabled actions, so fairness does not help them: that they get enabled is what
  `PublishAllReturns` checks.
- `direct`: strong fairness of every answered REST step, that is, a caller that
  asks for ever is answered now and then.  Without it the network may fail for
  ever.  The code itself retries nothing; the retrying caller is the model's.

### Findings

Each is a run that TLC must find violated, and `PROJECT.json` quotes the text.

- `publish_gdal`: the publish step is said to be "HTTP-only (no GDAL CGo)"
  (walk.go:16-17), but reads `layer.Name()` from GDAL (layer.go:91, walk.go:271)
  while the producer may be inside CopyLayer on the same data source.
- `publish_copy`: a failed CopyLayer is not noticed: `newLayer.Layer` is the
  address of a local and never nil, so walk.go:253 lets it pass.
- `walk_panic`: `source.Destroy()` is not deferred (walk.go:99-100), though
  architecture.md:107 says so; a panicking body leaks the source, and in an inner
  loop the feature (layer.go:279, against layer.go:251-253).
- `walk_fids`: Features takes 0..count-1 for the ids of the features; of a layer
  that counts from 1, as GeoPackage does, it yields a null feature first and never
  the last one, where the doc speaks of every feature (layer.go:248).
- `convert_bands`: ReprojectRaster says to support the options of ConvertRaster
  (raster_reproject.go:21-22), but buildWarpArgs does not render the bands.

Known and documented in the repository, hence no finding: direct concurrent
callers race for the datastore (CHANGELOG.md:235).  `LoserFindsResource` states
what is left of the promise.  The pool of PublishAll is called safe there because
workspace and datastore are made before it starts.  That says nothing of two layers
with one name: CopyLayer with OVERWRITE=YES (layer.go:202) frees the layer object that
the worker of the earlier one is about to read (layer.go:91, walk.go:271), which is
the action `StaleHandleCrash` here; and their workers
race for the feature type; `NoSpuriousFailure` says that they are the
only ones that can fail without outside trouble.  A `.gdb` file is listed and then
refused (driver_table_test.go:61-64).  layerSchema exits with 0 after errors of the
walk (layerSchema.go:81-83).

Seen while modelling, and not the subject of a run: `ErrNoSourcesFound` is returned
by nothing; README.md:177 calls every error a `*GISError`, while those of the context,
of the listing of the root and of a missing flag are not; a `Manager{}` literal has
no logger and panics on the error paths of OpenSource and GetDriver; os.ExpandEnv
changes a literal `$` in a password; the two connection strings quote nothing;
`ErrConfigInvalid` is documented for a file that is valid YAML (errs.go:30-32) and
also returned for one that cannot be read or decoded; a comment of gisconvert allows
`-t-srs` alone (gisconvert.go:190-191) and the code refuses it; a tolerance below 0
is dropped without a word (vector.go:227, gisconvert.go:131), which
`OnlyBandsAndCutlineAreLost` leaves out by name.

## Proofs

Each theorem is of the form `Spec => []P` or, once, `Spec => Contract!Spec`, for all constants that satisfy the modules' named
assumptions.  These say no more than the code's types do: a finite sequence of layer counts
(`LayerCountAssumption`), finite sets of feature ids (`FidsAssumption`), an integer
as Concurrency and a name for every layer (`PublishAllAssumption`), texts that are
sequences of pieces and options with an argument of their type
(`ConfigAssumption`), a finite tree of nodes that has the prefixes of each
(`TreeAssumption`), in which only directories and bundles have nodes below
(`KindsAssumption`), and conversion calls that are given options of their own
option type, `VectorOption`, `RasterOption` and so on, which is what `CallerOptions`
writes down because Go compiles no other call (`CallersAssumption`, which also makes
a command line a mode and sets of flags).  How many layers, callers, names, options,
documents, nodes and requests there are, and which, is left open.

Every strengthened invariant below was checked by TLC on the instance of its run
before it was proved.  Where a proof needs induction over numbers it is by a least
counterexample, which the library's `WFMin` gives for a set without taking an
operator as parameter (`LeastNat`, `UpToLast`).

- `GeoServerClientProofs`: lemmas about one `RestCall` of one caller, used by both
  compositions: what it leaves alone, the types, parents before children, that it
  records trouble, where it goes next, and what its success and its failure mean.
- `DirectPublishProofs`: `TypeOK`, `SuccessMeansPublished`, `ParentsFirst`,
  `LoserFindsResource`.  None is inductive alone: success needs the catalog to
  be monotone and `name[c]` to be the caller's own from `getFeatureType` on, and
  the losers need `ParentsFirst` and `TroubleRecorded`.
- `WalkProofs`: what `Iterate` and the body's answers do to `open` (`WalkInv`: it is
  `{file}` exactly while the iterator is inside a file) and to the set of layers
  behind the iterator (`IterateReach`, `ResumeReach`: only the answer to an item
  moves it, by that one item).  The three compositions with Walk rest on these.
- `WalkCallerProofs`: `TypeOK`, `SourcesReleased`, `YieldedLayerIsUsable`,
  `FeaturesReleased`, `InOrderWithoutGaps` and
  `CancelStopsYields`.  For the features the invariant says that one is held only at
  a yield of the inner loop, and that such a loop is under way only where the body
  has the turn.  For the order, `SeenInv` relates the history to the place of the
  iterator: what was yielded is ordered (`OrderedInv`) and not past the iterator
  (`BehindInv`), and what is behind the iterator was yielded or belongs to a file
  whose error was (`ReportedInv`).  For the cancellation, `LateInv` says
  that what was done late is one thing, and that after it no check of the context has
  passed and is still to be followed by what it guards (`Checked`): every later check
  sees the canceled context.
- `PublishAllProofs`: `TypeOK`, `PublishBounded`, `TargetOutlivesWorkers`,
  `SourcesFollowTheCopy`, `CancelStopsLoading` from one inductive invariant,
  `PublishInv`.  Its parts: `WalkInv` (as above);
  `PoolInv` (`sem` is the number of workers that hold a token and `wg` the number
  that have not signalled: without it neither bound is inductive, as
  `ReleaseToken` could take `sem` below zero); `MainInv` (what `pc` says of the
  target, the iterator and the result); `OrderInv` (a layer not yet reached has
  no worker, so `Dispatch` starts each worker once); `LateInv` (a layer is loaded
  late only if its check had passed, or it was handed out, before the cancellation).
- The second part of the module: what the result of PublishAll is worth.  On top of
  `PublishInv`, `AccountInv` says that an error is only about layers that are
  settled or will never be reached, and that a layer the walk has gone past has a
  worker or an error: that each is settled after a return (`Settled`) follows.  `CatalogInv` says
  what GDAL and GeoServer have of each layer: a handle goes stale only by a later
  layer of the same name and, live, has its own features in its table, whatever the
  other names and copies are (`HandleInv`), the warm-up has made the parents before a worker looks for them
  (`ParentsInv`), a worker publishes under the name it has read (`NameInv`), and as
  long as nothing outside has failed no layer of a name of its own has either
  (`QuietInv`).  A published layer is thus served, or its handle null or stale
  (`PublishedIsServed`), and with `Settled` that is `EveryLayerAccountedFor`;
  `NilMeansServed` and `NoSpuriousFailure` follow too.
- The refinement, `PublishAllKeepsContract`, in its third part: a layer of
  PublishContract is pending until it is published or an error covers it (`Status`).
  Initially no layer is settled; a worker's success is `Publish(l)`, an error that is
  recorded is `Fail(S)` for the set `S` of layers it covers (one, the rest of a
  file, or all that are left), the failed setup is `SetupError`, the join is
  `Return`, and every other step is a stutter.  `AccountInv` is what makes the sets
  right: an error covers no layer that is already settled.
- `GisConvertProofs`: all seven invariants of the `convert` run from one, `ConvertInv`:
  which places a call of each kind goes through (`PathInv`), what is open at each
  (`HeldInv`), that nothing is written before GDAL is called (`WorkInv`), that the
  driver and BuildVRT's sources have been looked at by then (`CheckedInv`), and which
  raster call a command line comes to (`CommandInv`).  That only bands, cutline
  and a tolerance below 0 are lost holds because every option type is looked through option by option.
- `DiscoveryProofs`: all four invariants of the `discovery` run, from one,
  `SearchInv`.  It is about each frame of the call stack on its own: the nodes the
  frame has gone through come before those ahead (`FrameOK`), and the files it has
  found are, in order, what those nodes yield (`FoundOK`), where a bundle yields the
  first of its files and a lost node nothing (`Yield`); the frames hang together in
  that each is a call for the node its caller is at (`FramesOK`); the files found in
  a bundle are on disk, and so is all that a listed bundle holds (`DiskOK`).  A call
  that returns is right if it returns what its node yields, and an answer that is
  right keeps the caller's frame right (`FrameAnswered`, `StackAnswered`).  An error
  keeps it right too, because a node that gets lost is ahead of every frame, so that
  nothing it would have yielded has been counted (`LossAhead`).  That name order
  is total and agrees with the tree is proved of sequences of numbers
  (`BeforeOrder`, `BeforeBelow`); `First` exists because the least number does.
- `ProgramProofs`, the work: no command works before every field is set to what the
  file has, expanded once (`WorkNeedsConfiguration`).  The invariant says for every
  section of the Manager, in the midst of New, that it is already taken over or that
  its option is still ahead.  `LastOptionWins`: after `n` options, every part is what
  the last of those `n` for it says, or what it began with (`AppliedInv`).
- `ProgramProofs`, the texts: `Expand` is a recursion over the pieces of a text, so
  that what it yields is proved from the left, one piece after the other
  (`ExpandSteps`): a text again, the text itself if it has no reference, the value of
  the variable if it is one reference, nothing if it refers to nothing, and with the
  literal piece it began with.  With them follow `TypeOK`, and the second half of
  `NeverHalfConfigured`, for which the invariant adds that a port with a reference
  was never decoded (`ReadInv`).  `RefusedInv` keeps the reason of a refusal true
  until the program ends, and that the Manager is still the one that was refused;
  `RefusalSaysWhy` follows.
- `ProgramProofs`, the end: `ExitTellsTheTruth`.  What is listed is
  in order and behind the iterator, and all of it if nothing outside has failed
  (`ListedInv`); which command can be where (`PlaceInv`); and that `run` returns nil
  only after success, and the version error only for the version (`RunInv`).  Of
  PublishAll it takes only the contract, which is proved of PublishAll above.

Model-checked only are `RepeatedCallSucceeds`, `WalkEnds` and `PublishAllReturns`:
liveness and the fairness it rests on are out of the prover's reach.

## Plan

Written, checked and proved: the modules above.  What could be added is which
sentinels the joined error of PublishAll still matches: `Errs` has the chains,
PublishAll only the kinds of its errors.

## Not modelled

Log output and the default logger, the format of the connection strings, of the
version line and of the layer schemas (they keep no state and decide nothing),
symbolic links and entry sizes in Discovery, the examples, the container image and
CI.  What `GetLayerSchema` and `GeometryName` read from a layer is GDAL's.  GDAL's own
conversions are external.
