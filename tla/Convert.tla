------------------------------- MODULE Convert -------------------------------
(***************************************************************************)
(* One call of the conversion package.  ConvertVector, ConvertRaster,      *)
(* ToCOG, ReprojectRaster, Rasterize and DEMProcessing go the same way:    *)
(* context, arguments, driver, source, GDAL, and the deferred Closes.      *)
(* BuildVRT opens each source only to see that it can be opened, and has   *)
(* GDAL open it again; ToPMTiles has a scratch file and no datasets.       *)
(* GDAL and go-pmtiles are external.  What the code relies on, or guards   *)
(* against, is what validate.go, buildvrt.go and raster_reproject.go say   *)
(* of them: an argument GDAL cannot make sense of, an unregistered driver  *)
(* among them, gives neither output nor error, and gdalbuildvrt leaves out *)
(* sources it cannot open.  The context is not looked at after the start.  *)
(***************************************************************************)
EXTENDS RunContext, Naturals, FiniteSets, ConvertArgs

CONSTANT Sources   (* paths of source files *)

(* Which flags each call renders its options to. *)
FlagsOf ==
  [ConvertVector |-> VectorFlags, ConvertRaster |-> TranslateFlags,
   ToCOG |-> TranslateFlags, ReprojectRaster |-> WarpFlags, BuildVRT |-> VRTFlags,
   Rasterize |-> RasterizeFlags, DEMProcessing |-> DEMFlags, ToPMTiles |-> PMTilesFlags]

Entries == DOMAIN FlagsOf

VARIABLES
  req,       (* the call: entry, srcs, the options given, whether the driver *)
             (* named is registered, whether an argument is malformed        *)
  at,        (* where the call is *)
  checked,   (* how many sources BuildVRT has found to be readable *)
  datasets,  (* the GDAL datasets that are open, "src" or "dst" *)
  args,      (* what GDAL was called with *)
  scratch,   (* ToPMTiles' temporary file exists *)
  gone,      (* sources that do not exist (any more) *)
  written,   (* dst is "untouched", "partial" or "whole" *)
  from,      (* the sources that are in it *)
  result     (* "none", "nil", "canceled", or "failed", that is, an error *)
             (* that matches ErrConvertFailed                             *)

work == <<datasets, args, scratch, written, from>>
callVars == <<req, at, checked, work, result>>
convertVars == <<callVars, gone>>

Request(entry, srcs, given, registered, malformed) ==
  [entry |-> entry, srcs |-> srcs, given |-> given, registered |-> registered,
   malformed |-> malformed]

ConvertTypeOK ==
  /\ req.entry \in Entries /\ req.srcs \in Seq(Sources) /\ req.given \subseteq Options
  /\ req.registered \in BOOLEAN /\ req.malformed \in BOOLEAN
  /\ at \in {"command", "begin", "request", "driver", "open", "check", "stat",
             "scratch", "run", "leaving", "returned"}
  /\ checked \in 0..Len(req.srcs)
  /\ datasets \subseteq {"src", "dst"}
  /\ ToSet(args) \subseteq Options
  /\ scratch \in BOOLEAN
  /\ gone \subseteq Sources /\ from \subseteq Sources
  /\ written \in {"untouched", "partial", "whole"}
  /\ result \in {"none", "nil", "canceled", "failed"}

ConvertInit ==
  /\ checked = 0
  /\ datasets = {}
  /\ args = <<>>
  /\ scratch = FALSE
  /\ gone \in SUBSET Sources
  /\ written = "untouched"
  /\ from = {}
  /\ result = "none"

Goto(place) == at' = place /\ UNCHANGED result
Leave(r) == at' = "leaving" /\ result' = r
Is(entries) == req.entry \in entries
(* The calls that are given one dataset by the code. *)
GDALCalls == Entries \ {"BuildVRT", "ToPMTiles"}
Source == Head(req.srcs)

(* The arguments a call checks itself. *)
Acceptable(r) ==
  /\ r.entry = "ReprojectRaster" => {"SrcSRS", "DstSRS"} \subseteq r.given
  /\ r.entry = "BuildVRT" => r.srcs # <<>>
  /\ r.entry = "DEMProcessing" =>
       /\ "Mode" \in r.given
       /\ "ColorRelief" \in r.given => "ColorFile" \in r.given

(* GDAL cannot make sense of what it is given. *)
Senseless == req.malformed \/ ("Format" \in req.given /\ ~req.registered)
(* What it may be told is wrong; go-pmtiles opens the source itself. *)
Unusable == req.malformed \/ (Is({"ToPMTiles"}) /\ Source \in gone)
-----------------------------------------------------------------------------
(* Mutants: bugs of the kind the properties are there to catch. *)

(* An unregistered driver is left to GDAL to find. *)
UnknownDriverUnchecked ==
  /\ at = "driver"
  /\ "Format" \in req.given /\ ~req.registered
  /\ Goto("open")
  /\ UNCHANGED <<ctxVars, req, checked, gone, work>>

(* The error of GetDriverByName is returned as it is. *)
UnknownDriverUnwrapped ==
  /\ at = "driver"
  /\ "Format" \in req.given /\ ~req.registered
  /\ Leave("unwrapped")
  /\ UNCHANGED <<ctxVars, req, checked, gone, work>>

(* The Close of the source is not deferred: an error leaves it open. *)
RunFailsUndeferred ==
  /\ at = "run"
  /\ (Unusable /\ UNCHANGED ctxVars) \/ Disturb("gdal")
  /\ at' = "returned"
  /\ result' = "failed"
  /\ args' = Rendered(FlagsOf[req.entry], req.given)
  /\ written' \in {"untouched", "partial"}
  /\ UNCHANGED <<req, checked, datasets, scratch, gone, from>>

(* The context is looked at again when GDAL comes back. *)
RunThenCheckContext ==
  /\ at = "run"
  /\ ~Senseless
  /\ Is({"ToPMTiles"}) => Source \notin gone
  /\ Leave(IF canceled THEN "canceled" ELSE "nil")
  /\ args' = Rendered(FlagsOf[req.entry], req.given)
  /\ written' = "whole"
  /\ from' = IF Is({"BuildVRT"}) THEN ToSet(req.srcs) \ gone ELSE ToSet(req.srcs)
  /\ datasets' = IF Is({"ToPMTiles"}) THEN datasets ELSE datasets \cup {"dst"}
  /\ UNCHANGED <<ctxVars, req, checked, scratch, gone>>
-----------------------------------------------------------------------------
(* ToCOG prepends its defaults and calls ConvertRaster. *)
MergeCogDefaults ==
  /\ at = "begin"
  /\ Is({"ToCOG"})
  /\ req' = [req EXCEPT !.entry = "ConvertRaster",
                        !.given = @ \cup {"Format", "CogDefaults"},
                        !.registered = "Format" \in req.given => @]
  /\ UNCHANGED <<ctxVars, at, checked, gone, work, result>>

CallCanceled ==
  /\ at = "begin"
  /\ ~Is({"ToCOG"})
  /\ canceled
  /\ Leave("canceled")
  /\ UNCHANGED <<ctxVars, req, checked, gone, work>>

CallBegins ==
  /\ at = "begin"
  /\ ~Is({"ToCOG"})
  /\ ~canceled
  /\ Goto("request")
  /\ UNCHANGED <<ctxVars, req, checked, gone, work>>

Refuse ==
  /\ at = "request"
  /\ ~Acceptable(req)
  /\ Leave("failed")
  /\ UNCHANGED <<ctxVars, req, checked, gone, work>>

Accept ==
  /\ at = "request"
  /\ Acceptable(req)
  /\ \/ Is({"BuildVRT"}) /\ Goto("check")
     \/ Is({"ToPMTiles"}) /\ Goto("stat")
     \/ Is(GDALCalls) /\ Goto("driver")
  /\ UNCHANGED <<ctxVars, req, checked, gone, work>>

(* validateGDALDriver; with no Format, GDAL goes by the name of dst. *)
KnownDriver ==
  /\ at = "driver"
  /\ "Format" \in req.given => req.registered
  /\ Goto("open")
  /\ UNCHANGED <<ctxVars, req, checked, gone, work>>

UnknownDriver ==
  /\ at = "driver"
  /\ "Format" \in req.given /\ ~req.registered
  /\ Leave("failed")
  /\ UNCHANGED <<ctxVars, req, checked, gone, work>>

OpenSource ==
  /\ at = "open"
  /\ Source \notin gone
  /\ datasets' = {"src"}
  /\ Goto("run")
  /\ UNCHANGED <<ctxVars, req, checked, args, scratch, gone, written, from>>

CannotOpen ==
  /\ at = "open"
  /\ \/ Source \in gone /\ UNCHANGED ctxVars
     \/ Disturb("gdal")
  /\ Leave("failed")
  /\ UNCHANGED <<req, checked, gone, work>>

(* BuildVRT opens a source and closes it at once. *)
CheckSource ==
  /\ at = "check"
  /\ checked < Len(req.srcs)
  /\ req.srcs[checked + 1] \notin gone
  /\ checked' = checked + 1
  /\ UNCHANGED <<ctxVars, req, at, gone, work, result>>

CheckFails ==
  /\ at = "check"
  /\ checked < Len(req.srcs)
  /\ \/ req.srcs[checked + 1] \in gone /\ UNCHANGED ctxVars
     \/ Disturb("gdal")
  /\ Leave("failed")
  /\ UNCHANGED <<req, checked, gone, work>>

AllChecked ==
  /\ at = "check"
  /\ checked = Len(req.srcs)
  /\ Goto("run")
  /\ UNCHANGED <<ctxVars, req, checked, gone, work>>

StatSource ==
  /\ at = "stat"
  /\ Source \notin gone
  /\ Goto("scratch")
  /\ UNCHANGED <<ctxVars, req, checked, gone, work>>

StatFails ==
  /\ at = "stat"
  /\ Source \in gone
  /\ Leave("failed")
  /\ UNCHANGED <<ctxVars, req, checked, gone, work>>

CreateScratch ==
  /\ at = "scratch"
  /\ scratch' = TRUE
  /\ Goto("run")
  /\ UNCHANGED <<ctxVars, req, checked, datasets, args, gone, written, from>>

CreateScratchFails ==
  /\ at = "scratch"
  /\ Disturb("file")
  /\ Leave("failed")
  /\ UNCHANGED <<req, checked, gone, work>>
-----------------------------------------------------------------------------
(* GDAL, or go-pmtiles, does what it is asked to. *)
Run ==
  /\ at = "run"
  /\ ~Senseless
  /\ Is({"ToPMTiles"}) => Source \notin gone
  /\ Leave("nil")
  /\ args' = Rendered(FlagsOf[req.entry], req.given)
  /\ written' = "whole"
  /\ from' = IF Is({"BuildVRT"}) THEN ToSet(req.srcs) \ gone ELSE ToSet(req.srcs)
  /\ datasets' = IF Is({"ToPMTiles"}) THEN datasets ELSE datasets \cup {"dst"}
  /\ UNCHANGED <<ctxVars, req, checked, scratch, gone>>

(* No error and no output: out is a null dataset. *)
RunSilently ==
  /\ at = "run"
  /\ Senseless /\ ~Is({"ToPMTiles"})
  /\ Leave("nil")
  /\ args' = Rendered(FlagsOf[req.entry], req.given)
  /\ UNCHANGED <<ctxVars, req, checked, datasets, scratch, gone, written, from>>

RunFails ==
  /\ at = "run"
  /\ (Unusable /\ UNCHANGED ctxVars) \/ Disturb("gdal")
  /\ Leave("failed")
  /\ args' = Rendered(FlagsOf[req.entry], req.given)
  /\ written' \in {"untouched", "partial"}
  /\ UNCHANGED <<req, checked, datasets, scratch, gone, from>>

(* The deferred calls, last deferred first. *)
CloseOutput ==
  /\ at = "leaving"
  /\ "dst" \in datasets
  /\ datasets' = datasets \ {"dst"}
  /\ UNCHANGED <<ctxVars, req, at, checked, args, scratch, gone, written, from, result>>

CloseSource ==
  /\ at = "leaving"
  /\ datasets = {"src"}
  /\ datasets' = {}
  /\ UNCHANGED <<ctxVars, req, at, checked, args, scratch, gone, written, from, result>>

RemoveScratch ==
  /\ at = "leaving"
  /\ scratch
  /\ scratch' = FALSE
  /\ Goto("returned")
  /\ UNCHANGED <<ctxVars, req, checked, datasets, args, gone, written, from>>

(* The error of os.Remove is ignored. *)
RemoveScratchFails ==
  /\ at = "leaving"
  /\ scratch
  /\ Disturb("file")
  /\ Goto("returned")
  /\ UNCHANGED <<req, checked, gone, work>>

Return ==
  /\ at = "leaving"
  /\ datasets = {} /\ ~scratch
  /\ Goto("returned")
  /\ UNCHANGED <<ctxVars, req, checked, gone, work>>

Call ==
  \/ MergeCogDefaults \/ CallCanceled \/ CallBegins \/ Refuse \/ Accept
  \/ KnownDriver \/ UnknownDriver \/ OpenSource \/ CannotOpen
  \/ CheckSource \/ CheckFails \/ AllChecked
  \/ StatSource \/ StatFails \/ CreateScratch \/ CreateScratchFails
  \/ Run \/ RunSilently \/ RunFails
  \/ CloseOutput \/ CloseSource \/ RemoveScratch \/ RemoveScratchFails \/ Return

(* Someone removes a source file while the call is under way. *)
SourceVanishes ==
  /\ Disturb("file")
  /\ \E p \in Sources \ gone : gone' = gone \cup {p}
  /\ UNCHANGED callVars
=============================================================================
