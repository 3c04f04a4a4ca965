------------------------------ MODULE GisConvert ------------------------------
(***************************************************************************)
(* Who calls the conversion package: a program that uses the library, with *)
(* any request, or the command gisconvert, which makes one of its flags.   *)
(* A flag is its name; its value is left out, but for what can be wrong    *)
(* with it.                                                                *)
(***************************************************************************)
EXTENDS Convert

CONSTANTS
  Requests,   (* what library callers ask for *)
  Commands    (* command lines *)

VARIABLES
  cmd,    (* the command line, or NoCommand *)
  exit    (* the exit status of the command, or "none" *)

vars == <<ctxVars, convertVars, cmd, exit>>

(* The With functions are typed by call, so that none can be given to      *)
(* another; a command line is any flags with any value.                    *)
ASSUME CallersAssumption ==
  /\ Requests \subseteq [entry : Entries, srcs : Seq(Sources), given : SUBSET Options,
                          registered : BOOLEAN, malformed : BOOLEAN]
  /\ \A r \in Requests :
       /\ r.given \subseteq CallerOptions[r.entry]
       /\ ~({"Simplify", "NegativeSimplify"} \subseteq r.given)
  /\ Commands \subseteq [mode : STRING, flags : SUBSET STRING, bad : SUBSET STRING,
                          src : Sources, registered : BOOLEAN, malformed : BOOLEAN]

(* A mode, the flags that are given (a Boolean one is TRUE, a number above  *)
(* 0, a string not empty), those of them that cannot be parsed, and what is    *)
(* known of the source and the values that go to GDAL.                      *)
CommandLine(mode, flags, bad, src, registered, malformed) ==
  [mode |-> mode, flags |-> flags, bad |-> bad, src |-> src,
   registered |-> registered, malformed |-> malformed]

NoCommand == CommandLine("", {}, {}, "", FALSE, FALSE)
NoRequest == Request("ConvertVector", <<>>, {}, FALSE, FALSE)
IsCommand == cmd # NoCommand

TypeOK ==
  /\ CtxTypeOK
  /\ ConvertTypeOK
  /\ cmd \in Commands \cup {NoCommand}
  /\ exit \in {"none", "0", "1"}

Init ==
  /\ ConvertInit
  /\ \/ at = "begin" /\ req \in Requests /\ cmd = NoCommand
     \/ at = "command" /\ req = NoRequest /\ cmd \in Commands
  /\ canceled = FALSE
  /\ trouble = FALSE
  /\ exit = "none"

(* Each flag with the option it stands for, in the mode it is for. *)
VectorFlag ==
  {<<"format", "Format">>, <<"s-srs", "SourceSRS">>, <<"t-srs", "TargetSRS">>,
   <<"bbox", "BoundingBox">>, <<"where", "Where">>, <<"simplify", "Simplify">>,
   <<"select", "SelectFields">>, <<"layer", "LayerName">>, <<"overwrite", "Overwrite">>}

RasterFlag ==
  {<<"format", "Format">>, <<"co", "CreationOption">>, <<"bbox", "OutputBounds">>,
   <<"bands", "Bands">>, <<"resample", "ResamplingAlg">>, <<"tr", "TargetResolution">>,
   <<"cutline", "Cutline">>}

OptionsFor(flag) == {f[2] : f \in {p \in flag : p[1] \in cmd.flags}}

RequestOf(entry, given) ==
  Request(entry, <<cmd.src>>, given, cmd.registered, cmd.malformed)
-----------------------------------------------------------------------------
(* The flag package stops at a -simplify that is no number, or at an unknown *)
(* flag; runVector and runRaster parse their own lists.                      *)
Unparsable ==
  \/ cmd.bad \cap {"simplify", "unknown"} # {}
  \/ cmd.mode = "vector" /\ "bbox" \in cmd.bad
  \/ cmd.mode = "raster" /\ cmd.bad \cap {"co", "bbox", "bands", "tr"} # {}

Incomplete == ~({"src", "dst"} \subseteq cmd.flags) \/ cmd.mode = ""

HalfReprojection ==
  cmd.mode = "raster" /\ "t-srs" \in cmd.flags /\ "s-srs" \notin cmd.flags

WantsVersion == "version" \in cmd.flags /\ cmd.bad \cap {"simplify", "unknown"} = {}

UsageError ==
  /\ ~WantsVersion
  /\ Unparsable \/ Incomplete \/ HalfReprojection \/ cmd.mode \notin {"vector", "raster"}
-----------------------------------------------------------------------------
(* Mutants: bugs of the kind the properties are there to catch. *)

(* An interrupted conversion is not an error. *)
ExitZeroWhenCanceled ==
  /\ at = "returned" /\ result # "none" /\ IsCommand /\ exit = "none"
  /\ exit' = IF result \in {"nil", "canceled"} THEN "0" ELSE "1"
  /\ UNCHANGED <<ctxVars, convertVars, cmd>>

(* The COG shortcut comes before the reprojection. *)
RasterEntryCogFirst ==
  IF "cog" \in cmd.flags THEN "ToCOG"
  ELSE IF "t-srs" \in cmd.flags THEN "ReprojectRaster"
  ELSE "ConvertRaster"
-----------------------------------------------------------------------------
(* A reprojection, if there is a system to project to, before the COG shortcut. *)
RasterEntry ==
  IF "t-srs" \in cmd.flags THEN "ReprojectRaster"
  ELSE IF "cog" \in cmd.flags THEN "ToCOG"
  ELSE "ConvertRaster"

PrintVersion ==
  /\ at = "command"
  /\ WantsVersion
  /\ exit' = "0"
  /\ Goto("returned")
  /\ UNCHANGED <<ctxVars, req, checked, gone, work, cmd>>

RejectCommand ==
  /\ at = "command"
  /\ UsageError
  /\ exit' = "1"
  /\ Goto("returned")
  /\ UNCHANGED <<ctxVars, req, checked, gone, work, cmd>>

RunVector ==
  /\ at = "command"
  /\ ~WantsVersion /\ ~UsageError
  /\ cmd.mode = "vector"
  /\ req' = RequestOf("ConvertVector", OptionsFor(VectorFlag))
  /\ Goto("begin")
  /\ UNCHANGED <<ctxVars, checked, gone, work, cmd, exit>>

RunRaster ==
  /\ at = "command"
  /\ ~WantsVersion /\ ~UsageError
  /\ cmd.mode = "raster"
  /\ req' = RequestOf(RasterEntry,
                      OptionsFor(RasterFlag) \cup
                      (IF RasterEntry = "ReprojectRaster" THEN {"SrcSRS", "DstSRS"} ELSE {}))
  /\ Goto("begin")
  /\ UNCHANGED <<ctxVars, checked, gone, work, cmd, exit>>

Exit ==
  /\ at = "returned" /\ result # "none" /\ IsCommand /\ exit = "none"
  /\ exit' = IF result = "nil" THEN "0" ELSE "1"
  /\ UNCHANGED <<ctxVars, convertVars, cmd>>

Command == PrintVersion \/ RejectCommand \/ RunVector \/ RunRaster \/ Exit

Environment ==
  /\ at # "returned"
  /\ (Cancel /\ UNCHANGED convertVars) \/ SourceVanishes
  /\ UNCHANGED <<cmd, exit>>

Finished ==
  /\ at = "returned"
  /\ IsCommand => exit # "none"
  /\ UNCHANGED vars

Next ==
  \/ Call /\ UNCHANGED <<cmd, exit>>
  \/ Command
  \/ Environment
  \/ Finished

Spec == Init /\ [][Next]_vars
-----------------------------------------------------------------------------
Ran == args # <<>> \/ written # "untouched"

(* Whichever way a call ends, it leaves no dataset open and, unless the    *)
(* removal itself fails, no scratch file behind; and the output is closed  *)
(* before the source it may still read from (the deferred Closes of every  *)
(* entry point, pmtiles.go:107-110).                                       *)
NothingLeftOpen ==
  /\ at = "returned" => datasets = {} /\ (scratch => trouble)
  /\ Is(GDALCalls) /\ "dst" \in datasets => "src" \in datasets

(* nil means that dst is there, whole and made of all its sources, however *)
(* silent GDAL is: an unregistered driver never gets that far.  What is    *)
(* left are malformed values, which no call looks at (validate.go:18-25,   *)
(* raster_reproject.go:33-36), and a source that goes away between the     *)
(* look BuildVRT takes at it and GDAL's own (buildvrt.go:159-189).         *)
NilMeansWritten ==
  result = "nil" /\ ~req.malformed =>
    /\ written = "whole"
    /\ ToSet(req.srcs) \ from # {} => Is({"BuildVRT"}) /\ trouble

(* The error of a canceled context, the one error that does not match      *)
(* ErrConvertFailed, tells the caller that nothing has been done; once the *)
(* call has begun, a cancellation is not seen (vector.go:158-160).         *)
CanceledMeansUntouched ==
  result = "canceled" => canceled /\ datasets = {} /\ ~scratch /\ ~Ran

(* Of what a caller asks for, nothing is lost on the way to GDAL but the   *)
(* cutline of a call that does not warp, the bands of one that does, and   *)
(* a tolerance below 0 (raster.go:202-231, raster_reproject.go:83-122,     *)
(* vector.go:227-229).                                                     *)
OnlyBandsAndCutlineAreLost ==
  args # <<>> =>
    req.given \ ToSet(args) \subseteq
      {"ColorRelief", "NegativeSimplify"} \cup
      (IF Is({"ConvertRaster"}) THEN {"Cutline"}
       ELSE IF Is({"ReprojectRaster"}) THEN {"Bands"} ELSE {})

(* Exit status 0 is for a conversion that has been made, and a command     *)
(* that is refused has touched nothing (gisconvert.go:40-51, 85-105).      *)
ExitTellsTheTruth ==
  /\ exit = "0" /\ ~WantsVersion => result = "nil"
  /\ exit = "1" => result \in {"none", "failed", "canceled"}
  /\ exit # "none" /\ result = "none" => ~Ran

(* A raster command is reprojected if it names a target system: -cog is    *)
(* then without effect, and -cutline has one only then                     *)
(* (gisconvert.go:190-203).                                                *)
ReprojectionComesFirst ==
  IsCommand /\ Ran /\ cmd.mode = "raster" =>
    /\ "t-srs" \in cmd.flags <=> "DstSRS" \in ToSet(args)
    /\ "CogDefaults" \in ToSet(args) <=>
         "cog" \in cmd.flags /\ "t-srs" \notin cmd.flags
    /\ "Cutline" \in ToSet(args) <=> {"cutline", "t-srs"} \subseteq cmd.flags
-----------------------------------------------------------------------------
(* What docs and comments say and the code does not do *)

(* ReprojectRaster "Supports the same [WithRaster*] options as             *)
(* [ConvertRaster] / [ToCOG]" (raster_reproject.go:21-22).                 *)
EveryOptionReachesGDAL == args # <<>> => req.given \subseteq ToSet(args)
=============================================================================
