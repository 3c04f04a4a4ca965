----------------------------- MODULE ConvertArgs -----------------------------
(***************************************************************************)
(* The options of the conversion calls, and the arguments they become.     *)
(* An option is named after its With function, without the part that names *)
(* the call.  What build...Args makes of them is written as the sequence   *)
(* of all the options it looks at, in its order, and an argument list as   *)
(* the part of that sequence that is given: a function whose domain has    *)
(* gaps.  Values are left out: an option is given (not at its default) or  *)
(* it is not; a tolerance below 0 is an option of its own, NegativeSimplify,*)
(* because only the others are rendered.                                   *)
(***************************************************************************)
EXTENDS SequencesExt

(* What a caller can ask of each call. *)
VectorOptions ==
  {"Format", "SourceSRS", "TargetSRS", "BoundingBox", "Where", "Simplify",
   "NegativeSimplify", "SelectFields", "LayerName", "Overwrite", "RawOptions"}

RasterOptions ==
  {"Format", "CreationOption", "OutputBounds", "Bands", "ResamplingAlg",
   "TargetResolution", "Cutline", "RawOptions"}

VRTOptions ==
  {"Resolution", "UserResolution", "Separate", "AddAlpha", "ResamplingAlg",
   "SrcNoData", "NoData", "HideNoData", "Bands", "AllowProjectionDifference",
   "RawOptions"}

RasterizeOptions ==
  {"Format", "BurnValues", "Attribute", "TargetResolution", "OutputSize",
   "OutputBounds", "Layer", "Where", "CreationOption", "OutputType", "RawOptions"}

DEMOptions ==
  {"Format", "ColorFile", "ZFactor", "Scale", "Azimuth", "Altitude", "Combined",
   "Multidirectional", "Algorithm", "CreationOption", "OutputType", "RawOptions"}

PMTilesOptions == {"Deduplicate"}

(* ToCOG's own creation options, a pair of CRSs and the mode of an analysis *)
(* are not options of a caller but are passed on in the same way.           *)
Parameters == {"CogDefaults", "SrcSRS", "DstSRS", "Mode", "ColorRelief"}

Options ==
  VectorOptions \cup RasterOptions \cup VRTOptions \cup RasterizeOptions \cup
  DEMOptions \cup PMTilesOptions \cup Parameters

(* The options each call has a With function for, and its parameters: the  *)
(* signatures at vector.go:169, raster.go:144 and 187, raster_reproject.go: *)
(* 37, buildvrt.go:148, rasterize.go:170, dem.go:166, pmtiles.go:82.        *)
CallerOptions ==
  [ConvertVector |-> VectorOptions, ConvertRaster |-> RasterOptions,
   ToCOG |-> RasterOptions, ReprojectRaster |-> RasterOptions \cup {"SrcSRS", "DstSRS"},
   BuildVRT |-> VRTOptions, Rasterize |-> RasterizeOptions,
   DEMProcessing |-> DEMOptions \cup {"Mode", "ColorRelief"}, ToPMTiles |-> PMTilesOptions]
-----------------------------------------------------------------------------
VectorFlags ==
  <<"Format", "Overwrite", "SourceSRS", "TargetSRS", "BoundingBox", "Where",
    "Simplify", "SelectFields", "LayerName", "RawOptions">>

TranslateFlags ==
  <<"Format", "CogDefaults", "CreationOption", "Bands", "ResamplingAlg",
    "OutputBounds", "TargetResolution", "RawOptions">>

(* Mutant: an option of the configuration that nobody renders. *)
WarpFlagsWithoutBounds ==
  <<"Format", "SrcSRS", "DstSRS", "CreationOption", "ResamplingAlg",
    "TargetResolution", "Cutline", "RawOptions">>

(* -cutline, -cl and -crop_to_cutline are one option. *)
WarpFlags ==
  <<"Format", "SrcSRS", "DstSRS", "CreationOption", "ResamplingAlg",
    "OutputBounds", "TargetResolution", "Cutline", "RawOptions">>

VRTFlags ==
  <<"Resolution", "UserResolution", "Separate", "AddAlpha", "ResamplingAlg",
    "SrcNoData", "NoData", "HideNoData", "Bands", "AllowProjectionDifference",
    "RawOptions">>

RasterizeFlags ==
  <<"Format", "OutputType", "BurnValues", "Attribute", "Layer", "Where",
    "TargetResolution", "OutputSize", "OutputBounds", "CreationOption",
    "RawOptions">>

(* The mode and the colour file are parameters of gdal.DEMProcessing. *)
DEMFlags ==
  <<"Mode", "ColorFile", "Format", "OutputType", "Algorithm", "ZFactor", "Scale",
    "Azimuth", "Altitude", "Combined", "Multidirectional", "CreationOption",
    "RawOptions">>

(* Not a flag: a parameter of pmtiles.Convert. *)
PMTilesFlags == <<"Deduplicate">>

Rendered(flags, given) == RestrictValues(flags, LAMBDA o : o \in given)
=============================================================================
