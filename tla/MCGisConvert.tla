----------------------------- MODULE MCGisConvert -----------------------------
(***************************************************************************)
(* GisConvert for TLC: of the sets of options, those that are empty, have  *)
(* one element, lack one, or lack none.                                    *)
(***************************************************************************)
EXTENDS GisConvert

CONSTANTS s1, s2

FewOrMost(S) == {{}, S} \cup {{o} : o \in S} \cup {S \ {o} : o \in S}

(* A tolerance has one sign. *)
OptionSets(entry) ==
  {given \in FewOrMost(CallerOptions[entry]) :
     ~({"Simplify", "NegativeSimplify"} \subseteq given)}

OneSource(entry) ==
  {Request(entry, <<s1>>, given, r, m) :
     given \in OptionSets(entry), r \in BOOLEAN, m \in BOOLEAN}

ManyRequests ==
  UNION {OneSource(entry) : entry \in Entries \ {"BuildVRT"}} \cup
  {Request("BuildVRT", srcs, given, TRUE, m) :
     srcs \in {<<>>, <<s1>>, <<s1, s2>>}, given \in FewOrMost(VRTOptions), m \in BOOLEAN}

AllFlags ==
  {"src", "dst", "s-srs", "cog"} \cup {f[1] : f \in VectorFlag \cup RasterFlag}

(* Flags of both modes, in every mode; one of them unparsable. *)
ManyCommands ==
  {CommandLine(mode, flags, {}, s1, TRUE, FALSE) :
     mode \in {"", "vector", "raster", "other"}, flags \in FewOrMost(AllFlags)} \cup
  {CommandLine("raster", {"src", "dst", "s-srs"} \cup flags, {}, s1, r, FALSE) :
     flags \in SUBSET {"t-srs", "cog", "cutline", "bands", "format"}, r \in BOOLEAN} \cup
  {CommandLine(mode, AllFlags, {f}, s1, TRUE, FALSE) :
     mode \in {"vector", "raster"}, f \in {"simplify", "unknown", "bbox", "bands"}} \cup
  {CommandLine(mode, {"src", "dst", "version"}, {}, s1, TRUE, FALSE) : mode \in {"", "vector"}}

BandsOfAWarp ==
  {Request("ReprojectRaster", <<s1>>, {"SrcSRS", "DstSRS", "Bands"}, TRUE, FALSE)}
=============================================================================
