--------------------------- MODULE GisConvertProofs ---------------------------
(***************************************************************************)
(* What a conversion does and leaves behind, for any sources, requests,    *)
(* command lines and outside failures.                                     *)
(***************************************************************************)
EXTENDS GisConvert, TLAPS

(* What was asked of the call: it stays as it is, but for what ToCOG adds. *)
Taken(entry) ==
  CallerOptions[entry] \cup (IF entry = "ConvertRaster" THEN {"Format", "CogDefaults"} ELSE {})

ReqInv ==
  /\ req.entry \in Entries
  /\ req.srcs \in Seq(Sources)
  /\ req.given \subseteq Taken(req.entry)
  /\ req.registered \in BOOLEAN /\ req.malformed \in BOOLEAN

(* The stations of a call are those of its kind. *)
PathInv ==
  /\ at \in {"driver", "open"} => Is(GDALCalls)
  /\ at = "check" => Is({"BuildVRT"})
  /\ at \in {"stat", "scratch"} => Is({"ToPMTiles"})
  /\ Is({"ToCOG"}) => at = "begin"

(* What is open, and where. *)
HeldInv ==
  /\ at \notin {"run", "leaving"} => datasets = {}
  /\ at = "run" => datasets = IF Is(GDALCalls) THEN {"src"} ELSE {}
  /\ at = "leaving" /\ Is(GDALCalls) /\ "dst" \in datasets => "src" \in datasets
  /\ Is({"ToPMTiles"}) => datasets = {}
  /\ scratch => at \in {"run", "leaving", "returned"} /\ Is({"ToPMTiles"})
  /\ at = "returned" /\ scratch => trouble

(* Nothing is done and nothing said before GDAL has been called. *)
WorkInv ==
  /\ \/ args = <<>> /\ written = "untouched"
     \/ args = Rendered(FlagsOf[req.entry], req.given)
  /\ at \notin {"leaving", "returned"} => result = "none"
  /\ at = "leaving" => result # "none"
  /\ result \in {"none", "canceled"} => ~Ran
  /\ result = "canceled" => canceled /\ datasets = {} /\ ~scratch

(* What has been looked at before GDAL is called: the driver and, by *)
(* BuildVRT, each source.                                            *)
CheckedInv ==
  /\ at = "open" \/ (at = "run" /\ Is(GDALCalls)) =>
       ("Format" \in req.given => req.registered)
  /\ checked \in 0..Len(req.srcs)
  /\ at \in {"command", "begin", "request"} => checked = 0
  /\ \A i \in 1..checked : req.srcs[i] \in gone => trouble
  /\ at = "run" /\ Is({"BuildVRT"}) => checked = Len(req.srcs)

(* The raster call a command has come to. *)
RasterCall ==
  /\ "t-srs" \in cmd.flags =>
       /\ Is({"ReprojectRaster"})
       /\ {"SrcSRS", "DstSRS"} \subseteq req.given
       /\ ("Cutline" \in req.given <=> "cutline" \in cmd.flags)
  /\ "t-srs" \notin cmd.flags =>
       \/ Is({"ToCOG"}) /\ at = "begin" /\ "cog" \in cmd.flags
       \/ Is({"ConvertRaster"}) /\ ("CogDefaults" \in req.given <=> "cog" \in cmd.flags)

CommandInv ==
  /\ cmd \in Commands \cup {NoCommand}
  /\ at = "command" => cmd \in Commands
  /\ IsCommand /\ cmd.mode = "raster" =>
       at = "command" \/ (at = "returned" /\ result = "none") \/ RasterCall
  /\ exit # "none" => at = "returned"
  /\ exit = "0" /\ ~WantsVersion => result = "nil"
  /\ exit = "1" => result \in {"none", "failed", "canceled"}

ConvertInv ==
  /\ TypeOK /\ ReqInv /\ PathInv /\ HeldInv /\ WorkInv /\ CheckedInv
  /\ NilMeansWritten /\ CommandInv
-----------------------------------------------------------------------------
(* Options and arguments *)

LEMMA RenderedAreGiven ==
  ASSUME NEW flags, NEW given
  PROVE  ToSet(Rendered(flags, given)) = ToSet(flags) \cap given
BY DEF ToSet, Rendered, RestrictValues, Restrict

(* What build...Args looks at is what the With functions set, but for the *)
(* options that are lost.                                                 *)
LEMMA FlagsAreOptions ==
  /\ ToSet(VectorFlags) = VectorOptions \ {"NegativeSimplify"}
  /\ ToSet(TranslateFlags) = (RasterOptions \ {"Cutline"}) \cup {"CogDefaults"}
  /\ ToSet(WarpFlags) = (RasterOptions \ {"Bands"}) \cup {"SrcSRS", "DstSRS"}
  /\ ToSet(VRTFlags) = VRTOptions
  /\ ToSet(RasterizeFlags) = RasterizeOptions
  /\ ToSet(DEMFlags) = DEMOptions \cup {"Mode"}
  /\ ToSet(PMTilesFlags) = PMTilesOptions
<1>1. ToSet(VectorFlags) = VectorOptions \ {"NegativeSimplify"}
  BY DEF ToSet, VectorFlags, VectorOptions
<1>2. ToSet(TranslateFlags) = (RasterOptions \ {"Cutline"}) \cup {"CogDefaults"}
  BY DEF ToSet, TranslateFlags, RasterOptions
<1>3. ToSet(WarpFlags) = (RasterOptions \ {"Bands"}) \cup {"SrcSRS", "DstSRS"}
  BY DEF ToSet, WarpFlags, RasterOptions
<1>4. ToSet(VRTFlags) = VRTOptions
  BY DEF ToSet, VRTFlags, VRTOptions
<1>5. ToSet(RasterizeFlags) = RasterizeOptions
  BY DEF ToSet, RasterizeFlags, RasterizeOptions
<1>6. ToSet(DEMFlags) = DEMOptions \cup {"Mode"}
  BY DEF ToSet, DEMFlags, DEMOptions
<1>7. ToSet(PMTilesFlags) = PMTilesOptions
  BY DEF ToSet, PMTilesFlags, PMTilesOptions
<1>8. QED
  BY <1>1, <1>2, <1>3, <1>4, <1>5, <1>6, <1>7

(* What a command line can ask of each call. *)
LEMMA FlagsGiveOptions ==
  /\ OptionsFor(VectorFlag) \subseteq VectorOptions
  /\ OptionsFor(RasterFlag) \subseteq RasterOptions
  /\ "Cutline" \in OptionsFor(RasterFlag) <=> "cutline" \in cmd.flags
<1>1. \A p \in VectorFlag : p[2] \in VectorOptions
  BY DEF VectorFlag, VectorOptions
<1>2. \A p \in RasterFlag : p[2] \in RasterOptions /\ (p[2] = "Cutline" => p[1] = "cutline")
  BY DEF RasterFlag, RasterOptions
<1>3. <<"cutline", "Cutline">> \in RasterFlag
  BY DEF RasterFlag
<1>4. QED
  BY <1>1, <1>2, <1>3 DEF OptionsFor

LEMMA EntriesAre ==
  /\ Entries = {"ConvertVector", "ConvertRaster", "ToCOG", "ReprojectRaster", "BuildVRT",
                "Rasterize", "DEMProcessing", "ToPMTiles"}
  /\ GDALCalls = Entries \ {"BuildVRT", "ToPMTiles"}
BY DEF Entries, FlagsOf, GDALCalls

LEMMA TakenAreOptions == \A entry \in Entries : Taken(entry) \subseteq Options
<1>1. SUFFICES ASSUME NEW entry \in Entries PROVE Taken(entry) \subseteq Options
  OBVIOUS
<1>2. CallerOptions[entry] \subseteq Options
  BY <1>1, EntriesAre DEF CallerOptions, Options, Parameters
<1>3. {"Format", "CogDefaults"} \subseteq Options
  BY DEF Options, Parameters, VectorOptions
<1>4. QED
  BY <1>2, <1>3 DEF Taken

LEMMA FlagsTyped == \A entry \in Entries : ToSet(FlagsOf[entry]) \subseteq Options
BY FlagsAreOptions, EntriesAre DEF FlagsOf, Options, Parameters

LEMMA RenderedTyped ==
  ASSUME NEW entry \in Entries, NEW given
  PROVE  ToSet(Rendered(FlagsOf[entry], given)) \subseteq Options
BY FlagsTyped, RenderedAreGiven
-----------------------------------------------------------------------------
(* The invariant *)

LEMMA ConvertInitially == Init => ConvertInv
<1>1. SUFFICES ASSUME Init PROVE ConvertInv
  OBVIOUS
<1>2. /\ datasets = {} /\ args = <<>> /\ scratch = FALSE /\ written = "untouched"
      /\ from = {} /\ result = "none" /\ exit = "none" /\ checked = 0
      /\ canceled = FALSE /\ trouble = FALSE /\ gone \in SUBSET Sources
  BY <1>1 DEF Init, ConvertInit
<1>3. ReqInv
  <2>1. CASE at = "begin" /\ req \in Requests
    BY <2>1, CallersAssumption DEF ReqInv, Taken
  <2>2. CASE req = NoRequest
    BY <2>2, EntriesAre DEF ReqInv, NoRequest, Request
  <2>3. QED
    BY <1>1, <2>1, <2>2 DEF Init
<1>4. cmd \in Commands \cup {NoCommand} /\ at \in {"begin", "command"}
      /\ (at = "begin" => cmd = NoCommand) /\ (at = "command" => cmd \in Commands)
  BY <1>1 DEF Init
<1>5. ToSet(args) = {}
  BY <1>2 DEF ToSet
<1>6. TypeOK
  <2>1. req.given \subseteq Options
    BY <1>3, TakenAreOptions DEF ReqInv
  <2>2. checked \in 0..Len(req.srcs)
    BY <1>2, <1>3 DEF ReqInv
  <2>3. CtxTypeOK /\ cmd \in Commands \cup {NoCommand} /\ exit \in {"none", "0", "1"}
    BY <1>2, <1>4 DEF CtxTypeOK
  <2>4. ToSet(args) \subseteq Options /\ gone \subseteq Sources /\ from \subseteq Sources
        /\ datasets \subseteq {"src", "dst"}
    BY <1>2, <1>5
  <2>5. QED
    BY <1>2, <1>3, <1>4, <2>1, <2>2, <2>3, <2>4 DEF TypeOK, ConvertTypeOK, ReqInv
<1>7. PathInv
  BY <1>1, <1>4 DEF PathInv, Init, Is, NoRequest, Request
<1>8. HeldInv /\ WorkInv /\ CheckedInv
  BY <1>2, <1>3, <1>4 DEF HeldInv, WorkInv, CheckedInv, Ran, ReqInv
<1>9. NilMeansWritten /\ CommandInv
  BY <1>2, <1>4 DEF NilMeansWritten, CommandInv, IsCommand
<1>10. QED
  BY <1>3, <1>6, <1>7, <1>8, <1>9 DEF ConvertInv
-----------------------------------------------------------------------------
(* GDAL, or go-pmtiles, is called: what each of its outcomes leaves. *)

(* GDAL is called with what was asked for. *)
LEMMA RunWithArgs ==
  ASSUME ReqInv, CheckedInv, req' = req, args' = Rendered(FlagsOf[req.entry], req.given)
  PROVE  /\ ToSet(args') \subseteq Options
         /\ at = "run" /\ Senseless /\ ~Is({"ToPMTiles"}) => req.malformed
<1>1. ToSet(args') \subseteq Options
  BY RenderedTyped DEF ReqInv
<1>2. ASSUME at = "run", Senseless, ~Is({"ToPMTiles"}) PROVE req.malformed
  <2>1. CASE Is({"BuildVRT"})
    <3>1. "Format" \notin req.given
      BY <2>1 DEF ReqInv, Is, Taken, CallerOptions, VRTOptions
    <3>2. QED
      BY <1>2, <3>1 DEF Senseless
  <2>2. CASE Is(GDALCalls)
    BY <1>2, <2>2 DEF CheckedInv, Senseless
  <2>3. QED
    BY <1>2, <2>1, <2>2, EntriesAre DEF ReqInv, Is
<1>3. QED
  BY <1>1, <1>2

(* What BuildVRT leaves out, it has seen before it went away. *)
LEMMA AllButTheGone ==
  ASSUME ReqInv, CheckedInv, at = "run",
         from' = IF Is({"BuildVRT"}) THEN ToSet(req.srcs) \ gone ELSE ToSet(req.srcs)
  PROVE  /\ from' \subseteq Sources
         /\ ToSet(req.srcs) \ from' # {} => Is({"BuildVRT"}) /\ trouble
<1>1. DOMAIN req.srcs = 1..Len(req.srcs) /\ \A i \in DOMAIN req.srcs : req.srcs[i] \in Sources
  BY DEF ReqInv
<1>2. from' \subseteq Sources
  BY <1>1 DEF ToSet
<1>3. ASSUME ToSet(req.srcs) \ from' # {} PROVE Is({"BuildVRT"}) /\ trouble
  <2>1. Is({"BuildVRT"})
    BY <1>3
  <2>2. PICK i \in DOMAIN req.srcs : req.srcs[i] \in gone
    BY <1>3, <2>1 DEF ToSet
  <2>3. i \in 1..checked
    BY <1>1, <2>1 DEF CheckedInv
  <2>4. QED
    BY <2>1, <2>2, <2>3 DEF CheckedInv
<1>4. QED
  BY <1>2, <1>3

LEMMA RunStep ==
  ASSUME ConvertInv, Run \/ RunSilently \/ RunFails, UNCHANGED <<cmd, exit>>
  PROVE  ConvertInv'
<1> USE EntriesAre DEF ConvertInv, Leave, Is
<1>1. /\ at = "run" /\ at' = "leaving" /\ result' \in {"nil", "failed"}
      /\ args' = Rendered(FlagsOf[req.entry], req.given)
      /\ UNCHANGED <<req, checked, scratch, gone>>
      /\ UNCHANGED ctxVars \/ (trouble' = TRUE /\ canceled' = canceled)
      /\ datasets' \in {datasets, datasets \cup {"dst"}}
      /\ Is({"ToPMTiles"}) => datasets' = datasets
  BY DEF Run, RunSilently, RunFails, Disturb, ctxVars
<1>2. ToSet(args') \subseteq Options
  BY <1>1, RunWithArgs
<1>3. from' \subseteq Sources /\ written' \in {"untouched", "partial", "whole"}
  BY <1>1, AllButTheGone DEF Run, RunSilently, RunFails, TypeOK, ConvertTypeOK
<1>4. NilMeansWritten'
  <2>1. CASE Run
    BY <1>1, <2>1, AllButTheGone DEF Run, NilMeansWritten, ctxVars
  <2>2. CASE RunSilently
    BY <1>1, <2>2, RunWithArgs DEF RunSilently, NilMeansWritten
  <2>3. CASE RunFails
    BY <1>1, <2>3 DEF RunFails, NilMeansWritten
  <2>4. QED
    BY <2>1, <2>2, <2>3
<1>5. TypeOK'
  BY <1>1, <1>2, <1>3 DEF TypeOK, ConvertTypeOK, CtxTypeOK, ctxVars
<1>6. ReqInv' /\ PathInv' /\ HeldInv'
  BY <1>1 DEF ReqInv, PathInv, HeldInv
<1>7. WorkInv'
  BY <1>1 DEF WorkInv
<1>8. CheckedInv'
  BY <1>1 DEF CheckedInv, TypeOK, ConvertTypeOK, CtxTypeOK, ctxVars
<1>9. CommandInv'
  BY <1>1 DEF CommandInv, RasterCall, IsCommand, WorkInv
<1>10. QED
  BY <1>4, <1>5, <1>6, <1>7, <1>8, <1>9
-----------------------------------------------------------------------------
(* Every other step of a call *)

LEMMA CogStep ==
  ASSUME ConvertInv, MergeCogDefaults, UNCHANGED <<cmd, exit>>
  PROVE  ConvertInv'
<1> USE EntriesAre DEF ConvertInv, Is
<1>1. /\ at = "begin" /\ at' = at /\ req.entry = "ToCOG"
      /\ req' = [req EXCEPT !.entry = "ConvertRaster",
                            !.given = @ \cup {"Format", "CogDefaults"},
                            !.registered = "Format" \in req.given => @]
      /\ UNCHANGED <<ctxVars, checked, gone, datasets, args, scratch, written, from, result>>
  BY DEF MergeCogDefaults, work
<1>2. /\ req'.entry = "ConvertRaster" /\ req'.srcs = req.srcs
      /\ req'.given = req.given \cup {"Format", "CogDefaults"}
      /\ req'.registered \in BOOLEAN /\ req'.malformed = req.malformed
  BY <1>1 DEF ReqInv
<1>3. ReqInv'
  BY <1>1, <1>2 DEF ReqInv, Taken, CallerOptions
<1>4. result = "none" /\ args = <<>> /\ written = "untouched" /\ datasets = {} /\ ~scratch
      /\ checked = 0
  BY <1>1 DEF WorkInv, HeldInv, CheckedInv, Ran
<1>5. TypeOK'
  BY <1>1, <1>2, <1>3, TakenAreOptions
     DEF ReqInv, TypeOK, ConvertTypeOK, CtxTypeOK, ctxVars
<1>6. PathInv' /\ HeldInv' /\ WorkInv' /\ CheckedInv' /\ NilMeansWritten'
  BY <1>1, <1>2, <1>4 DEF PathInv, HeldInv, WorkInv, CheckedInv, NilMeansWritten, Ran, ReqInv
<1>7. CommandInv'
  BY <1>1, <1>2 DEF CommandInv, RasterCall, IsCommand, WantsVersion
<1>8. QED
  BY <1>3, <1>5, <1>6, <1>7

LEMMA CallStep ==
  ASSUME ConvertInv, Call, UNCHANGED <<cmd, exit>>
  PROVE  ConvertInv'
<1> USE EntriesAre DEF ConvertInv, TypeOK, CtxTypeOK, ConvertTypeOK, ReqInv, PathInv, HeldInv,
        WorkInv, CheckedInv, NilMeansWritten, CommandInv, RasterCall, Goto, Leave, Is, Ran,
        IsCommand, WantsVersion, Disturb, ctxVars, work
<1>1. CASE MergeCogDefaults
  BY <1>1, CogStep
<1>2. CASE Run \/ RunSilently \/ RunFails
  BY <1>2, RunStep
<1>3. CASE CallCanceled
  BY <1>3 DEF CallCanceled
<1>4. CASE CallBegins
  BY <1>4 DEF CallBegins
<1>5. CASE Refuse
  BY <1>5 DEF Refuse
<1>6. CASE Accept
  BY <1>6 DEF Accept
<1>7. CASE KnownDriver
  BY <1>7 DEF KnownDriver
<1>8. CASE UnknownDriver
  BY <1>8 DEF UnknownDriver
<1>9. CASE OpenSource
  BY <1>9 DEF OpenSource
<1>10. CASE CannotOpen
  BY <1>10, ZenonT(60) DEF CannotOpen
<1>11. CASE CheckSource
  BY <1>11 DEF CheckSource
<1>12. CASE CheckFails
  <2>1. /\ at = "check" /\ at' = "leaving" /\ result' = "failed"
        /\ UNCHANGED <<req, checked, gone, datasets, args, scratch, written, from>>
        /\ UNCHANGED <<canceled, trouble>> \/ (trouble' = TRUE /\ canceled' = canceled)
    BY <1>12 DEF CheckFails
  <2>2. QED
    BY <2>1
<1>13. CASE AllChecked
  BY <1>13 DEF AllChecked
<1>14. CASE StatSource
  BY <1>14 DEF StatSource
<1>15. CASE StatFails
  BY <1>15 DEF StatFails
<1>16. CASE CreateScratch
  BY <1>16 DEF CreateScratch
<1>17. CASE CreateScratchFails
  BY <1>17 DEF CreateScratchFails
<1>18. CASE CloseOutput
  BY <1>18 DEF CloseOutput
<1>19. CASE CloseSource
  BY <1>19 DEF CloseSource
<1>20. CASE RemoveScratch
  <2>1. /\ at = "leaving" /\ at' = "returned" /\ scratch /\ scratch' = FALSE
        /\ UNCHANGED <<ctxVars, req, checked, gone, datasets, args, written, from, result>>
    BY <1>20 DEF RemoveScratch
  <2>2. Is({"ToPMTiles"}) /\ datasets = {}
    BY <2>1
  <2>3. QED
    BY <2>1, <2>2, ZenonT(60)
<1>21. CASE RemoveScratchFails
  BY <1>21 DEF RemoveScratchFails
<1>22. CASE Return
  BY <1>22 DEF Return
<1>23. QED
  BY <1>1, <1>2, <1>3, <1>4, <1>5, <1>6, <1>7, <1>8, <1>9, <1>10, <1>11, <1>12,
     <1>13, <1>14, <1>15, <1>16, <1>17, <1>18, <1>19, <1>20, <1>21, <1>22 DEF Call
-----------------------------------------------------------------------------
(* The command, and what happens around a call *)

(* The request a command line comes to. *)
LEMMA RequestStep ==
  ASSUME ConvertInv, RunVector \/ RunRaster
  PROVE  ConvertInv'
<1> USE EntriesAre DEF ConvertInv, Is, RequestOf, Request
<1>1. /\ at = "command" /\ at' = "begin" /\ result = "none" /\ result' = "none"
      /\ args = <<>> /\ written = "untouched" /\ datasets = {} /\ ~scratch /\ checked = 0
      /\ cmd \in Commands /\ exit = "none"
      /\ UNCHANGED <<ctxVars, checked, gone, datasets, args, scratch, written, from, cmd, exit>>
  BY DEF RunVector, RunRaster, Goto, work, WorkInv, HeldInv, CheckedInv, CommandInv, Ran
<1>2. cmd.src \in Sources /\ cmd.registered \in BOOLEAN /\ cmd.malformed \in BOOLEAN
  BY <1>1, CallersAssumption
<1>3. /\ req'.srcs = <<cmd.src>> /\ req'.registered = cmd.registered
      /\ req'.malformed = cmd.malformed
  BY DEF RunVector, RunRaster
<1>4. /\ req'.entry \in Entries /\ req'.given \subseteq Taken(req'.entry)
      /\ cmd.mode = "raster" => RasterCall'
  <2>1. CASE RunVector
    BY <2>1, FlagsGiveOptions DEF RunVector, Taken, CallerOptions
  <2>2. CASE RunRaster
    <3>1. /\ cmd.mode = "raster" /\ cmd' = cmd /\ at' = "begin"
          /\ req'.entry = RasterEntry
          /\ req'.given = OptionsFor(RasterFlag) \cup
                          (IF RasterEntry = "ReprojectRaster" THEN {"SrcSRS", "DstSRS"} ELSE {})
      BY <2>2, <1>1 DEF RunRaster
    <3>2. RasterEntry \in {"ReprojectRaster", "ToCOG", "ConvertRaster"}
      BY DEF RasterEntry
    <3>3. req'.given \subseteq Taken(req'.entry)
      BY <3>1, <3>2, FlagsGiveOptions DEF Taken, CallerOptions
    <3>4. "CogDefaults" \notin OptionsFor(RasterFlag)
      BY FlagsGiveOptions DEF RasterOptions
    <3>5. RasterCall'
      BY <3>1, <3>2, <3>4, FlagsGiveOptions DEF RasterCall, RasterEntry
    <3>6. QED
      BY <3>1, <3>2, <3>3, <3>5
  <2>3. QED
    BY <2>1, <2>2
<1>5. ReqInv'
  BY <1>2, <1>3, <1>4 DEF ReqInv
<1>6. TypeOK'
  BY <1>1, <1>3, <1>5, TakenAreOptions DEF ReqInv, TypeOK, ConvertTypeOK, CtxTypeOK, ctxVars
<1>7. PathInv' /\ HeldInv' /\ WorkInv' /\ CheckedInv' /\ NilMeansWritten'
  BY <1>1, <1>3 DEF PathInv, HeldInv, WorkInv, CheckedInv, NilMeansWritten, Ran
<1>8. CommandInv'
  BY <1>1, <1>4 DEF CommandInv, IsCommand, WantsVersion
<1>9. QED
  BY <1>5, <1>6, <1>7, <1>8

LEMMA CommandStep ==
  ASSUME ConvertInv, Command
  PROVE  ConvertInv'
<1> USE EntriesAre DEF ConvertInv, TypeOK, CtxTypeOK, ConvertTypeOK, ReqInv, PathInv, HeldInv,
        WorkInv, CheckedInv, NilMeansWritten, CommandInv, RasterCall, Goto, Is, Ran,
        IsCommand, WantsVersion, ctxVars, convertVars, callVars, work
<1>1. CASE RunVector \/ RunRaster
  BY <1>1, RequestStep
<1>2. CASE PrintVersion
  BY <1>2 DEF PrintVersion
<1>3. CASE RejectCommand
  BY <1>3 DEF RejectCommand
<1>4. CASE Exit
  BY <1>4 DEF Exit
<1>5. QED
  BY <1>1, <1>2, <1>3, <1>4 DEF Command

LEMMA EnvironmentStep ==
  ASSUME ConvertInv, Environment
  PROVE  ConvertInv'
<1> USE EntriesAre DEF ConvertInv, TypeOK, CtxTypeOK, ConvertTypeOK, ReqInv, PathInv, HeldInv,
        WorkInv, CheckedInv, NilMeansWritten, CommandInv, RasterCall, Is, Ran,
        IsCommand, WantsVersion, Disturb, ctxVars, convertVars, callVars, work
<1>1. CASE Cancel /\ UNCHANGED convertVars
  BY <1>1 DEF Environment, Cancel
<1>2. CASE SourceVanishes
  <2>1. trouble' = TRUE /\ canceled' = canceled /\ gone' \subseteq Sources
        /\ UNCHANGED <<callVars, cmd, exit>>
    BY <1>2 DEF Environment, SourceVanishes
  <2>2. QED
    BY <2>1
<1>3. QED
  BY <1>1, <1>2 DEF Environment

LEMMA ConvertNext ==
  ASSUME ConvertInv, [Next]_vars
  PROVE  ConvertInv'
<1>1. CASE Call /\ UNCHANGED <<cmd, exit>>
  BY <1>1, CallStep
<1>2. CASE Command
  BY <1>2, CommandStep
<1>3. CASE Environment
  BY <1>3, EnvironmentStep
<1>4. CASE UNCHANGED vars
  BY <1>4 DEF vars, ctxVars, convertVars, callVars, work, ConvertInv, TypeOK, CtxTypeOK,
     ConvertTypeOK, ReqInv, PathInv, HeldInv, WorkInv, CheckedInv, NilMeansWritten,
     CommandInv, RasterCall, Is, Ran, IsCommand, WantsVersion
<1>5. QED
  BY <1>1, <1>2, <1>3, <1>4 DEF Next, Finished

LEMMA ConvertInvariant == Spec => []ConvertInv
BY ConvertInitially, ConvertNext, PTL DEF Spec
-----------------------------------------------------------------------------
(* The theorems *)

(* Every variable has its type: in particular, no call asks GDAL for an     *)
(* option that there is no With function or parameter for.                  *)
THEOREM ConvertTyped == Spec => []TypeOK
<1>1. ConvertInv => TypeOK
  BY DEF ConvertInv
<1>2. QED
  BY <1>1, ConvertInvariant, PTL

(* However a call ends, it leaves no dataset open and, unless its removal   *)
(* fails, no scratch file; the output never outlives the source             *)
(* (pmtiles.go:107-110 and the deferred Closes).                            *)
THEOREM NothingStaysOpen == Spec => []NothingLeftOpen
<1>1. ConvertInv => NothingLeftOpen
  BY EntriesAre DEF ConvertInv, HeldInv, NothingLeftOpen, Is
<1>2. QED
  BY <1>1, ConvertInvariant, PTL

(* nil means a whole output, made of all sources, however silent GDAL is    *)
(* (validate.go:18-25, buildvrt.go:159-189).                                *)
THEOREM NilIsWritten == Spec => []NilMeansWritten
<1>1. ConvertInv => NilMeansWritten
  BY DEF ConvertInv
<1>2. QED
  BY <1>1, ConvertInvariant, PTL

(* The error of a canceled context is for a call that has done nothing      *)
(* (vector.go:158-160).                                                     *)
THEOREM CanceledIsUntouched == Spec => []CanceledMeansUntouched
<1>1. ConvertInv => CanceledMeansUntouched
  BY DEF ConvertInv, WorkInv, CanceledMeansUntouched
<1>2. QED
  BY <1>1, ConvertInvariant, PTL

(* The exit status tells whether a conversion was made, and a refusal has   *)
(* touched nothing (gisconvert.go:40-51, 85-105).                           *)
THEOREM ExitIsTrue == Spec => []ExitTellsTheTruth
<1>1. ConvertInv => ExitTellsTheTruth
  BY DEF ConvertInv, WorkInv, CommandInv, ExitTellsTheTruth
<1>2. QED
  BY <1>1, ConvertInvariant, PTL

(* Of the options that are given, GDAL is told all but the cutline of a     *)
(* call that does not warp, the bands of one that does and a tolerance      *)
(* below 0 (raster.go:202-231, raster_reproject.go:83-122, vector.go:227).  *)
THEOREM OnlyTwoAreLost == Spec => []OnlyBandsAndCutlineAreLost
<1>1. ASSUME ConvertInv PROVE OnlyBandsAndCutlineAreLost
  <2>1. SUFFICES ASSUME args # <<>>
        PROVE req.given \ ToSet(args) \subseteq
                {"ColorRelief", "NegativeSimplify"} \cup
                (IF Is({"ConvertRaster"}) THEN {"Cutline"}
                 ELSE IF Is({"ReprojectRaster"}) THEN {"Bands"} ELSE {})
    BY DEF OnlyBandsAndCutlineAreLost
  <2>2. ToSet(args) = ToSet(FlagsOf[req.entry]) \cap req.given
    BY <1>1, <2>1, RenderedAreGiven DEF ConvertInv, WorkInv
  <2>3. req.entry \in Entries /\ req.given \subseteq Taken(req.entry)
    BY <1>1 DEF ConvertInv, ReqInv
  <2>4. req.entry # "ToCOG"
    BY <1>1, <2>1 DEF ConvertInv, PathInv, WorkInv, Is, Ran
  <2>5. CASE req.entry = "ConvertRaster"
    BY <2>2, <2>3, <2>5, FlagsAreOptions DEF FlagsOf, Taken, CallerOptions, Is, RasterOptions
  <2>6. CASE req.entry = "ReprojectRaster"
    BY <2>2, <2>3, <2>6, FlagsAreOptions DEF FlagsOf, Taken, CallerOptions, Is
  <2>7. CASE req.entry \notin {"ConvertRaster", "ReprojectRaster"}
    <3>1. CallerOptions[req.entry] \subseteq
            {"ColorRelief", "NegativeSimplify"} \cup ToSet(FlagsOf[req.entry])
      BY <2>3, <2>4, <2>7, EntriesAre, FlagsAreOptions DEF FlagsOf, CallerOptions
    <3>2. QED
      BY <2>2, <2>3, <2>7, <3>1 DEF Taken
  <2>8. QED
    BY <2>5, <2>6, <2>7
<1>2. QED
  BY <1>1, ConvertInvariant, PTL

(* A raster command is reprojected if it names a target system, whatever    *)
(* -cog and -cutline say (gisconvert.go:190-203).                           *)
THEOREM ReprojectionIsFirst == Spec => []ReprojectionComesFirst
<1>1. ASSUME ConvertInv PROVE ReprojectionComesFirst
  <2>1. SUFFICES ASSUME IsCommand, Ran, cmd.mode = "raster"
        PROVE /\ "t-srs" \in cmd.flags <=> "DstSRS" \in ToSet(args)
              /\ "CogDefaults" \in ToSet(args) <=>
                   "cog" \in cmd.flags /\ "t-srs" \notin cmd.flags
              /\ "Cutline" \in ToSet(args) <=> {"cutline", "t-srs"} \subseteq cmd.flags
    BY DEF ReprojectionComesFirst
  <2>2. ToSet(args) = ToSet(FlagsOf[req.entry]) \cap req.given
    BY <1>1, <2>1, RenderedAreGiven DEF ConvertInv, WorkInv, Ran
  <2>3. result # "none" /\ at \in {"leaving", "returned"}
    BY <1>1, <2>1 DEF ConvertInv, WorkInv
  <2>4. RasterCall
    BY <1>1, <2>1, <2>3 DEF ConvertInv, CommandInv
  <2>5. CASE "t-srs" \in cmd.flags
    BY <2>2, <2>4, <2>5, FlagsAreOptions DEF RasterCall, Is, FlagsOf, RasterOptions
  <2>6. CASE "t-srs" \notin cmd.flags
    BY <2>2, <2>3, <2>4, <2>6, FlagsAreOptions DEF RasterCall, Is, FlagsOf, RasterOptions
  <2>7. QED
    BY <2>5, <2>6
<1>2. QED
  BY <1>1, ConvertInvariant, PTL
=============================================================================
