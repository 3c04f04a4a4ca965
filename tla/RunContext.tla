------------------------------ MODULE RunContext ------------------------------
(***************************************************************************)
(* What surrounds one run of gismanager: the context.Context every public  *)
(* method takes, and the things outside the process that can go wrong.     *)
(* Env chooses which of them a model lets happen:                          *)
(*                                                                         *)
(*   "cancel"   the context is canceled (SIGINT or SIGTERM, or the caller) *)
(*   "config"   the GeoServer URL is malformed, so no client can be built  *)
(*   "http"     a REST call fails, its effect applied or not               *)
(*   "rival"    another client creates resources in the same catalog       *)
(*   "postgis"  the target cannot be opened, or a ping fails               *)
(*   "copy"     GDAL's CopyLayer fails and returns a null layer            *)
(*   "source"   files cannot be listed, or one cannot be opened            *)
(*   "file"     a file goes away, or one cannot be created or removed      *)
(*   "gdal"     GDAL or go-pmtiles fails to open, or to convert            *)
(*   "stdout"   standard output cannot be written                          *)
(***************************************************************************)
CONSTANT Env

Disturbances ==
  {"cancel", "config", "http", "rival", "postgis", "copy", "source",
   "file", "gdal", "stdout"}

ASSUME EnvAssumption == Env \subseteq Disturbances

VARIABLES
  canceled,   (* ctx.Err() # nil *)
  trouble     (* history: something outside the code has gone wrong *)

ctxVars == <<canceled, trouble>>

CtxTypeOK ==
  /\ canceled \in BOOLEAN
  /\ trouble \in BOOLEAN

(* The context is canceled: cli.SignalContext, or the cancel of a caller. *)
Cancel ==
  /\ "cancel" \in Env
  /\ ~canceled
  /\ canceled' = TRUE
  /\ trouble' = TRUE

(* An outside failure of kind d happens in this step. *)
Disturb(d) ==
  /\ d \in Env
  /\ trouble' = TRUE
  /\ UNCHANGED canceled
=============================================================================
