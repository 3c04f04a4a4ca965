-------------------------------- MODULE Config --------------------------------
(***************************************************************************)
(* Where a Manager comes from: FromConfig, which reads, decodes, expands   *)
(* and validates a YAML file, and New, which applies options.  The module  *)
(* has no Next of its own: Program runs it for its commands and callers.   *)
(*                                                                         *)
(* A text is the sequence of its pieces: literal ones, <<"lit", c>>, and   *)
(* references to a variable, <<"var", v>>, as os.ExpandEnv would see them  *)
(* (a stray $ in a password is one, too).  The port, a number, is <<>> for *)
(* zero.  A Manager is its texts by field, its logger and its concurrency. *)
(***************************************************************************)
EXTENDS Errs, Integers, SequencesExt

CONSTANTS
  Contents,       (* the YAML documents that are considered, text by field *)
  Environments,   (* the process environments, text by variable *)
  OptionLists     (* the lists of options callers give to New *)

(* In the order Validate looks at them. *)
FieldOrder ==
  <<"geoserver.url", "geoserver.workspace", "geoserver.username",
    "geoserver.password", "datastore.host", "datastore.port",
    "datastore.database", "datastore.username", "datastore.password",
    "datastore.name", "source.path">>

Fields == ToSet(FieldOrder)
Port == "datastore.port"

(* What WithGeoserver, WithDatastore and WithSource each replace. *)
Section ==
  [geoserver |-> {"geoserver.url", "geoserver.workspace", "geoserver.username",
                  "geoserver.password"},
   datastore |-> {"datastore.host", Port, "datastore.database",
                  "datastore.username", "datastore.password", "datastore.name"},
   source |-> {"source.path"}]

Loggers == {"nil", "default", "custom"}
Parts == DOMAIN Section \cup {"logger", "concurrency", "nil"}

Text == Seq({"lit", "var"} \X STRING)
IsTexts(t) == DOMAIN t = Fields /\ \A f \in Fields : t[f] \in Text
IsManager(c) ==
  /\ IsTexts(c.text)
  /\ c.logger \in Loggers
  /\ c.publishConcurrency \in Int

(* An option is a part and, as a Manager, the value it gives the part. *)
ASSUME ConfigAssumption ==
  /\ \A t \in Contents : IsTexts(t)
  /\ \A e \in Environments : \A v \in DOMAIN e : e[v] \in Text
  /\ \A o \in OptionLists : o \in Seq([part : Parts, arg : {o[i].arg : i \in DOMAIN o}])
  /\ \A o \in OptionLists : \A i \in DOMAIN o : IsManager(o[i].arg)

VARIABLES
  phase,      (* where FromConfig or New is; it returns m or, "failed", err *)
  disk,       (* the configuration file: its state and its text *)
  environ,    (* the process environment *)
  yamlFile,   (* what ReadFile has read *)
  decoded,    (* the texts of the decoded Manager *)
  given,      (* history: the options New was called with *)
  todo,       (* those not yet applied *)
  m,          (* the Manager *)
  err         (* what FromConfig or Validate, and in the end run, returns *)

configLocals == <<phase, disk, environ, yamlFile, decoded, given, todo, m>>
configVars == <<configLocals, err>>

EmptyText == [f \in Fields |-> <<>>]
NoFile == [state |-> "absent", text |-> EmptyText]
ZeroManager == [text |-> EmptyText, logger |-> "nil", publishConcurrency |-> 0]

ConfigFiles ==
  [state : {"absent", "unreadable", "malformed"}, text : {EmptyText}] \cup
  [state : {"yaml"}, text : Contents]

(* What the message of an error names: empty fields, or what has failed. *)
Named ==
  Fields \cup {"gismanager: config invalid", "version requested", "usage", "no file",
               "read", "unmarshal", "publish", "encode JSON"}

ConfigTypeOK ==
  /\ phase \in {"idle", "read", "unmarshal", "expand", "new", "options",
                "validate", "done", "failed"}
  /\ IsTexts(disk.text) /\ IsTexts(yamlFile.text) /\ IsTexts(decoded)
  /\ IsManager(m) /\ m.publishConcurrency \in Nat
  /\ \A i \in DOMAIN err : ToSet(err[i]) \subseteq Named

ConfigInit ==
  /\ phase = "idle"
  /\ disk \in ConfigFiles
  /\ environ \in Environments
  /\ yamlFile = NoFile
  /\ decoded = EmptyText
  /\ given = <<>> /\ todo = <<>>
  /\ m = ZeroManager
  /\ err = Nil
-----------------------------------------------------------------------------
(* An unset variable is empty. *)
Getenv(v) == IF v \in DOMAIN environ THEN environ[v] ELSE <<>>

(* os.ExpandEnv: once, from left to right. *)
Expand(text) ==
  FlattenSeq([i \in DOMAIN text |->
                IF text[i][1] = "var" THEN Getenv(text[i][2]) ELSE <<text[i]>>])

(* Every string field, and the port, a number, as it is. *)
Expanded(t) == [f \in Fields |-> IF f = Port THEN t[f] ELSE Expand(t[f])]

Refers(text) == \E i \in DOMAIN text : text[i][1] = "var"

WithLogger(c, l) == [c EXCEPT !.logger = IF l = "nil" THEN "default" ELSE l]

(* Mutant: what the option leaves empty keeps its value. *)
WithSectionMerged(c, part, t) ==
  [c EXCEPT !.text = [f \in Fields |-> IF f \in Section[part] /\ t[f] # <<>>
                                       THEN t[f] ELSE c.text[f]]]

(* A section is replaced as a whole, by empty fields as well. *)
WithSection(c, part, t) ==
  [c EXCEPT !.text = [f \in Fields |-> IF f \in Section[part] THEN t[f] ELSE c.text[f]]]

(* Mutant: a negative number is kept. *)
WithPublishConcurrencyAsIs(c, n) == [c EXCEPT !.publishConcurrency = n]

WithPublishConcurrency(c, n) == [c EXCEPT !.publishConcurrency = IF n <= 0 THEN 0 ELSE n]

Apply(c, option) ==
  CASE option.part = "logger" -> WithLogger(c, option.arg.logger)
    [] option.part \in DOMAIN Section -> WithSection(c, option.part, option.arg.text)
    [] option.part = "concurrency" ->
         WithPublishConcurrency(c, option.arg.publishConcurrency)
    [] OTHER -> c

OptionsOf(text) ==
  LET config == [ZeroManager EXCEPT !.text = text, !.logger = "default"]
  IN [i \in 1..4 |-> [part |-> <<"logger", "geoserver", "datastore", "source">>[i],
                      arg |-> config]]

IsWhole(c) == \A f \in Fields : c.text[f] # <<>>
(* The names of the empty fields, each at its place in FieldOrder. *)
Problems(c) == RestrictValues(FieldOrder, LAMBDA f : c.text[f] = <<>>)
-----------------------------------------------------------------------------
(* Mutants: bugs of the kind the properties are there to catch. *)

(* What a variable holds is expanded in turn. *)
ExpandEnvTwice ==
  /\ phase = "expand"
  /\ decoded' = Expanded(Expanded(decoded))
  /\ phase' = "new"
  /\ UNCHANGED <<disk, environ, yamlFile, given, todo, m, err>>
-----------------------------------------------------------------------------
ConfigFails(cause) ==
  /\ err' = NewGISError(ErrConfigInvalid, cause)
  /\ phase' = "failed"
  /\ UNCHANGED <<disk, environ, yamlFile, decoded, given, todo, m>>

StartFromConfig ==
  /\ phase = "idle"
  /\ phase' = "read"
  /\ UNCHANGED <<disk, environ, yamlFile, decoded, given, todo, m, err>>

ReadFile ==
  /\ phase = "read"
  /\ disk.state \in {"malformed", "yaml"}
  /\ yamlFile' = disk
  /\ phase' = "unmarshal"
  /\ UNCHANGED <<disk, environ, decoded, given, todo, m, err>>

ReadFails ==
  /\ phase = "read"
  /\ disk.state \in {"absent", "unreadable"}
  /\ ConfigFails(ErrorsNew(<<"read">>))

(* A reference is no number: the port is not decoded from one. *)
Decodable == yamlFile.state = "yaml" /\ ~Refers(yamlFile.text[Port])

Unmarshal ==
  /\ phase = "unmarshal"
  /\ Decodable
  /\ decoded' = yamlFile.text
  /\ phase' = "expand"
  /\ UNCHANGED <<disk, environ, yamlFile, given, todo, m, err>>

UnmarshalFails ==
  /\ phase = "unmarshal"
  /\ ~Decodable
  /\ ConfigFails(ErrorsNew(<<"unmarshal">>))

ExpandEnv ==
  /\ phase = "expand"
  /\ decoded' = Expanded(decoded)
  /\ phase' = "new"
  /\ UNCHANGED <<disk, environ, yamlFile, given, todo, m, err>>

(* New begins: a Manager of zero values and the default logger. *)
StartNew(from, options) ==
  /\ phase = from
  /\ m' = [ZeroManager EXCEPT !.logger = "default"]
  /\ given' = options
  /\ todo' = options
  /\ phase' = "options"
  /\ UNCHANGED <<disk, environ, yamlFile, decoded, err>>

ApplyOption ==
  /\ phase = "options"
  /\ todo # <<>>
  /\ m' = Apply(m, Head(todo))
  /\ todo' = Tail(todo)
  /\ UNCHANGED <<phase, disk, environ, yamlFile, decoded, given, err>>

(* New returns, never with an error; next is what its caller does then. *)
NewReturns(next) ==
  /\ phase = "options"
  /\ todo = <<>>
  /\ phase' = next
  /\ UNCHANGED <<disk, environ, yamlFile, decoded, given, todo, m, err>>

Validate ==
  /\ phase = "validate"
  /\ IsWhole(m)
  /\ phase' = "done"
  /\ UNCHANGED <<disk, environ, yamlFile, decoded, given, todo, m, err>>

ValidateFails ==
  /\ phase = "validate"
  /\ ~IsWhole(m)
  /\ ConfigFails(ErrorsNew(Problems(m)))

FromConfig ==
  \/ StartFromConfig
  \/ ReadFile
  \/ ReadFails
  \/ Unmarshal
  \/ UnmarshalFails
  \/ ExpandEnv
  \/ StartNew("new", OptionsOf(decoded))
  \/ ApplyOption
  \/ NewReturns("validate")
  \/ Validate
  \/ ValidateFails

(* A program that builds its Manager itself may leave Validate out. *)
NewByHand ==
  \/ \E options \in OptionLists : StartNew("idle", options)
  \/ ApplyOption
  \/ NewReturns("validate")
  \/ NewReturns("done")
  \/ Validate
  \/ ValidateFails
=============================================================================
