-------------------------------- MODULE Program --------------------------------
(***************************************************************************)
(* The commands gismanager and layerSchema from their arguments to their   *)
(* exit status, and a program that builds a Manager with New.  Composed of *)
(* Config, of Walk, which layerSchema ranges over, and of PublishContract, *)
(* which stands for PublishAll here (that PublishAll keeps it is shown     *)
(* where PublishAll is modelled).                                          *)
(***************************************************************************)
EXTENDS Walk, Config, FiniteSets

VARIABLES
  prog,      (* which of the three programs runs *)
  argv,      (* the flags it is given, "bad" a faulty one *)
  pc,        (* where run is *)
  status,    (* what has become of each layer, and what PublishAll has *)
  result,    (*   returned: the variables of PublishContract           *)
  listed,    (* layers in layerSchema's output, or in its entries *)
  stdout,    (* the JSON document on stdout: "none", "part" or "whole" *)
  exit       (* exit status, "none" before that *)

Contract == INSTANCE PublishContract

contractVars == <<status, result>>
outputVars == <<listed, stdout>>
runVars == <<prog, argv, pc, exit>>
vars == <<ctxVars, walkVars, configVars, contractVars, outputVars, runVars>>

IsCommand == prog \in {"gismanager", "layerSchema"}
JSON == "json" \in argv

TypeOK ==
  /\ CtxTypeOK
  /\ WalkTypeOK
  /\ ConfigTypeOK
  /\ Contract!TypeOK
  /\ prog \in {"gismanager", "layerSchema", "library"}
  /\ argv \subseteq {"bad", "version", "config", "json"}
  /\ pc \in {"args", "stat", "config", "publish", "list", "encode", "return", "exited"}
  /\ listed \in Seq(Layers)
  /\ stdout \in {"none", "part", "whole"}
  /\ exit \in {"none", "0", "1"}

Init ==
  /\ WalkInit
  /\ ConfigInit
  /\ Contract!Init
  /\ canceled = FALSE
  /\ trouble = FALSE
  /\ prog \in {"gismanager", "layerSchema", "library"}
  /\ IsCommand \/ disk = NoFile
  /\ argv \in IF IsCommand THEN SUBSET {"bad", "version", "config", "json"} ELSE {{}}
  /\ pc = IF IsCommand THEN "args" ELSE "config"
  /\ listed = <<>>
  /\ stdout = "none"
  /\ exit = "none"

Goto(next) == pc' = next
(* run returns e. *)
ReturnFromRun(e) ==
  /\ err' = e
  /\ Goto("return")
-----------------------------------------------------------------------------
(* Mutants: bugs of the kind the properties are there to catch. *)

(* An error of PublishAll is logged and not returned. *)
PublishDoneLogged ==
  /\ pc = "publish"
  /\ result # "running"
  /\ ReturnFromRun(Nil)
  /\ UNCHANGED <<ctxVars, walkVars, configLocals, contractVars, outputVars, prog, argv, exit>>

-----------------------------------------------------------------------------
(* run: the arguments *)

(* layerSchema alone has a flag -json. *)
ParseError == "bad" \in argv \/ (JSON /\ prog # "layerSchema")
WantsVersion == "version" \in argv
RequireFlag(flag) == flag \in argv

RejectArgs ==
  /\ pc = "args"
  /\ ParseError \/ (~WantsVersion /\ ~RequireFlag("config"))
  /\ ReturnFromRun(ErrorsNew(<<"usage">>))
  /\ UNCHANGED <<ctxVars, walkVars, configLocals, contractVars, outputVars, prog, argv, exit>>

PrintVersion ==
  /\ pc = "args"
  /\ ~ParseError /\ WantsVersion
  /\ ReturnFromRun(ErrorsNew(ErrVersionRequested))
  /\ UNCHANGED <<ctxVars, walkVars, configLocals, contractVars, outputVars, prog, argv, exit>>

AcceptArgs ==
  /\ pc = "args"
  /\ ~ParseError /\ ~WantsVersion /\ RequireFlag("config")
  /\ Goto("stat")
  /\ UNCHANGED <<ctxVars, walkVars, configVars, contractVars, outputVars, prog, argv, exit>>

(* Only that there is no such file is an error here. *)
StatConfig ==
  /\ pc = "stat"
  /\ IF disk.state = "absent"
     THEN ReturnFromRun(ErrorsNew(<<"no file">>))
     ELSE Goto("config") /\ UNCHANGED err
  /\ UNCHANGED <<ctxVars, walkVars, configLocals, contractVars, outputVars, prog, argv, exit>>

Configure ==
  /\ pc = "config"
  /\ IF IsCommand THEN FromConfig ELSE NewByHand
  /\ UNCHANGED <<ctxVars, walkVars, contractVars, outputVars, runVars>>

ConfigDone ==
  /\ pc = "config"
  /\ phase \in {"done", "failed"}
  /\ Goto(IF phase = "failed" \/ ~IsCommand THEN "return"
          ELSE IF prog = "gismanager" THEN "publish" ELSE "list")
  /\ UNCHANGED <<ctxVars, walkVars, configVars, contractVars, outputVars, prog, argv, exit>>
-----------------------------------------------------------------------------
(* gismanager *)

(* An error of PublishAll needs an outside failure or a shared name. *)
PublishAll ==
  /\ pc = "publish"
  /\ Contract!Next
  /\ UNCHANGED <<ctxVars, walkVars, configVars, outputVars, runVars>>

PublishDone ==
  /\ pc = "publish"
  /\ result # "running"
  /\ ReturnFromRun(IF result = "nil" THEN Nil ELSE ErrorsNew(<<"publish">>))
  /\ UNCHANGED <<ctxVars, walkVars, configLocals, contractVars, outputVars, prog, argv, exit>>
-----------------------------------------------------------------------------
(* layerSchema *)

WalkOn ==
  /\ pc = "list"
  /\ Iterate
  /\ UNCHANGED <<configVars, contractVars, outputVars, runVars>>

(* The layer is printed, or added to the entries. *)
ListLayer ==
  /\ pc = "list"
  /\ at = "item"
  /\ listed' = Append(listed, Current)
  /\ Resume
  /\ UNCHANGED <<ctxVars, configVars, contractVars, stdout, runVars>>

(* Fprintln fails, and nobody looks; entries need no output yet. *)
PrintFails ==
  /\ pc = "list"
  /\ at = "item"
  /\ ~JSON
  /\ Disturb("stdout")
  /\ Resume
  /\ UNCHANGED <<configVars, contractVars, outputVars, runVars>>

LogWalkErr ==
  /\ pc = "list"
  /\ at \in YieldErrors
  /\ Resume
  /\ UNCHANGED <<ctxVars, configVars, contractVars, outputVars, runVars>>

WalkDone ==
  /\ pc = "list"
  /\ at = "done"
  /\ Goto(IF JSON THEN "encode" ELSE "return")
  /\ UNCHANGED <<ctxVars, walkVars, configVars, contractVars, outputVars, prog, argv, exit>>

Encode ==
  /\ pc = "encode"
  /\ stdout' = "whole"
  /\ Goto("return")
  /\ UNCHANGED <<ctxVars, walkVars, configVars, contractVars, listed, prog, argv, exit>>

EncodeFails ==
  /\ pc = "encode"
  /\ Disturb("stdout")
  /\ stdout' \in {"none", "part"}
  /\ ReturnFromRun(ErrorsNew(<<"encode JSON">>))
  /\ UNCHANGED <<walkVars, configLocals,
                 contractVars, listed, prog, argv, exit>>
-----------------------------------------------------------------------------
(* realMain *)
Exit ==
  /\ pc = "return"
  /\ IsCommand
  /\ exit' = IF err = Nil \/ ErrorsIs(err, ErrVersionRequested) THEN "0" ELSE "1"
  /\ Goto("exited")
  /\ UNCHANGED <<ctxVars, walkVars, configVars, contractVars, outputVars, prog, argv>>

(* The file that Stat has seen may be gone when ReadFile opens it. *)
FileVanishes ==
  /\ Disturb("file")
  /\ disk.state # "absent"
  /\ disk' = NoFile
  /\ UNCHANGED <<phase, environ, yamlFile, decoded, given, todo, m, err>>

Environment ==
  /\ pc \notin {"return", "exited"}
  /\ \/ Cancel /\ UNCHANGED configVars
     \/ phase \in {"idle", "read"} /\ FileVanishes
  /\ UNCHANGED <<walkVars, contractVars, outputVars, runVars>>

Finished ==
  /\ pc = IF IsCommand THEN "exited" ELSE "return"
  /\ UNCHANGED vars

Next ==
  \/ RejectArgs
  \/ PrintVersion
  \/ AcceptArgs
  \/ StatConfig
  \/ Configure
  \/ ConfigDone
  \/ PublishAll
  \/ PublishDone
  \/ WalkOn
  \/ ListLayer
  \/ PrintFails
  \/ LogWalkErr
  \/ WalkDone
  \/ Encode
  \/ EncodeFails
  \/ Exit
  \/ Environment
  \/ Finished

Spec == Init /\ [][Next]_vars
-----------------------------------------------------------------------------
(* PublishAll or Walk has been called and has done something. *)
WorkBegun ==
  at # "discover" \/ result # "running" \/ \E l \in Layers : status[l] # "pending"

(* No command touches a source, PostGIS or GeoServer before it has a logger *)
(* and a configuration with every field set, which is the one of the file   *)
(* it has read, expanded once (utils.go:30-61, manager.go:61-131).          *)
WorkNeedsConfiguration ==
  WorkBegun =>
    /\ m.logger # "nil"
    /\ IsWhole(m)
    /\ \A f \in Fields : m.text[f] = Expanded(yamlFile.text)[f]

(* So a literal field is used as it is in the file, and one that names a    *)
(* variable exactly as the environment has it, even if the value looks like *)
(* a reference itself (manager.go:103-119).                                 *)
NeverHalfConfigured ==
  /\ WorkNeedsConfiguration
  /\ WorkBegun =>
       \A f \in Fields :
         LET written == yamlFile.text[f]
         IN /\ ~Refers(written) => m.text[f] = written
            /\ \A v \in DOMAIN environ : written = <<<<"var", v>>>> => m.text[f] = environ[v]
            /\ written[1][1] = "lit" => m.text[f][1] = written[1]

(* A refused configuration is refused with ErrConfigInvalid and for a       *)
(* reason that is there: the file cannot be read, or not be decoded, or the *)
(* cause names the empty fields, each once and no other.  A field that only *)
(* refers to unset variables is one of them (utils.go:24-25,                *)
(* manager.go:49-52, 113-115).                                              *)
Reason ==
  LET cause == Unwrap(err)
  IN \/ cause = ErrorsNew(<<"read">>) /\ disk.state \in {"absent", "unreadable"}
     \/ /\ cause = ErrorsNew(<<"unmarshal">>)
        /\ yamlFile.state = "malformed" \/ Refers(yamlFile.text[Port])
     \/ /\ Len(cause) = 1
        /\ LET problems == Head(cause)
           IN /\ problems # <<>> /\ IsInjective(problems)
              /\ ToSet(problems) = {f \in Fields : m.text[f] = <<>>}
              /\ IsCommand =>
                   \A f \in Fields :
                     (\A p \in ToSet(yamlFile.text[f]) : p[1] = "var" /\ Getenv(p[2]) = <<>>) =>
                       f \in ToSet(problems)

RefusalSaysWhy ==
  phase = "failed" => ErrorsIs(err, ErrConfigInvalid) /\ Reason

(* The options "in any order": what New returns has each part as the last   *)
(* option for it says, a section as a whole, a part without option its      *)
(* default, a logger in any case, and no negative concurrency               *)
(* (options.go:9-10, 20-21, 51-54, 72-74).                                  *)
LastOptionWins ==
  phase = "validate" \/ (phase = "done" /\ prog = "library") =>
    LET last(part) == SelectLastInSeq(given, LAMBDA o : o.part = part)
        value(part) == IF last(part) = 0 THEN ZeroManager ELSE given[last(part)].arg
    IN /\ \A s \in DOMAIN Section : \A f \in Section[s] : m.text[f] = value(s).text[f]
       /\ m.logger = IF value("logger").logger = "custom" THEN "custom" ELSE "default"
       /\ LET n == value("concurrency").publishConcurrency
          IN m.publishConcurrency = IF n > 0 THEN n ELSE 0

(* The exit status: 0 is for the version, for layers that are all published *)
(* and for a listing that is in order and, unless something outside has     *)
(* failed, complete, in JSON as a whole document; a command refused before  *)
(* its work has done none of it (gismanager.go:20-36, layerSchema.go:39-50, *)
(* 81-101, 103-130).                                                        *)
ExitTellsTheTruth ==
  /\ exit = "0" =>
       \/ WantsVersion /\ ~WorkBegun
       \/ prog = "gismanager" /\ \A l \in Layers : status[l] = "published"
       \/ /\ prog = "layerSchema" /\ at = "done" /\ open = {}
          /\ \A j, k \in DOMAIN listed : j < k => Before(listed[j], listed[k])
          /\ ~trouble => ToSet(listed) = Layers
          /\ JSON <=> stdout = "whole"
  /\ exit = "1" =>
       \/ ~WorkBegun
       \/ prog = "gismanager" /\ result # "nil"
       \/ JSON /\ stdout # "whole"
=============================================================================
