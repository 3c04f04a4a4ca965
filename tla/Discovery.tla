------------------------------- MODULE Discovery -------------------------------
(***************************************************************************)
(* getGISFiles, with preprocessFile and zipx.Extract: the recursive search *)
(* for data files that Walk begins with.  A node of the file tree is its   *)
(* path below the root, as a sequence of positions in name order, the      *)
(* order in which os.ReadDir lists a directory.  The nodes below a bundle  *)
(* (a zip file) are what its archive holds, in any order: they appear on   *)
(* disk, in a temporary directory of their own, as the bundle is unpacked. *)
(*                                                                         *)
(* The Go call stack is explicit.  A frame has the function, the node it   *)
(* was called for, the nodes it still has to go through and the files it   *)
(* has found:                                                              *)
(*   "caller"  who called getGISFiles for the root                         *)
(*   "list"    getGISFiles in a directory                                  *)
(*   "unpack"  preprocessFile in zipx.Extract                              *)
(*   "bundle"  preprocessFile in GetGISFiles of the temporary directory    *)
(* The context is not passed down: a cancellation changes nothing here.    *)
(***************************************************************************)
EXTENDS RunContext, Formats, Naturals, FiniteSets, SequencesExt

CONSTANTS
  Tree,     (* the nodes, <<>> the root *)
  Kinds     (* the assignments of kinds to nodes that are considered *)

Root == <<>>
Parents == {n \in Tree : \E m \in Tree : IsStrictPrefix(n, m)}

ASSUME TreeAssumption ==
  /\ IsFiniteSet(Tree) /\ Root \in Tree
  /\ \A n \in Tree : n \in Seq(Nat) /\ Prefixes(n) \subseteq Tree

(* A node is a directory or a file with one of the extensions. *)
ASSUME KindsAssumption ==
  /\ Kinds \subseteq [Tree -> {"dir"} \cup Extensions]
  /\ \A k \in Kinds, n \in Parents : k[n] \in {"dir", ".zip"}

VARIABLES
  kind,     (* kind[n]: what node n is; never changes *)
  stack,    (* the frames, innermost last *)
  status,   (* "running", "listed" or "failed" *)
  temps,    (* bundles whose temporary directory exists *)
  disk,     (* nodes unpacked into one *)
  lost      (* history: nodes for which a call returned an error *)

vars == <<ctxVars, kind, stack, status, temps, disk, lost>>

Frame(fn, node, todo) == [fn |-> fn, node |-> node, todo |-> todo, found |-> <<>>]

(* a is listed before b: by name, a directory before what is in it. *)
Before(a, b) ==
  \/ IsStrictPrefix(a, b)
  \/ \E k \in DOMAIN a \cap DOMAIN b :
       a[k] < b[k] /\ SubSeq(a, 1, k - 1) = SubSeq(b, 1, k - 1)

First(S) == CHOOSE n \in S : \A o \in S \ {n} : Before(n, o)

Top == Last(stack)
Entry == First(Top.todo)   (* the node the innermost loop is at *)

TypeOK ==
  /\ CtxTypeOK
  /\ kind \in Kinds
  /\ stack \in Seq([fn : {"caller", "list", "unpack", "bundle"}, node : Tree,
                    todo : SUBSET Tree, found : Seq(Tree)])
  /\ stack # <<>>
  /\ status \in {"running", "listed", "failed"}
  /\ temps \subseteq Tree /\ disk \subseteq Tree /\ lost \subseteq Tree

Init ==
  /\ kind \in Kinds
  /\ stack = <<Frame("caller", Root, {Root})>>
  /\ status = "running"
  /\ temps = {} /\ disk = {} /\ lost = {}
  /\ canceled = FALSE
  /\ trouble = FALSE

Below(n) == {m \in Tree : IsStrictPrefix(n, m)}
Children(n) == {m \in Below(n) : Len(m) = Len(n) + 1}
IsBundle(n) == kind[n] = ".zip"
(* What the archive of bundle z holds, nested bundles still packed. *)
Archive(z) == {m \in Below(z) : \A b \in Below(z) : IsBundle(b) => ~IsStrictPrefix(b, m)}
-----------------------------------------------------------------------------
(* How a call ends: its result goes to the last frame of s. *)

(* Files are appended to the caller's slice, which goes on to the next. *)
Answer(s, files) ==
  stack' = [s EXCEPT ![Len(s)].todo = @ \ {First(@)}, ![Len(s)].found = @ \o files]

(* An error ends the search if it is the root's and is dropped otherwise. *)
Fail(s) ==
  /\ lost' = lost \cup {First(Last(s).todo)}
  /\ IF Last(s).fn = "caller"
     THEN status' = "failed" /\ stack' = s
     ELSE Answer(s, <<>>) /\ UNCHANGED status

Running(fns) == status = "running" /\ Top.fn \in fns
(* getGISFiles is about to be called for the next node. *)
Visiting(kinds) ==
  /\ Running({"caller", "list", "bundle"})
  /\ Top.todo # {}
  /\ kind[Entry] \in kinds
-----------------------------------------------------------------------------
(* Mutants: bugs of the kind the properties are there to catch. *)

(* The temporary directory is removed when preprocessFile returns. *)
ReturnBundleRemoved ==
  /\ Running({"bundle"})
  /\ Top.todo = {}
  /\ Top.found # <<>>
  /\ Answer(Front(stack), <<Head(Top.found)>>)
  /\ temps' = temps \ {Top.node}
  /\ disk' = disk \ Archive(Top.node)
  /\ UNCHANGED <<ctxVars, kind, status, lost>>

(* An error in a directory ends its listing, not only the entry's. *)
EmptyBundleEndsListing ==
  /\ Running({"bundle"})
  /\ Top.todo = {}
  /\ Top.found = <<>>
  /\ lost' = lost \cup Last(Front(stack)).todo
  /\ stack' = [Front(stack) EXCEPT ![Len(stack) - 1].todo = {}]
  /\ UNCHANGED <<ctxVars, kind, status, temps, disk>>

(* After a failed Stat, a path that is not there is passed on as a file. *)
EntryFailsGarbled ==
  /\ Visiting({"dir"} \cup Extensions)
  /\ Disturb("source")
  /\ stack' = [stack EXCEPT ![Len(stack)].todo = @ \ {Entry},
                            ![Len(stack)].found = Append(@, Append(Entry, 0))]
  /\ UNCHANGED <<kind, status, temps, disk, lost>>
-----------------------------------------------------------------------------
(* Stat, ReadDir or MkdirTemp fails. *)
EntryFails ==
  /\ Visiting({"dir"} \cup Extensions)
  /\ Disturb("source")
  /\ Fail(stack)
  /\ UNCHANGED <<kind, temps, disk>>

TakeFile ==
  /\ Visiting(supportedEXT \ {".zip"})
  /\ Answer(stack, <<Entry>>)
  /\ UNCHANGED <<ctxVars, kind, status, temps, disk, lost>>

SkipOther ==
  /\ Visiting({e \in Extensions : ~IsSupported(e)})
  /\ Answer(stack, <<>>)
  /\ UNCHANGED <<ctxVars, kind, status, temps, disk, lost>>

EnterDirectory ==
  /\ Visiting({"dir"})
  /\ stack' = Append(stack, Frame("list", Entry, Children(Entry)))
  /\ UNCHANGED <<ctxVars, kind, status, temps, disk, lost>>

ReturnDirectory ==
  /\ Running({"list"})
  /\ Top.todo = {}
  /\ Answer(Front(stack), Top.found)
  /\ UNCHANGED <<ctxVars, kind, status, temps, disk, lost>>

(* preprocessFile makes the temporary directory and opens the archive. *)
StartUnpacking ==
  /\ Visiting({".zip"} \cap supportedEXT)
  /\ temps' = temps \cup {Entry}
  /\ stack' = Append(stack, Frame("unpack", Entry, Archive(Entry)))
  /\ UNCHANGED <<ctxVars, kind, status, disk, lost>>

ExtractEntry ==
  /\ Running({"unpack"})
  /\ \E entry \in Top.todo :
       /\ disk' = disk \cup {entry}
       /\ stack' = [stack EXCEPT ![Len(stack)].todo = @ \ {entry}]
  /\ UNCHANGED <<ctxVars, kind, status, temps, lost>>

(* The archive is bad, or an entry is refused, too large or cannot be       *)
(* written; or the temporary directory cannot be listed.  What has been     *)
(* unpacked stays, as does what there is of the entry.                      *)
UnpackFails ==
  /\ Running({"unpack"})
  /\ Disturb("source")
  /\ Fail(Front(stack))
  /\ \/ UNCHANGED disk
     \/ \E entry \in Top.todo : disk' = disk \cup {entry}
  /\ UNCHANGED <<kind, temps>>

(* GetGISFiles(newDir), with a loop over its entries. *)
ListBundle ==
  /\ Running({"unpack"})
  /\ Top.todo = {}
  /\ stack' = Append(Front(stack),
                     Frame("bundle", Top.node, Children(Top.node) \cap disk))
  /\ UNCHANGED <<ctxVars, kind, status, temps, disk, lost>>

(* files[0] stands for the bundle, whatever else is in it. *)
ReturnBundle ==
  /\ Running({"bundle"})
  /\ Top.todo = {}
  /\ Top.found # <<>>
  /\ Answer(Front(stack), <<Head(Top.found)>>)
  /\ UNCHANGED <<ctxVars, kind, status, temps, disk, lost>>

(* "cannot find gis files" *)
EmptyBundle ==
  /\ Running({"bundle"})
  /\ Top.todo = {}
  /\ Top.found = <<>>
  /\ Fail(Front(stack))
  /\ UNCHANGED <<ctxVars, kind, temps, disk>>

ReturnFiles ==
  /\ Running({"caller"})
  /\ Top.todo = {}
  /\ status' = "listed"
  /\ UNCHANGED <<ctxVars, kind, stack, temps, disk, lost>>

Finished ==
  /\ status # "running"
  /\ UNCHANGED vars

Next ==
  \/ EntryFails
  \/ TakeFile
  \/ SkipOther
  \/ EnterDirectory
  \/ ReturnDirectory
  \/ StartUnpacking
  \/ ExtractEntry
  \/ UnpackFails
  \/ ListBundle
  \/ ReturnBundle
  \/ EmptyBundle
  \/ ReturnFiles
  \/ Finished

Spec == Init /\ [][Next]_vars
-----------------------------------------------------------------------------
(* The reference.  A data file is one that a driver can be had for, and a   *)
(* .gdb file, which is listed and then refused (driver_table_test.go:61-64).*)
IsData(n) ==
  /\ kind[n] \in Extensions \ {".zip"}
  /\ GetDriver(kind[n]) # NoDriver \/ kind[n] = ".gdb"

(* Data files neither lost themselves nor below a lost node. *)
Usable == {n \in Tree : IsData(n) /\ Prefixes(n) \cap lost = {}}

(* Of the usable files of a bundle, however deep, only the first counts. *)
FirstOfItsBundles(n) ==
  \A z \in Prefixes(n) :
    IsBundle(z) => \A m \in Usable \cap Below(z) : ~Before(m, n)

(* The search finds what is there and nothing else, in name order: every   *)
(* usable file that is not shadowed by an earlier one of its bundle, so    *)
(* that an error deep in the tree costs the files below it and no other,   *)
(* and no file is passed over that there is a driver for (utils.go:72-74,  *)
(* 94-116, 181-191, vars.go:7-13, manager.go:177-191).                     *)
FindsWhatIsThere ==
  status = "listed" =>
    /\ \A i, j \in DOMAIN Top.found : i < j => Before(Top.found[i], Top.found[j])
    /\ ToSet(Top.found) = {n \in Usable : FirstOfItsBundles(n)}

(* A path that is handed on names a file that exists: what came out of a   *)
(* bundle is still in its temporary directory when the caller opens it     *)
(* (utils.go:168-191).                                                     *)
FoundFilesExist ==
  \A i \in DOMAIN stack : \A n \in ToSet(stack[i].found) :
    \A z \in Prefixes(n) \ {n} : IsBundle(z) => z \in temps /\ n \in disk

(* If nothing outside goes wrong, the only errors are those of bundles     *)
(* without any data file (utils.go:187-190).                               *)
LossesHaveAReason ==
  ~trouble => \A n \in lost : IsBundle(n) /\ \A m \in Below(n) : ~IsData(m)
=============================================================================
