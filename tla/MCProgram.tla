------------------------------- MODULE MCProgram -------------------------------
(***************************************************************************)
(* Program for TLC.  The documents are a complete one and what it becomes  *)
(* when one field is left empty or refers to variables; two secrets that   *)
(* both refer; and an empty document.  The options are given in lists of   *)
(* up to three.                                                            *)
(***************************************************************************)
EXTENDS Program, TLC

TwoFiles == <<1, 2>>

Lit(c) == <<<<"lit", c>>>>
Var(v) == <<<<"var", v>>>>

Complete == [f \in Fields |-> Lit(f)]
Secrets == {"geoserver.password", "datastore.password"}

Deviations == {<<>>, Var("P"), Var("Q"), Lit("x") \o Var("P"), Var("P") \o Var("Q")}

ManyContents ==
  {EmptyText, [f \in Fields |-> IF f \in Secrets THEN Var("P") ELSE Lit(f)]} \cup
  {[Complete EXCEPT ![f] = d] : f \in Fields, d \in Deviations} \cup {Complete}

(* Set, set to what looks like a reference, or not set. *)
ManyEnvironments == UNION {[set -> {Lit("secret"), Var("Q")}] : set \in SUBSET {"P", "Q"}}

WithManager(part, config) == [part |-> part, arg |-> config]

SomeOptions ==
  LET full == [ZeroManager EXCEPT !.text = Complete, !.logger = "custom",
                                  !.publishConcurrency = 3]
      half == [full EXCEPT !.text["geoserver.url"] = Lit("other"),
                           !.text["geoserver.password"] = <<>>,
                           !.publishConcurrency = -1, !.logger = "nil"]
  IN {WithManager(p, full) : p \in Parts} \cup
     {WithManager(p, half) : p \in {"geoserver", "logger", "concurrency"}}

ManyOptionLists == UNION {[1..n -> SomeOptions] : n \in 0..3}
=============================================================================
