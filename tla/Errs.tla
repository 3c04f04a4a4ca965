--------------------------------- MODULE Errs ---------------------------------
(***************************************************************************)
(* The errors of the package: sentinels, and the GISError envelope that    *)
(* puts a sentinel in front of a cause.  An error is the chain that        *)
(* errors.Is and errors.As go down, outermost first; nil is the empty one. *)
(* A link of the chain is what its message names, in order: one thing if   *)
(* it is a sentinel, any number if it is made by errors.New.               *)
(***************************************************************************)
EXTENDS Sequences

Nil == <<>>

ErrConfigInvalid == <<"gismanager: config invalid">>
ErrVersionRequested == <<"version requested">>

(* Error made on the spot, which no caller can name. *)
ErrorsNew(names) == <<names>>

(* Mutant: the cause is dropped. *)
NewGISErrorWithoutCause(sentinel, cause) == <<sentinel>>

(* Is matches the sentinel, Unwrap goes on with the cause. *)
NewGISError(sentinel, cause) == <<sentinel>> \o cause

ErrorsIs(err, target) == \E i \in DOMAIN err : err[i] = target

(* What is left of err below its sentinel. *)
Unwrap(err) == Tail(err)
=============================================================================
