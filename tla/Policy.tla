-------------------------------- MODULE Policy --------------------------------
(***************************************************************************)
(* The capability matrix (src/core/crates/common/src/policy.rs).           *)
(*                                                                         *)
(* Subjects, capabilities and the patterns that match them are abstract:   *)
(* Matches says which pattern matches which name (equality, "*", or a      *)
(* prefix followed by "*").  The subjects of a matrix are a map ordered by *)
(* pattern (a BTreeMap), so a matrix is the sequence of its rules in that  *)
(* order and the first rule whose pattern matches is the only one used.    *)
(***************************************************************************)
EXTENDS Naturals, Sequences

CONSTANTS
  Name,        \* subjects and capabilities
  Pattern,     \* patterns over them
  Matches,     \* the pairs <<pattern, name>> that match
  DefaultDeny  \* sandbox.capabilities.default_deny

ASSUME PolicyAssumption ==
  /\ Matches \subseteq Pattern \X Name
  /\ DefaultDeny \in BOOLEAN

Rule   == [pattern : Pattern, allow : SUBSET Pattern, deny : SUBSET Pattern]
Matrix == [default : SUBSET Pattern, subjects : Seq(Rule)]

Covered(patterns, name) == \E p \in patterns : <<p, name>> \in Matches

\* The positions of the rules whose pattern matches the subject.
Hits(matrix, subject) ==
  {i \in DOMAIN matrix.subjects : <<matrix.subjects[i].pattern, subject>> \in Matches}

\* The first of them: the one rule that counts.
Applies(matrix, subject, i) ==
  i \in Hits(matrix, subject) /\ \A j \in Hits(matrix, subject) : i <= j

ExplicitlyDenied(matrix, subject, capability) ==
  \E i \in DOMAIN matrix.subjects :
    Applies(matrix, subject, i) /\ Covered(matrix.subjects[i].deny, capability)

ExplicitlyAllowed(matrix, subject, capability) ==
  \/ Covered(matrix.default, capability)
  \/ \E i \in DOMAIN matrix.subjects :
       Applies(matrix, subject, i) /\ Covered(matrix.subjects[i].allow, capability)

DeniedCapabilities(matrix, subject, requested) ==
  {capability \in requested :
     \/ ExplicitlyDenied(matrix, subject, capability)
     \/ DefaultDeny /\ ~ExplicitlyAllowed(matrix, subject, capability)}

AllowedCapabilities(matrix, subject, requested) ==
  requested \ DeniedCapabilities(matrix, subject, requested)

\* ToolExecutor::authorize: one denied capability refuses the whole request.
Authorized(matrix, subject, requested) ==
  DeniedCapabilities(matrix, subject, requested) = {}

===============================================================================
