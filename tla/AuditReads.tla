----------------------------- MODULE AuditReads ------------------------------
(***************************************************************************)
(* What one audit reads from Revit (orchestrator.run_revit): first the     *)
(* geometry half, when the ruleset has geometry rules, then the passes of  *)
(* the audit graph, when it has parameter rules.                           *)
(***************************************************************************)
EXTENDS ElementQuery, GeometryQuery

CONSTANT Rulesets     \* the kinds of rules that a ruleset may hold

ASSUME RulesetsAssumption ==
  Rulesets \subseteq SUBSET {"geometry", "parameters"}

VARIABLE ruleset

vars == <<ruleset, elementVars, geometryVars>>

\* bulk_fields is about parameters only.
Init ==
  /\ ruleset \in Rulesets
  /\ InitElements /\ InitGeometry
  /\ bulk => "parameters" \in ruleset

GeometryHalf ==
  /\ "geometry" \in ruleset
  /\ NextGeometry
  /\ UNCHANGED <<ruleset, elementVars>>

ParameterHalf ==
  /\ "parameters" \in ruleset
  /\ "geometry" \in ruleset => geoPhase = "done"
  /\ NextElements
  /\ UNCHANGED <<ruleset, geometryVars>>

Next == GeometryHalf \/ ParameterHalf

Spec == Init /\ [][Next]_vars /\ FairElements

=============================================================================
