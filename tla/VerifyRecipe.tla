---------------------------- MODULE VerifyRecipe ----------------------------
(***************************************************************************)
(* How the verdict of a rule is turned into a Revit schedule that a        *)
(* reader can check it by: verify_recipes.py (one renderer per             *)
(* requirement), the unit conversion of policies/revit_units.py that the   *)
(* filters need, and the evaluators of policies/rules_engine.py that they  *)
(* have to agree with.  No state: operators of a rule view, the anatomy of *)
(* a rule that its check records carry.  The rule's scope, the elements    *)
(* that its scope_filter lets through, is not among it: no recipe reads    *)
(* the field scope.                                                        *)
(*                                                                         *)
(* A value is an integer in the storage unit of its parameter, or Blank.   *)
(* Factor[p][u] says how many units u go into one storage unit of p:       *)
(* nothing in DOMAIN Factor[p] is a unit without a registered conversion,  *)
(* and a parameter outside DOMAIN Factor has no known storage unit.        *)
(***************************************************************************)
EXTENDS Integers, Sequences, FiniteSets

CONSTANTS Blank, Factor, IdentityOf

Operators == {">=", ">", "<=", "<", "==", "!="}

NumericFamily ==
  {"numeric_compare", "numeric_min", "numeric_min_conditional",
   "positive_number"}

\* rules_engine._OPS
Compare(op, a, b) ==
  CASE op = ">=" -> a >= b
    [] op = ">"  -> a > b
    [] op = "<=" -> a <= b
    [] op = "<"  -> a < b
    [] op = "==" -> a = b
    [] OTHER     -> a # b

\* (broken: the boundary is left out)
FailOpStrict == [o \in Operators |->
                   CASE o \in {">=", ">"} -> "<" [] o \in {"<=", "<"} -> ">"
                     [] o = "==" -> "!=" [] OTHER -> "=="]

\* _FAIL_OP: the filter highlights what does NOT pass.
FailOp == [o \in Operators |->
             CASE o = ">=" -> "<"  [] o = ">" -> "<=" [] o = "<=" -> ">"
               [] o = "<" -> ">=" [] o = "==" -> "!=" [] OTHER -> "=="]

\* The comparison a recipe takes the rule to make: positive_number is > 0,
\* the default is >=.
OpOf(rule) ==
  CASE rule.requirement = "positive_number" -> ">"
    [] rule.requirement # "positive_number" /\ rule.op = "none" -> ">="
    [] OTHER -> rule.op
ThresholdOf(rule) ==
  IF rule.requirement = "positive_number" THEN 0 ELSE rule.threshold

\* rule_value_to_storage_unit: a value of the rule's unit in the parameter's
\* storage unit, when both are known.
Convertible(rule) ==
  /\ rule.param \in DOMAIN Factor
  /\ rule.unit \in DOMAIN Factor[rule.param]
ToStorageAsIs(rule, x) == x
ToStorage(rule, x) == x \div Factor[rule.param][rule.unit]

\* convert_to_rule_unit: what the evaluator is given.  A parameter of unknown
\* storage unit is taken to be in the rule's unit already.
InRuleUnit(rule, v) ==
  IF rule.unit # "none" /\ Convertible(rule)
  THEN v * Factor[rule.param][rule.unit] ELSE v

Filter(field, op, value) == [field |-> field, op |-> op, value |-> value]

\* _numeric_compare: a filter only where its value can be stated in the unit
\* that Revit compares with.
NumericFilters(rule) ==
  LET at(x) == {Filter(rule.param, FailOp[OpOf(rule)], x)}
  IN  CASE rule.unit = "none" -> at(ThresholdOf(rule))
        [] rule.unit # "none" /\ Convertible(rule) ->
             at(ToStorage(rule, ThresholdOf(rule)))
        [] OTHER -> {}

\* _value_in_subset: a chain of "is not", ANDed, while it stays readable.
MaxSubsetChain == 8
SubsetFilters(rule) ==
  IF Cardinality(rule.allowed) \in 1..MaxSubsetChain
  THEN {Filter(rule.param, "!=", v) : v \in rule.allowed} ELSE {}

\* recipe_for: the filters of the schedule and whether the recipe is only a
\* degraded one, by requirement.
FiltersOf(rule) ==
  CASE rule.requirement = "present_and_nonempty" ->
         {Filter(rule.param, "has_no_value", 0)}
    [] rule.requirement \in NumericFamily -> NumericFilters(rule)
    [] rule.requirement = "value_in_subset" -> SubsetFilters(rule)
    [] OTHER -> {}
Degraded(rule) ==
  rule.requirement \notin NumericFamily \cup {"present_and_nonempty"}

\* _schedule_fields: the identity columns of the category, then the parameter.
Columns(rule) == IdentityOf[rule.category] \cup {rule.param}

\* _sort_fields_for
SortOf(rule) ==
  [field |-> rule.param, group |-> rule.requirement = "unique_in_set"]

\* The comparison the evaluator makes: numeric_min has one of its own,
\* whatever operator the rule declares.
EvaluatedOp(rule) ==
  IF rule.requirement \in {"numeric_min", "numeric_min_conditional"} THEN ">="
  ELSE OpOf(rule)

\* rules_engine.evaluate, for the requirements that have filters.  met says
\* that the condition of a conditional rule holds for the element.
NumericPasses(rule, v) ==
  /\ v # Blank
  /\ Compare(EvaluatedOp(rule), InRuleUnit(rule, v), ThresholdOf(rule))
Passes(rule, v, met) ==
  CASE rule.requirement = "present_and_nonempty" -> v # Blank
    [] rule.requirement = "numeric_min_conditional" ->
         met => NumericPasses(rule, v)
    [] rule.requirement = "value_in_subset" -> v = Blank \/ v \in rule.allowed
    [] OTHER -> NumericPasses(rule, v)

\* What a schedule shows of an element: every filter has to let it through.
\* Only has_no_value lets an element without a value through.
Shows(filters, values) ==
  \A f \in filters :
    LET v == values[f.field]
    IN  IF f.op = "has_no_value" THEN v = Blank
        ELSE v # Blank /\ Compare(f.op, v, f.value)
=============================================================================
