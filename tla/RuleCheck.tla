------------------------------ MODULE RuleCheck ------------------------------
(***************************************************************************)
(* How the QC agent judges one element by one rule: agents/qc.py with the  *)
(* evaluators of policies/rules_engine.py and the table lookup of          *)
(* policies/lookup_table.py.  No state: an operator of the rule and of     *)
(* what the query agent read.                                              *)
(*                                                                         *)
(* A parameter value is one of the shapes that the code tells apart.       *)
(* "none" is a parameter that is absent (or was not read), "blank" one     *)
(* that was cleared, "nr" the written statement that nothing is required,  *)
(* "junk" a text no evaluator can read, "1 hr" a rating that can be read   *)
(* but is not in canonical form, "60 min" and "90 min" canonical ones, and *)
(* "12" a bare number, which is no rating (hours or minutes?).             *)
(*                                                                         *)
(* A rule is a record: requirement, category, scope (a set of values its   *)
(* scope_filter's pattern finds, with a kind), pattern (the values its     *)
(* regex, or its list of allowed values, accepts), threshold, operator,    *)
(* lookup and table, human, broken ("no", "missing" for a field that the   *)
(* requirement needs and the schema leaves optional, "malformed" for a     *)
(* regex that does not compile) and unit (the declared unit cannot be      *)
(* converted to).  Of the comparisons of relation_compare only that of     *)
(* ratings is modelled.                                                    *)
(***************************************************************************)
EXTENDS Integers, FiniteSets

Values == {"none", "blank", "nr", "junk", "1 hr", "60 min", "90 min", "12"}

\* qc._is_missing, and revit_query._has_value negated
Missing(v) == v \in {"none", "blank"}

\* parse_to_minutes: "nr" is the rating zero, what cannot be read has none.
Minutes == [v \in {"nr", "1 hr", "60 min", "90 min"} |->
              CASE v = "nr" -> 0 [] v = "90 min" -> 90 [] OTHER -> 60]

Rated(v) == v \in DOMAIN Minutes /\ Minutes[v] # 0

\* float(value)
Number == [v \in {"12"} |-> 12]

\* What the normalizer of the rule makes of a rating.
Canonical == [v \in {"1 hr", "60 min", "90 min"} |->
                IF v = "1 hr" THEN "60 min" ELSE v]

\* The scope_filter: a legitimate non-match is skipped, what cannot be
\* decided is not.
Scope(rule, own) ==
  CASE rule.scope.kind = "none" -> "match"
    [] rule.scope.kind # "none" /\ (Missing(own) \/ rule.scope.kind = "broken")
         -> "unknown"
    [] OTHER -> IF own \in rule.scope.finds THEN "match" ELSE "no_match"

\* LookupTable.match on a fire-rating key: only a written "nr" exempts, and
\* only a rating that a row names resolves.  A table without rows is a file
\* that cannot be loaded.
LooksUp(rule) == rule.lookup /\ rule.requirement = "relation_compare"

Exempt(rule, other) == LooksUp(rule) /\ rule.table # {} /\ other = "nr"

Required(rule, other) ==
  {t \in rule.table : other \in DOMAIN Minutes /\ t.when = Minutes[other]}

Unresolved(rule, other) ==
  LooksUp(rule) /\ ~Exempt(rule, other) /\ Required(rule, other) = {}

\* _OPS; without an operator a comparison is >=.
Compare(op, a, b) ==
  CASE op \in {"none", ">="} -> a >= b
    [] op = ">"  -> a > b
    [] op = "<=" -> a <= b
    [] op = "<"  -> a < b
    [] op = "==" -> a = b
    [] OTHER     -> a # b

RatingCompares(op, own, minutes) ==
  own \in DOMAIN Minutes /\ Compare(op, Minutes[own], minutes)

NumberCompares(op, own, threshold) ==
  own \in DOMAIN Number /\ Compare(op, Number[own], threshold)

\* rules_engine.evaluate.  other is what other_param or when_param reads, and
\* shared says that a sibling carries the same value.  Only numeric_compare
\* and relation_compare heed the rule's operator.
Passes(rule, own, other, shared) ==
  CASE rule.requirement = "present_and_nonempty" -> ~Missing(own)
    [] rule.requirement = "positive_number" -> NumberCompares(">", own, 0)
    [] rule.requirement = "matches_regex" -> own \in rule.pattern
    [] rule.requirement = "matches_regex_if_present" ->
         Missing(own) \/ own \in rule.pattern
    [] rule.requirement = "not_matches_regex" -> own \notin rule.pattern
    [] rule.requirement = "value_in_subset" ->
         Missing(own) \/ own \in rule.pattern
    [] rule.requirement = "numeric_min" ->
         NumberCompares(">=", own, rule.threshold)
    [] rule.requirement = "numeric_min_conditional" ->
         other \in rule.pattern => NumberCompares(">=", own, rule.threshold)
    [] rule.requirement = "numeric_compare" ->
         NumberCompares(rule.operator, own, rule.threshold)
    [] rule.requirement = "unique_in_set" -> Missing(own) \/ ~shared
    [] rule.requirement = "canonical_format" ->
         own \in DOMAIN Canonical /\ Canonical[own] = own
    [] rule.requirement = "fire_rating_ge" ->
         Rated(other) => RatingCompares(">=", own, Minutes[other])
    [] LooksUp(rule) ->
         \A t \in Required(rule, other) :
           RatingCompares(rule.operator, own, t.minutes)
    [] OTHER ->  \* relation_compare of ratings
         Rated(other) => RatingCompares(rule.operator, own, Minutes[other])

\* What the evaluator raises on: a field that is missing always, a regex that
\* does not compile only where there is a value to match it against.
NeedsField ==
  {"matches_regex", "matches_regex_if_present", "not_matches_regex",
   "numeric_min", "numeric_min_conditional", "numeric_compare"}

Raises(rule, own, other) ==
  \/ rule.broken = "missing" /\ rule.requirement \in NeedsField
  \/ /\ rule.broken = "malformed"
     /\ \/ /\ rule.requirement \in {"matches_regex", "not_matches_regex"}
           /\ own # "none"
        \/ rule.requirement = "matches_regex_if_present" /\ ~Missing(own)
        \/ rule.requirement = "numeric_min_conditional" /\ other # "none"

\* What a failed check is filed under.
Bucket(rule, own, other) ==
  CASE Missing(own) -> "missing_data"
    [] ~Missing(own) /\ (rule.human \/ Unresolved(rule, other)) ->
         "manual_review"
    [] OTHER -> "non_compliant"

\* A pair that is in scope: the lookup, the evaluator, the bucket.
Judged(rule, own, other, shared) ==
  CASE Exempt(rule, other) -> "exempt"
    [] Unresolved(rule, other) -> Bucket(rule, own, other)
    [] OTHER ->
         IF Raises(rule, own, other) THEN "manual_review"
         ELSE IF Passes(rule, own, other, shared) THEN "compliant"
         ELSE IF rule.requirement = "canonical_format" /\ own = "nr"
         THEN "exempt"
         ELSE Bucket(rule, own, other)

\* One turn of the loop of QCAgent.run.  The conversion to the rule's unit
\* raises for numbers only; what is no number goes on to the evaluator.
Outcome(rule, own, other, shared) ==
  CASE Scope(rule, own) = "no_match" -> "skipped"
    [] Scope(rule, own) = "unknown" -> "manual_review"
    [] OTHER -> IF rule.unit /\ own \in DOMAIN Number THEN "manual_review"
                ELSE Judged(rule, own, other, shared)

=============================================================================
