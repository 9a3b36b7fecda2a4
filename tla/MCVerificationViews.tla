------------------------ MODULE MCVerificationViews -------------------------
(***************************************************************************)
(* VerificationViews on three doors, a room without a name and three       *)
(* finished runs.  Rule "a" was edited between them: its comparison, its   *)
(* threshold and its unit are others, or it asks two doors for one of two  *)
(* widths; rule "b" was moved from the rooms to the doors.                 *)
(***************************************************************************)
EXTENDS VerificationViews

MCFactor == [Width |-> [ft |-> 1, in |-> 12]]
MCIdentityOf == [Doors |-> {"Mark"}, Rooms |-> {"Number"}]
MCElements == {"d1", "d2", "d3", "r1"}
MCCategoryOf == [e \in MCElements |-> IF e = "r1" THEN "Rooms" ELSE "Doors"]
MCValueOf ==
  [d1 |-> [Width |-> 2, Mark |-> 1],
   d2 |-> [Width |-> 3, Mark |-> 2],
   d3 |-> [Width |-> 4, Mark |-> Blank],
   r1 |-> [Name |-> Blank, Number |-> 1, Mark |-> 3]]
\* The number of a room cannot be added to a schedule.
MCSchedulable == [Doors |-> {"Width", "Mark"}, Rooms |-> {"Name", "Mark"}]

View(id, category, requirement, param, op, threshold, unit) ==
  [id |-> id, requirement |-> requirement, category |-> category,
   param |-> param, op |-> op, threshold |-> threshold, unit |-> unit,
   allowed |-> {}, scope |-> MCElements]

MCRuns == {1, 2, 3}
MCTrace ==
  <<<<View("a", "Doors", "numeric_min_conditional", "Width", "none", 3, "none"),
      View("b", "Rooms", "present_and_nonempty", "Name", "none", 0, "none")>>,
    <<View("a", "Doors", "numeric_compare", "Width", ">", 36, "in"),
      View("c", "Doors", "unique_in_set", "Mark", "none", 0, "none")>>,
    <<[View("a", "Doors", "value_in_subset", "Width", "none", 0, "none")
         EXCEPT !.allowed = {2, 4}, !.scope = {"d1", "d2"}],
      View("b", "Doors", "present_and_nonempty", "Width", "none", 0, "none")>>>>

\* The rules of the promises that fail (README, section 6): one with a scope, one whose evaluator
\* has an operator of its own, one over an element without a value, and one
\* that was moved to another category.
Wide == View("a", "Doors", "numeric_compare", "Width", ">=", 4, "none")
OneRun == {1}
TwoRuns == {1, 2}
ScopedTrace == <<<<[Wide EXCEPT !.scope = {"d2", "d3"}]>>>>
MinimumTrace ==
  <<<<View("a", "Doors", "numeric_min", "Width", ">", 3, "none")>>>>
BlankTrace ==
  <<<<View("a", "Doors", "positive_number", "Mark", "none", 0, "none")>>>>
MovedTrace ==
  <<<<View("a", "Doors", "present_and_nonempty", "Mark", "none", 0, "none")>>,
    <<View("a", "Rooms", "present_and_nonempty", "Mark", "none", 0, "none")>>>>
WideTrace == <<<<Wide>>>>

Current == [renames |-> FALSE, lists |-> "ids", creates |-> TRUE,
            configures |-> TRUE]
MCCurrent == {Current}
MCAddins ==
  {Current,
   [Current EXCEPT !.renames = TRUE],
   [Current EXCEPT !.lists = "no"],
   [Current EXCEPT !.lists = "names"],
   [Current EXCEPT !.configures = FALSE],
   [Current EXCEPT !.creates = FALSE]}
=============================================================================
