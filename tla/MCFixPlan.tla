----------------------------- MODULE MCFixPlan ------------------------------
(***************************************************************************)
(* FixPlan on a small building: three walls of one type, three doors of    *)
(* two families and three rooms, of which a door and a room were not       *)
(* loaded.  Every scenario is one ruleset with the model it meets.         *)
(***************************************************************************)
EXTENDS FixPlan

MCElements == {"w1", "w2", "w3", "d1", "d2", "d3", "r1", "r2", "r3"}
MCLoaded == MCElements \ {"d3", "r3"}
MCCategoryOf ==
  [e \in MCElements |-> CASE e \in {"w1", "w2", "w3"} -> "Walls"
                          [] e \in {"d1", "d2", "d3"} -> "Doors"
                          [] OTHER -> "Rooms"]
MCTypeOf == [e \in MCElements |-> IF MCCategoryOf[e] = "Walls" THEN "t" ELSE "none"]
MCFamilyOf == [e \in MCElements |-> CASE e = "d1" -> "f1" [] e = "d2" -> "f2"
                                      [] OTHER -> "none"]
MCParams == {"Fire Rating", "Use", "Mark", "Number", "Family Name"}

MCValues == {"60", "120", "junk",     \* ratings
             "x", "x ", "y",          \* uses, two of them alike
             "good", "fair",          \* what the language model says
             "A", "A1", "A2", "A3",   \* numbers
             "fa", "fb", "Fa", "Fb"}  \* family names

Plain == [strategy |-> "inferred", target |-> "instance", param |-> "Use",
          category |-> "Walls", unique |-> FALSE, rating |-> FALSE,
          batchable |-> FALSE, template |-> FALSE, safety |-> FALSE,
          comment |-> FALSE, literal |-> "none", policy |-> "auto"]
MCRule ==
  [rating  |-> [Plain EXCEPT !.target = "auto", !.param = "Fire Rating",
                             !.rating = TRUE, !.template = TRUE,
                             !.comment = TRUE, !.policy = "approve"],
   literal |-> [Plain EXCEPT !.strategy = "fixed", !.target = "type",
                             !.param = "Fire Rating", !.literal = "60"],
   batched |-> [Plain EXCEPT !.strategy = "llm_propose", !.batchable = TRUE],
   single  |-> [Plain EXCEPT !.strategy = "llm_propose", !.safety = TRUE],
   mark    |-> [Plain EXCEPT !.strategy = "next_available", !.param = "Mark",
                             !.category = "Doors", !.unique = TRUE],
   number  |-> [Plain EXCEPT !.strategy = "next_available", !.param = "Number",
                             !.category = "Rooms", !.unique = TRUE],
   tag     |-> [Plain EXCEPT !.strategy = "next_available", !.param = "Mark",
                             !.category = "Rooms", !.unique = TRUE],
   anyMark |-> [Plain EXCEPT !.strategy = "next_available", !.param = "Mark",
                             !.category = "none", !.unique = TRUE],
   family  |-> [Plain EXCEPT !.target = "auto", !.param = "Family Name",
                             !.category = "Doors"]]
MCRules == DOMAIN MCRule

MCPairs ==
  <<<<"rating", "w1">>, <<"rating", "w2">>, <<"rating", "w3">>,
    <<"literal", "w1">>,
    <<"batched", "w1">>, <<"batched", "w2">>, <<"batched", "w3">>,
    <<"single", "w1">>, <<"single", "w2">>, <<"single", "w3">>,
    <<"mark", "d1">>, <<"mark", "d2">>,
    <<"number", "r1">>, <<"number", "r2">>,
    <<"tag", "r1">>, <<"tag", "r2">>,
    <<"anyMark", "d1">>, <<"family", "d1">>, <<"family", "d2">>>>

\* The wall in the escape route needs more than the others.
FitsAt(r, e) ==
  CASE r = "rating" /\ e = "w2" -> {"120"}
    [] r = "rating" /\ e # "w2" -> {"60", "120"}
    [] r = "literal" -> {"60"}
    [] r = "batched" -> {"good", "fair"}
    [] r = "single" /\ e = "w2" -> {"fair"}
    [] r = "single" /\ e # "w2" -> {"good"}
    [] r = "family" -> {"Fa", "Fb"}
    [] OTHER -> MCValues
MCFits == [r \in MCRules |-> [e \in MCElements |-> FitsAt(r, e)]]

SuggestedAt(r, e) ==
  CASE r = "rating" -> (CASE e = "w1" -> "60" [] e = "w2" -> "120" [] OTHER -> "junk")
    [] r = "family" -> (IF e = "d1" THEN "Fa" ELSE "Fb")
    [] OTHER -> "none"
MCSuggested == [r \in MCRules |-> [e \in MCElements |-> SuggestedAt(r, e)]]

MCAnswers == [r \in MCRules |-> [e \in MCElements |->
               IF r = "batched" THEN {"good", "none"} ELSE {"good", "fair"}]]
MCMinutes == [v \in {"60", "120"} |-> IF v = "60" THEN 60 ELSE 120]
MCLooksRated == {"60", "120"}
MCNorm == [v \in MCValues \cup {"none"} |-> IF v = "x " THEN "x" ELSE v]
MCSuffixed == [v \in MCValues |->
                 IF v = "A" THEN <<"A1", "A2", "A3">> ELSE <<"A2", "A3">>]

Given(values) ==
  [s \in Slots |-> IF \E v \in values : v[1] = s
                   THEN (CHOOSE v \in values : v[1] = s)[2] ELSE "none"]
At(owner, param, v) == <<<<owner, param>>, v>>

Building(use2, use3) ==
  Given({At("t", "Fire Rating", "junk"),
         At("w1", "Use", "x"), At("w2", "Use", use2), At("w3", "Use", use3),
         At("f1", "Name", "fa"), At("f2", "Name", "fb"),
         At("d1", "Mark", "A"), At("d2", "Mark", "A"), At("d3", "Mark", "A1"),
         At("r1", "Number", "A"), At("r2", "Number", "A"),
         At("r3", "Number", "A1"),
         At("r1", "Mark", "A"), At("r2", "Mark", "A"), At("r3", "Mark", "A1")})

MCScenarios ==
  {[on |-> {"rating", "literal"}, model |-> Building("x", "x")],
   [on |-> {"batched"}, model |-> Building("x ", "y")],
   [on |-> {"single"}, model |-> Building("x", "x")],
   [on |-> {"mark", "number"}, model |-> Building("x", "x")],
   [on |-> {"tag"}, model |-> Building("x", "x")],
   [on |-> {"anyMark"}, model |-> Building("x", "x")],
   [on |-> {"family"}, model |-> Building("x", "x")]}

\* A door of the loaded ones bears the number that no room bears, the scenario
\* of a promise that fails (README, section 6).
MCMarked ==
  {[on |-> {"anyMark"}, model |-> [Building("x", "x") EXCEPT ![<<"d2", "Mark">>] = "A2"]]}
=============================================================================
