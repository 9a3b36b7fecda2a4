---------------------------- MODULE GeometryQuery ----------------------------
(***************************************************************************)
(* The geometry half of an audit: GeometricQueryAgent                      *)
(* (agents/geometry_query.py).  One run resolves the linked models that    *)
(* the rules refer to, groups the clearance_min rules into batches, asks   *)
(* Revit once per batch and once per clearance_max rule, all in parallel,  *)
(* and keeps of the answers what every rule calls a violation, restricted  *)
(* to the spaces of its spatial_filter.                                    *)
(*                                                                         *)
(* A solid is an element of set A, one category for all rules; Distances   *)
(* says how far it is from the elements of set B, per question (the two    *)
(* categories, the model, the direction and the 3D view), a rule's         *)
(* Threshold what the nearest must not fall below, or not exceed.  Solids  *)
(* stand still during a run, and spaces do not overlap.                    *)
(***************************************************************************)
EXTENDS Integers, FiniteSets

CONSTANTS
  GeoRules,
  Kind,           \* rule -> "min", "max" or a check type not dispatched
  Direction,      \* rule -> "below", "above" or "horizontal"
  View,           \* rule -> its view, or the one the agent has resolved
  Threshold,      \* rule -> Nat
  Pair,           \* rule -> its two categories
  Link,           \* rule -> the lookup key of its linked model, or Host
  Host,
  Filter,         \* rule -> the spaces it is restricted to, or Everywhere
  Everywhere,
  Solids,
  Distances,      \* question -> [Solids -> SUBSET Nat]
  Spaces,
  SpaceOf,        \* solid -> the space it is in, or Outside
  Outside,
  Supplied,       \* link keys with an id given by the caller
  Loaded,         \* link keys that match a linked model of the project
  ProbeFactor, ProbeMargin,   \* _MAX_PROBE_FACTOR, _MAX_PROBE_MARGIN_MM
  MaxClashes,
  MaxElements,    \* the limit of set A, and of list_spaces
  NotLoaded,
  MaxGeoFaults

\* _axis_and_direction: only the vertical raycast measures.
Axis(r) == IF Direction[r] = "horizontal" THEN "bbox" ELSE "Z"

\* What a call asks.
Question(r) == [pair |-> Pair[r], model |-> Link[r],
                direction |-> Direction[r], view |-> View[r]]

ASSUME GeometryAssumption ==
  /\ IsFiniteSet(GeoRules)
  /\ Threshold \in [GeoRules -> Nat]
  /\ \A r \in GeoRules, s \in Solids :
       Link[r] \in {Host} \cup Supplied \cup Loaded =>
         Distances[Question(r)][s] \subseteq Nat
  /\ \A r \in GeoRules :
       Filter[r] # Everywhere => Filter[r] \subseteq Spaces
  /\ \A S \in SUBSET Spaces : NotLoaded # S
  /\ SpaceOf \in [Solids -> Spaces \cup {Outside}]
  /\ Outside \notin Spaces
  /\ ProbeFactor \in Nat \ {0} /\ ProbeMargin \in Nat
  /\ MaxClashes \in Nat \ {0} /\ MaxElements \in Nat \ {0}
  /\ MaxGeoFaults \in Nat

VARIABLES
  geoPhase,
  unresolved,     \* link keys without a model
  executed, failed, truncated,    \* the coverage: sets of rules
  batches,        \* the tasks: sets of rules that one call answers
  doing,          \* task -> where it is and what it holds
  boxes,          \* self._space_boxes
  centroid,       \* self._centroid_cache
  findings,       \* set of <<rule, solid>>
  unseen,         \* the spaces and solids the filter has not got
  unloaded,       \* <<rule, solid>>: beyond the limit of the rule's call
  torn,           \* the rules whose findings an exception took along
  geoFaults

coverageVars == <<executed, failed, truncated>>
missed == <<unseen, unloaded, torn>>
geometryVars == <<geoPhase, unresolved, coverageVars, batches, doing, boxes,
                  centroid, findings, missed, geoFaults>>

Dispatched == {r \in GeoRules : Kind[r] \in {"min", "max"}}
Needed == {Link[r] : r \in Dispatched} \ ({Host} \cup Supplied)

\* A rule whose link is not resolved is not run, least of all on the host.
Blocked(missing) == {r \in Dispatched : Link[r] \in missing}

\* Wrong: a batch of any thresholds.
KeyByQuestion(r) == [question |-> Question(r), threshold |-> 0]

\* _ClearanceKey: what must agree for one call to answer several rules.  A
\* bbox hit carries no distance, so there the threshold is part of the key.
Key(r) == [question |-> Question(r),
           threshold |-> IF Axis(r) = "bbox" THEN Threshold[r] ELSE 0]

\* _build_batches
Batches(rules) ==
  {{r \in rules : Kind[r] = "min" /\ Key(r) = Key(q)} :
     q \in {x \in rules : Kind[x] = "min"}}
  \cup {{q} : q \in {x \in rules : Kind[x] = "max"}}

Waiting == [place |-> "ask", answer |-> {}, todo |-> {}, rule |-> Host,
            left |-> {}, solid |-> Outside]

InitGeometry ==
  /\ geoPhase = "idle"
  /\ unresolved = {} /\ executed = {} /\ failed = {} /\ truncated = {}
  /\ batches = {} /\ doing = [b \in {} |-> Waiting]
  /\ boxes = NotLoaded
  /\ centroid = [s \in Solids |-> "unknown"]
  /\ findings = {} /\ unseen = {} /\ unloaded = {} /\ torn = {}
  /\ geoFaults = 0

GeoFault == geoFaults < MaxGeoFaults /\ geoFaults' = geoFaults + 1

-----------------------------------------------------------------------------
(* run: the links, then the batches.                                       *)

Dispatch(missing) ==
  /\ geoPhase = "idle"
  /\ geoPhase' = "running"
  /\ unresolved' = missing
  /\ failed' = Blocked(missing)
  /\ batches' = Batches(Dispatched \ Blocked(missing))
  /\ doing' = [b \in Batches(Dispatched \ Blocked(missing)) |-> Waiting]
  /\ UNCHANGED <<executed, truncated, boxes, centroid, findings, missed>>

FindLinks == Dispatch(Needed \ Loaded) /\ UNCHANGED geoFaults

\* Without an answer no needed link is resolved.
FindLinksFails == Needed # {} /\ GeoFault /\ Dispatch(Needed)

-----------------------------------------------------------------------------
(* _run_min_batch and _run_max_rule.                                       *)

Far(r, s) == Distances[Question(r)][s]

Probe(t) == IF ProbeFactor * t > t + ProbeMargin THEN ProbeFactor * t
            ELSE t + ProbeMargin

OneOf(b) == CHOOSE r \in b : TRUE

\* The clearance that Revit is asked for: the largest of a batch, and wider
\* than the threshold for a maximum, whose violations lie beyond it.
AskedFor(b) ==
  IF Kind[OneOf(b)] = "max" THEN Probe(Threshold[OneOf(b)])
  ELSE Threshold[CHOOSE r \in b : \A q \in b : Threshold[q] <= Threshold[r]]

\* What is loaded of S: no more than the limit, and which is not told.
Loads(S) ==
  {p \in SUBSET S : IF Cardinality(S) <= MaxElements THEN p = S
                    ELSE Cardinality(p) = MaxElements}

\* The pairs of loaded solids that are closer.
Close(b, loaded) ==
  UNION {{<<s, d>> : d \in {x \in Far(OneOf(b), s) : x < AskedFor(b)}} :
           s \in loaded}

\* maxResults cuts the answer.
Answers(b, loaded) ==
  IF Cardinality(Close(b, loaded)) <= MaxClashes THEN {Close(b, loaded)}
  ELSE {a \in SUBSET Close(b, loaded) : Cardinality(a) = MaxClashes}

\* Only the vertical raycast measures, so there is no horizontal maximum.
Askable(b) == Kind[OneOf(b)] = "max" => Axis(OneOf(b)) = "Z"

Now(b, where) ==
  /\ geoPhase = "running" /\ b \in batches
  /\ doing[b].place = where

Become(b, record) == doing' = [doing EXCEPT ![b] = record]

Ask(b) ==
  /\ Now(b, "ask")
  /\ Askable(b)
  /\ \E loaded \in Loads(Solids) : \E a \in Answers(b, loaded) :
       /\ Become(b, [doing[b] EXCEPT !.place = "rules", !.answer = a,
                                     !.todo = b])
       /\ truncated' = IF Cardinality(a) >= MaxClashes
                       THEN truncated \cup b ELSE truncated
       /\ unloaded' = unloaded \cup (b \X (Solids \ loaded))
  /\ UNCHANGED <<geoPhase, unresolved, executed, failed, batches, boxes,
                 centroid, findings, unseen, torn, geoFaults>>

AskFails(b) ==
  /\ Now(b, "ask")
  /\ \/ ~Askable(b) /\ UNCHANGED geoFaults
     \/ Askable(b) /\ GeoFault
  /\ failed' = failed \cup b
  /\ Become(b, [doing[b] EXCEPT !.place = "over"])
  /\ UNCHANGED <<geoPhase, unresolved, executed, truncated, batches, boxes,
                 centroid, findings, missed>>

\* What rule r calls a violation in an answer: for a maximum the nearest
\* reference decides, and a bbox hit is one by itself.
Violating(r, answer) ==
  {s \in Solids :
     LET measured == {d \in Far(r, s) : <<s, d>> \in answer} IN
       /\ measured # {}
       /\ Kind[r] = "max" => \A d \in measured : d > Threshold[r]
       /\ Kind[r] = "min" /\ Axis(r) = "Z" =>
            \E d \in measured : d < Threshold[r]}

\* The next rule of the batch, or the end of the task.
After(rest) == IF rest = {} THEN "over" ELSE "rules"

Report(r, S) == findings' = findings \cup {<<r, s>> : s \in S}

\* An answer that cannot be read raises at the first rule: it counts as
\* executed by then, so only the others are recorded as failed.
TaskRaises(b) ==
  /\ Now(b, "rules")
  /\ doing[b].todo = b
  /\ GeoFault
  /\ \E r \in b :
       /\ executed' = executed \cup {r}
       /\ failed' = failed \cup (b \ {r})
       /\ torn' = torn \cup {r}
  /\ Become(b, [doing[b] EXCEPT !.place = "over"])
  /\ UNCHANGED <<geoPhase, unresolved, truncated, batches, boxes, centroid,
                 findings, unseen, unloaded>>

\* The rule counts as executed before its filter is awaited.
NextRule(b) ==
  /\ Now(b, "rules")
  /\ \E r \in doing[b].todo :
       LET rest == doing[b].todo \ {r}
           found == Violating(r, doing[b].answer) IN
       /\ executed' = executed \cup {r}
       /\ IF Filter[r] = Everywhere
          THEN /\ Report(r, found)
               /\ Become(b, [doing[b] EXCEPT !.todo = rest,
                                             !.place = After(rest)])
          ELSE /\ Become(b, [doing[b] EXCEPT !.todo = rest, !.rule = r,
                                             !.place = "spaces",
                                             !.left = found])
               /\ UNCHANGED findings
  /\ UNCHANGED <<geoPhase, unresolved, failed, truncated, batches, boxes,
                 centroid, missed, geoFaults>>

-----------------------------------------------------------------------------
(* _apply_spatial_filter, with _load_space_boxes and                       *)
(* _containing_space_name.                                                 *)

\* No box at all: the findings are left unfiltered.
UseBoxes(b, S) ==
  IF S = {}
  THEN /\ Report(doing[b].rule, doing[b].left)
       /\ Become(b, [doing[b] EXCEPT !.left = {},
                                     !.place = After(doing[b].todo)])
  ELSE /\ Become(b, [doing[b] EXCEPT !.place = "clashes"])
       /\ UNCHANGED findings

BoxesCached(b) ==
  /\ Now(b, "spaces")
  /\ boxes # NotLoaded
  /\ UseBoxes(b, boxes)
  /\ UNCHANGED <<geoPhase, unresolved, coverageVars, batches, boxes, centroid,
                 missed, geoFaults>>

\* Two tasks may both find the cache empty and load.
LoadBoxes(b) ==
  /\ Now(b, "spaces")
  /\ boxes = NotLoaded
  /\ Become(b, [doing[b] EXCEPT !.place = "loading"])
  /\ UNCHANGED <<geoPhase, unresolved, coverageVars, batches, boxes, centroid,
                 findings, missed, geoFaults>>

BoxesLoaded(b) ==
  /\ Now(b, "loading")
  /\ \E listed \in Loads(Spaces) :
       /\ boxes' = listed
       /\ unseen' = unseen \cup (Spaces \ listed)
       /\ UseBoxes(b, listed)
  /\ UNCHANGED <<geoPhase, unresolved, coverageVars, batches, centroid,
                 unloaded, torn, geoFaults>>

\* list_spaces raises, or the geometry of one space: whoever ends last
\* leaves its result in the cache.
BoxesFail(b) ==
  /\ Now(b, "loading")
  /\ GeoFault
  /\ \E listed \in Loads(Spaces) : \E lost \in {listed} \cup {{p} : p \in listed} :
       /\ boxes' = listed \ lost
       /\ unseen' = unseen \cup (Spaces \ (listed \ lost))
       /\ UseBoxes(b, listed \ lost)
  /\ UNCHANGED <<geoPhase, unresolved, coverageVars, batches, centroid,
                 unloaded, torn>>

\* The space that contains s is one the rule is about.
Inside(r, s, where) ==
  /\ where = "known"
  /\ SpaceOf[s] \in boxes \cap Filter[r]

Decide(b, s, where) ==
  /\ IF Inside(doing[b].rule, s, where) THEN Report(doing[b].rule, {s})
     ELSE UNCHANGED findings
  /\ Become(b, [doing[b] EXCEPT !.place = "clashes", !.left = @ \ {s},
                                !.solid = Outside])

LookCached(b) ==
  /\ Now(b, "clashes")
  /\ \E s \in doing[b].left :
       centroid[s] # "unknown" /\ Decide(b, s, centroid[s])
  /\ UNCHANGED <<geoPhase, unresolved, coverageVars, batches, boxes, centroid,
                 missed, geoFaults>>

Look(b) ==
  /\ Now(b, "clashes")
  /\ \E s \in doing[b].left :
       /\ centroid[s] = "unknown"
       /\ Become(b, [doing[b] EXCEPT !.place = "looking", !.solid = s])
  /\ UNCHANGED <<geoPhase, unresolved, coverageVars, batches, boxes, centroid,
                 findings, missed, geoFaults>>

LookEnds(b, where) ==
  /\ Now(b, "looking")
  /\ centroid' = [centroid EXCEPT ![doing[b].solid] = where]
  /\ Decide(b, doing[b].solid, where)
  /\ UNCHANGED <<geoPhase, unresolved, coverageVars, batches, boxes>>

Seen(b) == LookEnds(b, "known") /\ UNCHANGED <<missed, geoFaults>>

SeenNot(b) ==
  /\ LookEnds(b, "none")
  /\ GeoFault
  /\ unseen' = unseen \cup {doing[b].solid}
  /\ UNCHANGED <<unloaded, torn>>

EndRule(b) ==
  /\ Now(b, "clashes")
  /\ doing[b].left = {}
  /\ Become(b, [doing[b] EXCEPT !.place = After(doing[b].todo)])
  /\ UNCHANGED <<geoPhase, unresolved, coverageVars, batches, boxes, centroid,
                 findings, missed, geoFaults>>

-----------------------------------------------------------------------------
EndGeometry ==
  /\ geoPhase = "running"
  /\ \A b \in batches : doing[b].place = "over"
  /\ geoPhase' = "done"
  /\ UNCHANGED <<unresolved, coverageVars, batches, doing, boxes, centroid,
                 findings, missed, geoFaults>>

Task(b) ==
  \/ Ask(b) \/ AskFails(b) \/ TaskRaises(b) \/ NextRule(b)
  \/ BoxesCached(b) \/ LoadBoxes(b) \/ BoxesLoaded(b) \/ BoxesFail(b)
  \/ LookCached(b) \/ Look(b) \/ Seen(b) \/ SeenNot(b) \/ EndRule(b)

NextGeometry ==
  \/ FindLinks \/ FindLinksFails
  \/ \E b \in batches : Task(b)
  \/ EndGeometry

GeometrySpec == InitGeometry /\ [][NextGeometry]_geometryVars

-----------------------------------------------------------------------------
Tasks ==
  [place : {"ask", "rules", "spaces", "loading", "clashes", "looking", "over"},
   answer : SUBSET (Solids \X Nat), todo : SUBSET GeoRules,
   rule : GeoRules \cup {Host}, left : SUBSET Solids,
   solid : Solids \cup {Outside}]

\* The state has the shape the code gives it.
GeometryTypeOK ==
  /\ geoPhase \in {"idle", "running", "done"}
  /\ unresolved \subseteq Needed
  /\ executed \subseteq Dispatched /\ failed \subseteq Dispatched
  /\ truncated \subseteq Dispatched
  /\ batches \subseteq SUBSET Dispatched
  /\ doing \in [batches -> Tasks]
  /\ boxes \in (SUBSET Spaces) \cup {NotLoaded}
  /\ centroid \in [Solids -> {"unknown", "known", "none"}]
  /\ findings \subseteq Dispatched \X Solids
  /\ unseen \subseteq Spaces \cup Solids
  /\ unloaded \subseteq Dispatched \X Solids /\ torn \subseteq Dispatched
  /\ geoFaults \in Nat

-----------------------------------------------------------------------------
\* What rule r calls a violation in the model it asks about; a maximum sees
\* no further than its probe.
Violators(r) ==
  {s \in Solids :
     IF Kind[r] = "max"
     THEN /\ \E d \in Far(r, s) : d < Probe(Threshold[r])
          /\ \A d \in Far(r, s) : d > Threshold[r]
     ELSE \E d \in Far(r, s) : d < Threshold[r]}

InFilter(r, s) == Filter[r] = Everywhere \/ SpaceOf[s] \in Filter[r]

FindingsOf(r) == {s \in Solids : <<r, s>> \in findings}

\* An audit of the geometry is what its coverage says.  Every rule either was
\* executed or is on record as failed; an executed rule has been asked about
\* the model it names, what is reported violates that very rule, whatever it
\* was batched with, and lies in its spaces as long as any space is known; and
\* of the solids that were loaded, what violates it is reported, unless the
\* answer was cut off and that is on record.  An executed rule also loses
\* violations in three ways that are on no record; the three properties below
\* are about them.
GeometryIsHonest ==
  geoPhase = "done" =>
    /\ executed \cap failed = {}
    /\ executed \cup failed = Dispatched
    /\ \A r \in failed : FindingsOf(r) = {}
    /\ \A r \in executed :
         /\ Link[r] \notin unresolved
         /\ Kind[r] = "min" \/ r \notin truncated =>
              FindingsOf(r) \subseteq Violators(r)
         /\ ~(Spaces \subseteq unseen) =>
              \A s \in FindingsOf(r) : InFilter(r, s)
         /\ r \notin truncated \cup torn =>
              \A s \in Violators(r) :
                \/ s \in FindingsOf(r)
                \/ ~InFilter(r, s)
                \/ <<r, s>> \in unloaded
                \/ {s, SpaceOf[s]} \cap unseen # {}

\* Not so in the code, geometry_query.py:374: the coverage says "What this run
\* actually managed to CHECK": a rule that counts as executed, with an answer
\* that was not cut off, has been checked on every solid.
CoverageTellsLimit ==
  geoPhase = "done" =>
    \A r \in executed \ truncated : \A s \in Solids : <<r, s>> \notin unloaded

\* Not so in the code, geometry_query.py:772-774: "A failed space lookup fails
\* OPEN ... dropping real violations because a lookup hiccuped would be a
\* silent hole": what violates a rule within its spaces is reported, whatever
\* failed.
LookupsFailOpen ==
  geoPhase = "done" =>
    \A r \in executed \ (truncated \cup torn) : \A s \in Violators(r) :
      InFilter(r, s) /\ <<r, s>> \notin unloaded => s \in FindingsOf(r)

\* Not so in the code, geometry_query.py:429-430: "an UNEXPECTED exception
\* (one the inner handlers didn't catch) still names the rules it took down".
RaisesAreNamed == geoPhase = "done" => torn \subseteq failed
=============================================================================
