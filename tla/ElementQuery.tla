---------------------------- MODULE ElementQuery -----------------------------
(***************************************************************************)
(* The parameter half of an audit: the plan that policies/query_specs.py   *)
(* derives from the ruleset, RevitQueryAgent (agents/revit_query.py) that  *)
(* reads the elements of every planned category with all its concurrent    *)
(* hydrations, and QCAgent.run (agents/qc.py) that judges what was read.   *)
(* The audit graph repeats query and check up to MaxPasses times; in       *)
(* between, and while the agent reads, people and the design agent edit    *)
(* the model.                                                              *)
(*                                                                         *)
(* A thing is an element or a type; it has one parameter, whose value in   *)
(* the model is in Values.  get_element_info reads a thing; a rule reads   *)
(* an element's own value (Instance > Type) and the value of its host's    *)
(* type.  One hydration runs per listed element, all on one event loop:    *)
(* the steps between two awaits are one action here, and a cached read,    *)
(* which does not suspend in the code, is an action of its own (the model  *)
(* has more interleavings than the event loop).                            *)
(***************************************************************************)
EXTENDS RuleCheck, Sequences

CONSTANTS
  Elements,       \* of the model
  Types,
  NoThing,        \* no type, no host
  Unread,         \* nothing was read
  Category,       \* [Elements -> categories of the catalog]
  TypeOf,         \* [Elements -> Types \cup {NoThing}]
  HostOf,         \* [Elements -> Elements \cup {NoThing}]
  Entry,          \* [labels -> categories \cup {NoCategory}]: OSTCatalog.find
  Display,        \* [categories -> labels]
  NoCategory,
  Sheets,         \* the categories that list_sheets returns complete
  Targets,        \* the ruleset's target_category, a sequence of labels
  Rules,          \* of the ruleset; category is a label or AnyLabel
  AnyLabel,
  NeedsSpace,     \* some rule reads _containing_space
  Bulk,           \* the agent may run with bulk_fields
  Models,         \* the initial values of the model, [Things -> Values]
  Edits,          \* the values that people and the design agent set
  Concurrency,    \* fetch_concurrency
  Cap,            \* max_elements_per_category
  MaxPasses, MaxEdits, MaxFaults

Things == Elements \cup Types

ASSUME ReadsAssumption ==
  /\ IsFiniteSet(Elements)
  /\ Elements \cap Types = {}
  /\ NoThing \notin Things
  /\ Unread \notin Values
  /\ TypeOf \in [Elements -> Types \cup {NoThing}]
  /\ HostOf \in [Elements -> Elements \cup {NoThing}]
  /\ \A e \in Elements :   \* list_sheets returns all that a sheet has
       Category[e] \in Sheets => TypeOf[e] = NoThing /\ HostOf[e] = NoThing
  /\ Targets \in Seq(DOMAIN Entry)
  /\ \A l \in DOMAIN Entry : Entry[l] \in DOMAIN Display \cup {NoCategory}
  /\ \A c, d \in DOMAIN Display : Display[c] = Display[d] => c = d
  /\ Models \subseteq [Things -> Values]
  /\ Edits \subseteq Values
  /\ Concurrency \in Nat \ {0}
  /\ Cap \in Nat \ {0}
  /\ MaxPasses \in Nat /\ MaxEdits \in Nat /\ MaxFaults \in Nat

VARIABLES
  model,          \* what every thing's parameter is
  phase,          \* where the pass is
  at,             \* the position in Targets of the spec that is queried
  bulk,           \* this agent runs with bulk_fields
  listing,        \* position -> the elements that were listed
  stage,          \* element -> what its hydration reads next
  mode,           \* element -> how far that read is
  got,            \* element -> what its hydration has read
  cache,          \* thing -> what get_element_info returned in this pass
  elements,       \* state["elements"]: set of [id, spec]
  coverage,       \* state["query_coverage"]
  verdicts,       \* state["check_trace"] and the pairs that were skipped
  past,           \* thing -> the values it has had since the pass began
  unheard,        \* the things that a read of this pass failed on
  passes, edits, faults

task == <<stage, mode, got>>
budgets == <<passes, edits, faults>>
history == <<past, unheard>>
elementVars == <<model, phase, at, bulk, listing, task, cache, elements,
                 coverage, verdicts, history, budgets>>

-----------------------------------------------------------------------------
(* The plan.                                                               *)

Positions == DOMAIN Targets

\* A rule without a category is of every target.
RulesOf(i) == {r \in Rules : r.category \in {AnyLabel, Targets[i]}}

\* derive_specs_with_coverage drops a target without rules, and one that the
\* catalog does not know.
Dropped ==
  {i \in Positions : RulesOf(i) = {} \/ Entry[Targets[i]] = NoCategory}
Specs == Positions \ Dropped

\* The catalog's display name, which every element is stamped with.
Label(i) == Display[Entry[Targets[i]]]

\* A rule that reads the host's type makes the query hop there.
FollowHost(i) == \E r \in RulesOf(i) : r.other = "host"

\* The bulk listing is for specs without a host hop.
Primes(i) == bulk /\ ~FollowHost(i)

Later(i) == {j \in Specs : j > i}
First(S) == CHOOSE i \in S : \A j \in S : i <= j

-----------------------------------------------------------------------------
(* The shapes of the state.                                                *)

Nothing == [instance |-> Unread, type |-> Unread, host |-> Unread]

NoTasks ==
  /\ stage' = [e \in Elements |-> "none"]
  /\ mode' = [e \in Elements |-> "ready"]
  /\ got' = [e \in Elements |-> Nothing]

NoListing == [i \in Positions |-> {}]
Clean == [empty |-> {}, enrichment |-> TRUE]

InitElements ==
  /\ model \in Models
  /\ bulk \in IF Bulk THEN BOOLEAN ELSE {FALSE}
  /\ phase = "idle"
  /\ at = 0
  /\ listing = NoListing
  /\ stage = [e \in Elements |-> "none"]
  /\ mode = [e \in Elements |-> "ready"]
  /\ got = [e \in Elements |-> Nothing]
  /\ cache = [t \in Things |-> Unread]
  /\ elements = {} /\ verdicts = {} /\ coverage = Clean
  /\ past = [t \in Things |-> {model[t]}]
  /\ unheard = {}
  /\ passes = 0 /\ edits = 0 /\ faults = 0

\* The next spec, or what follows the last one.
Proceed(i) ==
  IF Later(i) # {} THEN phase' = "listing" /\ at' = First(Later(i))
  ELSE phase' = "enriching" /\ at' = i

Fault == faults < MaxFaults /\ faults' = faults + 1

-----------------------------------------------------------------------------
(* RevitQueryAgent.run.                                                    *)

\* Wrong: the caches of the pass before are kept.
StartPassWarm ==
  /\ phase \in {"idle", "checked"}
  /\ passes < MaxPasses
  /\ passes' = passes + 1
  /\ listing' = NoListing
  /\ elements' = {}
  /\ past' = [t \in Things |-> {model[t]}]
  /\ unheard' = {}
  /\ NoTasks
  /\ IF Specs = {} THEN phase' = "checking" /\ at' = 0
     ELSE phase' = "listing" /\ at' = First(Specs)
  /\ UNCHANGED <<model, bulk, cache, coverage, verdicts, edits, faults>>

\* Every pass starts with fresh caches.
StartPass ==
  /\ phase \in {"idle", "checked"}
  /\ passes < MaxPasses
  /\ passes' = passes + 1
  /\ cache' = [t \in Things |-> Unread]
  /\ listing' = NoListing
  /\ elements' = {}
  /\ past' = [t \in Things |-> {model[t]}]
  /\ unheard' = {}
  /\ NoTasks
  /\ IF Specs = {} THEN phase' = "checking" /\ at' = 0
     ELSE phase' = "listing" /\ at' = First(Specs)
  /\ UNCHANGED <<model, bulk, coverage, verdicts, edits, faults>>

Members == {e \in Elements : Category[e] = Entry[Targets[at]]}

\* list_elements and find_elements return at most Cap elements.
Pages ==
  {p \in SUBSET Members : p = Members \/ Cardinality(p) = Cap} \
    {p \in SUBSET Members : Cardinality(p) > Cap}

\* An element whose hydration begins.
Begin(page) ==
  /\ stage' = [e \in Elements |-> IF e \in page THEN "instance" ELSE "none"]
  /\ mode' = [e \in Elements |-> "ready"]
  /\ got' = [e \in Elements |-> Nothing]

\* A page of elements.  find_elements brings the instance parameters along,
\* and they are put into the cache.
List ==
  /\ phase = "listing"
  /\ Entry[Targets[at]] \notin Sheets
  /\ \E page \in Pages :
       /\ listing' = [listing EXCEPT ![at] = page]
       /\ cache' = [t \in Things |-> IF Primes(at) /\ t \in page
                                     THEN model[t] ELSE cache[t]]
       /\ IF page = {} THEN Proceed(at) /\ UNCHANGED task
          ELSE phase' = "hydrating" /\ at' = at /\ Begin(page)
  /\ UNCHANGED <<model, bulk, elements, coverage, verdicts, history, budgets>>

\* Sheets come with their parameters and are not hydrated.
ListSheets ==
  /\ phase = "listing"
  /\ Entry[Targets[at]] \in Sheets
  /\ \E page \in Pages :
       /\ listing' = [listing EXCEPT ![at] = page]
       /\ elements' = elements \cup
            {[id |-> e, spec |-> at, instance |-> model[e],
              type |-> Unread, host |-> Unread] : e \in page}
  /\ Proceed(at)
  /\ UNCHANGED <<model, bulk, task, cache, coverage, verdicts, history,
                 budgets>>

\* An exception fails the run; after_query ends the graph.
ListFails ==
  /\ phase = "listing"
  /\ Fault
  /\ phase' = "failed"
  /\ UNCHANGED <<model, at, bulk, listing, task, cache, elements, coverage,
                 verdicts, history, passes, edits>>

-----------------------------------------------------------------------------
(* _hydrate_element, with _get_instance, _get_type and _apply_host_hop.    *)

\* The thing a hydration reads at a stage.
Wanted(e) ==
  CASE stage[e] = "instance" -> e
    [] stage[e] = "type" -> TypeOf[e]
    [] stage[e] = "host" -> HostOf[e]
    [] stage[e] = "hostType" -> TypeOf[HostOf[e]]
    [] OTHER -> NoThing

Reading == {e \in Elements : Wanted(e) # NoThing}
Leaders == {e \in Reading : mode[e] \in {"queued", "calling"}}
Calls == {e \in Reading : mode[e] = "calling"}
Followers(t) == {e \in Reading : mode[e] = "waiting" /\ Wanted(e) = t}

\* The stage after e has read v (Unread: None).  No instance, no element; no
\* type or host, less to merge.
AfterType(e) ==
  IF FollowHost(at) /\ HostOf[e] # NoThing THEN "host" ELSE "done"

StageAfter(e, v) ==
  CASE stage[e] = "instance" ->
         IF v = Unread THEN "dropped"
         ELSE IF TypeOf[e] # NoThing THEN "type" ELSE AfterType(e)
    [] stage[e] = "type" -> AfterType(e)
    [] stage[e] = "host" ->
         IF v # Unread /\ TypeOf[HostOf[e]] # NoThing THEN "hostType"
         ELSE "done"
    [] OTHER -> "done"

Noted(e, v) ==
  CASE stage[e] = "instance" -> [got[e] EXCEPT !.instance = v]
    [] stage[e] = "type" -> [got[e] EXCEPT !.type = v]
    [] stage[e] = "hostType" -> [got[e] EXCEPT !.host = v]
    [] OTHER -> got[e]

\* The hydrations in E read v.
Learn(E, v) ==
  /\ stage' = [e \in Elements |-> IF e \in E THEN StageAfter(e, v)
                                  ELSE stage[e]]
  /\ mode' = [e \in Elements |-> IF e \in E THEN "ready" ELSE mode[e]]
  /\ got' = [e \in Elements |-> IF e \in E THEN Noted(e, v) ELSE got[e]]

ReadCached(e) ==
  /\ phase = "hydrating"
  /\ e \in Reading /\ mode[e] = "ready"
  /\ cache[Wanted(e)] # Unread
  /\ Learn({e}, cache[Wanted(e)])
  /\ UNCHANGED <<model, phase, at, bulk, listing, cache, elements, coverage,
                 verdicts, history, budgets>>

InFlight(t) == \E e \in Leaders : Wanted(e) = t

\* Somebody is reading it already: wait for the shared future.
Join(e) ==
  /\ phase = "hydrating"
  /\ e \in Reading /\ mode[e] = "ready"
  /\ cache[Wanted(e)] = Unread
  /\ InFlight(Wanted(e))
  /\ mode' = [mode EXCEPT ![e] = "waiting"]
  /\ UNCHANGED <<model, phase, at, bulk, listing, stage, got, cache, elements,
                 coverage, verdicts, history, budgets>>

\* Wrong: reads of others that are under way are not looked up.
LeadAlways(e) ==
  /\ phase = "hydrating"
  /\ e \in Reading /\ mode[e] = "ready"
  /\ cache[Wanted(e)] = Unread
  /\ mode' = [mode EXCEPT ![e] = "queued"]
  /\ UNCHANGED <<model, phase, at, bulk, listing, stage, got, cache, elements,
                 coverage, verdicts, history, budgets>>

\* Nobody is: register the future, then wait for the semaphore.
Lead(e) ==
  /\ phase = "hydrating"
  /\ e \in Reading /\ mode[e] = "ready"
  /\ cache[Wanted(e)] = Unread
  /\ ~InFlight(Wanted(e))
  /\ mode' = [mode EXCEPT ![e] = "queued"]
  /\ UNCHANGED <<model, phase, at, bulk, listing, stage, got, cache, elements,
                 coverage, verdicts, history, budgets>>

Acquire(e) ==
  /\ phase = "hydrating"
  /\ e \in Reading /\ mode[e] = "queued"
  /\ Cardinality(Calls) < Concurrency
  /\ mode' = [mode EXCEPT ![e] = "calling"]
  /\ UNCHANGED <<model, phase, at, bulk, listing, stage, got, cache, elements,
                 coverage, verdicts, history, budgets>>

Cohort(e) == {e} \cup Followers(Wanted(e))

Answer(e) ==
  /\ phase = "hydrating"
  /\ e \in Calls
  /\ cache' = [cache EXCEPT ![Wanted(e)] = model[Wanted(e)]]
  /\ Learn(Cohort(e), model[Wanted(e)])
  /\ UNCHANGED <<model, phase, at, bulk, listing, elements, coverage,
                 verdicts, history, budgets>>

\* RevitEnvelopeError: the whole cohort goes without, and nothing is cached.
AnswerRefused(e) ==
  /\ phase = "hydrating"
  /\ e \in Calls
  /\ Fault
  /\ Learn(Cohort(e), Unread)
  /\ unheard' = unheard \cup {Wanted(e)}
  /\ UNCHANGED <<model, phase, at, bulk, listing, cache, elements, coverage,
                 verdicts, past, passes, edits>>

\* Wrong: the exception leaves before the future is resolved.
AnswerRaisesUnresolved(e) ==
  /\ phase = "hydrating"
  /\ e \in Calls
  /\ Fault
  /\ stage' = [stage EXCEPT ![e] = "error"]
  /\ mode' = [mode EXCEPT ![e] = "ready"]
  /\ unheard' = unheard \cup {Wanted(e)}
  /\ UNCHANGED <<model, phase, at, bulk, listing, got, cache, elements,
                 coverage, verdicts, past, passes, edits>>

\* Any other exception leaves through the leader's hydration; finally still
\* resolves the future, with None.
AnswerRaises(e) ==
  /\ phase = "hydrating"
  /\ e \in Calls
  /\ Fault
  /\ stage' = [x \in Elements |->
       IF x = e THEN "error"
       ELSE IF x \in Cohort(e) THEN StageAfter(x, Unread) ELSE stage[x]]
  /\ mode' = [x \in Elements |-> IF x \in Cohort(e) THEN "ready" ELSE mode[x]]
  /\ unheard' = unheard \cup {Wanted(e)}
  /\ UNCHANGED <<model, phase, at, bulk, listing, got, cache, elements,
                 coverage, verdicts, past, passes, edits>>

-----------------------------------------------------------------------------
(* The end of a category, and of the pass.                                 *)

In(s) == {e \in listing[at] : stage[e] = s}

\* gather returns when every hydration has ended.
Gathered == phase = "hydrating" /\ listing[at] = In("done") \cup In("dropped")
                                                 \cup In("error")

\* Elements whose hydration failed are left out.
Gather ==
  /\ Gathered
  /\ In("error") # listing[at]
  /\ elements' = elements \cup
       {[id |-> e, spec |-> at, instance |-> got[e].instance,
         type |-> got[e].type, host |-> got[e].host] : e \in In("done")}
  /\ Proceed(at)
  /\ NoTasks
  /\ UNCHANGED <<model, bulk, listing, cache, coverage, verdicts, history,
                 budgets>>

\* Only when all raised does the category, and with it the run, fail.
GatherFails ==
  /\ Gathered
  /\ In("error") = listing[at]
  /\ phase' = "failed"
  /\ UNCHANGED <<model, at, bulk, listing, task, cache, elements, coverage,
                 verdicts, history, budgets>>

\* The space enrichment is best effort; a failure is written to the coverage
\* and nothing takes it back in a later pass.
Enrich ==
  /\ phase = "enriching"
  /\ phase' = "covering"
  /\ \/ UNCHANGED <<coverage, faults>>
     \/ /\ NeedsSpace /\ elements # {}
        /\ Fault
        /\ coverage' = [coverage EXCEPT !.enrichment = FALSE]
  /\ UNCHANGED <<model, at, bulk, listing, task, cache, elements, verdicts,
                 history, passes, edits>>

LabelOf(x) == Label(x.spec)

\* Wrong: only a read without any element at all is noted.
CoverNothing ==
  /\ phase = "covering"
  /\ phase' = "checking"
  /\ coverage' = [coverage EXCEPT !.empty =
       IF elements = {} THEN {Label(i) : i \in Specs} ELSE {}]
  /\ UNCHANGED <<model, at, bulk, listing, task, cache, elements, verdicts,
                 history, budgets>>

\* The categories that were resolved and have no element are named.
Cover ==
  /\ phase = "covering"
  /\ phase' = "checking"
  /\ coverage' = [coverage EXCEPT !.empty =
       {Label(i) : i \in Specs} \ {LabelOf(x) : x \in elements}]
  /\ UNCHANGED <<model, at, bulk, listing, task, cache, elements, verdicts,
                 history, budgets>>

-----------------------------------------------------------------------------
(* QCAgent.run.                                                            *)

\* _merge_params: the instance's value, or the type's when it has none.
Plain(v) == IF v = Unread THEN "none" ELSE v
Merged(instance, type) ==
  IF Missing(Plain(instance)) THEN Plain(type) ELSE Plain(instance)
Own(x) == Merged(x.instance, x.type)
Other(x) == Plain(x.host)

\* By the labels as the ruleset spells them.
InScope == {x \in elements : LabelOf(x) \in {Targets[i] : i \in Positions}}
Applies(r, x) == r.category \in {AnyLabel, LabelOf(x)}

Siblings(r) ==
  {x \in InScope : Applies(r, x) /\ Scope(r, Own(x)) = "match"}

Shared(r, x) == \E y \in Siblings(r) \ {x} : Own(y) = Own(x)

Check ==
  /\ phase = "checking"
  /\ phase' = "checked"
  /\ verdicts' =
       {[element |-> p[1], rule |-> p[2],
         outcome |-> Outcome(p[2], Own(p[1]), Other(p[1]),
                             Shared(p[2], p[1]))] :
        p \in {q \in InScope \X Rules : Applies(q[2], q[1])}}
  /\ UNCHANGED <<model, at, bulk, listing, task, cache, elements, coverage,
                 history, budgets>>

-----------------------------------------------------------------------------
\* People, the approval watcher and the design agent change the model.
Edit(t, v) ==
  /\ phase # "failed"
  /\ edits < MaxEdits
  /\ edits' = edits + 1
  /\ v # model[t]
  /\ model' = [model EXCEPT ![t] = v]
  /\ past' = [past EXCEPT ![t] = @ \cup {v}]
  /\ UNCHANGED <<phase, at, bulk, listing, task, cache, elements, coverage,
                 verdicts, unheard, passes, faults>>

Hydrate(e) ==
  \/ ReadCached(e) \/ Join(e) \/ Lead(e) \/ Acquire(e)
  \/ Answer(e) \/ AnswerRefused(e) \/ AnswerRaises(e)

Read ==
  \/ List \/ ListSheets \/ ListFails
  \/ \E e \in Elements : Hydrate(e)
  \/ Gather \/ GatherFails \/ Enrich \/ Cover \/ Check

NextElements ==
  \/ StartPass
  \/ Read
  \/ \E t \in Things, v \in Edits : Edit(t, v)

\* Every await returns or raises.
FairElements == WF_elementVars(Read)

ElementsSpec == InitElements /\ [][NextElements]_elementVars /\ FairElements

-----------------------------------------------------------------------------
Phases == {"idle", "listing", "hydrating", "enriching", "covering",
           "checking", "checked", "failed"}
Stages == {"none", "instance", "type", "host", "hostType", "done",
           "dropped", "error"}
Readings == Values \cup {Unread}
Rows == [id : Elements, spec : Specs, instance : Readings, type : Readings,
         host : Readings]

\* The state has the shape the code gives it, and a hydration that reads
\* something reads a thing that is there.
ElementsTypeOK ==
  /\ model \in [Things -> Values]
  /\ phase \in Phases
  /\ at \in {0} \cup Specs
  /\ bulk \in BOOLEAN
  /\ listing \in [Positions -> SUBSET Elements]
  /\ stage \in [Elements -> Stages]
  /\ mode \in [Elements -> {"ready", "waiting", "queued", "calling"}]
  /\ got \in [Elements -> [instance : Readings, type : Readings,
                           host : Readings]]
  /\ cache \in [Things -> Readings]
  /\ elements \in SUBSET Rows
  /\ verdicts \subseteq [element : Rows, rule : Rules,
                          outcome : {"skipped", "exempt", "compliant",
                            "manual_review", "missing_data",
                            "non_compliant"}]
  /\ past \in [Things -> SUBSET Values]
  /\ unheard \subseteq Things
  /\ phase \in {"listing", "hydrating"} => at \in Specs
  /\ \A e \in Elements : Wanted(e) \in Things \cup {NoThing}

-----------------------------------------------------------------------------
(* What the reads promise.                                                 *)

\* The values that a thing had since the pass began; a missing type or host
\* has none.
Past(t) == IF t = NoThing THEN {"none"} ELSE past[t]

PastOwn(e) == {Merged(i, t) : i \in Past(e), t \in Past(TypeOf[e])}

HostType(e, i) ==
  IF FollowHost(i) /\ HostOf[e] # NoThing THEN TypeOf[HostOf[e]]
  ELSE NoThing

\* A read that the hydration of e for spec i needs has failed.
Hampered(e, i) ==
  unheard \cap {e, TypeOf[e], HostOf[e], HostType(e, i)} # {}

\* The elements of the model that a spec is about, and those of all specs
\* whose elements rule r is applied to.
Of(i) == {e \in Elements : Category[e] = Entry[Targets[i]]}

Stamped(r) ==
  {i \in Specs : /\ Label(i) \in {Targets[j] : j \in Positions}
                /\ r.category \in {AnyLabel, Label(i)}}

Peers(r, e) == (UNION {Of(i) : i \in Stamped(r)}) \ {e}

\* Whether another element has the same value: yes, if one had it during the
\* pass, no, unless one had it and no other, and was not beyond the cap.  A
\* failed read of a peer excuses either.
Twins(r, e, own) ==
  {shared \in BOOLEAN :
     \/ \E i \in Stamped(r) : \E p \in Of(i) \ {e} : Hampered(p, i)
     \/ IF shared THEN \E p \in Peers(r, e) : own \in PastOwn(p)
        ELSE \A p \in Peers(r, e) :
               PastOwn(p) # {own} \/ \E i \in Stamped(r) :
                                       p \in Of(i) /\ Cardinality(Of(i)) > Cap}

\* Every verdict is one that the model deserved at some time during this
\* pass, unless a read that it rests on failed: nothing of an earlier pass,
\* of another element or of the wrong type gets into it, however the
\* hydrations interleave with each other and with edits (the caches of
\* revit_query.py 209-216 are per pass, shared by all of its categories).
\* That a value is unique is asked of the elements of the model, not of the
\* rows that were read.
VerdictsAreTrue ==
  phase = "checked" =>
    \A v \in verdicts :
      LET x == v.element IN
        \/ Hampered(x.id, x.spec)
        \/ \E own \in PastOwn(x.id), other \in Past(HostType(x.id, x.spec)) :
             \E twin \in Twins(v.rule, x.id, own) :
               v.outcome = Outcome(v.rule, own, other, twin)

\* What an audit was asked for is accounted for: a target that the catalog
\* knows is reported as empty in the coverage, or elements of it were read or
\* at least tried; and every element of the model in it is judged by every
\* rule of the target, unless a read for it failed or its listing stopped at
\* the cap.  This is about the targets that are spelled as the catalog does;
\* FilterStillWorks is about the others.
NothingLost ==
  phase = "checked" =>
    \A i \in Specs :
      /\ Label(i) \in coverage.empty \/ listing[i] # {}
      /\ Label(i) = Targets[i] =>
           \A e \in Of(i), r \in RulesOf(i) :
             \/ Hampered(e, i)
             \/ e \notin listing[i] /\ Cardinality(listing[i]) = Cap
             \/ \E v \in verdicts :
                  v.element.id = e /\ v.element.spec = i /\ v.rule = r

\* Not so in the code, query_specs.py:66-69: the display label is stamped into
\* element["category"] "so QC's per-rule rule.category filter still works
\* downstream": an element that was read for a target is judged by the rules
\* of that target.
FilterStillWorks ==
  phase = "checked" =>
    \A x \in elements : \A r \in RulesOf(x.spec) :
      \E v \in verdicts : v.element = x /\ v.rule = r

\* Not so in the code, rules_engine.py:197-199: the siblings hold the
\* element's own value, "so the value being checked counts once toward its own
\* duplicate detection": whoever is told that its value is not unique has a
\* twin.
CountsOnce ==
  phase = "checked" =>
    \A v \in verdicts :
      v.rule.requirement = "unique_in_set" /\ v.outcome = "non_compliant" =>
        \E p \in Elements \ {v.element.id} : Own(v.element) \in PastOwn(p)

\* Revit works on one thread: a thing is read by one hydration at a time,
\* never again once it is in the cache, and no more than Concurrency calls
\* are under way, although every hydration asks for its type and host.
OneReadPerThing ==
  /\ \A e, f \in Leaders : Wanted(e) = Wanted(f) => e = f
  /\ \A e \in Leaders : cache[Wanted(e)] = Unread
  /\ Cardinality(Calls) <= Concurrency

\* Every pass ends, whoever fails while others wait for the same read.
PassEnds == (phase = "listing") ~> (phase \in {"checked", "failed"})
=============================================================================
