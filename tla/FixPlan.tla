------------------------------ MODULE FixPlan -------------------------------
(***************************************************************************)
(* How the design agent turns the findings of a pass into values and       *)
(* writes (agents/design.py): findings that one write would mend are       *)
(* collapsed to one, a value is taken from the rule, from QC, from the     *)
(* language model (in a batch, from the memo, or asked for) or numbered,   *)
(* a dry run and the autonomy gate decide what becomes of it, and what may *)
(* be written at once is written as one live batch and logged.             *)
(*                                                                         *)
(* A check is a place in Pairs, the (rule, element) pairs in the order in  *)
(* which QC reports them.  Nobody edits the model during a pass (drift is  *)
(* the watcher's business); passes follow one another, and whether one     *)
(* follows is decided in AuditLoop.                                        *)
(***************************************************************************)
EXTENDS Naturals, Sequences, FiniteSets

CONSTANTS
  Elements, Types, Families,     \* what the model is made of
  CategoryOf, TypeOf, FamilyOf,  \* of an element
  Params, OnType,   \* the parameters, and those that types carry
  Values, Null,
  Loaded,           \* the elements the run has loaded
  MaxElements,      \* --max-elements
  Rules, Rule,      \* rule ids and what the ruleset says of each
  Pairs,            \* the checks
  Fits,             \* the values a rule accepts at an element
  Suggested,        \* suggested_value of a finding
  Answers,          \* what the language model may propose for a pair
  Minutes,          \* parse_to_minutes, where it parses
  LooksRated,       \* _looks_like_fire_rating
  Norm,             \* a value without its blanks and quotes
  Suffixed,         \* a value followed by A, B, ..
  BatchMin,         \* _llm_batch_min
  Budget,           \* max_calls of the usage recorder
  ProposeOnly, DryRunOnly,  \* propose_only, dry_run_only
  Scenarios,        \* active rules with the model they start from
  MaxPasses         \* bound: design passes of the run

Strategies == {"fixed", "inferred", "llm_propose", "next_available"}
Decisions == {"auto", "approve", "human-only"}
RuleShape ==
  [strategy : Strategies, target : {"instance", "type", "family", "auto"},
   param : Params, category : {CategoryOf[e] : e \in Elements} \cup {Null},
   unique : BOOLEAN, rating : BOOLEAN, batchable : BOOLEAN,
   template : BOOLEAN, safety : BOOLEAN, comment : BOOLEAN,
   literal : Values \cup {Null}, policy : Decisions]

Value == Values \cup {Null}
Owners == Elements \cup Types \cup Families
Slots == Owners \X (Params \cup {"Name", "Comments"})
Checks == DOMAIN Pairs

\* A renumbering rule writes the elements themselves (enforce_unique_autofix),
\* a batchable one (_is_batchable) accepts the same values everywhere, and
\* rules do not check the parameter that audit comments go to.  Nothing is
\* assumed of the elements that were not loaded: the cap left them out, or
\* their hydration failed.
ASSUME ConstantsAssumption ==
  /\ Null \notin Values \cup Owners \cup Slots
  /\ TypeOf \in [Elements -> Types \cup {Null}]
  /\ FamilyOf \in [Elements -> Families \cup {Null}]
  /\ OnType \subseteq Params /\ "Comments" \notin Params
  /\ Loaded \subseteq Elements /\ IsFiniteSet(Loaded)
  /\ Rule \in [Rules -> RuleShape]
  /\ Pairs \in Seq(Rules \X Loaded)
  /\ Fits \in [Rules -> [Elements -> SUBSET Values]]
  /\ Suggested \in [Rules -> [Elements -> Value]]
  /\ Answers \in [Rules -> [Elements -> SUBSET Value]]
  /\ DOMAIN Minutes \subseteq Values
  /\ \A v \in DOMAIN Minutes : Minutes[v] \in Nat
  /\ Norm \in [Value -> Value] /\ Suffixed \in [Values -> Seq(Values)]
  /\ BatchMin \in Nat /\ Budget \in Nat /\ MaxElements \in Nat
  /\ MaxPasses \in Nat /\ ProposeOnly \in BOOLEAN /\ DryRunOnly \in BOOLEAN
  /\ Scenarios \subseteq [on : SUBSET Rules, model : [Slots -> Value]]
  /\ \A r \in Rules :
       /\ Rule[r].strategy = "next_available" =>
            Rule[r].target = "instance" /\ Rule[r].param # "Type Name"
       /\ Rule[r].batchable => /\ ~Rule[r].unique
                               /\ \A e, f \in Elements : Fits[r][e] = Fits[r][f]

VARIABLES
  model,      \* the values of the Revit model
  active,     \* the rules of this run
  pc, pass,
  seen,       \* _all_elements: what the pass was given
  families,   \* _family_id_by_name
  found,      \* the findings of Path B
  left,       \* those still to prepare, one per write target
  toWarm,     \* rules whose batch has not been asked for
  memo,       \* _llm_propose_memo: question -> value, and whose it was
  poisoned,   \* _llm_propose_memo_unshareable
  taken,      \* _revit_siblings_cache: (category, parameter) -> values
  lost,       \* the rooms that could not be read for it
  calls,      \* language model calls of the run
  fixes,      \* the ProposedFix of a finding
  unfixable,  \* findings handed over to Path A
  steps,      \* the live batch of the pass
  primary,    \* the step that carries a finding's value
  at,         \* the step the per-element commit is at
  log,        \* fix_write_log
  landed,     \* history: the writes that reached the model
  unsure,     \* history: the slots of writes that were not confirmed
  before      \* history: what the pass before was given and proposed

planVars == <<found, left, toWarm, memo, poisoned, taken, lost, calls>>
fixVars == <<fixes, unfixable, steps, primary>>
passVars == <<active, pass, seen, families, before>>
worldVars == <<model, log, landed, unsure, at>>
vars == <<pc, planVars, fixVars, passVars, worldVars>>

Nothing == [x \in {} |-> Null]
With(f, x, v) == [y \in DOMAIN f \cup {x} |-> IF y = x THEN v ELSE f[y]]

-----------------------------------------------------------------------------
(* Where a finding's value is, and where its fix writes.                   *)

RuleAt(i) == Rule[Pairs[i][1]]
ElementAt(i) == Pairs[i][2]

\* _effective_remediation: an "auto" target follows the parameter.
Target == [i \in Checks |->
  CASE RuleAt(i).target # "auto" -> RuleAt(i).target
    [] RuleAt(i).target = "auto" /\ RuleAt(i).param = "Family Name" -> "family"
    [] /\ RuleAt(i).target = "auto"
       /\ \/ RuleAt(i).param = "Type Name"
          \/ RuleAt(i).param \in OnType /\ TypeOf[ElementAt(i)] # Null -> "type"
    [] OTHER -> "instance"]

Owner == [i \in Checks |-> CASE Target[i] = "family" -> FamilyOf[ElementAt(i)]
                             [] Target[i] = "type" -> TypeOf[ElementAt(i)]
                             [] OTHER -> ElementAt(i)]

\* A name is not a parameter: it is renamed, not set.
Param == [i \in Checks |-> IF Target[i] = "family" \/ RuleAt(i).param = "Type Name"
                           THEN "Name" ELSE RuleAt(i).param]

Home == [i \in Checks |-> <<Owner[i], Param[i]>>]
Current(i) == IF Owner[i] = Null THEN Null ELSE seen[Home[i]]

\* _resolve_write_eid: the family is found by its name, a type by the
\* breadcrumb of the element; without it there is nothing to write to.
Slot(i) == CASE Target[i] # "family" /\ Owner[i] # Null -> Home[i]
             [] Target[i] = "family" /\ Current(i) \in DOMAIN families ->
                  <<families[Current(i)], "Name">>
             [] OTHER -> Null

Suggestion(i) == Suggested[Pairs[i][1]][ElementAt(i)]
InScope(r, e) == Rule[r].category \in {Null, CategoryOf[e]}

\* The values of the other loaded elements of the rule: _gather_sibling_values
Siblings(i) == {seen[<<e, Param[i]>>] :
                  e \in {e \in Loaded \ {ElementAt(i)} :
                           InScope(Pairs[i][1], e)}}

\* The validator: the rule that found fault must accept the value, and a
\* value that must be unique must not be a sibling's.
Accepts(i, v) ==
  /\ v \in Fits[Pairs[i][1]][ElementAt(i)]
  /\ RuleAt(i).unique => v \notin Siblings(i)

\* What QC reports, and what of it goes to Path B: a missing value only if
\* there is one to fill in (_can_auto_fill_missing).
Found(i) ==
  /\ Pairs[i][1] \in active
  /\ ~Accepts(i, Current(i))
  /\ Current(i) = Null => Suggestion(i) # Null
PathB == {i \in Checks : Found(i)}

\* Missing values are queued after the others.
Rank(i) == IF Current(i) = Null THEN i + Len(Pairs) ELSE i
First(S) == CHOOSE i \in S : \A j \in S : Rank(i) <= Rank(j)

-----------------------------------------------------------------------------
(* _dedup_by_write_target and _collapse_to_one                             *)

Group(S, i) ==
  IF Slot(i) = Null THEN {i}
  ELSE {j \in S : Pairs[j][1] = Pairs[i][1] /\ Slot(j) = Slot(i)}

IsRating(G) ==
  \A j \in G : RuleAt(j).rating \/ Suggestion(j) \in LooksRated
Rateable(G) == {j \in G : Suggestion(j) \in DOMAIN Minutes}
Agreed(G) == \A j, k \in G : Suggestion(j) = Suggestion(k)

\* Wrong: the least demanding rating represents the group.
ChosenLeast(G) ==
  LET R == Rateable(G)
  IN  IF Agreed(G) \/ ~IsRating(G) \/ R = {} THEN First(G)
      ELSE First({j \in R : \A k \in R :
                    Minutes[Suggestion(j)] <= Minutes[Suggestion(k)]})

\* The finding that stands for its group: the most demanding of the ratings
\* that can be read, otherwise the first.
Chosen(G) ==
  LET R == Rateable(G)
  IN  IF Agreed(G) \/ ~IsRating(G) \/ R = {} THEN First(G)
      ELSE First({j \in R : \A k \in R :
                    Minutes[Suggestion(k)] <= Minutes[Suggestion(j)]})

\* The groups keep the places of their first findings.
Upcoming == CHOOSE i \in left : \A j \in left :
              Rank(First(Group(found, i))) <= Rank(First(Group(found, j)))

-----------------------------------------------------------------------------
(* Beginning of a pass                                                     *)

\* list_families: names that families bear; of two with one name the first
\* that is listed counts.
FamilyMaps ==
  LET names == {model[<<f, "Name">>] : f \in Families} \ {Null}
  IN  {F \in [names -> Families] : \A n \in names : model[<<F[n], "Name">>] = n}

RenamesFamily(r) ==
  \/ Rule[r].target = "family"
  \/ Rule[r].target = "auto" /\ Rule[r].param = "Family Name"

\* _ensure_family_map: once for the run, if some rule may rename a family; a
\* listing that fails leaves it for the next pass.
EnsureFamilies ==
  \/ /\ DOMAIN families = {} /\ \E r \in active : RenamesFamily(r)
     /\ families' \in FamilyMaps
  \/ /\ \/ DOMAIN families # {} \/ \E r \in active : RenamesFamily(r)
        \/ \A r \in active : ~RenamesFamily(r)
     /\ UNCHANGED families

\* Wrong: the numbers reserved in the last pass are not given back.
ForgetMemoOnly ==
  memo' = Nothing /\ poisoned' = {} /\ lost' = {} /\ UNCHANGED taken

\* Answers, reservations and what they were derived from hold for one pass.
Forget == memo' = Nothing /\ poisoned' = {} /\ lost' = {} /\ taken' = Nothing

\* run: what the query has read is the population of the pass.
StartPass ==
  /\ pc = "start" /\ pass < MaxPasses
  /\ pass' = pass + 1 /\ seen' = model
  /\ EnsureFamilies
  /\ Forget
  /\ before' = [seen |-> seen, fixes |-> fixes, lost |-> lost]
  /\ fixes' = Nothing /\ unfixable' = {} /\ steps' = <<>> /\ primary' = Nothing
  /\ pc' = "collect"
  /\ UNCHANGED <<worldVars, active, found, left, toWarm, calls>>

Asks(r) == Rule[r].strategy = "llm_propose"
Key(i) == <<Pairs[i][1], Current(i), CategoryOf[ElementAt(i)]>>

\* The distinct questions of a rule, each asked for its first finding.
Questions(r, S) ==
  {i \in S : /\ Pairs[i][1] = r
             /\ \A j \in S : Key(j) = Key(i) => Rank(i) <= Rank(j)}

\* Partition, collapse, and the rule groups that are worth a batch.
Collect ==
  /\ pc = "collect"
  /\ found' = PathB /\ left' = {Chosen(Group(found', i)) : i \in found'}
  /\ toWarm' = {r \in active : /\ Asks(r) /\ Rule[r].batchable
                               /\ Cardinality(Questions(r, left')) > BatchMin}
  /\ pc' = "work"
  /\ UNCHANGED <<fixVars, passVars, worldVars, memo, poisoned, taken, lost,
                 calls>>

-----------------------------------------------------------------------------
(* Values                                                                  *)

\* Wrong: an answer is taken whatever question it was given to.
BoundToAny(i, j) == i \in Checks /\ j \in Checks

\* _echo_matches: an answer counts for finding i if the question j that it
\* names is about the same value.
Bound(i, j) == Norm[Current(j)] = Norm[Current(i)]

\* _prewarm_llm_batches: one call for all questions Q of a rule.  The model
\* answers question from[i] where i was asked, or nothing (0, which also
\* stands for an answer that names no question).
WarmBatch(r) ==
  LET Q == Questions(r, left)
  IN  /\ pc = "work" /\ r \in toWarm /\ calls < Budget
      /\ \E from \in [Q -> Q \cup {0}],
            says \in {f \in [Q -> UNION {Answers[r][ElementAt(i)] : i \in Q}] :
                        \A i \in Q : f[i] \in Answers[r][ElementAt(i)]} :
           LET kept == {i \in Q : /\ from[i] # 0 /\ says[from[i]] # Null
                                  /\ Bound(i, from[i])
                                  /\ Accepts(i, says[from[i]])}
           IN  memo' = [k \in DOMAIN memo \cup {Key(i) : i \in kept} |->
                          IF k \in DOMAIN memo THEN memo[k]
                          ELSE LET i == CHOOSE i \in kept : Key(i) = k
                               IN  [value |-> says[from[i]],
                                    about |-> Current(from[i])]]
      /\ toWarm' = toWarm \ {r} /\ calls' = calls + 1
      /\ UNCHANGED <<fixVars, passVars, worldVars, pc, found, left, poisoned,
                     taken, lost>>

\* The call raises, or the budget is used up: every finding asks for itself.
WarmFails(r) ==
  /\ pc = "work" /\ r \in toWarm
  /\ toWarm' = toWarm \ {r}
  /\ calls' = IF calls < Budget THEN calls + 1 ELSE calls
  /\ UNCHANGED <<fixVars, passVars, worldVars, pc, found, left, memo, poisoned,
                 taken, lost>>

\* The autonomy gate: where the value comes from decides first, a renumbering
\* and a propose_only run are never automatic.
Gate(r) == CASE Asks(r) /\ Rule[r].safety -> "human-only"
             [] Asks(r) /\ ~Rule[r].safety -> "approve"
             [] Rule[r].strategy = "inferred" /\ Rule[r].template -> "auto"
             [] OTHER -> Rule[r].policy
Decision(r) ==
  IF Gate(r) = "auto" /\ (ProposeOnly \/ Rule[r].strategy = "next_available")
  THEN "approve" ELSE Gate(r)

\* Wrong: the findings are counted, not the steps.
PrimaryBySpec == Cardinality(DOMAIN primary) + 1

\* _commit_revit_batch notes where a finding's own step is, because a comment
\* may follow it.
PrimaryStep == Len(steps) + 1

Step(i, kind, param, v) ==
  [check |-> i, kind |-> kind, slot |-> <<Slot(i)[1], param>>, value |-> v]

Enqueue(i, v) ==
  IF Decision(Pairs[i][1]) = "auto" /\ ~DryRunOnly
  THEN /\ steps' = steps \o <<Step(i, "value", Slot(i)[2], v)>>
                         \o IF RuleAt(i).comment
                            THEN <<Step(i, "comment", "Comments", v)>> ELSE <<>>
       /\ primary' = With(primary, i, PrimaryStep)
  ELSE UNCHANGED <<steps, primary>>

\* _prepare_revit_fix once the value is known: no value, or a dry run that
\* fails, is a matter for Path A.
Prepare(i, v, about) ==
  /\ left' = left \ {i}
  /\ \/ /\ unfixable' = unfixable \cup {i}
        /\ UNCHANGED <<fixes, steps, primary>>
     \/ /\ v # Null
        /\ fixes' = With(fixes, i, [value |-> v, about |-> about,
                                    executed |-> FALSE,
                                    decision |-> Decision(Pairs[i][1])])
        /\ Enqueue(i, v)
        /\ UNCHANGED unfixable

Turn(i) == pc = "work" /\ toWarm = {} /\ i \in left /\ i = Upcoming

Unresolved(i) ==
  /\ Turn(i) /\ Slot(i) = Null
  /\ left' = left \ {i} /\ unfixable' = unfixable \cup {i}
  /\ UNCHANGED <<pc, found, toWarm, memo, poisoned, taken, lost, calls, fixes, steps,
                 primary, passVars, worldVars>>

Computable(i, strategy) ==
  Turn(i) /\ Slot(i) # Null /\ RuleAt(i).strategy = strategy

Compute(i) ==
  /\ \/ Computable(i, "fixed") /\ Prepare(i, RuleAt(i).literal, Null)
     \/ Computable(i, "inferred") /\ Prepare(i, Suggestion(i), Null)
  /\ UNCHANGED <<pc, found, toWarm, memo, poisoned, taken, lost, calls, passVars,
                 worldVars>>

\* Wrong: an answer to the same question holds for whoever asks it.
HoldsForAll(i, v) == v \in Value

\* A remembered answer is judged again by the rule at this element; that
\* nothing was found for the question holds for all.
HoldsFor(i, v) == v = Null \/ Accepts(i, v)

Remembered(i) ==
  /\ ~RuleAt(i).unique /\ Key(i) \notin poisoned
  /\ Key(i) \in DOMAIN memo

\* _llm_propose: the memo answers.
Recall(i) ==
  /\ Computable(i, "llm_propose")
  /\ Remembered(i) /\ HoldsFor(i, memo[Key(i)].value)
  /\ Prepare(i, memo[Key(i)].value, memo[Key(i)].about)
  /\ UNCHANGED <<pc, found, toWarm, memo, poisoned, taken, lost, calls, passVars,
                 worldVars>>

\* _llm_propose: the model is asked, and its answer judged by the rule.  An
\* answer that did not hold for this element makes the question one that no
\* answer is kept for.  No answer, a wrong one, and a call that the budget
\* forbids are kept as Null.
Ask(i) ==
  /\ Computable(i, "llm_propose")
  /\ ~(Remembered(i) /\ HoldsFor(i, memo[Key(i)].value))
  /\ calls' = IF calls < Budget THEN calls + 1 ELSE calls
  /\ poisoned' = IF Remembered(i) THEN poisoned \cup {Key(i)} ELSE poisoned
  /\ \E says \in Answers[Pairs[i][1]][ElementAt(i)] \cup {Null} :
       LET v == IF calls < Budget /\ Accepts(i, says) THEN says ELSE Null
       IN  /\ Prepare(i, v, Current(i))
           /\ memo' = IF RuleAt(i).unique
                      THEN memo
                      ELSE IF Key(i) \in poisoned'
                      THEN [k \in DOMAIN memo \ {Key(i)} |-> memo[k]]
                      ELSE With(memo, Key(i),
                                [value |-> v, about |-> Current(i)])
  /\ UNCHANGED <<pc, found, toWarm, taken, lost, passVars, worldVars>>

NumberKey(r) == <<Rule[r].category, Rule[r].param>>

\* Rooms are listed from the whole model, also for a rule without a category.
FromRooms(r) == Rule[r].category \in {"Rooms", Null}
Compared(r) == IF FromRooms(r) THEN {e \in Elements : CategoryOf[e] = "Rooms"}
               ELSE {e \in Loaded : CategoryOf[e] = Rule[r].category}

\* The values in use, without those of the rooms that could not be read.
InUse(r, unread) ==
  {(IF FromRooms(r) THEN model ELSE seen)[<<e, Rule[r].param>>] :
     e \in Compared(r) \ unread} \ {Null}

\* A room's number comes with the list, any other parameter is read one by
\* one.
Unreadable(r) ==
  IF FromRooms(r) /\ Rule[r].param # "Number"
  THEN {e \in Elements : CategoryOf[e] = "Rooms"} ELSE {}

\* _next_available: the first suffix that is not in use.
NextAvailable(base, used) ==
  LET free == {k \in DOMAIN Suffixed[base] : Suffixed[base][k] \notin used}
  IN  IF free = {} THEN Null
      ELSE Suffixed[base][CHOOSE k \in free : \A l \in free : k <= l]

\* Wrong: the number that was chosen is not reserved.
ReservedNot(used, v) == IF v = Null THEN used ELSE used

Reserved(used, v) == used \cup ({v} \ {Null})

\* next_available: from the present value, or else from QC's suggestion.
Renumber(i) ==
  LET r == Pairs[i][1]
      base == IF Current(i) = Null THEN Suggestion(i) ELSE Current(i)
      key == NumberKey(r)
  IN  /\ Computable(i, "next_available") /\ base # Null
      /\ \E unread \in SUBSET Unreadable(r) :
           LET used == IF key \in DOMAIN taken THEN taken[key]
                       ELSE InUse(r, unread)
               v == NextAvailable(base, used)
           IN  /\ key \in DOMAIN taken => unread = {}
               /\ lost' = lost \cup unread
               /\ taken' = With(taken, key, Reserved(used, v))
               /\ Prepare(i, v, Null)
      /\ UNCHANGED <<pc, found, toWarm, memo, poisoned, calls, passVars, worldVars>>

-----------------------------------------------------------------------------
(* Writing                                                                 *)

WritesOf(L, s) == {k \in L : steps[k].slot = s}
Landing(L) ==
  model' = [s \in Slots |->
              IF s \notin {steps[k].slot : k \in L} THEN model[s]
              ELSE steps[CHOOSE k \in WritesOf(L, s) :
                           \A l \in WritesOf(L, s) : l <= k].value]

History(L) ==
  landed' = landed \cup
              {<<pass, steps[k].check>> : k \in {k \in L : steps[k].kind = "value"}}

Executed(S) == [i \in DOMAIN fixes |->
                  [fixes[i] EXCEPT !.executed = @ \/ i \in S]]

Ready == pc = "work" /\ left = {} /\ toWarm = {}

\* _commit_revit_batch: one transaction.  What batch_commit_outcomes takes as
\* confirmed landed, and steps that the envelope does not mention may have.  A
\* finding is executed if its own step is confirmed.
CommitBatch ==
  /\ Ready /\ steps # <<>>
  /\ \E L \in SUBSET DOMAIN steps : \E confirmed \in SUBSET L :
       /\ Landing(L) /\ History(L)
       /\ fixes' = Executed({i \in DOMAIN primary : primary[i] \in confirmed})
  /\ pc' = "log"
  /\ UNCHANGED <<planVars, passVars, unfixable, steps, primary, log, unsure, at>>

\* An error envelope: nothing landed, the fixes stay unexecuted.
CommitRejected ==
  /\ Ready
  /\ pc' = "log"
  /\ UNCHANGED <<planVars, passVars, fixVars, worldVars>>

\* unknown_command: finding by finding instead.
CommitFallback ==
  /\ Ready /\ steps # <<>>
  /\ pc' = "each" /\ at' = 1
  /\ UNCHANGED <<planVars, passVars, fixVars, model, log, landed, unsure>>

AfterFailure ==
  IF /\ steps[at].kind = "value" /\ at < Len(steps)
     /\ steps[at + 1].kind = "comment"
  THEN at + 2 ELSE at + 1

\* _commit_per_element: a failed comment does not disown the value before
\* it, a failed value has no comment.
CommitOne ==
  /\ pc = "each" /\ at <= Len(steps)
  /\ Landing({at}) /\ History({at})
  /\ fixes' = IF steps[at].kind = "value"
              THEN Executed({steps[at].check}) ELSE fixes
  /\ at' = at + 1
  /\ UNCHANGED <<pc, planVars, passVars, unfixable, steps, primary, log, unsure>>

\* The write may have landed although it was answered by an error.
CommitOneFails ==
  /\ pc = "each" /\ at <= Len(steps)
  /\ \E L \in SUBSET {at} : Landing(L) /\ History(L)
  /\ at' = AfterFailure
  /\ UNCHANGED <<pc, planVars, passVars, fixVars, log, unsure>>

CommittedAll ==
  /\ pc = "each" /\ at > Len(steps)
  /\ pc' = "log"
  /\ UNCHANGED <<planVars, passVars, fixVars, worldVars>>

Entry(i) == [pass |-> pass, rule |-> Pairs[i][1], slot |-> Slot(i),
             old |-> Current(i), new |-> fixes[i].value]

\* run: what was executed is logged, over all passes of the run.
WriteLog ==
  /\ pc = "log"
  /\ log' = log \cup {Entry(i) : i \in {i \in DOMAIN primary : fixes[i].executed}}
  /\ unsure' = unsure \cup
       {Slot(i) : i \in {i \in DOMAIN primary : ~fixes[i].executed}}
  /\ pc' = "start"
  /\ UNCHANGED <<planVars, passVars, fixVars, model, landed, at>>

-----------------------------------------------------------------------------
Init ==
  /\ \E s \in Scenarios : active = s.on /\ model = s.model
  /\ pc = "start" /\ pass = 0 /\ seen = model
  /\ families = Nothing
  /\ found = {} /\ left = {} /\ toWarm = {} /\ memo = Nothing /\ poisoned = {}
  /\ taken = Nothing /\ lost = {} /\ calls = 0
  /\ fixes = Nothing /\ unfixable = {} /\ steps = <<>> /\ primary = Nothing
  /\ at = 1 /\ log = {} /\ landed = {} /\ unsure = {}
  /\ before = [seen |-> seen, fixes |-> Nothing, lost |-> {}]

Next ==
  \/ StartPass \/ Collect
  \/ \E r \in Rules : WarmBatch(r) \/ WarmFails(r)
  \/ \E i \in Checks : \/ Unresolved(i) \/ Compute(i) \/ Recall(i) \/ Ask(i)
                       \/ Renumber(i)
  \/ CommitBatch \/ CommitRejected \/ CommitFallback
  \/ CommitOne \/ CommitOneFails \/ CommittedAll
  \/ WriteLog

Spec == Init /\ [][Next]_vars

-----------------------------------------------------------------------------
(* Properties                                                              *)

Fix == [value : Values, about : Value, executed : BOOLEAN,
        decision : Decisions]
Phases == {"start", "collect", "work", "each", "log"}

WorldTyped ==
  /\ model \in [Slots -> Value] /\ seen \in [Slots -> Value]
  /\ active \subseteq Rules /\ pc \in Phases
  /\ pass \in Nat /\ pass <= MaxPasses /\ at \in Nat \ {0}
  /\ \A n \in DOMAIN families : families[n] \in Families
PlanTyped ==
  /\ found \subseteq Checks /\ left \subseteq found /\ toWarm \subseteq Rules
  /\ \A k \in DOMAIN memo : memo[k] \in [value : Value, about : Value]
  /\ \A k \in DOMAIN taken : taken[k] \subseteq Values
  /\ lost \subseteq Elements /\ calls \in Nat /\ calls <= Budget
FixesTyped ==
  /\ DOMAIN fixes \subseteq Checks /\ unfixable \subseteq Checks
  /\ \A i \in DOMAIN fixes : fixes[i] \in Fix
  /\ DOMAIN primary \subseteq DOMAIN fixes
  /\ steps \in Seq([check : Checks, kind : {"value", "comment"},
                    slot : Slots, value : Values])

\* The shape of what the design agent keeps over a pass and over the run.
TypeOK == WorldTyped /\ PlanTyped /\ FixesTyped

\* A value that the language model originated is one that the rule accepts
\* at the very element it is for, and the answer to a question about the
\* value that this element has: neither a permuted batch nor a memo that
\* mistakes two questions for one gets a value through.
AnswersItsQuestion ==
  \A i \in DOMAIN fixes :
    Asks(Pairs[i][1]) => /\ Accepts(i, fixes[i].value)
                         /\ Norm[fixes[i].about] = Norm[Current(i)]

\* Where several elements share the type that a rating is written to, the
\* type gets no less than any of them requires, and never what cannot be
\* read as a rating as long as one can.
StrictestWins ==
  \A i \in DOMAIN fixes :
    RuleAt(i).strategy = "inferred" /\ IsRating(Group(found, i)) =>
      \A j \in found :
        /\ Pairs[j][1] = Pairs[i][1] /\ Slot(j) = Slot(i)
        /\ Suggestion(j) \in DOMAIN Minutes
        => /\ fixes[i].value \in DOMAIN Minutes
           /\ Minutes[Suggestion(j)] <= Minutes[fixes[i].value]

Renumbered == {i \in DOMAIN fixes :
                 RuleAt(i).strategy = "next_available"}

\* Of one category and parameter no two findings get the same number, and
\* nothing it was compared with bears it, except rooms whose read failed.
FreshFor(i) ==
  /\ \A j \in Renumbered \ {i} :
       NumberKey(Pairs[j][1]) = NumberKey(Pairs[i][1]) =>
         fixes[j].value # fixes[i].value
  /\ \A e \in Compared(Pairs[i][1]) \ lost :
       seen[<<e, Param[i]>>] # fixes[i].value

\* A number that is proposed for an element is proposed for no other one and
\* borne by none, as far as _get_revit_siblings looks: all rooms, or the
\* loaded elements of the category.  What it does not look at is the matter
\* of UnseenIsTold and FreeInScope.
FreshNumbers == \A i \in Renumbered : FreshFor(i)

\* Every value that is proposed is one the rule and the model allow.
ValuesAreRight == AnswersItsQuestion /\ StrictestWins /\ FreshNumbers

\* _sibling_scope_note
Disclosed(r) ==
  Cardinality({e \in Loaded : InScope(r, e)}) >= MaxElements

\* Not so in the code: a proposed number that an element of the category
\* bears which the run did not load comes with the note that says so, since a
\* run "under the cap" is one that "saw everything".
UnseenIsTold ==
  \A i \in Renumbered, e \in Elements \ Loaded :
    /\ RuleAt(i).category = CategoryOf[e]
    /\ e \notin lost /\ seen[<<e, Param[i]>>] = fixes[i].value
    => Disclosed(Pairs[i][1])

\* Not so in the code: whatever a rule is about, a number that it proposes is
\* borne by none of the elements that the run loaded for it.
FreeInScope ==
  \A i \in Renumbered, e \in Loaded \ lost :
    InScope(Pairs[i][1], e) => seen[<<e, Param[i]>>] # fixes[i].value

\* Passes that find the same values propose the same numbers, so that the
\* proposal of the first one is recognised in the next.
StableNumbers ==
  \A i \in Renumbered \cap DOMAIN before.fixes :
    /\ lost = {} /\ before.lost = {}
    /\ \A o \in Owners : seen[<<o, Param[i]>>] = before.seen[<<o, Param[i]>>]
    => fixes[i].value = before.fixes[i].value

\* detect_fix_interactions: the slots that were written by two rules, or in
\* two passes.
Interactions ==
  {w.slot : w \in {w \in log : \E x \in log :
                     /\ x.slot = w.slot
                     /\ x.rule # w.rule \/ x.pass # w.pass}}

\* A fix that is marked executed reached the model, comments and failures in
\* between notwithstanding; and what the run's log says was written is what
\* the model holds, unless the report shows that the slot was written more
\* than once, or a write to it was not confirmed.
ExecutedIsTrue ==
  /\ \A i \in DOMAIN fixes : fixes[i].executed => <<pass, i>> \in landed
  /\ pc \in {"start", "collect", "work"} =>
       \A w \in log : \/ model[w.slot] = w.new
                      \/ w.slot \in Interactions \cup unsure
=============================================================================
