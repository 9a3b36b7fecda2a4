-------------------------- MODULE VerificationViews -------------------------
(***************************************************************************)
(* Building the native verification schedules of a finished run:           *)
(* create_verification_schedules of verification_views.py, driven by the   *)
(* service (under its single-run lock) and by the command line (without    *)
(* it), against a Revit model that people edit at the same time.           *)
(*                                                                         *)
(* A pass reads the rules of a run's trace, probes the views once, and     *)
(* then takes rule by rule: an existing schedule is configured again, a    *)
(* missing one is created and configured.  It ends by writing the manifest *)
(* of the run.  Every call of the addin is one step; between two steps     *)
(* anything may happen to the model.                                       *)
(*                                                                         *)
(* addin says which addin is installed: renames (older than v0.8.36: a     *)
(* name it cannot apply is replaced instead of refused), lists (what       *)
(* get_views tells: "ids", "names" or nothing, "no"), creates and          *)
(* configures (it has the command).                                        *)
(***************************************************************************)
EXTENDS VerifyRecipe, SequencesExt

CONSTANTS
  Runs, Trace,       \* the finished runs, and the rule views of their traces
  Forbidden,         \* rule ids that hold a character Revit refuses in a name
  Elements, CategoryOf, ValueOf,
  Met,               \* elements that meet the condition of conditional rules
  Schedulable,       \* by category, the fields a schedule of it can show
  Addins, Procs,
  MaxPasses, MaxFaults, MaxEdits

RuleViews == UNION {Range(Trace[r]) : r \in Runs}

\* _group_by_rule: a run's trace has one view per rule.
ASSUME ConstantsAssumption ==
  /\ \A r \in Runs :
       /\ Trace[r] \in Seq(RuleViews)
       /\ \A i, j \in DOMAIN Trace[r] : Trace[r][i].id = Trace[r][j].id => i = j
  /\ Addins \subseteq [renames : BOOLEAN, lists : {"ids", "names", "no"},
                      creates : BOOLEAN, configures : BOOLEAN]
  /\ MaxPasses \in Nat /\ MaxFaults \in Nat /\ MaxEdits \in Nat

\* Values and thresholds are whole numbers of storage units: the floats of
\* the code, without their rounding.
ASSUME ValuesAssumption ==
  /\ Blank \notin Int
  /\ \A e \in Elements, v \in RuleViews :
       v.param \in Schedulable[CategoryOf[e]] =>
         ValueOf[e][v.param] \in Int \cup {Blank}
  /\ \A v \in RuleViews : v.scope \subseteq Elements
  /\ \A v \in RuleViews :
       v.requirement \in NumericFamily =>
         /\ v.op \in Operators \cup {"none"} /\ v.threshold \in Int
         /\ Convertible(v) =>
              LET factor == Factor[v.param][v.unit]
              IN  /\ factor \in Nat \ {0}
                  /\ ToStorage(v, ThresholdOf(v)) \in Int
                  /\ ToStorage(v, ThresholdOf(v)) * factor = ThresholdOf(v)

VARIABLES addin, schedules, lock, pass, manifest, spent

vars == <<addin, schedules, lock, pass, manifest, spent>>

Statuses == {"created", "created_renamed", "existing",
             "existing_reconfigured", "degraded", "error"}

NoId == 0

\* f"AutoAudit - {rule_id}"; the names that an old addin or a person gives.
Name(rule) == <<"AutoAudit", rule.id>>
DefaultName(id) == <<"default", id>>
KeptName(id) == <<"kept", id>>

Live == {id \in DOMAIN schedules : ~schedules[id].deleted}
Names == {schedules[id].name : id \in Live}

Idle == [pc |-> "idle", run |-> 0, dry |-> FALSE, seen |-> {}, todo |-> <<>>,
         sid |-> NoId, name |-> <<>>, warned |-> FALSE, rows |-> <<>>,
         told |-> {}, quiet |-> TRUE]

Init ==
  /\ addin \in Addins
  /\ schedules = <<>>
  /\ lock = "free"
  /\ pass = [p \in Procs |-> Idle]
  /\ manifest = [r \in Runs |-> <<>>]
  /\ spent = [passes |-> 0, faults |-> 0, edits |-> 0, overlap |-> FALSE]

-----------------------------------------------------------------------------
\* The addin.  It rolls a half-made schedule back when it refuses its name,
\* leaves out columns that cannot be scheduled, ADDS sort fields and filters
\* to those that are there, and skips a filter that it cannot apply with a
\* warning.

New(name, rule) ==
  [name |-> name, category |-> rule.category,
   cols |-> Columns(rule) \cap Schedulable[rule.category],
   sort |-> <<>>, filters |-> {}, madeFor |-> rule.id, deleted |-> FALSE]

Appliable(rule) == rule.id \notin Forbidden /\ Name(rule) \notin Names

Configured(s, rule, clear) ==
  LET can == rule.param \in Schedulable[s.category]
      add == IF can THEN <<SortOf(rule)>> ELSE <<>>
      new == IF can THEN FiltersOf(rule) ELSE {}
  IN  [s EXCEPT !.cols = @ \cup (IF can THEN {rule.param} ELSE {}),
                !.sort = IF clear THEN add ELSE @ \o add,
                !.filters = IF clear THEN new ELSE @ \cup new]

\* (broken: dryRun is not passed on)
ReconfiguredAlways(id, rule, clear, dry) ==
  [schedules EXCEPT ![id] = Configured(@, rule, clear)]

\* configure_schedule of a schedule by id, and whether it warned.
Reconfigured(id, rule, clear, dry) ==
  IF dry THEN schedules
  ELSE [schedules EXCEPT ![id] = Configured(@, rule, clear)]
Warns(id, rule) == rule.param \notin Schedulable[schedules[id].category]

-----------------------------------------------------------------------------
\* The pass.

Rule(p) == Head(pass[p].todo)

Row(rule, status, id, name, warned) ==
  [rule |-> rule.id, status |-> status, id |-> id, name |-> name,
   warned |-> warned]

\* The row of the rule at hand is appended and the next rule is up.
Reported(p, status, id, name, warned) ==
  [pass[p] EXCEPT !.pc = "rule", !.todo = Tail(@), !.sid = NoId,
                  !.name = <<>>, !.warned = FALSE,
                  !.rows = Append(@, Row(Rule(p), status, id, name, warned))]

Busy(p) == pass[p].pc # "idle"

\* A step of p that changed the schedules: no other pass is alone any more.
Becomes(p, next, changed) ==
  pass' = [q \in Procs |->
             IF q = p THEN next
             ELSE [pass[q] EXCEPT !.quiet = @ /\ ~(changed /\ Busy(q))]]

Faulty(next) == [next EXCEPT !.quiet = FALSE]
Fault == /\ spent.faults < MaxFaults
         /\ spent' = [spent EXCEPT !.faults = @ + 1]

\* verification_views_endpoint refuses with 409 while the lock is held;
\* build_verification_views takes no lock.
Begin(p, r, dry) ==
  /\ ~Busy(p)
  /\ spent.passes < MaxPasses
  /\ p = "service" => lock = "free"
  /\ lock' = IF p = "service" THEN "held" ELSE lock
  /\ pass' = [pass EXCEPT ![p] = [Idle EXCEPT !.pc = "probe", !.run = r,
                                              !.dry = dry, !.todo = Trace[r]]]
  /\ spent' = [spent EXCEPT !.passes = @ + 1,
                            !.overlap = @ \/ \E q \in Procs \ {p} : Busy(q)]
  /\ UNCHANGED <<addin, schedules, manifest>>

\* (broken: the probe is not used)
ListedNone == {}

\* _probe_existing_schedules: by name, the id if the transport gives one.
Listed ==
  CASE addin.lists = "ids" ->
         {[name |-> schedules[id].name, id |-> id] : id \in Live}
    [] addin.lists = "names" ->
         {[name |-> schedules[id].name, id |-> NoId] : id \in Live}
    [] OTHER -> {}
Probe(p) ==
  /\ pass[p].pc = "probe"
  /\ pass' = [pass EXCEPT ![p].pc = "rule", ![p].seen = Listed]
  /\ UNCHANGED <<addin, schedules, lock, manifest, spent>>

AtRule(p) == pass[p].pc = "rule" /\ pass[p].todo # <<>>
Known(p) == {v \in pass[p].seen : v.name = Name(Rule(p))}
SeenId(p) == (CHOOSE v \in Known(p) : TRUE).id
IsKnown(p) == AtRule(p) /\ Known(p) # {}
IsNew(p) == AtRule(p) /\ Known(p) = {}

\* The name is there but there is no id to configure by.
ReportUnreachable(p) ==
  /\ IsKnown(p) /\ SeenId(p) = NoId
  /\ Becomes(p, Reported(p, "existing", NoId, Name(Rule(p)), FALSE), FALSE)
  /\ UNCHANGED <<addin, schedules, lock, manifest, spent>>

\* (broken: an existing schedule is left as it is, as before v1.7-R22)
ReconfigureSkipped(p) ==
  /\ IsKnown(p) /\ SeenId(p) # NoId /\ SeenId(p) \in Live
  /\ Becomes(p, Reported(p, "existing", SeenId(p), Name(Rule(p)), FALSE), FALSE)
  /\ UNCHANGED <<addin, schedules, lock, manifest, spent>>

\* (broken: the addin adds to what is there)
ReconfigureAppending(p) ==
  LET id == SeenId(p)
  IN  /\ IsKnown(p) /\ id # NoId
      /\ addin.configures /\ id \in Live
      /\ schedules' = Reconfigured(id, Rule(p), FALSE, pass[p].dry)
      /\ Becomes(p, Reported(p, "existing_reconfigured", id, Name(Rule(p)),
                             Warns(id, Rule(p))), ~pass[p].dry)
      /\ UNCHANGED <<addin, lock, manifest, spent>>

\* An existing schedule: configured again, replacing what it has.
Reconfigure(p) ==
  LET id == SeenId(p)
  IN  /\ IsKnown(p) /\ id # NoId
      /\ addin.configures /\ id \in Live
      /\ schedules' = Reconfigured(id, Rule(p), TRUE, pass[p].dry)
      /\ Becomes(p, Reported(p, "existing_reconfigured", id, Name(Rule(p)),
                             Warns(id, Rule(p))), ~pass[p].dry)
      /\ UNCHANGED <<addin, lock, manifest, spent>>

\* Without the command the schedule is still there: "existing".  Every other
\* refusal, a schedule that is gone among them, is an error with its id.
ReconfigureUnavailable(p) ==
  /\ IsKnown(p) /\ SeenId(p) # NoId
  /\ ~addin.configures
  /\ Becomes(p, Faulty(Reported(p, "existing", SeenId(p), Name(Rule(p)),
                                FALSE)), FALSE)
  /\ UNCHANGED <<addin, schedules, lock, manifest, spent>>

ReconfigureGone(p) ==
  /\ IsKnown(p) /\ SeenId(p) # NoId
  /\ addin.configures /\ SeenId(p) \notin Live
  /\ Becomes(p, Reported(p, "error", SeenId(p), Name(Rule(p)), FALSE), FALSE)
  /\ UNCHANGED <<addin, schedules, lock, manifest, spent>>

ReconfigureFails(p) ==
  /\ IsKnown(p) /\ SeenId(p) # NoId
  /\ addin.configures
  /\ Fault
  /\ Becomes(p, Faulty(Reported(p, "error", SeenId(p), Name(Rule(p)), FALSE)),
             FALSE)
  /\ UNCHANGED <<addin, schedules, lock, manifest>>

\* create_schedule under the name, or under a default name where the addin
\* renames; _check_name_applied and _skipped_field_warnings read its answer.
\* A dry run is answered with the id of a schedule that was rolled back.
Create(p) ==
  LET rule == Rule(p)
      id == Len(schedules) + 1
      name == IF Appliable(rule) THEN Name(rule) ELSE DefaultName(id)
  IN  /\ IsNew(p)
      /\ addin.creates /\ (Appliable(rule) \/ addin.renames)
      /\ schedules' = IF pass[p].dry THEN schedules
                      ELSE Append(schedules, New(name, rule))
      /\ Becomes(p, [pass[p] EXCEPT
                       !.pc = "configure", !.sid = id, !.name = name,
                       !.told = IF pass[p].dry THEN @ ELSE @ \cup {id},
                       !.warned = ~(Columns(rule) \subseteq
                                      Schedulable[rule.category])
                                  /\ ~addin.renames],
                 ~pass[p].dry)
      /\ UNCHANGED <<addin, lock, manifest, spent>>

\* name_collision: the probe missed it, the schedule exists all the same.
CreateCollides(p) ==
  /\ IsNew(p)
  /\ addin.creates /\ ~addin.renames
  /\ Rule(p).id \notin Forbidden /\ Name(Rule(p)) \in Names
  /\ Becomes(p, Reported(p, "existing", NoId, Name(Rule(p)), FALSE), FALSE)
  /\ UNCHANGED <<addin, schedules, lock, manifest, spent>>

\* invalid_chars
CreateInvalid(p) ==
  /\ IsNew(p)
  /\ addin.creates /\ ~addin.renames /\ Rule(p).id \in Forbidden
  /\ Becomes(p, Reported(p, "error", NoId, Name(Rule(p)), FALSE), FALSE)
  /\ UNCHANGED <<addin, schedules, lock, manifest, spent>>

\* unknown_command
CreateUnavailable(p) ==
  /\ IsNew(p)
  /\ ~addin.creates
  /\ Becomes(p, Reported(p, "degraded", NoId, Name(Rule(p)), FALSE), FALSE)
  /\ UNCHANGED <<addin, schedules, lock, manifest, spent>>

\* Any other refusal, or an answer without a scheduleId.
CreateFails(p) ==
  /\ IsNew(p)
  /\ addin.creates
  /\ Fault
  /\ Becomes(p, Faulty(Reported(p, "error", NoId, Name(Rule(p)), FALSE)),
             FALSE)
  /\ UNCHANGED <<addin, schedules, lock, manifest>>

\* The new schedule is configured, without clearing it first.
AtConfigure(p) == pass[p].pc = "configure"
CreatedAs(p) ==
  IF pass[p].name = Name(Rule(p)) THEN "created" ELSE "created_renamed"
Configure(p) ==
  LET id == pass[p].sid
      skipped == pass[p].warned
  IN  /\ AtConfigure(p)
      /\ addin.configures /\ (pass[p].dry \/ id \in Live)
      /\ schedules' = IF pass[p].dry THEN schedules
                      ELSE Reconfigured(id, Rule(p), FALSE, FALSE)
      /\ Becomes(p, Reported(p, CreatedAs(p), id, pass[p].name,
                             skipped \/ Rule(p).param \notin
                                          Schedulable[Rule(p).category]),
                 ~pass[p].dry)
      /\ UNCHANGED <<addin, lock, manifest, spent>>

\* The command is missing, or the schedule is gone ("not_found": deleted
\* meanwhile, or rolled back by a dry run): a degraded row that names the id.
ConfigureUnavailable(p) ==
  /\ AtConfigure(p)
  /\ ~addin.configures \/ pass[p].dry \/ pass[p].sid \notin Live
  /\ Becomes(p, Faulty(Reported(p, "degraded", pass[p].sid, Name(Rule(p)),
                                FALSE)), FALSE)
  /\ UNCHANGED <<addin, schedules, lock, manifest, spent>>

\* (broken: the id of the schedule that was created is forgotten)
ConfigureFailsNameless(p) ==
  /\ AtConfigure(p)
  /\ addin.configures
  /\ Fault
  /\ Becomes(p, Faulty(Reported(p, "error", NoId, Name(Rule(p)), FALSE)), FALSE)
  /\ UNCHANGED <<addin, schedules, lock, manifest>>

ConfigureFails(p) ==
  /\ AtConfigure(p)
  /\ addin.configures
  /\ Fault
  /\ Becomes(p, Faulty(Reported(p, "error", pass[p].sid, Name(Rule(p)),
                                FALSE)), FALSE)
  /\ UNCHANGED <<addin, schedules, lock, manifest>>

\* All rules are done: the service gives its lock back (finally), then the
\* manifest is written (verification_views.json, with .md rendered from it).
Finish(p) ==
  /\ pass[p].pc = "rule" /\ pass[p].todo = <<>>
  /\ lock' = IF p = "service" THEN "free" ELSE lock
  /\ pass' = [pass EXCEPT ![p].pc = "manifest"]
  /\ UNCHANGED <<addin, schedules, manifest, spent>>

WriteManifest(p) ==
  /\ pass[p].pc = "manifest"
  /\ manifest' = [manifest EXCEPT ![pass[p].run] = pass[p].rows]
  /\ pass' = [pass EXCEPT ![p] = Idle]
  /\ UNCHANGED <<addin, schedules, lock, spent>>

\* A transport error is no RevitEnvelopeError: it ends the pass without a
\* manifest, and so does the death of the process.  The lock is given back
\* (finally; the lock of a dead process is taken over, see AuditService).
\* The call that was lost may have reached the addin all the same.
LostCreate(p) ==
  /\ IsNew(p) /\ ~pass[p].dry
  /\ addin.creates /\ Appliable(Rule(p))
  /\ schedules' = Append(schedules, New(Name(Rule(p)), Rule(p)))
LostConfigure(p) ==
  /\ AtConfigure(p) /\ ~pass[p].dry
  /\ addin.configures /\ pass[p].sid \in Live
  /\ schedules' = Reconfigured(pass[p].sid, Rule(p), FALSE, FALSE)
LostReconfigure(p) ==
  /\ IsKnown(p) /\ ~pass[p].dry
  /\ addin.configures /\ SeenId(p) \in Live
  /\ schedules' = Reconfigured(SeenId(p), Rule(p), TRUE, FALSE)
\* (broken: no finally)
AbortHolding(p) ==
  /\ pass[p].pc \in {"probe", "rule", "configure"}
  /\ Fault
  /\ Becomes(p, Idle, FALSE)
  /\ UNCHANGED <<addin, schedules, lock, manifest>>

Abort(p) ==
  /\ pass[p].pc \in {"probe", "rule", "configure"}
  /\ Fault
  /\ \/ UNCHANGED schedules
     \/ LostCreate(p) \/ LostConfigure(p) \/ LostReconfigure(p)
  /\ lock' = IF p = "service" THEN "free" ELSE lock
  /\ Becomes(p, Idle, schedules' # schedules)
  /\ UNCHANGED <<addin, manifest>>

-----------------------------------------------------------------------------
\* People, who own their model.

Edit(id, s) ==
  /\ spent.edits < MaxEdits
  /\ schedules' = [schedules EXCEPT ![id] = s]
  /\ pass' = [q \in Procs |-> [pass[q] EXCEPT !.quiet = ~Busy(q)]]
  /\ spent' = [spent EXCEPT !.edits = @ + 1]
  /\ UNCHANGED <<addin, lock, manifest>>

HandSort == <<[field |-> "by hand", group |-> FALSE]>>
Delete(id) == Edit(id, [schedules[id] EXCEPT !.deleted = TRUE])
SortByHand(id) == Edit(id, [schedules[id] EXCEPT !.sort = HandSort,
                                                 !.filters = {}])
\* "Rename a schedule to keep manual changes."
RenameToKeep(id) == Edit(id, [schedules[id] EXCEPT !.name = KeptName(id),
                                                   !.sort = HandSort])

-----------------------------------------------------------------------------
Step(p) ==
  \/ Probe(p) \/ ReportUnreachable(p) \/ Reconfigure(p)
  \/ ReconfigureUnavailable(p) \/ ReconfigureGone(p) \/ ReconfigureFails(p)
  \/ Create(p) \/ CreateCollides(p) \/ CreateInvalid(p)
  \/ CreateUnavailable(p) \/ CreateFails(p)
  \/ Configure(p) \/ ConfigureUnavailable(p) \/ ConfigureFails(p)
  \/ Finish(p) \/ WriteManifest(p)

Next ==
  \/ \E p \in Procs :
       \/ \E r \in Runs, dry \in BOOLEAN : Begin(p, r, dry)
       \/ Step(p)
       \/ Abort(p)
  \/ \E id \in Live : Delete(id) \/ SortByHand(id) \/ RenameToKeep(id)

Spec == Init /\ [][Next]_vars

-----------------------------------------------------------------------------
\* Properties.

Ids == {v.id : v \in RuleViews}
Titles == ({"AutoAudit"} \X Ids) \cup ({"default", "kept"} \X Nat)
Sorts == {SortOf(v) : v \in RuleViews} \cup {HandSort[1]}
Schedules ==
  [name : Titles, category : {v.category : v \in RuleViews},
   cols : SUBSET UNION {Columns(v) : v \in RuleViews}, sort : Seq(Sorts),
   filters : SUBSET UNION {FiltersOf(v) : v \in RuleViews},
   madeFor : Ids, deleted : BOOLEAN]
Rows == [rule : Ids, status : Statuses, id : Nat, name : Titles,
         warned : BOOLEAN]
Passings ==
  [pc : {"idle", "probe", "rule", "configure", "manifest"},
   run : Runs \cup {0}, dry : BOOLEAN, seen : SUBSET [name : Titles, id : Nat],
   todo : Seq(RuleViews), sid : Nat, name : Titles \cup {<<>>},
   warned : BOOLEAN, rows : Seq(Rows), told : SUBSET Nat, quiet : BOOLEAN]

\* Schedules, passes and manifests keep their shape; a pass that works is of
\* a run and has a rule when it configures.
TypeOK ==
  /\ addin \in Addins
  /\ schedules \in Seq(Schedules)
  /\ lock \in {"free", "held"}
  /\ pass \in [Procs -> Passings]
  /\ \A p \in Procs : /\ Busy(p) => pass[p].run \in Runs
                      /\ pass[p].pc = "configure" =>
                           pass[p].todo # <<>> /\ pass[p].name # <<>>
  /\ manifest \in [Runs -> Seq(Rows)]
  /\ spent \in [passes : 0 .. MaxPasses, faults : 0 .. MaxFaults,
               edits : 0 .. MaxEdits, overlap : BOOLEAN]

\* The single-run lock is held exactly while a pass of the service works: one
\* that is refused, raises or ends half-way gives it back.
LockIsOfAPass ==
  "service" \in Procs =>
    (lock = "held" <=> pass["service"].pc \in {"probe", "rule", "configure"})

\* What a schedule shows of the model, and what the check of a rule rejects
\* there.
ShownBy(s) ==
  {e \in Elements : CategoryOf[e] = s.category /\ Shows(s.filters, ValueOf[e])}
Rejected(rule) ==
  {e \in rule.scope : /\ CategoryOf[e] = rule.category
                      /\ ~Passes(rule, ValueOf[e][rule.param], e \in Met)}

\* The elements of which a schedule can tell whether they are rejected: its
\* filters know neither scope nor condition, and none but has_no_value lets an
\* element without a value through.
Conditional(rule) == rule.requirement = "numeric_min_conditional"
Tellable(rule) ==
  {e \in rule.scope : /\ CategoryOf[e] = rule.category
                      /\ Conditional(rule) => e \in Met
                      /\ \/ rule.requirement = "present_and_nonempty"
                         \/ ValueOf[e][rule.param] # Blank}

\* A schedule is sorted by the rule's parameter first.  Of the elements that
\* it can tell it shows those that the rule rejects, and no others, when it is
\* of the rule's category and the recipe negates the comparison that the
\* evaluator makes; without filters it shows them all.
Sorted(s, rule) == s.sort # <<>> /\ Head(s.sort) = SortOf(rule)
Filtered(s, rule) ==
  /\ FiltersOf(rule) = {} => s.filters = {}
  /\ FiltersOf(rule) # {} /\ s.category = rule.category
       /\ EvaluatedOp(rule) = OpOf(rule) =>
       \A e \in Tellable(rule) : e \in ShownBy(s) <=> e \in Rejected(rule)
Reproduces(s, rule) == Sorted(s, rule) /\ Filtered(s, rule)

NewRow(p) == Len(pass'[p].rows) > Len(pass[p].rows)

\* A row that claims a configured schedule without a warning is true when it
\* is written: the schedule is in the model, sorted by the rule and filtered
\* to its findings, whatever an earlier pass, an edited rule of the same id
\* or a person left in it.  A "created" row also claims every column; it is
\* not cleared first, so nobody may have come in between.
CleanRowsAreTrue ==
  [][\A p \in Procs :
       NewRow(p) /\ ~pass[p].dry =>
         LET row == Last(pass'[p].rows)
             s == schedules'[row.id]
         IN  ~row.warned =>
               /\ row.status = "existing_reconfigured" =>
                    ~s.deleted /\ Reproduces(s, Rule(p))
               /\ row.status = "created" /\ pass[p].quiet =>
                    /\ ~s.deleted /\ Reproduces(s, Rule(p))
                    /\ s.name = Name(Rule(p))
                    /\ addin.renames \/ Columns(Rule(p)) \subseteq s.cols]_vars

\* Whatever crashes, refusals and edits came before: a pass that met no
\* refusal and was alone with the model leaves for every rule a schedule
\* under its name that is configured (no schedule stays half-built), or a row
\* that warns: the old schedule of a rule that was moved to a category with
\* other fields.
QuietPassRepairs ==
  [][\A p \in Procs :
       pass[p].pc = "rule" /\ pass'[p].pc = "manifest"
         /\ pass[p].quiet /\ ~pass[p].dry
         /\ addin.creates /\ addin.configures /\ addin.lists = "ids" =>
       \A i \in DOMAIN Trace[pass[p].run] :
         LET rule == Trace[pass[p].run][i]
         IN  rule.id \notin Forbidden
               /\ rule.param \in Schedulable[rule.category] =>
             \/ \E id \in Live : /\ schedules[id].name = Name(rule)
                                 /\ Reproduces(schedules[id], rule)
             \/ \E k \in DOMAIN pass[p].rows :
                  pass[p].rows[k].rule = rule.id /\ pass[p].rows[k].warned]_vars

\* Not so in the code, verify_recipes.py:65: "A Revit schedule that reproduces
\* the finding set natively", and 303-304 of its filter: "highlights exactly
\* the FAIL set".  A clean row's schedule, with filters, shows what the rule
\* rejects.
ShowsExactlyTheFailSet ==
  [][\A p \in Procs :
       NewRow(p) /\ ~pass[p].dry /\ pass[p].quiet =>
         LET row == Last(pass'[p].rows)
         IN  /\ row.status \in {"created", "existing_reconfigured"}
             /\ ~row.warned /\ FiltersOf(Rule(p)) # {} =>
               ShownBy(schedules'[row.id]) = Rejected(Rule(p))]_vars

\* Not so in the code, verification_views.py:209-211: configured "so flagged
\* rows cluster while the PASS set stays visible".  What passes the rule is on
\* its schedule too.
PassSetStaysVisible ==
  [][\A p \in Procs :
       NewRow(p) /\ ~pass[p].dry /\ pass[p].quiet =>
         LET row == Last(pass'[p].rows)
         IN  row.status \in {"created", "existing_reconfigured"}
               /\ ~row.warned =>
             \A e \in Rule(p).scope \ Rejected(Rule(p)) :
               CategoryOf[e] = Rule(p).category =>
                 e \in ShownBy(schedules'[row.id])]_vars

\* Not so in the code, verification_views.py:233: "Rename a schedule to keep
\* manual changes."  No pass changes a schedule that a person has renamed.
KeptStaysKept ==
  [][\A p \in Procs : Step(p) \/ Abort(p) =>
       \A id \in Live : schedules[id].name = KeptName(id) =>
         schedules'[id] = schedules[id]]_vars

\* A dry run leaves the model as it is.
DryRunWritesNothing ==
  [][\A p \in Procs : pass[p].dry /\ pass'[p] # pass[p] /\ Step(p) =>
       UNCHANGED schedules]_vars

\* Every schedule that the addin told a pass it had created is named, by its
\* id, in the manifest of that pass, the half-built ones among them.
ManifestNamesWhatItMade ==
  [][\A p \in Procs :
       pass[p].pc = "manifest" /\ pass'[p].pc = "idle" =>
         \A id \in pass[p].told :
           \E i \in DOMAIN pass[p].rows : pass[p].rows[i].id = id]_vars

\* Passes that do not overlap make one schedule per rule, also with an addin
\* that would rename a second one and after crashes in the middle, as long as
\* nobody renamed or deleted it.
OneSchedulePerRule ==
  addin.lists # "no" /\ spent.edits = 0 /\ ~spent.overlap =>
    \A i, j \in Live :
      schedules[i].madeFor = schedules[j].madeFor
        /\ schedules[i].madeFor \notin Forbidden => i = j
=============================================================================
