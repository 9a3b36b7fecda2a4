------------------------------ MODULE AuditLoop ------------------------------
(***************************************************************************)
(* Audits, one after another (the service's run lock sees to that): the    *)
(* unattended session around a run, the graph query -> qc -> supervisor -> *)
(* route -> design -> bump, what the design agent does with each finding   *)
(* (live write, proposal, issue), the issue registry that spans the runs,  *)
(* the run record and the delta report against an earlier run.             *)
(*                                                                         *)
(* A problem is one rule violated at one element. Queries see the problems *)
(* of the rules whose categories resolved; writes remove problems and may  *)
(* reveal others; people edit the model and close issues, and the approval *)
(* watcher applies proposals, at any time.                                 *)
(***************************************************************************)
EXTENDS Naturals, Sequences, FiniteSets

CONSTANTS
  Problems,       \* what may be found
  Rules, RuleOf,  \* the rules, and the one that finds a problem
  Geometry,       \* the geometry rules among them
  Target,         \* what a fix of it writes (_resolve_write_eid)
  Strategy,       \* where the value of a rule's fix comes from
  Policy,         \* what autonomy.yaml says of it
  IssuePolicy,    \* and of issues about it
  Reveals,        \* the problems a live write brings about
  Models,         \* what the model may be like at first
  Profiles,       \* audit profiles (see Profile)
  MaxIterations,  \* max_iterations
  MaxRuns,        \* bound: audits in all
  MaxEvents       \* bound: edits, closings, failures and cancellations

Strategies ==
  {"manual", "novalue", "template", "policy", "renumber", "llm", "llmsafety"}
Decisions == {"auto", "approve", "human-only"}
Profile == [name : {"nightly", "weekly"}, propose_only : BOOLEAN,
            dry_run : BOOLEAN, max_issues : Nat, dropped : SUBSET Rules,
            unattended : BOOLEAN, strict : BOOLEAN]

ASSUME ConstantsAssumption ==
  /\ IsFiniteSet(Problems)
  /\ RuleOf \in [Problems -> Rules] /\ Geometry \subseteq Rules
  /\ Strategy \in [Rules -> Strategies] /\ Policy \in [Rules -> Decisions]
  /\ IssuePolicy \in [Rules -> Decisions]
  /\ Reveals \in [Problems -> SUBSET Problems]
  /\ Models \subseteq SUBSET Problems
  /\ Profiles \subseteq Profile /\ Profiles # {}
  /\ MaxIterations \in Nat \ {0} /\ MaxRuns \in Nat /\ MaxEvents \in Nat

\* One issue lists the elements of one rule that share a bucket; its key is
\* project, rule, bucket and the set of elements. A proposal is the write-set
\* of one rule.
Buckets == {"non_compliant", "human_only"}
Groups == [rule : Rules, bucket : Buckets, elements : SUBSET Problems]
\* A fingerprint is kept as the set of it, empty before there is one.
NoPrint == {}

VARIABLES
  model,      \* the problems the Revit model has
  pc,         \* the step the audit is at
  run,        \* how many audits were started
  profile,    \* AuditProfile.run of this one
  iteration, findings, status,  \* OrchestratorState
  prev,       \* prev_findings_fingerprint
  stop,       \* stop_reason
  directive,  \* supervisor_directive
  geo, ran,   \* geometry findings, and the geometry rules that were run
  seen,       \* what the model had when it was last looked at
  writelog,   \* fix_write_log
  written,    \* the confirmed live writes of this run
  failed,     \* the writes of the last pass that were not confirmed
  toPropose, toRaise,   \* what the pass has still to put on ACC
  proposed,   \* _proposed_fingerprints
  raised,     \* _proposed_group_keys
  withheld,   \* groups of the ProposedFix that were not executed
  parked,     \* waiting proposals (approvals/*.json)
  issues,     \* ACC issues, in the order of their creation
  registry,   \* issue_registry.json: group -> issue, 0 if it has no id
  blind,      \* groups whose issue was not looked up, or got lost
  history,    \* the run folders that have metadata.json
  rc,         \* how the audit() call ended
  watchdog,   \* whose watchdog supervises Revit
  paused,     \* the watchdog has written PAUSED to the staging folder
  told,       \* and that was copied to the run folder, or logged
  events

worldVars == <<model, parked, issues>>
runVars == <<run, profile, geo, ran>>
stateVars == <<iteration, findings, status, prev, stop, directive, seen>>
writeVars == <<writelog, written, failed>>
designVars == <<toPropose, toRaise, proposed, raised, withheld>>
storeVars == <<registry, blind, history>>
sessionVars == <<watchdog, paused, told>>
vars == <<worldVars, pc, runVars, stateVars, writeVars, designVars,
          storeVars, sessionVars, rc, events>>

Phases == {"idle", "launch", "wait", "folder", "geometry", "query",
           "supervise", "route", "design", "publish", "diagnose", "finish",
           "leave"}
Outcomes == {"none", "ok", "error", "raised", "cancelled"}
Successful == {"converged"}
Stops == {"none", "zero_findings", "fingerprint_stable", "iteration_cap",
          "supervisor"}
Verdicts == {"none", "no_audit", "partial", "ok"}

\* What a run folder tells of a run: metadata.json, outcomes.json and, for a
\* successful run, delta.json.
Entries == [run : Nat, name : {"nightly", "weekly"},
            status : {"converged", "failed", "no_audit"},
            findings : SUBSET Problems, stop : Stops,
            writes : SUBSET (Problems \X Nat), truth : SUBSET Problems,
            scope : [query : Verdicts, geometry : Verdicts],
            delta : [base : Nat, resolved : SUBSET Problems,
                     fresh : SUBSET Problems, persistent : SUBSET Problems]]

TypeOK ==
  /\ model \subseteq Problems /\ findings \subseteq Problems
  /\ geo \subseteq Problems /\ ran \subseteq Geometry
  /\ seen \subseteq Problems
  /\ pc \in Phases /\ run \in 0 .. MaxRuns /\ profile \in Profiles
  /\ iteration \in 0 .. MaxIterations
  /\ status \in {"init", "querying", "designing", "converged", "failed"}
  /\ prev \in SUBSET SUBSET Problems
  /\ stop \in Stops
  /\ directive \in {"none", "continue", "stop_early"}
  /\ writelog \subseteq Problems \X (0 .. MaxIterations)
  /\ written \subseteq Problems \X (0 .. MaxIterations)
  /\ failed \subseteq Problems
  /\ toPropose \subseteq Groups /\ toRaise \subseteq Groups
  /\ proposed \subseteq Groups /\ raised \subseteq Groups
  /\ withheld \subseteq Groups
  /\ parked \subseteq Groups /\ blind \subseteq Groups
  /\ issues \in Seq([group : Groups, closed : 0 .. MaxRuns])
  /\ DOMAIN registry \subseteq Groups
  /\ \A g \in DOMAIN registry : registry[g] \in {0} \cup DOMAIN issues
  /\ history \in Seq(Entries) /\ Len(history) <= run
  /\ rc \in Outcomes /\ watchdog \in {"none", "ours", "other"}
  /\ paused \in BOOLEAN /\ told \in BOOLEAN
  /\ events \in 0 .. MaxEvents

SomeProfile == CHOOSE p \in Profiles : TRUE

Init ==
  /\ model \in Models
  /\ pc = "idle" /\ run = 0 /\ profile = SomeProfile
  /\ iteration = 0 /\ findings = {} /\ status = "init" /\ prev = NoPrint
  /\ stop = "none" /\ directive = "none"
  /\ geo = {} /\ ran = {} /\ seen = {}
  /\ writelog = {} /\ written = {} /\ failed = {}
  /\ toPropose = {} /\ toRaise = {} /\ proposed = {} /\ raised = {}
  /\ withheld = {}
  /\ parked = {} /\ issues = <<>> /\ registry = <<>> /\ blind = {}
  /\ history = <<>> /\ rc = "none"
  /\ watchdog = "none" /\ paused = FALSE /\ told = FALSE
  /\ events = 0

\* audit() is left: the next call has a graph state and a design agent of
\* its own.
Return ==
  /\ pc' = "idle" /\ profile' = SomeProfile
  /\ iteration' = 0 /\ findings' = {} /\ status' = "init" /\ prev' = NoPrint
  /\ stop' = "none" /\ directive' = "none"
  /\ geo' = {} /\ ran' = {} /\ seen' = {}
  /\ writelog' = {} /\ written' = {} /\ failed' = {}
  /\ toPropose' = {} /\ toRaise' = {} /\ proposed' = {} /\ raised' = {}
  /\ withheld' = {}

Event == events < MaxEvents /\ events' = events + 1

-----------------------------------------------------------------------------
(* The session around a run: orchestrator.audit, UnattendedSession.        *)

\* audit(), with the profile of the call.
Start(p) ==
  /\ pc = "idle" /\ run < MaxRuns
  /\ run' = run + 1 /\ profile' = p /\ rc' = "none"
  /\ pc' = IF p.unattended THEN "launch" ELSE "folder"
  /\ paused' = FALSE /\ told' = FALSE
  /\ UNCHANGED <<worldVars, geo, ran, stateVars, writeVars, designVars,
                 storeVars, watchdog, events>>

\* __aenter__: the launch phase is over; spawn the watchdog, which leaves at
\* once where another one supervises the machine already.
Spawn ==
  /\ pc = "launch"
  /\ watchdog' \in {"ours", "other"}
  /\ pc' = "wait"
  /\ UNCHANGED <<worldVars, runVars, stateVars, writeVars, designVars,
                 storeVars, paused, told, rc, events>>

WaitReady ==
  /\ pc = "wait"
  /\ pc' = "folder"
  /\ UNCHANGED <<worldVars, runVars, stateVars, writeVars, designVars,
                 storeVars, sessionVars, rc, events>>

\* Wrong: only an Exception stops the watchdog.
WaitFailsLeavingIt ==
  /\ pc = "wait" /\ Event
  /\ \E how \in {"raised", "cancelled"} :
       /\ rc' = how
       /\ watchdog' = IF how = "raised" THEN "none" ELSE watchdog
  /\ Return
  /\ UNCHANGED <<worldVars, run, storeVars, paused, told>>

\* The launch, the spawning or the wait raises or is cancelled, the addin does
\* not come up: __aenter__ stops what it started, because no __aexit__ will.
WaitFails ==
  /\ pc \in {"launch", "wait"} /\ Event
  /\ rc' \in {"raised", "cancelled"}
  /\ watchdog' = "none"
  /\ Return
  /\ UNCHANGED <<worldVars, run, storeVars, paused, told>>

\* _start_run_recording and the on_folder hook, which copies what the
\* watchdog wrote so far; a copy that fails is swallowed.
OpenFolder ==
  /\ pc = "folder"
  /\ \/ told' = paused /\ UNCHANGED events
     \/ UNCHANGED told /\ Event
  /\ pc' = "geometry"
  /\ UNCHANGED <<worldVars, runVars, stateVars, writeVars, designVars,
                 storeVars, watchdog, paused, rc>>

\* The folder cannot be made, or the hook raises before or after its copy:
\* nothing is recorded.
OpenFolderFails ==
  /\ pc = "folder" /\ Event
  /\ told' \in {told, paused}
  /\ rc' = "raised" /\ pc' = "leave"
  /\ UNCHANGED <<worldVars, runVars, stateVars, writeVars, designVars,
                 storeVars, watchdog, paused>>

\* The watchdog meets a dialog it does not know: it writes PAUSED.
Halt ==
  /\ watchdog = "ours" /\ ~paused /\ Event
  /\ paused' = TRUE
  /\ UNCHANGED <<worldVars, pc, runVars, stateVars, writeVars,
                 designVars, storeVars, watchdog, told, rc>>

\* __aexit__: stop the watchdog, log its halt, copy its final state.
Leave ==
  /\ pc = "leave"
  /\ watchdog' = "none"
  /\ told' = (told \/ paused)
  /\ Return
  /\ UNCHANGED <<worldVars, run, storeVars, paused, rc, events>>

\* A cancellation while __aexit__ awaits the end of the watchdog, which was
\* told to terminate: nothing after the await happens.
LeaveCancelled ==
  /\ pc = "leave" /\ watchdog = "ours" /\ Event
  /\ watchdog' = "none" /\ rc' = "cancelled"
  /\ Return
  /\ UNCHANGED <<worldVars, run, storeVars, paused, told>>

-----------------------------------------------------------------------------
(* The graph.                                                              *)

IsGeometry(p) == RuleOf[p] \in Geometry
Found == {p \in model : RuleOf[p] \notin Geometry \cup profile.dropped}
\* coverage_verdict: which of the rules' categories were resolved.
Coverage(pr) == IF pr.dropped = {} THEN "ok"
                ELSE IF Rules \ Geometry \subseteq pr.dropped THEN "no_audit"
                ELSE "partial"
\* geometry_verdict, of the geometry rules that were executed.
GeometryVerdict(done) == IF done = Geometry THEN "ok"
                         ELSE IF done = {} THEN "no_audit" ELSE "partial"

\* GeometricQueryAgent, once, before the graph; any of its rules may fail.
CheckGeometry ==
  /\ pc = "geometry"
  /\ \E done \in SUBSET Geometry :
       /\ IF done = Geometry THEN UNCHANGED events ELSE Event
       /\ ran' = done
       /\ geo' = {p \in model : RuleOf[p] \in done}
  /\ seen' = {p \in model : IsGeometry(p)}
  /\ pc' = "query"
  /\ UNCHANGED <<worldVars, run, profile, iteration, findings, status, prev,
                 stop, directive, writeVars, designVars, storeVars,
                 sessionVars, rc>>

\* query_node and qc_node: the findings are what the model violates now.
Query ==
  /\ pc = "query"
  /\ findings' = Found
  /\ seen' = {p \in seen : IsGeometry(p)}
              \cup {p \in model : ~IsGeometry(p)}
  /\ pc' = "supervise"
  /\ UNCHANGED <<worldVars, runVars, iteration, status, prev, stop,
                 directive, writeVars, designVars, storeVars,
                 sessionVars, rc, events>>

\* after_query: a model that could not be read (which is only tried when some
\* category resolved) ends the graph as failed.
QueryFails ==
  /\ pc = "query" /\ Coverage(profile) # "no_audit" /\ Event
  /\ status' = "failed" /\ pc' = "finish"
  /\ UNCHANGED <<worldVars, runVars, iteration, findings, prev, stop,
                 directive, seen, writeVars, designVars, storeVars,
                 sessionVars, rc>>

\* supervisor_node: nothing but the directive of a plugin gets through, and
\* nothing at all when it raises, says nothing, or is not wired.
Supervise ==
  /\ pc = "supervise"
  /\ \/ UNCHANGED directive
     \/ directive' \in {"continue", "stop_early"}
  /\ pc' = "route"
  /\ UNCHANGED <<worldVars, runVars, iteration, findings, status, prev,
                 stop, seen, writeVars, designVars, storeVars, sessionVars,
                 rc, events>>

RouteTo(verdict, reason) ==
  /\ status' = verdict /\ stop' = reason
  /\ pc' = IF verdict = "designing" THEN "design" ELSE "diagnose"

\* route_node: the hard stops come before the supervisor's advice.
RouteBy(same, limit) ==
  IF iteration = 0 THEN <<"designing", "none">>
  ELSE IF findings = {} THEN <<"converged", "zero_findings">>
  ELSE IF same THEN <<"converged", "fingerprint_stable">>
  ELSE IF iteration >= limit THEN <<"failed", "iteration_cap">>
  ELSE IF directive = "stop_early" THEN <<"converged", "supervisor">>
  ELSE <<"designing", "none">>

\* Wrong: one pass more than the limit.
VerdictOneMore == RouteBy(prev = {findings}, MaxIterations + 1)

\* Wrong: no progress is judged by the number of findings.
VerdictByCount ==
  RouteBy(prev # NoPrint /\ Cardinality(findings) >= Cardinality(UNION prev),
          MaxIterations)

\* No progress: the same set of findings as before the last pass.
Verdict == RouteBy(prev = {findings}, MaxIterations)

Route ==
  /\ pc = "route"
  /\ RouteTo(Verdict[1], Verdict[2])
  /\ UNCHANGED <<worldVars, runVars, iteration, findings, prev,
                 directive, seen, writeVars, designVars, storeVars,
                 sessionVars, rc, events>>

\* Wrong: the pass is not counted.
BumpUncounted ==
  /\ pc = "publish" /\ toPropose = {} /\ toRaise = {}
  /\ prev' = {findings} /\ status' = "querying" /\ pc' = "query"
  /\ UNCHANGED <<worldVars, runVars, iteration, findings, stop,
                 directive, seen, writeVars, designVars, storeVars,
                 sessionVars, rc, events>>

\* bump_node: the fingerprint is of the findings the pass worked on.
Bump ==
  /\ pc = "publish" /\ toPropose = {} /\ toRaise = {}
  /\ iteration' = iteration + 1 /\ prev' = {findings}
  /\ status' = "querying" /\ pc' = "query"
  /\ UNCHANGED <<worldVars, runVars, findings, stop, directive,
                 seen, writeVars, designVars, storeVars, sessionVars, rc,
                 events>>

\* diagnostic_node: whatever the plugin does, the state stays as it is.
Diagnose ==
  /\ pc = "diagnose"
  /\ pc' = "finish"
  /\ UNCHANGED <<worldVars, runVars, stateVars, writeVars, designVars,
                 storeVars, sessionVars, rc, events>>

-----------------------------------------------------------------------------
(* DesignAgent.run.                                                        *)

\* Where a value comes from decides first, autonomy.yaml (policy) last.
Gated(r, policy) == CASE Strategy[r] = "llm" -> "approve"
                      [] Strategy[r] = "llmsafety" -> "human-only"
                      [] Strategy[r] = "template" -> "auto"
                      [] OTHER -> policy
Demoted(d, demote) == IF d = "auto" /\ demote THEN "approve" ELSE d

\* Wrong: propose_only is looked at before the deterministic fill.
DecisionEarlyDemotion(r) ==
  Demoted(Gated(r, Demoted(Policy[r], profile.propose_only)),
          Strategy[r] = "renumber")

\* The autonomy gate of _prepare_revit_fix. Only an automatic decision is
\* ever demoted; a renumbering or a propose_only run never writes.
Decision(r) == Demoted(Gated(r, Policy[r]),
                       Strategy[r] = "renumber" \/ profile.propose_only)

\* _partition: a rule of fixability auto goes to Path B.
Fixable(p) == Strategy[RuleOf[p]] # "manual"
PathB == {p \in findings : Fixable(p)}

\* _dedup_by_write_target: of the findings of one rule that one write would
\* mend, one stands for all (FixPlan has which).
SameWrite(p, q) == RuleOf[p] = RuleOf[q] /\ Target[p] = Target[q]
StandsFor(q, p) == p = q \/ (Fixable(p) /\ SameWrite(p, q))
Representatives ==
  {reps \in SUBSET PathB :
     /\ \A p \in PathB : \E q \in reps : SameWrite(p, q)
     /\ \A p, q \in reps : SameWrite(p, q) => p = q}

\* What of Path B has a value and a dry run that went well.
Prepared(reps, bad) ==
  {p \in reps \ bad : Strategy[RuleOf[p]] # "novalue"}
Decided(reps, bad, d) ==
  {p \in Prepared(reps, bad) : Decision(RuleOf[p]) = d}
Group(r, bucket, ps) ==
  [rule |-> r, bucket |-> bucket, elements |-> {p \in ps : RuleOf[p] = r}]
GroupsOf(bucket, ps) == {Group(r, bucket, ps) : r \in {RuleOf[p] : p \in ps}}
Unfixed(reps, bad) ==
  (findings \ PathB) \cup (reps \ Prepared(reps, bad))
    \cup IF iteration = 0 THEN geo ELSE {}

\* Wrong: a fix no machine may write, nor offer, is left where it is.
PathAForgetsHumanOnly(reps, bad) ==
  GroupsOf("non_compliant", Unfixed(reps, bad))

\* Path A: one issue per rule and bucket, for what is manual, has no value
\* or could not be previewed, for the geometry findings in the first pass, and
\* for what only a human may write.  Of a collapsed group the representative
\* is handed over, and no other.
PathA(reps, bad) ==
  GroupsOf("non_compliant", Unfixed(reps, bad))
    \cup GroupsOf("human_only", Decided(reps, bad, "human-only"))

\* The issue budget: proposals first, groups with what is left; 0 is no
\* limit. Which ones come first is the order of the findings.
Within(n, all) == IF profile.max_issues = 0 THEN {all}
                  ELSE {kept \in SUBSET all :
                          Cardinality(kept) =
                            IF Cardinality(all) < n THEN Cardinality(all)
                            ELSE n}
Left(kept) == IF Cardinality(kept) >= profile.max_issues THEN 0
              ELSE profile.max_issues - Cardinality(kept)

\* A write mends what has its target, and may reveal something else.
AfterWrites(ps) == {p \in model : \A q \in ps : ~SameWrite(p, q)}
                     \cup UNION {Reveals[p] : p \in ps}

\* Wrong: a pass forgets what earlier passes wrote.
LoggedAnew(confirmed) == confirmed \X {iteration}

\* fix_write_log accumulates over the passes.
Logged(confirmed) == writelog \cup (confirmed \X {iteration})

\* Collapse and prepare the fixes, commit the automatic ones in one batch, and
\* see what goes to ACC. A dry run may fail for some fixes; of the batch any
\* part may land, and any part of that be confirmed.
Design ==
  /\ pc = "design"
  /\ \E reps \in Representatives : \E bad \in SUBSET reps :
     LET specs == IF profile.dry_run THEN {} ELSE Decided(reps, bad, "auto")
     IN  \E landed \in SUBSET specs : \E confirmed \in SUBSET landed :
           /\ IF bad = {} /\ confirmed = specs THEN UNCHANGED events ELSE Event
           /\ model' = AfterWrites(landed)
           /\ writelog' = Logged(confirmed)
           /\ written' = written \cup (confirmed \X {iteration})
           /\ failed' = specs \ confirmed
           /\ \E kept \in Within(profile.max_issues,
                 GroupsOf("non_compliant", Decided(reps, bad, "approve"))) :
                /\ toPropose' = kept
                /\ toRaise' \in Within(Left(kept), PathA(reps, bad))
  /\ status' = "converged" /\ pc' = "publish"
  /\ UNCHANGED <<runVars, iteration, findings, prev, stop, directive, seen,
                 proposed, raised, withheld, parked, issues, storeVars,
                 sessionVars, rc>>

\* _create_proposal_issue, for the write-set of one rule (ProposalPublish
\* has it step by step): memo, waiting record, or a new proposal.
Propose(g) ==
  /\ pc = "publish" /\ g \in toPropose
  /\ toPropose' = toPropose \ {g}
  /\ IF profile.dry_run THEN UNCHANGED <<parked, proposed>>
     ELSE parked' = parked \cup {g} /\ proposed' = proposed \cup {g}
  /\ UNCHANGED <<model, issues, pc, runVars, stateVars, writeVars,
                 toRaise, raised, withheld, storeVars, sessionVars, rc,
                 events>>

IsOpen(i) == issues[i].closed = 0
\* lookup: an entry without an id is none.
Registered(g) == g \in DOMAIN registry /\ registry[g] # 0
Recorded(g, i) == [h \in DOMAIN registry \cup {g} |->
                     IF h = g THEN i ELSE registry[h]]

Taken(g) ==
  /\ pc = "publish" /\ g \in toRaise
  /\ toRaise' = toRaise \ {g}
  /\ UNCHANGED <<model, parked, pc, runVars, stateVars, writeVars,
                 toPropose, proposed, history, sessionVars, rc>>
Skip(g) == raised' = raised \cup {g}
             /\ UNCHANGED <<issues, registry, withheld, blind, events>>

MayRaise(g) == ~profile.dry_run /\ IssuePolicy[g.rule] = "auto"
Withhold(g) == withheld' = withheld \cup {g}
                 /\ UNCHANGED <<issues, registry, raised, blind>>
\* The preview has no approval token, or the answer to the creation no id.
PreviewEmpty(g) == MayRaise(g) /\ Withhold(g) /\ Event
NewIssue(g) == issues' = Append(issues, [group |-> g, closed |-> 0])
Created(g, id) == /\ NewIssue(g)
                  /\ registry' = Recorded(g, id)
                  /\ raised' = raised \cup {g}
                  /\ UNCHANGED withheld
CreateNameless(g) ==
  MayRaise(g) /\ Created(g, 0) /\ blind' = blind \cup {g} /\ Event
Create(g) ==
  IF MayRaise(g) THEN Created(g, Len(issues) + 1) /\ UNCHANGED blind
  ELSE Withhold(g)
RaiseUnless(skip, g) ==
  /\ Taken(g)
  /\ IF skip THEN Skip(g)
     ELSE \/ Create(g) /\ UNCHANGED events
          \/ PreviewEmpty(g) \/ CreateNameless(g)

\* Wrong: the registry is not asked.
RaiseUnasked(g) == RaiseUnless(g \in raised, g)

\* Wrong: the issue of an earlier run counts, open or not.
RaiseUnlessKnown(g) == RaiseUnless(g \in raised \/ Registered(g), g)

\* _propose_rule_group: not again in this run, not while the issue an earlier
\* run raised is open; when ACC cannot tell, raise it.
Raise(g) ==
  \/ RaiseUnless(g \in raised \/ (Registered(g) /\ IsOpen(registry[g])), g)
  \/ /\ Registered(g) /\ g \notin raised /\ Event
     /\ Taken(g)
     /\ IF MayRaise(g)
        THEN Created(g, Len(issues) + 1) /\ blind' = blind \cup {g}
        ELSE Withhold(g)

-----------------------------------------------------------------------------
(* The end of a run: run_revit after the graph, _finish_run_recording.     *)

\* How much was checked, as the final state of the graph has it; the state a
\* run starts from says nothing of it.
Scope == [query |-> Coverage(profile), geometry |-> GeometryVerdict(ran)]
NoScope == [query |-> "none", geometry |-> "none"]
Nothing(scope) == scope.query = "no_audit" \/ scope.geometry = "no_audit"

\* Wrong: an audit that read nothing keeps the status of the graph.
RecordedRaw(st, scope) == st

\* recorded_status: the one terminal status of every artifact.
RecordedStatus(st, scope) == IF Nothing(scope) THEN "no_audit" ELSE st

\* Wrong: geometry rules that were not run are no error.
ExitCodeOfGraph(st, scope, strict) ==
  IF st = "failed" \/ scope.query = "no_audit"
       \/ (scope.query = "partial" /\ strict)
  THEN "error" ELSE "ok"

\* _exit_code_for, as audit()'s caller sees it.
ExitCode(st, scope, strict) ==
  IF st = "failed" \/ Nothing(scope) \/ (scope.query = "partial" /\ strict)
  THEN "error" ELSE "ok"

Newest(s) == IF s = {} THEN 0 ELSE CHOOSE i \in s : \A k \in s : k <= i

\* Wrong: the newest run counts, however it ended.
BaselineOfAny(pr) ==
  Newest({i \in DOMAIN history : history[i].name = pr.name})

\* find_baseline: the newest earlier successful run of the same profile.
Baseline(pr) == Newest({i \in DOMAIN history :
  history[i].name = pr.name /\ history[i].status \in Successful})

\* diff_outcomes against the baseline.
Delta(base, now) ==
  LET old == IF base = 0 THEN {} ELSE history[base].findings
  IN  [base |-> base, resolved |-> old \ now, fresh |-> now \ old,
       persistent |-> old \cap now]
NoDelta == [base |-> 0, resolved |-> {}, fresh |-> {}, persistent |-> {}]

\* What a run leaves on record (Entries). truth and scope are for the
\* properties: what the model had when it was last looked at, and how much of
\* it was.
Entry(st, now, writes, scope) ==
  LET recorded == RecordedStatus(st, scope)
  IN  [run |-> run, name |-> profile.name, status |-> recorded,
       findings |-> now, stop |-> stop, writes |-> writes,
       truth |-> seen, scope |-> scope,
       delta |-> IF recorded \in Successful
                 THEN Delta(Baseline(profile), now) ELSE NoDelta]
\* The record of the final state, and that of the state a run starts from.
FinalEntry(st) == Entry(st, findings \cup geo, writelog, Scope)
EmptyEntry == Entry("failed", {}, {}, NoScope)

Finish ==
  /\ pc = "finish"
  /\ rc' = ExitCode(status, Scope, profile.strict)
  /\ history' = Append(history, FinalEntry(status))
  /\ pc' = "leave"
  /\ UNCHANGED <<worldVars, runVars, stateVars, writeVars, designVars,
                 registry, blind, sessionVars, events>>

InGraph == {"geometry", "query", "supervise", "route", "design", "publish",
            "diagnose"}

\* A create_issue that is cut off may have made an issue nobody recorded.
LoseIssue ==
  \/ UNCHANGED <<issues, blind>>
  \/ /\ pc = "publish"
     /\ \E g \in toRaise \ raised :
          MayRaise(g) /\ NewIssue(g) /\ blind' = blind \cup {g}

\* An exception leaves the graph (ACC, Revit or an agent failed): the run is
\* recorded from the state it was started with. Once the graph is over, a
\* report that cannot be written makes it a failed run with the state it has.
Abort ==
  /\ pc \in InGraph \cup {"finish"} /\ Event
  /\ rc' = "raised"
  /\ history' = Append(history, IF pc = "finish" THEN FinalEntry("failed")
                               ELSE EmptyEntry)
  /\ LoseIssue
  /\ toPropose' = {} /\ toRaise' = {}
  /\ pc' = "leave"
  /\ UNCHANGED <<model, parked, runVars, stateVars, writeVars, proposed,
                 raised, withheld, registry, sessionVars>>

\* The job's ceiling: cancellation is no Exception, so nothing is recorded.
Cancel ==
  /\ pc \in InGraph /\ Event
  /\ rc' = "cancelled"
  /\ LoseIssue
  /\ toPropose' = {} /\ toRaise' = {}
  /\ pc' = "leave"
  /\ UNCHANGED <<model, parked, runVars, stateVars, writeVars, proposed,
                 raised, withheld, registry, history, sessionVars>>

-----------------------------------------------------------------------------
(* People and the approval watcher.                                        *)

Edit(p) ==
  /\ Event
  /\ model' = IF p \in model THEN model \ {p} ELSE model \cup {p}
  /\ UNCHANGED <<parked, issues, pc, runVars, stateVars, writeVars,
                 designVars, storeVars, sessionVars, rc>>

CloseIssue(i) ==
  /\ i \in DOMAIN issues /\ IsOpen(i) /\ run > 0 /\ Event
  /\ issues' = [issues EXCEPT ![i].closed = run]
  /\ UNCHANGED <<model, parked, pc, runVars, stateVars, writeVars,
                 designVars, storeVars, sessionVars, rc>>

Apply(g) ==
  /\ g \in parked /\ Event
  /\ model' = AfterWrites(g.elements \cap model)
  /\ parked' = parked \ {g}
  /\ UNCHANGED <<issues, pc, runVars, stateVars, writeVars, designVars,
                 storeVars, sessionVars, rc>>

-----------------------------------------------------------------------------
Step == Spawn \/ WaitReady \/ WaitFails \/ OpenFolder \/ OpenFolderFails
          \/ Leave \/ LeaveCancelled
          \/ CheckGeometry \/ Query \/ QueryFails \/ Supervise \/ Route \/ Bump
          \/ Diagnose \/ Design \/ Finish
          \/ (\E g \in toPropose : Propose(g))
          \/ (\E g \in toRaise : Raise(g))

Next ==
  \/ \E p \in Profiles : Start(p)
  \/ Step \/ Halt \/ Abort \/ Cancel
  \/ \E p \in Problems : Edit(p)
  \/ \E i \in DOMAIN issues : CloseIssue(i)
  \/ \E g \in parked : Apply(g)

\* Every await of a run returns, raises, or is cut by the job's ceiling.
Fairness == WF_vars(Step)

Spec == Init /\ [][Next]_vars /\ Fairness

-----------------------------------------------------------------------------
(* Properties.                                                             *)

Ended == pc = "leave" /\ rc \in {"ok", "error"}
LastEntry == history[Len(history)]

\* Every audit comes to its end: two fixes that undo each other are cut at
\* the iteration limit, and people may edit the model at any time.
RunEnds == pc # "idle" ~> pc = "idle"

\* No silent success: an audit that exits 0 is one that did read the model,
\* is on record as converged, and left the loop with no findings, with
\* findings the last pass changed nothing about, or on the supervisor's
\* advice below the iteration limit.
NoSilentSuccess ==
  Ended /\ rc = "ok" =>
    /\ LastEntry.status = "converged" /\ iteration > 0
    /\ Coverage(profile) # "no_audit" /\ (Geometry = {} \/ ran # {})
    /\ \/ findings = {}
       \/ prev = {findings}
       \/ stop = "supervisor" /\ iteration < MaxIterations

\* Not so in the code: "the exit code, the recorded status, and metadata.json
\* can never disagree".  Partial coverage that a strict profile turns into an
\* error is on record as converged.
ExitMatchesRecord ==
  Ended => (rc = "ok" <=> LastEntry.status = "converged")

Attempted == failed \cup {p \in Problems : <<p, iteration - 1>> \in written}

\* A finding is named in an issue that was open during this run, or in one
\* that was withheld and is on record as a fix that was not executed.
Named(p) == \/ \E i \in DOMAIN issues : /\ p \in issues[i].group.elements
                                        /\ issues[i].closed \in {0, run}
            \/ \E g \in withheld : p \in g.elements
\* A write that mends it is proposed, or was attempted in the last pass.
Mending(p) == (\E g \in proposed : p \in g.elements) \/ p \in Attempted

AtRest == Ended /\ stop = "fingerprint_stable" /\ ~profile.dry_run
            /\ profile.max_issues = 0

\* Nothing found is lost: when the loop stops because nothing moved any more
\* (no issue limit, no dry run), every remaining finding, or one that the
\* same write would mend, is named, or a write is on its way.
Escalated ==
  AtRest => \A p \in findings \cup geo : \E q \in findings \cup geo :
              StandsFor(q, p) /\ (Named(q) \/ Mending(q))

\* Not so in the code: findings without a computable value "fall through to
\* Path A (an ACC issue) so a real violation isn't silently dropped".  Those
\* that stood behind a representative are in no issue.
EachIsNamed ==
  AtRest => \A p \in findings \cup geo :
              \/ Named(p)
              \/ \E q \in findings \cup geo : StandsFor(q, p) /\ Mending(q)

\* Over any number of runs a group has one open issue, unless ACC could not
\* tell whether the earlier one is open, or the answer to its creation was
\* lost.
NoDoubleIssue ==
  \A i, k \in DOMAIN issues :
    (i # k /\ IsOpen(i) /\ IsOpen(k) /\ issues[i].group = issues[k].group)
      => issues[i].group \in blind

\* What was found is escalated, and once.
EscalatedOnce == Escalated /\ NoDoubleIssue

Unasked(p) == LET r == RuleOf[p] IN
  Strategy[r] = "template" \/ (Strategy[r] = "policy" /\ Policy[r] = "auto")

\* An audit writes to the model only what may be written without asking: not
\* in a dry or propose_only run, and never a renumbering, a value from a
\* language model or one that policy does not call automatic.
OnlyGrantedWrites ==
  [][(pc = "design" /\ model' # model /\ pc' = "publish") =>
       /\ ~profile.dry_run /\ ~profile.propose_only
       /\ \A p \in model \ model' : Unasked(p)]_vars

Whole(entry) == entry.scope = [query |-> "ok", geometry |-> "ok"]

\* The delta report compares with an earlier run of the same profile. Where
\* the runs checked all they should, it calls nothing resolved what the model
\* still had when it was last read, nor new what it had when the earlier run
\* read it.
DeltaHonest ==
  \A i \in DOMAIN history : LET now == history[i]  base == now.delta.base IN
    /\ Whole(now) => now.delta.resolved \cap now.truth = {}
    /\ base # 0 => /\ base < i /\ history[base].name = now.name
                   /\ Whole(history[base]) =>
                        now.delta.fresh \cap history[base].truth = {}

\* Not so in the code: a successful status marks "a run whose outcomes.json is
\* complete and trustworthy".  A part of the rules makes a baseline, too.
DeltaTrustworthy ==
  \A i \in DOMAIN history : LET now == history[i]  base == now.delta.base IN
    base # 0 => /\ now.delta.resolved \cap now.truth = {}
                /\ now.delta.fresh \cap history[base].truth = {}

\* The record of a run that came to its end lists every confirmed write of
\* all its passes.
WritesRecorded == Ended => LastEntry.writes = written

\* Not so in the code: the write log is such that "the full write history
\* survives to the end of the run".  A run that an exception ended is recorded
\* from the state it began with.
WritesSurvive ==
  pc = "leave" /\ history # <<>> /\ LastEntry.run = run =>
    LastEntry.writes = written

\* What an audit leaves behind is true: its exit code, its record and the
\* delta report.
RecordIsHonest == NoSilentSuccess /\ DeltaHonest /\ WritesRecorded

\* However an audit ends, and before it began, its watchdog is gone.
WatchdogReaped == pc = "idle" => watchdog = "none"

\* Not so in the code: a halt of the watchdog "is logged at __aexit__" or
\* copied to the run folder.  A session that fails in __aenter__, or that is
\* cancelled in __aexit__, tells nobody.
HaltIsTold == pc = "idle" /\ paused => told
=============================================================================
