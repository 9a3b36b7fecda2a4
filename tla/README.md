# Verification of AutoAudit-BIM

AutoAudit-BIM audits a Revit model against project standards. An audit reads
the elements a ruleset is about, judges every (element, rule) pair, writes what
it may write on its own, parks what it may not as a *proposal* (an ACC issue
for a coordinator and a record on disk with the exact writes) and raises issues
for the rest. A second loop, the approval watcher, polls the proposals' issues
and applies the parked writes once a human has approved them. A service runs
both, one at a time, and streams their progress to browsers. The TLA+ modules
here model the parts of this system whose steps interleave, fail half-way or
are retried, and the judgement they rest on.

Source paths below are relative to
`src/bim-orchestrator/src/bim_orchestrator/`.

## 1. Inventory

| component | state it keeps | operations | hard part | what makes it correct |
|---|---|---|---|---|
| approval watcher (`approval_watcher.py`, `approval_store.py`) | record files, its loaded copies, per-fix flags | `scan_once`, `_apply`, `_reprove_stale`, `_commit_writes`, `_close_issue`, `watch` | several processes over one directory; every await; crash between write, record and close; partial, lost and silent answers | a record and a closed issue never claim a write that did not land; nothing approved is forgotten; nothing human is overwritten unnoticed |
| record lock (`approval_watcher.py`) | `<record>.lock` | `_acquire_lock`, `_release_lock` | stale takeover is two system calls; release does not check ownership and may fail in silence | at most one applier per record; no orphan blocks for ever |
| fingerprint gate (`policies/approval_integrity.py`) | marker in the issue, fingerprint in the record | `fingerprint`, `parse_fingerprint`, `_verify_integrity` | either anchor can disappear, either file can change, at any time | what was not approved is not written |
| approvals inbox (`service/routes_approvals.py`) | `_ignored/` | `ignore`, `restore`, list | moves files under the watcher's feet | no record is lost |
| design agent, publishing (`agents/design.py`) | pending anchors, records, run memo | `_propose_rule_group`, `_create_proposal_issue`, `_adopt_orphan_proposal`, `_find_parked_duplicate` | crash or lost answer around the creation of an issue; a rerun next to the watcher | one issue per write-set; never an issue without a record for ever |
| design agent, decisions (`agents/design.py`) | write log, group memo | `run`, `_partition`, `_prepare_revit_fix`, `_propose_rule_group` | the order of gates, demotions, budget and failures | every finding is written, proposed, raised or accounted for; nothing ungranted is written |
| design agent, values (`agents/design.py`, `llm/usage.py`) | answers of a pass, reserved numbers, the family map, the live batch | `_dedup_by_write_target`, `_compute_new_value`, `_llm_propose`, `_prewarm_llm_batches`, `_next_available`, `_commit_revit_batch`, `_commit_per_element` | permuted answers, shared answers, several findings behind one write, batches that land in part | each finding gets the answer to its own question; the strictest requirement wins; numbers are fresh; "executed" means written |
| audit graph (`graph.py`, `state.py`) | iteration, fingerprints, findings, verdicts | `route_node`, `bump_node`, `supervisor_node`, `diagnostic_node` | convergence; fixes that undo each other; partial reads | the loop ends; no success without a real audit |
| Revit reader (`agents/revit_query.py`, `policies/query_specs.py`, `policies/ost_catalog.py`) | caches, in-flight futures, coverage | `run`, `_query_category`, `_query_sheets`, `_hydrate_element`, `_get_instance`, `_get_type` | concurrent hydrations that share reads; a failed read and its cohort; caps; edits meanwhile | what is judged is what the model had; nothing drops out unnoticed |
| QC agent (`agents/qc.py`, `policies/rules_engine.py`, `policies/lookup_table.py`, `policies/fire_rating_units.py`) | none between passes | `run`, `_scope_result`, `evaluate`, `LookupTable.match` | absent, blank, unreadable and "not rated" are four different things | every pair in exactly the bucket it deserves |
| geometry agent (`agents/geometry_query.py`) | batches, space boxes, centroids, coverage | `run`, `_prefetch_link_ids`, `_build_batches`, `_run_min_batch`, `_run_max_rule`, `_apply_spatial_filter` | one call for several rules; links that are not there; limits and cut answers; a filter that cannot see | zero findings mean zero violations, or the coverage says why not |
| service runner (`service/runner.py`, `service/app.py`) | `.service_lock`, jobs, event lists | `SingleRunLock.acquire/release`, `AuditRunner.start`, `_execute`, `stream_events` | stale lock takeover; late subscribers; eviction of jobs; hung audits | one writer at a time; every viewer sees every event in order, to the end |
| event stream client (`src/autoaudit-ui/src/api/sse.ts`) | counters of a connection | `ReconnectingEventSource`, `ReplayDedup` | a reconnect replays everything; an ended stream looks like a broken one | each event is shown once, and the redialling ends |
| issue registry (`issue_registry.py`) | group-to-issue map | `lookup`, `record` | an issue that was closed, or cannot be asked about | no duplicate issues in later runs |
| unattended session (`unattended.py`) | watchdog process, PAUSED flag | `__aenter__`, `__aexit__`, `on_folder` | a launch that fails after the spawn | no watchdog outlives its audit; a halt is told |
| run recorder, delta report (`run_recorder.py`, `delta_report.py`) | run folders | metadata, `find_baseline`, `diff_outcomes` | which earlier run to compare with; runs that read a part | the delta is true of the model |
| MCP clients (`mcp_clients/`) | connection | batch, set_parameter, issue calls | envelope shapes | unconfirmed is not success (`batch_commit_outcomes`) |
| verification views (`verification_views.py`, `verify_recipes.py`, `policies/revit_units.py`) | schedules in the model, manifest of the run | `create_verification_schedules`, `recipe_for`, `rule_value_to_storage_unit` | crash or refusal between create and configure; an addin that adds instead of replacing; people and a second pass at the same schedules | a schedule shows what its rule rejects; the manifest is true |
| LLM providers, retrieval, Forma reader, CLI wiring, Streamlit, web UI | - | - | data transformation, presentation, I/O | - |

How they meet. The watcher, the design agent and the inbox share the approvals
directory (one lock file per record that only the watcher takes) and the ACC
issue (status, description). The service runs audits and the watcher's pass
under its run lock, the CLI and Streamlit without it. An audit calls the
geometry agent once, then the graph, whose query and QC nodes read and judge
and whose design node writes; runs share the issue registry and the run
folders. People edit model, issues and files at any time.

## 2. Modules

| module | part |
|---|---|
| `ApprovalWatcher` | Loop 2 with its lock files, the inbox, people and failures |
| `ProposalPublish` | the design agent's publishing, next to a reduced watcher |
| `AuditService` | run lock, jobs, event streams and their viewers |
| `AuditLoop` | an audit from session to record, over several runs |
| `FixPlan` | values and writes of a design pass, over the passes of a run |
| `RuleCheck` | operators: the judgement of one (element, rule) pair |
| `ElementQuery` | reader and QC agent over the passes of an audit; uses `RuleCheck` |
| `GeometryQuery` | the geometry agent |
| `AuditReads` | composes `GeometryQuery` and `ElementQuery` as `run_revit` does |
| `VerifyRecipe` | operators: the schedule filters of a rule, and the verdict they must reproduce |
| `VerificationViews` | building the schedules of a finished run, from service and command line; uses `VerifyRecipe` |
| `FiniteNumbers` | lemmas about sizes and maxima of finite sets of numbers |
| `*_proofs` | the theorems about the module of that name; `AuditReads_proofs` holds those about both halves, too |
| `MC*` | constants of the runs: small sets, symmetry |

Operators whose comment begins with "Wrong:" are the definition after them with
a plausible bug; no behaviour of the model uses them. They document, for each
property, a change of the code that the property catches. Properties whose
comment begins with "Not so in the code" state what the repository says of
itself and the model refutes; section 6 lists them.

### ApprovalWatcher

The code between two awaits, or between two file operations, is one step.

| code | model |
|---|---|
| `<issue>.json`, `_ignored/<issue>.json` | `disk[p]`, `ignored[p]` (`NoRecord` when absent) |
| `<issue>.lock` | `lock[p]` : its creator, and whether it is older than `_STALE_LOCK_S` |
| ACC issue | `acc[p]` : status, and whether the description still carries the fingerprint marker |
| live parameter values | `model[p][f]` : "old", "new", "other", "edited" |
| position in `scan_once` / `_apply` of a process | `pc[a]` |
| `path, rec` of the loop; records loaded by the pass | `cur[a]`, `snap[a]` |
| `live_before`, `pending` of the drift check | `reading[a]`, `toRead[a]` |
| `steps` about to be written; those without a verdict | `toWrite[a]`, `blind[a]` |
| an ignore or restore between its check and its rename | `ignoring`, `restoring` |
| - | `landed`, `statuses`, `touched`, `clobbered`, `stolen` : history, for the properties only |

`StartPass` .. `PollFails` are `scan_once`; `CreateLock` .. `Release` the lock:
create with `O_EXCL`, judge staleness, unlink (or fail to), create again, each a
step. `_release_lock` unlinks whatever is there and swallows an error
(`ReleaseFails`), so a lock file may stay and age without any crash.
`BeginClose`, `RefuseApply`, `BeginApply` the first part of `_apply`; `Preview*`
are `_reprove_stale` (batch dry run, per-element fallback, fail-open) and
`Classify` is `_classify_stale`; `Commit*` are `_commit_writes` with
`Confirmed` = `batch_commit_outcomes`; `Persist`, `CloseIssue`, `Comment`,
`FinishClose` the rest, each with the ways it fails. What the drift check could
not judge is kept in `blind` and enters the record's `degraded` flag only when
the commit has returned, as in the code. `IgnoreChecked`, `IgnoreMoved`,
`RestoreChecked`, `RestoreMoved` are the service's endpoints, each a check and a
rename; `RenameReplaces` says whether the rename replaces a record that came in
between (POSIX) or refuses (Windows, which Revit runs on). People, the addin, ACC,
crashes and the clock are the environment (external in the map); `Environment`
selects what people do, so that a run can afford the combination it is about.

Abstractions: a fix is a write target whose values are told apart by role; the
fingerprint is compared, not computed (`intact`); a pass loads all its records
in one step (records are independent of each other); the dry run that fetches
an approval token is part of the call it authorises; the demo-record and
missing-project skips are left out (such records never change).

### ProposalPublish

How an audit run's design agent parks what it may not write
(`_create_proposal_issue` and all it calls), step by step between its awaits
and file operations, next to a reduced watcher and people.

| code | model |
|---|---|
| ACC issue with a fingerprint marker | `acc[i]` : write-set, status |
| `<issue>.json` | `disk[i]` : write-set, what was applied, `applied`, `status`, `issue_status` |
| `<fingerprint>.creating` | `want \in anchor` |
| findings that need a value | `needed` |
| position in the run; write-set at hand; `_proposed_fingerprints` | `pc`, `want`, `memo` |
| issue found or created, status ACC answered, record read for stamping, `pending_path` | `cur`, `reply`, `copy`, `anchored` |
| the watcher's place, record | `wpc`, `wcur`, `wrec` |
| - | `forsaken`, `byHand` : history, for the properties only |

`SkipRepeated`, `FindParked`, `FindNoParked` and `ScanFails` are the two levels
of deduplication; `AskParked` .. `StampFails` are `_parked_issue_disposition`;
`LookupFinds` .. `DropAnchorFails` are `_adopt_orphan_proposal`;
`ResolveSubtype` .. `ClearAnchorFails` create the issue in the order anchor,
`create_issue`, record, removal of the anchor. Every step that calls ACC or
writes a file has its failures as actions of their own, and `Crash` ends the
run anywhere. Abstractions: one rule (the memo's key includes the rule, and a
write-set belongs to one); the fingerprint is the write-set; the preview call
that fetches an approval token is part of the creation; the watcher handles one
record at a time and its lock, drift check and inbox are left to
`ApprovalWatcher`; one audit runs at a time, which the service enforces and the
CLI only warns about.

### AuditService

Service processes over one runs folder, each with its `SingleRunLock` and
`AuditRunner`, and browsers that follow a job.

| code | model |
|---|---|
| `.service_lock` with the owner's token | `file` : creator, its life, whether the token was written |
| `_held`, place inside `acquire()`, the request it is for | `held`, `pc`, `want` |
| what runs under the lock: audit, apply-once, verification views | `busy` |
| `AuditJob.status`, `.events`; `AuditRunner.jobs`, `.current` | `status`, `events`, `known`, `current` |
| the audit a page follows, its `EventSource`, the process behind it | `watch`, `conn`, `via` |
| index of `stream_events`; `ReplayDedup.delivered` | `sent`, `delivered` |

`Ask`, `ReadOwner`, `UnlinkStale`, `Recreate`, `WriteToken` are the system calls
of `acquire()`, between which other processes move; `WriteToken` also registers
the job and evicts finished ones, because nothing awaits in between. `Mark`,
`Succeed`, `ExitCode`, `Raised`, `Ceiling` are the ways `_execute` goes on and
ends. `Open`, `Deliver`, `EndStream`, `Drop` are the stream and its client. The
server names its events `progress` (`EventName`, `service/app.py:278`) and the
client handles unnamed ones only (`HandledNames`, `sse.ts:39`), so the client of
the model, like that of the code, accepts none of them: the page learns the
outcome by polling the audit's status, and what is lost is the live log and the
end of the redialling. `Stop` and `Restart` kill and start a process; a
restarted one may be given the same process id (the token carries the start
time, which the model's `life` is). Abstractions: an audit is the events it
emits; a request that writes to Revit is one kind of work; psutil is installed;
the polling of the status is left out.

### AuditLoop

Audits one after another: `UnattendedSession`, the graph, what `DesignAgent.run`
does with each finding, registry, run folder and delta report. A problem is one
rule violated at one element; writes remove problems and may bring about others.

| code | model |
|---|---|
| the Revit model; ACC issues; waiting records | `model`, `issues`, `parked` |
| node of the graph, or step of `run_revit` / the session | `pc` |
| `OrchestratorState`: iteration, findings, status, fingerprint, stop_reason, directive | `iteration`, `findings`, `status`, `prev`, `stop`, `directive` |
| geometry findings and `rules_executed` | `geo`, `ran` |
| `fix_write_log`; confirmed and failed writes | `writelog`, `written`, `failed` |
| proposals and groups of this pass; run memos | `toPropose`, `toRaise`, `proposed`, `raised` |
| `ProposedFix` of groups that are not raised | `withheld` |
| `issue_registry.json` (0: an entry without id); run folders | `registry`, `history` |
| watchdog, PAUSED in staging; copied to the run folder or logged | `watchdog`, `paused`, `told` |
| - | `seen`, `blind` : history, for the properties only |

`Spawn`, `WaitReady`, `WaitFails`, `OpenFolder`, `OpenFolderFails`, `Halt`,
`Leave`, `LeaveCancelled` are the session; `CheckGeometry`, `Query`,
`Supervise`, `Route`, `Design`, `Propose`, `Raise`, `Diagnose`, `Bump` the graph;
`Finish` records; `Abort` and `Cancel` are an exception and the job's ceiling
anywhere, `LoseIssue` a cancellation whose issue was created all the same.
`Edit`, `CloseIssue`, `Apply` are people and the watcher. `Representatives` is
the collapse by write target: of the findings that one write would mend
(`SameWrite`) one is prepared and the others stand behind it (`StandsFor`), also
when it is handed to Path A because its preview failed. `Raise` creates an issue
only for a group whose policy is "auto" and whose preview brings a token; the
answer may have no issue id (`CreateNameless`). Abstractions: live writes of one pass are one batch in
which any subset may fail; a profile is an element of a small set; values are
computed in `FixPlan`; geometry findings stay what the one geometry pass found.

### FixPlan

How one design pass turns findings into values and writes, in several scenarios
(a ruleset and the model it meets), over the passes of a run.

| code | model |
|---|---|
| the Revit model; `_all_elements` of the pass | `model`, `seen` |
| `_family_id_by_name` | `families` |
| the targets of Path B, and those still to prepare | `found`, `left` |
| rule groups whose batch is to be asked for | `toWarm` |
| `_llm_propose_memo`, `_llm_propose_memo_unshareable` | `memo`, `poisoned` |
| `_revit_siblings_cache`; rooms that could not be read for it | `taken`, `lost` |
| calls counted by the usage recorder | `calls` |
| proposed fixes; findings handed to Path A | `fixes`, `unfixable` |
| `steps` and `primary_idx` of the batch; step of the per-element commit | `steps`, `primary`, `at` |
| `fix_write_log` | `log` |
| - | `landed`, `unsure`, `before` : history, for the properties only |

`Collect` is the partition and the collapse by write target (`Chosen` =
`_collapse_to_one`); `WarmBatch` and `WarmFails` the batched question, whose
answers may come back permuted (`from`); `Compute`, `Recall`, `Ask`, `Renumber`
and `Unresolved` the ways a finding gets its value, or none, each with the dry
run behind it; `CommitBatch` .. `CommittedAll` the live write; `WriteLog` the
run's log. `Compared` are the elements whose numbers a renumbering looks at:
all rooms, or what the run loaded of the category, which may be less than the
model has below the cap, too (a hydration that failed). Abstractions: nobody
edits the model during a pass (drift is
`ApprovalWatcher`'s subject); template values and autofill suggestions are
given per finding; the parameter written is the parameter checked; a dry run
succeeds or fails; an exception out of `list_rooms` or `propose_batch`, which
ends the pass, is an abort of `AuditLoop`.

### RuleCheck, ElementQuery, GeometryQuery, AuditReads

`RuleCheck` translates scope filter, lookup, evaluators and buckets over the
eight shapes of a value that the code tells apart (absent, blank, not rated,
unreadable, readable but not canonical, two canonical ratings, a bare number).
A unit is converted, and may fail to be, only where the value is a number; a
broken pattern is met only where there is a value. `numeric_min` compares with
">=" whatever operator the rule names.

| code (`ElementQuery`) | model |
|---|---|
| the element loop: category, gather, enrichment, coverage, QC | `phase`, `at` |
| one `_hydrate_element` coroutine | `stage[e]`, `got[e]` |
| its read: cached, waiting on a shared future, queued at the semaphore, calling | `mode[e]` |
| `_instance_info_cache`, `_type_info_cache` | `cache[t]` |
| `list_elements`, `find_elements`, `list_sheets` of a spec | `listing[i]` |
| element dicts; `check_trace`; `query_coverage` | `elements`, `verdicts`, `coverage` |
| - | `past`, `unheard` : what the model had in this pass, which reads failed |

`Lead`, `Join`, `ReadCached`, `Acquire` are the lookups of `_get_instance` and
`_get_type`; `Answer`, `AnswerRefused` (`RevitEnvelopeError`), `AnswerRaises`
(anything else) the ends of a call, which also decide for the waiting cohort;
`Gather`, `GatherFails`, `Enrich`, `Cover`, `Check` the rest of a pass.
Abstractions: every thing has one parameter; rules read an element's own value
and that of its host's type; a read that hits the cache is a step of its own,
which only adds interleavings; what the space enrichment attaches is left out.

| code (`GeometryQuery`) | model |
|---|---|
| `rules_executed`, `rules_failed`, `rules_truncated` of `coverage` | `executed`, `failed`, `truncated` |
| the tasks of `run`, each with its place, answer, rules and violations left | `batches`, `doing` |
| `_space_boxes`, `_centroid_cache` | `boxes`, `centroid` |
| findings | `findings` |
| - | `unseen`, `unloaded`, `torn` : lookups that failed or were cut off, solids beyond the limit, rules whose findings an exception took along |

`FindLinks` resolves links, blocks rules and builds the batches; `Ask` and
`AskFails` are `check_clearance`; `NextRule` takes one rule's violations out of
the answer; `LoadBoxes` .. `BoxesFail`, `LookCached` .. `SeenNot` the spatial
filter, whose loads and lookups race over the shared caches; `TaskRaises` an
exception that the handlers do not catch, after rules of the task were counted
as executed; `EndRule`, `EndGeometry` the end. `Key` is `_ClearanceKey` with
direction and view; a call reads at most `MaxElements` of its first set, and the
list of spaces is limited alike (one constant stands for both limits).
Abstractions: distances are given; spaces do not overlap; the choice of a 3D
view is left out.

`AuditReads` runs the geometry half before the passes of the parameter half, as
`run_revit` does. The halves share no state.

### VerifyRecipe and VerificationViews

`VerifyRecipe` translates the renderers of the requirements that have filters,
the unit conversion in both directions and the evaluators, over integers in the
parameter's storage unit. A rule view carries the elements of its rule's scope,
which no recipe mentions. `EvaluatedOp` is the operator of the evaluator, which
for `numeric_min` need not be the recipe's (`OpOf`); `Tellable` are the elements
that a filter can tell apart.

| code | model |
|---|---|
| which addin is installed, with which commands | `addin` |
| the schedules of the Revit model, by id | `schedules` (a deleted one keeps its place) |
| the service's run lock | `lock` |
| place in `create_verification_schedules`, the probe, rules left, `created_sid`, results | `pass[p]` : `pc`, `seen`, `todo`, `sid`, `rows` |
| `verification_views.json` / `.md` | `manifest[r]` |
| - | `pass[p].told`, `.quiet`, `spent` : history and bounds, for the properties only |

Every call of the addin is one step, and its answers are actions of their own:
`ReportUnreachable` .. `ReconfigureFails` for a schedule the probe saw,
`Create` .. `CreateFails` and `Configure` .. `ConfigureFails` for a new one.
`Abort` is a transport error or a crash, with or without the lost call having
reached the addin. `Delete`, `SortByHand`, `RenameToKeep` are people.
Abstractions: thresholds are multiples of the unit's factor (rounding of the
filter's text is left out); the condition of a conditional rule is given per
element; the second sort key and the schedule's layout are left out.

## 3. Runs

| run | instance | what it shows | states |
|---|---|---|---|
| `watcher_solo` | 1 applier, 1 proposal, 2 fixes, 1 crash; people edit the model and the issue's status at any moment | `RecordsAreTrue`, `CloseJustified`: what a record and a closed issue claim is true; `NeverClobber`: a human's value is overwritten only where the drift check could not judge the fix or had read it before the edit | 1,316,474 |
| `watcher_pair` | 2 appliers, 1 fix, 1 crash, lock files that cannot be removed, fairness, prompt holders | `OneApplierPerRecord`: exclusion until somebody unlinks a lock that is not stale any more; `RecordsAreTrue` with two copies of one record; `EventuallySettled`: an approved proposal is settled in the end | 316,556 |
| `watcher_inbox` | 1 applier, a record without fingerprint, ignore/restore, edited texts and records, 1 crash | `RecordNeverLost`: the only record stays in the directory or in `_ignored`; `AppliedNeverForgotten`: so does what it knows to be applied; `IntegrityGate`: an edited write-set passes only where nothing is left to check it against | 253,876 |
| `publish` | 2 fixes (3 write-sets), 2 issues, 2 incidents (crash, failed call, edit, reopen), fairness | `ProposalsAccountedFor`: one waiting record per write-set, no issue that nothing leads back to, the memo matches records; `EventuallyParked`: what is needed ends up parked | 648,758 |
| `service` | 2 processes, 1 viewer, 2 audits, 1 progress event each, no finished job kept, 1 fault, fairness | `OneWriterPerServer`: one writer per process; `LockNotJammed`, `JobsEnd`: a dead owner never jams the lock and no job hangs; `OutcomeIsSent`: a viewer that stays is sent the end of its audit | 175,909 |
| `audit` | 6 problems of every kind, two undoing each other, two behind one write; 7 profiles, 2 iterations, 2 runs, 1 event, fairness | `RunEnds`: every audit ends; `RecordIsHonest`: none succeeds in silence, what a run that came to its end records is true; `EscalatedOnce`: of what one write would mend one finding is escalated, and none twice; `OnlyGrantedWrites`: nothing ungranted is written; `WatchdogReaped` | 676,930 |
| `reads` | 2 doors of one type in one wall, a third, a sheet, targets that are unknown, empty, over the cap; 1 call at a time, 2 passes, 1 edit, 1 failed read; 8 geometry rules over 2 solids and 2 spaces, 1 element per call, 2 answers kept, 1 failed call, fairness | `VerdictsAreTrue`: verdicts are true of the pass they belong to; `OneReadPerThing`; `NothingLost`: nothing is lost unnoticed; `GeometryIsHonest`: geometry findings are true, and silences explained; `PassEnds`: every pass ends | 400,403 |
| `fixplan` | 3 walls of one type, 3 doors of 2 families, 3 rooms, of which a door and a room are not loaded; 7 rulesets; batches from 2 questions, 3 calls, 2 passes | `ValuesAreRight`: an answer belongs to its question and satisfies its rule, the strictest rating wins, numbers are borne by nothing they were compared with; `StableNumbers`: and the same in the next pass; `ExecutedIsTrue`: "executed" and the log are true of the model | 18,057 |
| `views` | service and command line, 2 passes over 3 finished runs (one rule edited and scoped in between, one moved to another category), 6 addins, 1 refusal, lost call or crash, 1 edit by a person | `CleanRowsAreTrue`: what a row claims is in the model, the filters tell what the rule rejects from what it does not, as far as a filter can; `QuietPassRepairs`, `ManifestNamesWhatItMade`: half-built schedules are named and mended; `OneSchedulePerRule`; `DryRunWritesNothing`; `LockIsOfAPass`: the service's lock comes back | 2,397,480 |
| `readopt` | 1 fix, 2 issues, 2 incidents, fairness | a counterexample: section 6 | |
| `service_unheard` | that of `service` | a counterexample: section 6 | |
| `audit_delta` | that of `audit` | a counterexample: section 6 | |

Bounds. Two appliers are what the lock can distinguish (holder and contender);
one proposal suffices because no step of `ApprovalWatcher` reads or writes two
proposals except the load of a pass. Two fixes make partial batches, a mix of
judged and unjudged fixes and reordered outcomes possible; a third adds no new
class. One crash separates every pair of steps; with two appliers the second
one plays the restarted process as well. Crashes, edits, ignores, takeovers by a
second applier and edits of the record are spread over the three watcher runs
(`Environment`) and proved together. In `ProposalPublish` two issues are a
duplicate, two incidents allow one to leave something behind and another to hit
its repair (an anchor kept by a lost answer, then a failing lookup). The safety
properties were also checked with three issues and two incidents (2.2 million
states), and are proved for any number of them.

In `AuditService` two processes are owner and reclaimer, the first of which the
viewer follows; two audits make an eviction (`MaxFinished = 0` stands for the
code's 20: eviction starts at the second audit), one fault is a death with its
restart, a failed unlink or a dropped connection. In `AuditLoop` two iterations
are a pass and the limit, two runs an earlier one and the one compared with it,
one event separates every pair of steps; the seven profiles are the audit
options one by one; the clash's issue policy is "approve", which withholds it.
In `reads` the two doors share a type and a wall, so that one leads a read and
the other follows, and with one call at a time a read waits for the semaphore; a
cap of two is hit by the doors; two passes are a cache and its reuse. The halves
share no state, so a ruleset for each of them (`Either`) stands for their
combination, and the composition is proved. The geometry rules are two that one
call answers, two that look alike and must not be batched, a maximum in a link
with a cut answer, one that cannot be measured, one whose link is missing and
one that is not dispatched; a limit of one leaves out a solid, a space, or both.

In `fixplan` three walls share a type whose rating one of them needs stricter
and one cannot read; three uses, two of which differ by a blank, are what a memo
or a permuted batch can mistake; with a budget of three calls the last question
goes unanswered; two passes show what is forgotten and what is kept.

In `views` two passes are one that breaks off and one that follows or overtakes
it, from the service or from the command line; the edited rule changes
operator, threshold and unit, or its requirement and scope; the doors lie below,
on and above the boundary; the room's identity column cannot be shown and one
rule id holds a forbidden character. More passes are left to the proofs.

Properties such as `RecordsAreTrue` are conjunctions of parts that are stated,
and proved, one by one. The type invariants of all modules and the bound on kept
jobs of `AuditService` are proved and not run again.

`EventuallyParked` and `EventuallyProposed` excuse the state in which all of
`MaxIssues` exist, because nothing can be raised beyond the bound.
`CHECK_DEADLOCK FALSE` is set where the bounds on crashes, audits and passes
end the behaviour.

## 4. Fairness

`ApprovalWatcher!FairSpec`: weak fairness of each applier's own steps and of
its restart (`watch()` loops for ever; that a dead process is started again is
the operator's part, also after `watch()` itself gives up after five dead
passes), weak fairness of the ageing of lock files (time passes), and that
faults stop at some point. Without the last one ACC may refuse every close and
nothing can be promised. People are never assumed to act.

`ProposalPublish!FairSpec`: weak fairness of the run, which includes that
audits are started again (schedule, service), and strong fairness of its end,
because `route_node` bounds the iterations. Neither the watcher nor people are
assumed to act. The number of incidents is bounded, so no fairness is needed
against them.

`AuditService`: weak fairness of the steps of `acquire()` (system calls return)
and of the ceiling (`asyncio.wait_for` fires, whatever the audit does); strong
fairness of opening a connection, of sending on it and of ending it when it is
drained, because `acquire()` blocks the event loop again and again and the
browser redials for ever.
`AuditLoop`: weak fairness of the run's steps; every await returns, raises or
is cut by the ceiling. `FixPlan` and `VerificationViews` are about
safety only and state none.
`ElementQuery`: weak fairness of the reader; a call to
the addin returns or raises (the client has a timeout). Nobody edits, closes or
approves under any fairness assumption, and no audit, pass or request has to
start.

## 5. Proofs

All theorems are for any value of the constants that the named assumptions of
the modules allow (null values differ from values, bounds are naturals, sets
that are counted are finite, references point to what exists). Every module's
safety is proved from one inductive invariant, whose parts are named after what
they are about.

`ApprovalWatcher_proofs`. `TypeCorrect` is inductive by itself. The safety
properties are not: that the record on disk is truthful depends on the copies
in the appliers' memory, and on `_ignored`, because each may be written back.
`IInv` therefore says the same of every copy (`RecordsSound`, `ApplierSound`):
what a copy marks applied has landed; where a gated copy is about to be written
its write-set is the approved one; at each place of `_apply` what that place
knows. `ModelSound` ties the live values to what landed, `StatusesRemembered`
the issue to its history. What landed and which statuses an issue has had only
grows, so an applier's step leaves the other appliers' knowledge true; this is
why no lock is needed for `RecordsTrue` (`AppliedLanded` and
`RecordsTellTruth`), `ClosesAreJustified` and `GateHolds`, and they hold
through lock theft and crashes. `NoRecordIsLost` needs the types only, and holds
for any number of appliers and crashes.

`NothingIsClobbered` follows the drift check: `CheckSound` says which fixes were
read, held back and put on the list at each place of `_apply`, `Respects` that
none of those judged untouched holds a human's value, unless it was edited since
it was read (`touched`). It has no premise: people may edit at any moment.

`AppliedIsRemembered` assumes one applier (`Sole`) and a rename that does not
replace (`~RenameReplaces`). `LedgerSound` says that every copy of a record, on
disk and in memory, knows all that any file of the proposal marks applied. With
two appliers that is false, because each loads the record before it has the
lock; with a rename that replaces, a restore whose check came first may cover a
record that an applier has written in between.

`PromptHoldersExclude` is about the lock itself and assumes that no apply
outlasts `_STALE_LOCK_S` (`Prompt`). It holds over any number of crashes and lock
files that could not be removed: two appliers are at work on one record only
once a lock has been unlinked that was not stale any more (`stolen`). The code
can do that, since it judges and unlinks in two steps: the promise of the
docstring is false (section 6), and this is what remains of it. The invariant
ties every lock file that is not stale to the applier at work on its record.

`ProposalPublish_proofs`. The parts of `ProposalsAccountedFor`,
`NoSilentOrphan`, `ParkedOnce` and `MemoIsRecorded` depend on what a run learnt
in its scan and lookup and still relies on several awaits later. `Places` states
that knowledge per place (from the scan to the record, every waiting record of
the write-set is one a failed scan missed; from the lookup to the removal of the
anchor, every orphan was given up; the copy to be stamped is no more applied
than the file), `WatcherHolds` the same for the watcher. `Tame` is what every
step of the watcher and of people satisfies: issues and records neither come nor
go, nor change their write-set, nor stop being applied; `TameKeeps` shows that
this is enough for the run's knowledge to stay true. The run's steps are proved
in groups by what they write.

`AuditService_proofs`. The invariant has a part per concern: `LockSound` (work
goes on in a process exactly when it holds the lock, and while it acquires
nothing else moves in it), `JobsSound` (the current job, the known ones and
their order), `ViewsSound` (who follows no audit has no connection). `TopFew` is the counting argument for the eviction. That
`JobsStayBounded` holds is proved for any `MaxFinished` and not run. Exclusion is proved within one
process; across processes the code does not give it.

`AuditLoop_proofs`. The invariant is `TypeInv`, `SessionSound` (the
watchdog), `GraphSound` (what holds at each node), `WriteSound`, `ScanSound` (what
the last read knew), `HistorySound` (what each run folder says of its model),
`IssueSound` and `RaisedSound` (registry, issues and the groups a run has
dealt with), `CoverSound` (which finding, or which of those that share its
write, is covered by which issue, proposal or write). The steps are proved in groups (session, scan, loop, design, publish,
end, world); `OnlyMore` says that issues only come and close, `GreatestExists`
gives the baseline run.

`FixPlan_proofs`. `Waiting` (what is left was found and has no fix yet) and
`Unwritten` say where a pass is; `MemoBound` that an answer in the memo is
about the value it is kept for;
`LeftStrictest` that the representative of a group is its strictest; `OnePerWrite`
that no two findings of a rule write to one place; `NumbersReserved` that
proposed numbers are taken; `StepsSound` ties the batch to the fixes, and
`ExecutedHolds`, `LogPast`, `LogHolds` the fixes and the log to what landed.
`PrepareSound` is the lemma all ways to a value share; `SeenOrUnsure` that a
slot read in the next pass holds what was written unless the write was unsure.

`NumbersAreStable` relates two passes. Each number depends on those before it,
so that two passes agree would be an induction over the findings, which is not
available. Instead a `Plan` is any function that satisfies the recursion of
`_next_available` on what has been numbered so far; `NInv` says that each pass
numbers by some plan, in the order of its findings, and keeps what it has used
of it in the cache; and two plans for the same values agree, because the first
finding they differ at would have the same numbers before it (`PlansAgree`). The
second pass need not be over: what it has numbered is an initial part.

`AuditReads_proofs`. A verdict rests on reads made at different times by
different hydrations, so the invariant follows a value from the model to the
verdict: `TasksSound` (what a hydration, and the cache, hold was in the model
in this pass, or the read failed), `RowsSound`, `FetchSound` (listed elements
become rows or had a failed read) and `CheckSound`; `OneReadPerThing` is itself
a part, because a cohort is answered by the only leader of its thing.
`VerdictsTrue` has the premise that no two targets resolve to one category,
without which an element is its own duplicate (section 6). `NothingIsLost` has
none: its second half speaks of the targets that are spelled as the catalog
spells them, because for the others the promise is false (section 6).

The geometry half. `TaskSound` says for each task what its answer means
for each of its rules and, inside the filter, that every violation was kept,
is still to be looked at, is outside the filter, was beyond a limit, could not
be seen, or was lost with the task;
`BatchesSound` that all rules of a batch ask the same question; `SightSound`
what boxes and centroids know. One task's steps leave the others' knowledge
true, because boxes, findings and `unseen` are shared but only grow or are
replaced by sets that are as good.

The rest of `AuditReads_proofs` shows that an audit's reads implement both
specifications and carries the three properties over. `FiniteNumbers` holds
lemmas about sizes and maxima that several of these proofs cite.

`VerificationViews_proofs`. A pass acts on what it saw at its beginning, while
people and other passes change the same schedules. `Alone` says that nobody else
has changed a schedule since the pass began; a step of somebody else ends that,
and the properties promise nothing to a pass that lost it, other than true rows.
For a pass that has it, `SeenSound` says that what the probe saw is still there
and that no schedule of a rule that is left was overlooked, `HandSound` that the
schedule just created is as the addin made it, `QueueSound` and `ToldSound` what
the rows so far name; `Singles`, with `OneAtATime`, is `OneSchedulePerRule`
while no pass overlaps another and nobody edits. They are the invariant
`ViewsInv`. Passes that repair need more: `DoneSound`, that every rule which is
through has a configured schedule under its name, or a row that warns. That a
configured schedule tells exactly what the rule rejects, among the elements it
can tell (`Tellable`), is arithmetic about operators, thresholds and units
(`RecipeExact`); it rests on `ValuesAssumption`: values and thresholds are whole
numbers of storage units, so that the code's floats are modelled without their
rounding. What a schedule cannot tell is in section 6.

Only model-checked: liveness (`EventuallySettled`, `EventuallyParked`,
`LockNotJammed`, `JobsEnd`, `OutcomeIsSent`, `RunEnds`, `PassEnds`), which is out
of the prover's reach. Every invariant and every action property that a passing
run checks is also proved.

## 6. Findings

* `readopt` (`agents/design.py:1740`): an anchor that outlived its record makes
  a later run adopt the closed issue; the applied record is replaced and the
  write-set suppressed for good.
* `service_unheard` (`service/app.py:278`, `sse.ts:39`): the server names its
  events, the client listens to unnamed ones. The live log stays empty, and the
  stream of an ended audit, which the page means to close at the terminal event
  ("without this the reconnect loop redials a dead stream forever",
  `sse.ts:173-175`), is dialled again for ever. With "progress" among
  `HandledNames` the property holds.
* `audit_delta` (`delta_report.py:37`): a run of partial coverage is recorded as
  converged, so that a later delta lists findings of dropped rules as resolved,
  although `delta_report.py:30` calls such a status the mark of "a run whose
  outcomes.json is complete and trustworthy".

### Promises that fail

The properties of this table state what the source says of itself, and are false
in the model. To see a counterexample, take the configuration of the second
column, set the constants it names, and let the property of the first replace
those that the configuration checks.

| property | instance | the promise, and what happens |
|---|---|---|
| `NoReapply` | `watcher_pair` with `SPECIFICATION Spec`, `MaxCrashes = 0` | a second applier "can't double-apply" (`approval_watcher.py:446`). Records are loaded before the lock is taken (`:398`) and not read again under it, so an applier that waited for another one applies the same fixes a second time |
| `LiveHolderExcludes` | the same | no lock is handed out while "another (live) applier already holds it" (`:55-56`). Two processes that judged one file stale both get it: the second unlinks the first one's (`:67`); a file that `_release_lock` could not remove (`:81-93`) grows stale without any crash |
| `SkippedCheckIsTold` | `watcher_solo` with one fix, no symmetry, `Environment = {"edits"}`, `MaxCrashes = 0` | of a check that could not be made "a human knows" (`:236-238`). The flag is set after the commit has returned (`:517-518`); when its answer is lost the value is overwritten, the next pass finds it written, and the record says nothing |
| `TerminalIsLast` | `service` | after a terminal mark "the stream will never carry another event" (`sse.ts:120-122`). A failed audit logs its error afterwards (`service/runner.py:397`) |
| `ExitMatchesRecord` | `audit` | exit code and recorded status "can never disagree" (`state.py:309-312`). A strict run of partial coverage exits 1 and is recorded as converged (`orchestrator.py:746`) |
| `WritesSurvive` | `audit` | "the full write history survives to the end of the run" (`state.py:254-255`). A run that an exception ended is recorded from its initial state (`orchestrator.py:1609`) |
| `EachIsNamed` | `audit` | findings without a value "fall through to Path A (an ACC issue) so a real violation isn't silently dropped" (`agents/design.py:434-435`). Those behind a representative whose preview fails are in no issue (`:670`) |
| `HaltIsTold` | `audit` with `Profiles <- Unattended`, `MaxRuns = 1`, `MaxEvents = 2` | a halt "is logged at `__aexit__`" or copied (`unattended.py:28-29`). A session that fails in `__aenter__` (`:225`), or is cancelled in `__aexit__`, tells nobody |
| `FilterStillWorks` | `reads` with `Targets <- Alias`, `Rules <- AliasRules`, `MaxPasses = 1`, `MaxEdits = 0`, `MaxFaults = 0` | elements are stamped with the catalog's name "so QC's per-rule rule.category filter still works downstream" (`policies/query_specs.py:68-69`, `184`). A rule about `door` is compared with "Doors": none of its elements is judged, and the audit converges clean |
| `CountsOnce` | the same with `Targets <- Twice`, `Models <- Unlike` | a value "counts once toward its own duplicate detection" (`policies/rules_engine.py:197-199`). Two spellings of one category read every element twice, and each is its own duplicate (`agents/qc.py:287`) |
| `CoverageTellsLimit` | `reads` with `MaxGeoFaults = 0` | the coverage is "What this run actually managed to CHECK" (`agents/geometry_query.py:374`). A rule counts as executed without a word on the elements beyond the limit of its call (`:825`, `:939`) |
| `LookupsFailOpen` | `reads` with `MaxElements = 2` | "A failed space lookup fails OPEN" (`:772-774`). A failed centroid, a failed box of one space, or a failed list that another task's success overwrites, drops the violation (`:746`) |
| `RaisesAreNamed` | `reads` | an exception that the handlers do not catch "still names the rules it took down" (`:429-430`). Those counted as executed before it (`:441`) lose their findings and are not named |
| `UnseenIsTold` | `fixplan` with `MaxElements = 3` | below the cap the run "saw everything" (`agents/design.py:2599-2600`). An element whose hydration failed is not seen either, and its number counts as free |
| `FreeInScope` | `fixplan` with `Scenarios <- MCMarked` | the numbers in use are those of the rule's elements: "Source of truth now follows the rule's category" (`:2619-2625`). A renumbering rule without a category is compared with the rooms (`:2638`) |
| `ShowsExactlyTheFailSet` | `views` with `Addins <- MCCurrent`, `Procs = {"cli"}`, `MaxFaults = 0`, `MaxEdits = 0`, and `Runs <- OneRun` with `Trace <- ScopedTrace`, `MinimumTrace` or `BlankTrace`, or `Runs <- TwoRuns` with `MovedTrace` | a schedule "reproduces the finding set natively" (`verify_recipes.py:65`) and "highlights exactly the FAIL set" (`:304-305`). No recipe knows a rule's scope; `numeric_min` ignores the operator that its recipe negates; an element without a value is rejected and not shown; a rule that was moved reconfigures the schedule of its old category |
| `PassSetStaysVisible` | the same with `OneRun`, `Trace <- WideTrace` | a schedule is sorted "while the PASS set stays visible" (`verification_views.py:209-211`). Its filters (`:355`) rule out what passes |
| `KeptStaysKept` | the same, and `MaxEdits = 1` | "Rename a schedule to keep manual changes" (`:233`). One that is renamed during a pass is reconfigured by the id that the probe had (`:362`) |

### Observed without a property

Approvals. A watcher that applies and closes during the agent's `get_issue` makes
the agent stamp the applied record as declined by a human
(`agents/design.py:1874`). `ignore` takes no lock, so a pass that has loaded the
record applies it all the same, though `streamlit_app/app.py:4519-4520` says
that an ignored proposal is not applied. A drift between the check and the live
write is overwritten (`_commit_writes` says as much); a stale flag survives a
pass that wrote the fix through the fail-open path; where a rename replaces, a
restore may cover a record that was written after its check
(`routes_approvals.py:150`, `156`); a person who closes an issue in the middle
of an apply can make the agent write an unapplied copy over the applied record
(`design.py:1885`); an orphan whose write-set changed is never looked up again;
a failed lookup followed by a creation clears the anchor that the docstring at
`design.py:1724` says is left (a test documents the limit).

Service. Exclusion across processes is not given: an empty lock file counts as
stale between its creation and the write of the token, the second of two
reclaimers removes the first one's lock, and release does not check the owner.
Without psutil a reused process id looks alive.

Audits. `supervisor_directive` is never reset: advice of one pass is honoured in
a later one whose supervisor raised. A cancelled run records nothing. A write
that was not committed, and a proposal beyond the budget, leave no issue in that
pass. A `TimeoutError` from inside an audit is reported as the ceiling. An issue
created while its audit is cancelled, or answered without an id, is raised
again by a later run.

Values. Two findings of a rule with a unique value may get the same answer of
the language model, because validation looks at existing siblings only. The
family map is fetched once per run and does not follow the renames of earlier
passes. A failed read of a room is silent: its number counts as free.

Reading. An exception other than `RevitEnvelopeError` on a type or host read
drops the leader's element, whereas `revit_query.py:740-742` calls partial data
usable; with the type or host unread, relational rules pass. Dropped elements
and a hit cap are logged but not part of the coverage. A failed space enrichment
stays in the coverage of later passes. A host primed by `find_elements` has no
`categoryEnum`, so its option values stay raw. A clipped answer for a maximum
may miss the nearest reference and report a violation that is none; the
truncation is on record. A project without spaces leaves filtered rules
unfiltered.

Verification views. A dry run replaces the run's manifest with rows of created
schedules that were rolled back (`service/routes_runs.py:243`). The filter of a
`numeric_min_conditional` rule shows elements that pass
(`verify_recipes.py:514`). The second pass no longer says that a column is
missing (`verification_views.py:295`). `created_renamed` rows are missing from
the command line's summary (`orchestrator.py:2244-2248`). A schedule that the
probe cannot list stays half-built: every later pass ends in `name_collision`
and "existing". With an addin older than v0.8.36 and a rule id that Revit
refuses in a name, every run creates one more schedule. In the create path
`not_found` is "degraded" although the schedule has just been created. The
chain of `value_in_subset` is that of the first record, whereas the set may
differ by element.

## 7. Not modelled, and the plan

* `WatchLoop`: the dead-pass counter of `watch()` (`approval_watcher.py:585-619`).
* In `FixPlan`: the texts of templates and of autofill (given values), rules
  whose remediation names another parameter than the checked one, exceptions
  that end the pass.
* Exclusion between service processes: the steps are modelled, nothing is
  claimed; a killed process that leaves its watchdog running; the page's polling
  of the audit's status.
* `run_revit`'s geometry-only shortcut, the modes check, run and demo, and the
  IFC audit axes; `AuditLoop` assumes that autonomy grants documents "auto" and
  that the ACC and Revit clients are wired.
* In the readers: the Forma reader (`agents/query.py`), grounding, 3D view
  choice, overlapping spaces, design options, display strings, unit tables, and
  cancellation in the middle of a read (the run is over then).
* LLM providers, retrieval, rule builder, report rendering, Streamlit and the
  presentation of the web UI transform data or do I/O and keep no state that
  steps race over; the service's configuration endpoints read and write files
  whole.

Every safety property that a passing run checks is a theorem. What would be
worth proving next: that with the record read again under the lock `NoReapply`
holds, and with an ownership check before each unlink `LiveHolderExcludes`; that
a record which `ProposalPublish` parks is one that `ApprovalWatcher` starts
from, so that the two proofs speak of one proposal from its creation to its
close; the dead-pass counter once it is modelled.
