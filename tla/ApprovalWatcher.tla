-------------------------- MODULE ApprovalWatcher --------------------------
(***************************************************************************)
(* Loop 2 of the approval flow (approval_watcher.py): the processes that   *)
(* poll the ACC issue of every parked proposal and, once a human has set   *)
(* it to "in_progress", write the parked fixes into the Revit model, close *)
(* the issue and keep the record <approvals_dir>/<issue_id>.json current.  *)
(* Several processes run passes over the same directory: the watch loop    *)
(* (--watch-approvals), "Apply now" of the service and of Streamlit.       *)
(*                                                                         *)
(* The code between two awaits, and between two file operations, is one    *)
(* step.  The Revit addin, ACC, the people who edit the model, the issue   *)
(* and the records, and the service's ignore / restore endpoints are the   *)
(* environment.  A fix is a write target; its values are told apart only   *)
(* by their role: "old" (captured when proposed), "new" (approved),        *)
(* "other" (a third value, set by a human) and "edited" (the value in a    *)
(* record that was changed after the approval).                            *)
(***************************************************************************)
EXTENDS Naturals, FiniteSets

CONSTANTS Appliers,      \* the processes that run passes
          Proposals,     \* the parked records, named by their ACC issue
          Fixes,         \* the write targets of one proposal
          Baseline,      \* the fixes whose old_value was captured
          Legacy,        \* records written before fingerprints existed
          NoRecord, NoLock, NoProposal,
          SlowHolders,   \* may a live applier outlast _STALE_LOCK_S?
          RenameReplaces, \* does a rename replace an existing file (POSIX)
                         \* or fail (Windows)?
          Environment,   \* what people do besides approving
          MaxCrashes     \* bound on the number of crashes

VARIABLES disk,          \* the records in approvals_dir
          ignored,       \* the records in approvals_dir/_ignored
          ignoring,      \* ignore requests between their check and rename
          restoring,     \* restore requests between their check and rename
          lock,          \* the lock file of each record
          acc,           \* status and fingerprint marker of each ACC issue
          model,         \* the value of each write target in Revit
          batchRoute,    \* does the addin serve POST /mcp/batch?
          pc,            \* where each process is in its pass
          cur,           \* the record it is working on
          snap,          \* the records it loaded and has yet to handle
          marker,        \* did the issue it fetched carry the fingerprint?
          toRead,        \* per-element preview: fixes still to be read
          reading,       \* per-element preview: the values read so far
          blind,         \* the fixes the drift check could not judge
          toWrite,       \* the fixes it is about to commit
          touched,       \* history: fixes somebody edited since it read them
          crashes,
          landed,        \* history: targets that ever held the new value
          statuses,      \* history: the statuses each issue ever had
          clobbered,     \* history: proposals of which an unjudged write
                         \* replaced a value that a human had set
          stolen         \* history: records whose lock was unlinked although
                         \* it was not stale

inbox   == <<ignoring, restoring>>
files   == <<disk, ignored, inbox, lock>>
outside == <<acc, model, batchRoute>>
memory  == <<cur, snap, marker>>
check   == <<toRead, reading, blind, toWrite, touched>>
history == <<landed, statuses, clobbered, stolen>>
vars    == <<files, outside, pc, memory, check, crashes, history>>

ModelValues == {"old", "new", "other", "edited"}
Readings    == ModelValues \cup {"unread"}
AccStatuses == {"open", "in_progress", "closed"}
Lifecycles  == {"open", "partial_pending", "applied_pending_close", "closed",
                "integrity_failed"}

\* A record: the per-fix flags `applied` and `stale`, the record's own flag
\* `applied` (here done), its issue_status, the degraded mark, and whether
\* its write-set still is the one the fingerprint was taken from.
Record == [applied : SUBSET Fixes, stale : SUBSET Fixes, done : BOOLEAN,
           life : Lifecycles, degraded : BOOLEAN, intact : BOOLEAN]

LockFile == [by : Appliers, stale : BOOLEAN]

Parked == [applied |-> {}, stale |-> {}, done |-> FALSE, life |-> "open",
           degraded |-> FALSE, intact |-> TRUE]

NoReadings == [f \in Fixes |-> "unread"]

Holding == {"locked", "refuse", "preview", "previewOne", "commit",
            "commitOne", "persist", "close", "comment", "finish", "release"}
Locking == {"lock", "steal", "recreate"}
PCs     == {"idle", "scan", "down"} \cup Locking \cup Holding

\* "edits": people edit the model, "texts": they edit the issue's description,
\* "statuses": they set its status at will, "records": a parked record is
\* edited, "inbox": proposals are ignored and restored.
EnvironmentKinds == {"edits", "texts", "statuses", "records", "inbox"}

ASSUME ConstantsAssumption ==
  /\ NoRecord \notin Record
  /\ NoLock \notin LockFile
  /\ NoProposal \notin Proposals
  /\ Fixes # {}
  /\ Baseline \subseteq Fixes
  /\ Legacy \subseteq Proposals
  /\ SlowHolders \in BOOLEAN
  /\ RenameReplaces \in BOOLEAN
  /\ Environment \subseteq EnvironmentKinds
  /\ MaxCrashes \in Nat

Init == /\ disk = [p \in Proposals |-> Parked]
        /\ ignored = [p \in Proposals |-> NoRecord]
        /\ ignoring = {}
        /\ restoring = {}
        /\ lock = [p \in Proposals |-> NoLock]
        /\ acc \in [Proposals -> [status : {"open"}, marker : BOOLEAN]]
        /\ \A p \in Proposals \ Legacy : acc[p].marker
        /\ model = [p \in Proposals |-> [f \in Fixes |-> "old"]]
        /\ batchRoute \in BOOLEAN
        /\ pc = [a \in Appliers |-> "idle"]
        /\ cur = [a \in Appliers |-> NoProposal]
        /\ snap = [a \in Appliers |-> [p \in Proposals |-> NoRecord]]
        /\ marker = [a \in Appliers |-> FALSE]
        /\ toRead = [a \in Appliers |-> {}]
        /\ reading = [a \in Appliers |-> NoReadings]
        /\ blind = [a \in Appliers |-> {}]
        /\ toWrite = [a \in Appliers |-> {}]
        /\ touched = [a \in Appliers |-> {}]
        /\ crashes = 0
        /\ landed = [p \in Proposals |-> {}]
        /\ statuses = [p \in Proposals |-> {"open"}]
        /\ clobbered = {}
        /\ stolen = {}

-----------------------------------------------------------------------------
\* Helpers.  An operator whose comment begins with "Wrong:" is not part of the
\* model: it is the definition after it with a plausible bug, and a check
\* must fail when it takes that definition's place.

Rec(a) == snap[a][cur[a]]           \* the record in the hands of applier a

\* What a write of record r puts into the model.
Target(r) == IF r.intact THEN "new" ELSE "edited"

Pending(r) == Fixes \ r.applied

\* Wrong: the record's own fingerprint is the only anchor.
VerifiedByRecord(a) == Rec(a).intact \/ cur[a] \in Legacy

\* _verify_integrity: the write-set matches the fingerprint in the issue or,
\* failing that, in the record; with neither there is nothing to verify.
Verified(a) == Rec(a).intact \/ (~marker[a] /\ cur[a] \in Legacy)

\* Applier a changes the record in its memory to r.
Hold(a, r) == snap' = [snap EXCEPT ![a][cur[a]] = r]

Goto(a, place) == pc' = [pc EXCEPT ![a] = place]

\* A step that only moves applier a from one place to another.
Jump(a, from, to) ==
  /\ pc[a] = from
  /\ Goto(a, to)
  /\ UNCHANGED <<files, outside, memory, check, crashes, history>>

\* The pass is done with record p.
Drop(a, p) == /\ snap' = [snap EXCEPT ![a][p] = NoRecord]
              /\ cur' = [cur EXCEPT ![a] = NoProposal]
              /\ marker' = [marker EXCEPT ![a] = FALSE]
              /\ Goto(a, "scan")

ForgetCheck(a) == /\ toRead' = [toRead EXCEPT ![a] = {}]
                  /\ reading' = [reading EXCEPT ![a] = NoReadings]
                  /\ blind' = [blind EXCEPT ![a] = {}]
                  /\ toWrite' = [toWrite EXCEPT ![a] = {}]
                  /\ touched' = [touched EXCEPT ![a] = {}]

\* The writes W of applier a land in the model.
Land(a, W) ==
  LET v == Target(Rec(a))
  IN /\ model' = [model EXCEPT ![cur[a]] =
                    [f \in Fixes |-> IF f \in W THEN v ELSE @[f]]]
     /\ landed' = [landed EXCEPT ![cur[a]] =
                    IF v = "new" THEN @ \cup W ELSE @]
     /\ clobbered' =
          IF \E f \in W \cap blind[a] : model[cur[a]][f] = "other"
            THEN clobbered \cup {cur[a]} ELSE clobbered

SetStatus(p, s) ==
  /\ acc' = [acc EXCEPT ![p].status = s]
  /\ statuses' = [statuses EXCEPT ![p] = @ \cup {s}]

-----------------------------------------------------------------------------
\* scan_once: load every record, then handle them one by one.

StartPass(a) ==
  /\ pc[a] = "idle"
  /\ snap' = [snap EXCEPT ![a] = disk]
  /\ Goto(a, "scan")
  /\ UNCHANGED <<files, outside, cur, marker, check, crashes, history>>

EndPass(a) ==
  /\ Jump(a, "scan", "idle")
  /\ \A p \in Proposals : snap[a][p] = NoRecord

\* The pass comes to record p.
Due(a, p) == pc[a] = "scan" /\ snap[a][p] # NoRecord

\* Wrong: an applied record is settled even if its issue is still open.
SkipApplied(a, p) ==
  /\ Due(a, p)
  /\ snap[a][p].done
  /\ Drop(a, p)
  /\ UNCHANGED <<files, outside, check, crashes, history>>

\* A record that is applied and closed needs nothing more.
SkipSettled(a, p) ==
  /\ Due(a, p)
  /\ snap[a][p].done
  /\ snap[a][p].life # "applied_pending_close"
  /\ Drop(a, p)
  /\ UNCHANGED <<files, outside, check, crashes, history>>

\* A record whose writes landed but whose issue is not closed yet: only the
\* close is retried, and ACC is not asked again.
RetryClose(a, p) ==
  /\ Due(a, p)
  /\ snap[a][p].done
  /\ snap[a][p].life = "applied_pending_close"
  /\ cur' = [cur EXCEPT ![a] = p]
  /\ Goto(a, "lock")
  /\ UNCHANGED <<files, outside, snap, marker, check, crashes, history>>

\* get_issue answers and the issue has the approve signal.
PollApproved(a, p) ==
  /\ Due(a, p)
  /\ ~snap[a][p].done
  /\ acc[p].status = "in_progress"
  /\ marker' = [marker EXCEPT ![a] = acc[p].marker]
  /\ cur' = [cur EXCEPT ![a] = p]
  /\ Goto(a, "lock")
  /\ UNCHANGED <<files, outside, snap, check, crashes, history>>

\* get_issue answers with another status.
PollPending(a, p) ==
  /\ Due(a, p)
  /\ ~snap[a][p].done
  /\ acc[p].status # "in_progress"
  /\ Drop(a, p)
  /\ UNCHANGED <<files, outside, check, crashes, history>>

\* get_issue raises: the record is skipped for this pass.
PollFails(a, p) ==
  /\ Due(a, p)
  /\ ~snap[a][p].done
  /\ Drop(a, p)
  /\ UNCHANGED <<files, outside, check, crashes, history>>

-----------------------------------------------------------------------------
\* _acquire_lock and _release_lock, one system call at a time.

NewLock(a) == [by |-> a, stale |-> FALSE]

\* Wrong: the file is opened without O_EXCL.
CreateLockShared(a) ==
  /\ pc[a] = "lock"
  /\ lock' = [lock EXCEPT ![cur[a]] = NewLock(a)]
  /\ Goto(a, "locked")
  /\ UNCHANGED <<disk, ignored, inbox, outside, memory, check, crashes,
                 history>>

CreateLock(a) ==
  /\ pc[a] = "lock"
  /\ lock[cur[a]] = NoLock
  /\ lock' = [lock EXCEPT ![cur[a]] = NewLock(a)]
  /\ Goto(a, "locked")
  /\ UNCHANGED <<disk, ignored, inbox, outside, memory, check, crashes,
                 history>>

\* A lock file younger than _STALE_LOCK_S: another applier holds the record.
LockHeld(a) ==
  /\ pc[a] = "lock"
  /\ lock[cur[a]] # NoLock
  /\ ~lock[cur[a]].stale
  /\ Drop(a, cur[a])
  /\ UNCHANGED <<files, outside, check, crashes, history>>

SeeStaleLock(a) ==
  /\ Jump(a, "lock", "steal")
  /\ lock[cur[a]] # NoLock
  /\ lock[cur[a]].stale

\* unlink removes whatever file is there by now.
UnlinkStaleLock(a) ==
  /\ pc[a] = "steal"
  /\ lock[cur[a]] # NoLock
  /\ lock' = [lock EXCEPT ![cur[a]] = NoLock]
  /\ stolen' = IF lock[cur[a]].stale THEN stolen ELSE stolen \cup {cur[a]}
  /\ Goto(a, "recreate")
  /\ UNCHANGED <<disk, ignored, inbox, outside, memory, check, crashes, landed,
                 statuses, clobbered>>

\* No file is there by now, or it is held open: an OSError, the applier gives
\* up.
UnlinkFails(a) ==
  /\ pc[a] = "steal"
  /\ Drop(a, cur[a])
  /\ UNCHANGED <<files, outside, check, crashes, history>>

RecreateLock(a) ==
  /\ pc[a] = "recreate"
  /\ \/ /\ lock[cur[a]] = NoLock
        /\ lock' = [lock EXCEPT ![cur[a]] = NewLock(a)]
        /\ Goto(a, "locked")
        /\ UNCHANGED memory
     \/ /\ lock[cur[a]] # NoLock
        /\ Drop(a, cur[a])
        /\ UNCHANGED lock
  /\ UNCHANGED <<disk, ignored, inbox, outside, check, crashes, history>>

\* _release_lock: the file is unlinked, whoever created it.
Release(a) ==
  /\ pc[a] = "release"
  /\ lock' = [lock EXCEPT ![cur[a]] = NoLock]
  /\ Drop(a, cur[a])
  /\ ForgetCheck(a)
  /\ UNCHANGED <<disk, ignored, inbox, outside, crashes, history>>

\* The unlink raises, which is swallowed: the file stays until it is stale.
ReleaseFails(a) ==
  /\ pc[a] = "release"
  /\ Drop(a, cur[a])
  /\ ForgetCheck(a)
  /\ UNCHANGED <<files, outside, crashes, history>>

-----------------------------------------------------------------------------
\* _apply up to the first await: the integrity gate, then the fixes that are
\* not applied yet.  A close retry goes straight to _close_issue.

BeginClose(a) ==
  /\ Jump(a, "locked", "close")
  /\ Rec(a).done

RefuseApply(a) ==
  /\ pc[a] = "locked"
  /\ ~Rec(a).done
  /\ ~Verified(a)
  /\ Hold(a, [Rec(a) EXCEPT !.life = "integrity_failed"])
  /\ Goto(a, "refuse")
  /\ UNCHANGED <<files, outside, cur, marker, check, crashes, history>>

BeginApply(a) ==
  /\ pc[a] = "locked"
  /\ ~Rec(a).done
  /\ Verified(a)
  /\ toRead' = [toRead EXCEPT ![a] = Pending(Rec(a))]
  /\ Goto(a, "preview")
  /\ UNCHANGED <<files, outside, memory, reading, blind, toWrite, touched,
                 crashes, history>>

-----------------------------------------------------------------------------
\* _reprove_stale: read the live value of every pending fix.

\* _classify_stale on readings rd of record r's pending fixes.  A fix that
\* cannot be judged, for want of a reading or of a baseline, is kept for the
\* write.
Unjudged(r, rd)  == {f \in Pending(r) : rd[f] = "unread" \/ f \notin Baseline}
Judged(r, rd)    == Pending(r) \ Unjudged(r, rd)
Unmoved(r, rd)   == {f \in Judged(r, rd) : rd[f] = "old"}
Satisfied(r, rd) == {f \in Judged(r, rd) : rd[f] = Target(r)}
Drifted(r, rd)   == {f \in Judged(r, rd) : rd[f] \notin {"old", Target(r)}}
\* Wrong: a fix that drifted is written all the same.
KeptDrifted(r, rd) == Unjudged(r, rd) \cup Unmoved(r, rd) \cup Drifted(r, rd)
Kept(r, rd)      == Unjudged(r, rd) \cup Unmoved(r, rd)

Classify(a, rd) ==
  LET r == Rec(a)
  IN /\ Hold(a, [r EXCEPT !.applied = @ \cup Satisfied(r, rd),
                          !.stale = (@ \ Pending(r)) \cup Drifted(r, rd)])
     /\ toWrite' = [toWrite EXCEPT ![a] = Kept(r, rd)]
     /\ blind' = [blind EXCEPT ![a] = Unjudged(r, rd)]
     /\ toRead' = [toRead EXCEPT ![a] = {}]
     /\ reading' = [reading EXCEPT ![a] = NoReadings]
     /\ Goto(a, IF Kept(r, rd) = {} THEN "persist" ELSE "commit")

\* One dry-run batch; a step without `changes` is not a reading.
PreviewBatch(a) ==
  /\ pc[a] = "preview"
  /\ batchRoute
  /\ \E measured \in SUBSET toRead[a] :
       Classify(a, [f \in Fixes |-> IF f \in measured THEN model[cur[a]][f]
                                                      ELSE "unread"])
  /\ UNCHANGED <<files, outside, cur, marker, touched, crashes, history>>

\* No batch route, an error envelope or no results: element by element.
PreviewFallback(a) == Jump(a, "preview", "previewOne")

\* The answer to the batch is lost or late: not a RevitEnvelopeError, so it
\* ends the apply.
PreviewLost(a) == Jump(a, "preview", "release")

\* One reading of the per-element preview; the last one is followed by the
\* classification.
PreviewOne(a, f) ==
  /\ pc[a] = "previewOne"
  /\ f \in toRead[a]
  /\ \E v \in {model[cur[a]][f], "unread"} :
       LET rd == [reading[a] EXCEPT ![f] = v]
       IN IF toRead[a] = {f}
            THEN Classify(a, rd)
            ELSE /\ reading' = [reading EXCEPT ![a] = rd]
                 /\ toRead' = [toRead EXCEPT ![a] = @ \ {f}]
                 /\ UNCHANGED <<pc, snap, blind, toWrite>>
  /\ UNCHANGED <<files, outside, cur, marker, touched, crashes, history>>

\* Any exception of a per-element preview: the check fails open, every
\* pending fix is written unjudged, its flags untouched.
PreviewUnavailable(a) ==
  /\ pc[a] = "previewOne"
  /\ toWrite' = [toWrite EXCEPT ![a] = Pending(Rec(a))]
  /\ blind' = [blind EXCEPT ![a] = Pending(Rec(a))]
  /\ toRead' = [toRead EXCEPT ![a] = {}]
  /\ reading' = [reading EXCEPT ![a] = NoReadings]
  /\ Goto(a, "commit")
  /\ UNCHANGED <<files, outside, memory, touched, crashes, history>>

-----------------------------------------------------------------------------
\* _commit_writes: one live batch, or one write per fix on an older addin.

\* What a live batch may answer: committed is true, false or absent; a step
\* is reported ok, reported failed, or not reported (short or no results).
Envelopes(W) == [committed : {"yes", "no", "silent"},
                 results : [W -> {"ok", "error", "missing"}]]

\* The addin reports truthfully which writes L of W landed: a batch that was
\* not committed left nothing behind, a step reported ok in any other batch
\* landed, a step reported failed did not.
Honest(env, W, L) ==
  /\ env.committed = "no" => L = {}
  /\ \A f \in W :
       /\ env.results[f] = "error" => f \notin L
       /\ env.results[f] = "ok" /\ env.committed # "no" => f \in L

\* Wrong: a step that nobody confirmed counts as a step that succeeded.
ConfirmedBySilence(env, W) == IF env.committed = "no" THEN {}
                              ELSE {f \in W : env.results[f] # "error"}

\* batch_commit_outcomes: the steps W that the envelope confirms.
Confirmed(env, W) == IF env.committed = "no" THEN {}
                     ELSE {f \in W : env.results[f] = "ok"}

CommitBatch(a) ==
  /\ pc[a] = "commit"
  /\ batchRoute
  /\ \E env \in Envelopes(toWrite[a]), L \in SUBSET toWrite[a] :
       /\ Honest(env, toWrite[a], L)
       /\ Land(a, L)
       /\ Hold(a, [Rec(a) EXCEPT !.applied =
                                   @ \cup Confirmed(env, toWrite[a])])
  /\ toWrite' = [toWrite EXCEPT ![a] = {}]
  /\ touched' = [touched EXCEPT ![a] = {}]
  /\ Goto(a, "persist")
  /\ UNCHANGED <<files, acc, batchRoute, cur, marker, toRead, reading, blind,
                 crashes, statuses, stolen>>

\* An error envelope other than unknown_command: nothing landed, the apply
\* ends and what it learnt in memory is lost.
CommitRejected(a) ==
  /\ Jump(a, "commit", "release")
  /\ batchRoute

\* The answer is lost or late: any of the writes may have landed.
CommitLost(a) ==
  /\ pc[a] = "commit"
  /\ batchRoute
  /\ \E L \in SUBSET toWrite[a] : Land(a, L)
  /\ Goto(a, "release")
  /\ UNCHANGED <<files, acc, batchRoute, memory, check, crashes, statuses,
                 stolen>>

\* unknown_command: write element by element.
CommitFallback(a) ==
  /\ Jump(a, "commit", "commitOne")
  /\ ~batchRoute

\* f is dealt with; after the last fix the outcome is persisted.
NextWrite(a, f) ==
  /\ toWrite' = [toWrite EXCEPT ![a] = @ \ {f}]
  /\ touched' = [touched EXCEPT ![a] = @ \ {f}]
  /\ Goto(a, IF toWrite[a] = {f} THEN "persist" ELSE "commitOne")
  /\ UNCHANGED <<toRead, reading, blind>>

CommitOne(a, f) ==
  /\ pc[a] = "commitOne"
  /\ f \in toWrite[a]
  /\ Land(a, {f})
  /\ Hold(a, [Rec(a) EXCEPT !.applied = @ \cup {f}])
  /\ NextWrite(a, f)
  /\ UNCHANGED <<files, acc, batchRoute, cur, marker, crashes, statuses,
                 stolen>>

\* An error envelope for one write: the others go on.
CommitOneRejected(a, f) ==
  /\ pc[a] = "commitOne"
  /\ f \in toWrite[a]
  /\ NextWrite(a, f)
  /\ UNCHANGED <<files, outside, memory, crashes, history>>

\* A lost answer: the write may have landed, the apply ends.
CommitOneLost(a, f) ==
  /\ pc[a] = "commitOne"
  /\ f \in toWrite[a]
  /\ \E L \in SUBSET {f} : Land(a, L)
  /\ Goto(a, "release")
  /\ UNCHANGED <<files, acc, batchRoute, memory, check, crashes, statuses,
                 stolen>>

-----------------------------------------------------------------------------
\* _apply after the writes: the outcome, and only now that some fix could not
\* be judged, is on disk before the issue closes.

\* Wrong: the fixes held back as stale count as dealt with.
OutcomeCountsStale(r, unjudged) ==
  LET all == r.applied \cup r.stale = Fixes
  IN [r EXCEPT !.degraded = @ \/ unjudged # {},
               !.done = all,
               !.life = IF all THEN "applied_pending_close"
                               ELSE "partial_pending"]

Outcome(r, unjudged) ==
  LET all == r.applied = Fixes
  IN [r EXCEPT !.degraded = @ \/ unjudged # {},
               !.done = all,
               !.life = IF all THEN "applied_pending_close"
                               ELSE "partial_pending"]

\* write_record: atomic, and it creates the file if it is no longer there.
Save(a, r) == /\ Hold(a, r)
              /\ disk' = [disk EXCEPT ![cur[a]] = r]
              /\ UNCHANGED <<ignored, inbox, lock>>

Persist(a) ==
  /\ pc[a] = "persist"
  /\ LET r == Outcome(Rec(a), blind[a])
     IN /\ Save(a, r)
        /\ Goto(a, IF r.done THEN "close" ELSE "release")
  /\ UNCHANGED <<outside, cur, marker, check, crashes, history>>

PersistRefusal(a) ==
  /\ pc[a] = "refuse"
  /\ Save(a, Rec(a))
  /\ Goto(a, "release")
  /\ UNCHANGED <<outside, cur, marker, check, crashes, history>>

\* write_record raises: the old record stays, the pass goes on.
SaveFails(a) ==
  \E place \in {"persist", "refuse", "finish"} : Jump(a, place, "release")

\* _close_issue: close, comment, and only then call the record closed.  The
\* dry run that fetches the approval token changes nothing and is part of
\* the call.
CloseIssue(a) ==
  /\ pc[a] = "close"
  /\ SetStatus(cur[a], "closed")
  /\ Goto(a, "comment")
  /\ UNCHANGED <<files, model, batchRoute, memory, check, crashes, landed,
                 clobbered, stolen>>

\* update_issue raises, with or without having closed the issue.
CloseFails(a) ==
  /\ pc[a] = "close"
  /\ \/ SetStatus(cur[a], "closed")
     \/ UNCHANGED <<acc, statuses>>
  /\ Goto(a, "release")
  /\ UNCHANGED <<files, model, batchRoute, memory, check, crashes, landed,
                 clobbered, stolen>>

Comment(a) == Jump(a, "comment", "finish")

CommentFails(a) == Jump(a, "comment", "release")

FinishClose(a) ==
  /\ pc[a] = "finish"
  /\ Save(a, [Rec(a) EXCEPT !.life = "closed"])
  /\ Goto(a, "release")
  /\ UNCHANGED <<outside, cur, marker, check, crashes, history>>

-----------------------------------------------------------------------------
\* The process dies: its memory is gone, its lock file stays.

Crash(a) ==
  /\ pc[a] # "down"
  /\ crashes < MaxCrashes
  /\ crashes' = crashes + 1
  /\ Goto(a, "down")
  /\ cur' = [cur EXCEPT ![a] = NoProposal]
  /\ snap' = [snap EXCEPT ![a] = [p \in Proposals |-> NoRecord]]
  /\ marker' = [marker EXCEPT ![a] = FALSE]
  /\ ForgetCheck(a)
  /\ UNCHANGED <<files, outside, history>>

Restart(a) == Jump(a, "down", "idle")

\* _STALE_LOCK_S seconds pass over a lock file.
LockAges(p) ==
  /\ lock[p] # NoLock
  /\ ~lock[p].stale
  /\ LET a == lock[p].by
     IN SlowHolders \/ cur[a] # p \/ pc[a] \notin Holding
  /\ lock' = [lock EXCEPT ![p].stale = TRUE]
  /\ UNCHANGED <<disk, ignored, inbox, outside, pc, memory, check, crashes,
                 history>>

-----------------------------------------------------------------------------
\* The people around the program, and the inbox of the service.

Approve(p) ==
  /\ acc[p].status = "open"
  /\ SetStatus(p, "in_progress")
  /\ UNCHANGED <<files, model, batchRoute, pc, memory, check, crashes, landed,
                 clobbered, stolen>>

HumanSetsStatus(p) ==
  /\ "statuses" \in Environment
  /\ \E s \in AccStatuses : SetStatus(p, s)
  /\ UNCHANGED <<files, model, batchRoute, pc, memory, check, crashes, landed,
                 clobbered, stolen>>

StripMarker(p) ==
  /\ "texts" \in Environment
  /\ acc[p].marker
  /\ acc' = [acc EXCEPT ![p].marker = FALSE]
  /\ UNCHANGED <<files, model, batchRoute, pc, memory, check, crashes,
                 history>>

\* The apply of a has read the value of fix f of p and may yet write it.
HasRead(a, p, f) ==
  /\ cur[a] = p
  /\ pc[a] \in {"previewOne", "commit", "commitOne"}
  /\ f \notin toRead[a]

HumanEdits(p, f) ==
  /\ "edits" \in Environment
  /\ \E v \in {"old", "new", "other"} :
       /\ model' = [model EXCEPT ![p][f] = v]
       /\ landed' = [landed EXCEPT ![p] = IF v = "new" THEN @ \cup {f} ELSE @]
  /\ touched' = [a \in Appliers |-> IF HasRead(a, p, f)
                                     THEN touched[a] \cup {f}
                                     ELSE touched[a]]
  /\ UNCHANGED <<files, acc, batchRoute, pc, memory, toRead, reading, blind,
                 toWrite, crashes, statuses, clobbered, stolen>>

\* The write-set of a parked record is changed on disk.
RecordEdited(p) ==
  /\ "records" \in Environment
  /\ disk[p] # NoRecord
  /\ disk[p].intact
  /\ disk' = [disk EXCEPT ![p].intact = FALSE]
  /\ UNCHANGED <<ignored, inbox, lock, outside, pc, memory, check, crashes,
                 history>>

\* POST /approvals/{file}/ignore: 409 for an applied record, else the file is
\* moved to _ignored.  The check reads the file, the rename moves whatever is
\* there by then; onto a file that exists it replaces it or fails.
IgnoreChecked(p) ==
  /\ "inbox" \in Environment
  /\ p \notin ignoring
  /\ disk[p] # NoRecord
  /\ ~disk[p].done
  /\ ignoring' = ignoring \cup {p}
  /\ UNCHANGED <<disk, ignored, restoring, lock, outside, pc, memory, check,
                 crashes, history>>

\* Wrong: the file is removed though the move failed.
IgnoreLost(p) ==
  /\ p \in ignoring
  /\ ignoring' = ignoring \ {p}
  /\ disk' = [disk EXCEPT ![p] = NoRecord]
  /\ UNCHANGED <<ignored, restoring, lock, outside, pc, memory, check, crashes,
                 history>>

CanMove(from, to) == from # NoRecord /\ (to = NoRecord \/ RenameReplaces)

IgnoreMoved(p) ==
  /\ p \in ignoring
  /\ ignoring' = ignoring \ {p}
  /\ \/ /\ CanMove(disk[p], ignored[p])
        /\ ignored' = [ignored EXCEPT ![p] = disk[p]]
        /\ disk' = [disk EXCEPT ![p] = NoRecord]
     \/ UNCHANGED <<disk, ignored>>
  /\ UNCHANGED <<restoring, lock, outside, pc, memory, check, crashes,
                 history>>

\* POST /approvals/{file}/restore: 409 when a record of that name is back.
RestoreChecked(p) ==
  /\ "inbox" \in Environment
  /\ p \notin restoring
  /\ ignored[p] # NoRecord
  /\ disk[p] = NoRecord
  /\ restoring' = restoring \cup {p}
  /\ UNCHANGED <<disk, ignored, ignoring, lock, outside, pc, memory, check,
                 crashes, history>>

\* Wrong: the move replaces a record that came back after the check.
RestoreReplaces(p) ==
  /\ p \in restoring
  /\ restoring' = restoring \ {p}
  /\ ignored[p] # NoRecord
  /\ disk' = [disk EXCEPT ![p] = ignored[p]]
  /\ ignored' = [ignored EXCEPT ![p] = NoRecord]
  /\ UNCHANGED <<ignoring, lock, outside, pc, memory, check, crashes, history>>

RestoreMoved(p) ==
  /\ p \in restoring
  /\ restoring' = restoring \ {p}
  /\ \/ /\ CanMove(ignored[p], disk[p])
        /\ disk' = [disk EXCEPT ![p] = ignored[p]]
        /\ ignored' = [ignored EXCEPT ![p] = NoRecord]
     \/ UNCHANGED <<disk, ignored>>
  /\ UNCHANGED <<ignoring, lock, outside, pc, memory, check, crashes, history>>

-----------------------------------------------------------------------------

ScanStep(a) == \/ StartPass(a) \/ EndPass(a)
               \/ \E p \in Proposals : \/ SkipSettled(a, p)
                                       \/ RetryClose(a, p)
                                       \/ PollApproved(a, p)
                                       \/ PollPending(a, p)
                                       \/ PollFails(a, p)

LockStep(a) == \/ CreateLock(a) \/ LockHeld(a) \/ SeeStaleLock(a)
               \/ UnlinkStaleLock(a) \/ UnlinkFails(a)
               \/ RecreateLock(a) \/ Release(a) \/ ReleaseFails(a)

PreviewStep(a) == \/ BeginClose(a) \/ RefuseApply(a) \/ BeginApply(a)
                  \/ PreviewBatch(a) \/ PreviewFallback(a) \/ PreviewLost(a)
                  \/ \E f \in Fixes : PreviewOne(a, f)
                  \/ PreviewUnavailable(a)

CommitStep(a) == \/ CommitBatch(a) \/ CommitRejected(a) \/ CommitLost(a)
                 \/ CommitFallback(a)
                 \/ \E f \in Fixes : \/ CommitOne(a, f)
                                     \/ CommitOneRejected(a, f)
                                     \/ CommitOneLost(a, f)

SettleStep(a) == \/ Persist(a) \/ PersistRefusal(a) \/ SaveFails(a)
                 \/ CloseIssue(a) \/ CloseFails(a)
                 \/ Comment(a) \/ CommentFails(a) \/ FinishClose(a)

WorkStep(a) == \/ ScanStep(a) \/ LockStep(a) \/ PreviewStep(a)
               \/ CommitStep(a) \/ SettleStep(a)

ApplierStep(a) == WorkStep(a) \/ Crash(a) \/ Restart(a)

EnvironmentStep(p) == \/ Approve(p) \/ HumanSetsStatus(p) \/ StripMarker(p)
                      \/ \E f \in Fixes : HumanEdits(p, f)
                      \/ RecordEdited(p)
                      \/ IgnoreChecked(p) \/ IgnoreMoved(p)
                      \/ RestoreChecked(p) \/ RestoreMoved(p)
                      \/ LockAges(p)

Next == \/ \E a \in Appliers : ApplierStep(a)
        \/ \E p \in Proposals : EnvironmentStep(p)

Spec == Init /\ [][Next]_vars

\* A call that fails, is rejected, lost or answered in part, a record that
\* cannot be written or a lock file that cannot be removed.
Fault(a) ==
  \/ \E p \in Proposals : PollFails(a, p)
  \/ PreviewLost(a) \/ CommitRejected(a) \/ CommitLost(a)
  \/ CommitBatch(a) /\ ~(toWrite[a] \subseteq snap'[a][cur[a]].applied)
  \/ \E f \in Fixes : CommitOneRejected(a, f) \/ CommitOneLost(a, f)
  \/ SaveFails(a) \/ CloseFails(a) \/ CommentFails(a)
  \/ UnlinkFails(a) /\ lock[cur[a]] # NoLock
  \/ ReleaseFails(a)

\* What the deployment promises: the watch loop never stops polling, a dead
\* process is started again, time passes over lock files, and outages end.
FairSpec ==
  /\ Spec
  /\ \A a \in Appliers : WF_vars(WorkStep(a) \/ Restart(a))
  /\ \A p \in Proposals : WF_vars(LockAges(p))
  /\ <>[][\A a \in Appliers : ~Fault(a)]_vars

-----------------------------------------------------------------------------
\* Properties.

\* The records, the lock files and the memory of the processes have the shape
\* the code gives them; a process that holds a lock works on a record.
TypeOK ==
  /\ disk \in [Proposals -> Record \cup {NoRecord}]
  /\ ignored \in [Proposals -> Record \cup {NoRecord}]
  /\ ignoring \in SUBSET Proposals
  /\ restoring \in SUBSET Proposals
  /\ lock \in [Proposals -> LockFile \cup {NoLock}]
  /\ acc \in [Proposals -> [status : AccStatuses, marker : BOOLEAN]]
  /\ model \in [Proposals -> [Fixes -> ModelValues]]
  /\ batchRoute \in BOOLEAN
  /\ pc \in [Appliers -> PCs]
  /\ cur \in [Appliers -> Proposals \cup {NoProposal}]
  /\ snap \in [Appliers -> [Proposals -> Record \cup {NoRecord}]]
  /\ marker \in [Appliers -> BOOLEAN]
  /\ toRead \in [Appliers -> SUBSET Fixes]
  /\ reading \in [Appliers -> [Fixes -> Readings]]
  /\ blind \in [Appliers -> SUBSET Fixes]
  /\ toWrite \in [Appliers -> SUBSET Fixes]
  /\ touched \in [Appliers -> SUBSET Fixes]
  /\ crashes \in 0..MaxCrashes
  /\ landed \in [Proposals -> SUBSET Fixes]
  /\ statuses \in [Proposals -> SUBSET AccStatuses]
  /\ clobbered \in SUBSET Proposals
  /\ stolen \in SUBSET Proposals
  /\ \A a \in Appliers :
       IF pc[a] \in Holding \cup Locking
         THEN cur[a] \in Proposals /\ Rec(a) \in Record
         ELSE cur[a] = NoProposal

\* A proposal whose write-set can be checked against what was approved.
Gated(p) == p \notin Legacy \/ acc[p].marker

\* A fix the record marks applied did reach the model: no crash, lost answer,
\* partial batch or silent envelope makes the record claim a write that never
\* landed.
AppliedImpliesLanded ==
  \A p \in Proposals :
    disk[p] # NoRecord /\ Gated(p) => disk[p].applied \subseteq landed[p]

\* An applier closes an ACC issue, the coordinator's queue, only when every
\* approved value has been in the model.
CloseJustified ==
  \A a \in Appliers :
    pc[a] \in {"close", "comment", "finish"} /\ Gated(cur[a])
      => landed[cur[a]] = Fixes

\* A record says closed only of an issue that was closed on ACC, and says
\* applied only of a proposal that a human approved.
RecordTellsTruth ==
  \A p \in Proposals : disk[p] # NoRecord =>
    /\ disk[p].life = "closed" => "closed" \in statuses[p]
    /\ disk[p].done => "in_progress" \in statuses[p]

\* What a record says of the model and of its issue is true.
RecordsAreTrue == AppliedImpliesLanded /\ RecordTellsTruth

\* A value that was put into a record after the approval never reaches the
\* model, unless the record predates fingerprints and its issue lost the
\* marker.
IntegrityGate ==
  \A p \in Proposals, f \in Fixes : model[p][f] = "edited" => ~Gated(p)

\* An approved proposal is written, closed and recorded as closed in the end,
\* through crashes, orphaned locks, partial batches and lost answers.
EventuallySettled ==
  \A p \in Proposals :
    acc[p].status = "in_progress"
      ~> disk[p] # NoRecord /\ disk[p].life = "closed"

\* Two processes never work on the same record at once, through crashes, lock
\* files that could not be removed and stale ones that are taken over: as long
\* as no applier has unlinked a lock that had become somebody else's since it
\* was judged stale.
OneApplierPerRecord ==
  \A a, b \in Appliers :
    pc[a] \in Holding /\ pc[b] \in Holding /\ cur[a] = cur[b]
      => a = b \/ cur[a] \in stolen

\* Not so in the code: _acquire_lock hands out no lock while "another (live)
\* applier already holds it".
LiveHolderExcludes ==
  \A a, b \in Appliers :
    pc[a] \in Holding /\ pc[b] \in Holding /\ cur[a] = cur[b] => a = b

\* Not so in the code: two processes "can't double-apply"; an applier about to
\* write has nothing on its list that the record on disk marks applied.
NoReapply ==
  \A a \in Appliers :
    pc[a] \in {"commit", "commitOne"} /\ disk[cur[a]] # NoRecord
      => toWrite[a] \cap disk[cur[a]].applied = {}

\* What the record of a proposal, parked or ignored, knows to be applied is
\* never forgotten, whatever is ignored and restored while it is applied.
KnownApplied(p) == UNION {r.applied : r \in {disk[p], ignored[p]} \ {NoRecord}}

AppliedNeverForgotten ==
  [][\A p \in Proposals : KnownApplied(p) \subseteq KnownApplied(p)']_vars

\* Parking, ignoring, restoring and applying in any order never lose the only
\* record of a proposal.
RecordNeverLost ==
  \A p \in Proposals : disk[p] # NoRecord \/ ignored[p] # NoRecord

\* This step of applier a replaces a value that a human set.
Overwrites(a, f) == /\ pc[a] \in {"commit", "commitOne"}
                    /\ <<pc'[a], toWrite'[a]>> # <<pc[a], toWrite[a]>>
                    /\ model[cur[a]][f] = "other"
                    /\ model'[cur[a]][f] # "other"

\* A value that a human set is overwritten only when the drift check of this
\* pass could not judge the fix, or when it was set after the check had read
\* the fix, a window that no check closes.
NeverClobber ==
  [][\A a \in Appliers, f \in Fixes :
       Overwrites(a, f) => f \in blind[a] \/ f \in touched[a]]_vars

\* Not so in the code: of a check that could not be made "a human knows", as
\* the record of an applied proposal says so, if a human's value was at stake.
SkippedCheckIsTold ==
  \A p \in clobbered : disk[p] # NoRecord /\ disk[p].done => disk[p].degraded

=============================================================================
