-------------------------- MODULE ProposalPublish --------------------------
(***************************************************************************)
(* The publishing side of the approval flow: how the design agent of an    *)
(* audit run parks the fixes it may not write on its own                   *)
(* (DesignAgent._create_proposal_issue in agents/design.py), next to the   *)
(* watcher that applies what was approved and the people who decide.       *)
(*                                                                         *)
(* A proposal is an ACC issue whose body carries the fingerprint of its    *)
(* write-set, and a record on disk; the anchor file <fingerprint>.creating *)
(* covers the time between the two.  The module follows one rule, whose    *)
(* write-set is the set of fixes still needed when the run looked at the   *)
(* model, and so changes when some of them are applied, made by hand or    *)
(* undone; the set itself stands for its fingerprint.  One audit runs at a *)
(* time.  The watcher is reduced to what it does to records, issues and    *)
(* the model, one record at a time; ApprovalWatcher has the rest.          *)
(***************************************************************************)
EXTENDS Naturals

CONSTANTS Fixes,        \* the write targets the rule is about
          MaxIssues,    \* bound on the number of issues on ACC
          MaxFaults,    \* bound on crashes, calls that go wrong, edits of
                        \* the model and reopened issues, taken together
          NoIssue, NoRecord

VARIABLES acc,          \* the issues on ACC
          disk,         \* the records in approvals_dir
          anchor,       \* the write-sets with a .creating file
          needed,       \* the fixes the model still needs
          pc,           \* where the audit run is
          want,         \* the write-set it is proposing
          memo,         \* _proposed_fingerprints of the run
          cur,          \* the issue it found or created
          reply,        \* the status ACC answered for it
          copy,         \* the record it is about to stamp
          anchored,     \* was the anchor file written?
          wpc,          \* where the watcher is
          wcur, wrec,   \* the issue it works on, its copy of the record
          faults,       \* how many there were
          forsaken,     \* history: issues a failed scan or lookup missed
          byHand        \* history: issues people closed

world   == <<acc, needed>>
files   == <<disk, anchor>>
call    == <<cur, reply, copy, anchored>>
run     == <<pc, want, memo, call>>
watcher == <<wpc, wcur, wrec>>
history == <<forsaken, byHand>>
vars    == <<world, faults, files, run, watcher, history>>

WriteSets == (SUBSET Fixes) \ {{}}
Issues    == 1 .. MaxIssues
Statuses  == {"open", "in_progress", "closed"}

Issue == [fp : WriteSets, status : Statuses]

Record == [fp : WriteSets, done : SUBSET Fixes, applied : BOOLEAN,
           status : {"pending_approval", "partial", "applied", "declined"},
           life : Statuses \cup {"partial_pending", "applied_pending_close"}]

PCs == {"idle", "query", "propose", "ask", "judge", "stamp", "lookup",
        "adopt", "adopted", "drop", "subtype", "anchor", "create", "record",
        "clear", "route"}
WatcherPCs == {"idle", "poll", "write", "persist", "close", "finish"}

ASSUME ConstantsAssumption ==
  /\ Fixes # {}
  /\ MaxIssues \in Nat \ {0}
  /\ MaxFaults \in Nat
  /\ NoIssue \notin Issue
  /\ NoRecord \notin Record

\* A record as _create_proposal_issue and _adopt_orphan_proposal write it.
Proposal(fp, status) ==
  [fp |-> fp, done |-> {}, applied |-> FALSE, status |-> "pending_approval",
   life |-> status]

Init == /\ acc = [i \in Issues |-> NoIssue]
        /\ disk = [i \in Issues |-> NoRecord]
        /\ anchor = {}
        /\ needed = Fixes
        /\ pc = "idle"
        /\ want = {}
        /\ memo = {}
        /\ cur = 1
        /\ reply = "open"
        /\ copy = NoRecord
        /\ anchored = FALSE
        /\ wpc = "idle"
        /\ wcur = 1
        /\ wrec = NoRecord
        /\ faults = 0
        /\ forsaken = {}
        /\ byHand = {}

-----------------------------------------------------------------------------
\* Helpers.

Raised   == {i \in Issues : acc[i] # NoIssue}
Recorded == {i \in Issues : disk[i] # NoRecord}

\* The issues that carry the marker of a write-set.
Marked(fp) == {i \in Raised : acc[i].fp = fp}

\* Their number is bounded; a new one gets the next id.
IsNext(i) == /\ i \in Issues \ Raised
             /\ \A j \in Issues \ Raised : i <= j

\* _find_parked_duplicate: the records of this write-set not yet applied.
ParkedFor(fp) == {i \in Recorded : disk[i].fp = fp /\ ~disk[i].applied}

Orphans(fp) == Marked(fp) \ Recorded

Fault == faults < MaxFaults /\ faults' = faults + 1

\* Every step of the run is at one place, and leaves the watcher alone.
At(p)      == pc = p /\ UNCHANGED watcher
Goto(p)    == pc' = p /\ UNCHANGED <<want, memo>>
Forsake(S) == forsaken' = forsaken \cup S

\* The locals of _create_proposal_issue are gone when it returns.
Forget == cur' = 1 /\ reply' = "open" /\ copy' = NoRecord /\ anchored' = FALSE

\* It returns with the write-set in the memo, or without; the run ends.
Remember    == memo' = memo \cup {want} /\ UNCHANGED want
Proposed    == pc' = "route" /\ Remember /\ Forget
NotProposed == Goto("route") /\ Forget
Ended       == pc' = "idle" /\ want' = {} /\ memo' = {} /\ Forget

-----------------------------------------------------------------------------
\* One iteration of the run up to _create_proposal_issue.

StartRun == /\ At("idle")
            /\ Goto("query")
            /\ UNCHANGED <<world, faults, files, call, history>>

\* query and QC read the model; with nothing to propose the run is over.
Query == /\ At("query")
         /\ IF needed = {}
              THEN Ended
              ELSE /\ pc' = "propose"
                   /\ want' = needed
                   /\ UNCHANGED <<memo, call>>
         /\ UNCHANGED <<world, faults, files, history>>

\* route_node: another iteration while other findings change, else the end.
Iterate == /\ At("route")
           /\ Goto("query")
           /\ UNCHANGED <<world, faults, files, call, history>>

EndRun == /\ At("route")
          /\ Ended
          /\ UNCHANGED <<world, faults, files, history>>

\* The memo: already proposed in this run.
SkipRepeated == /\ At("propose")
                /\ want \in memo
                /\ Proposed
                /\ UNCHANGED <<world, faults, files, history>>

FindParked == /\ At("propose")
              /\ want \notin memo
              /\ cur' \in ParkedFor(want)
              /\ Goto("ask")
              /\ UNCHANGED <<world, faults, files, reply, copy, anchored,
                             history>>

\* Wrong: only the memo is asked, the records are not scanned.
FindNoParkedUnscanned ==
  /\ At("propose")
  /\ want \notin memo
  /\ Goto(IF want \in anchor THEN "lookup" ELSE "subtype")
  /\ UNCHANGED <<world, faults, files, call, history>>

\* With an anchor ACC is asked for the issue, without one it is not.
FindNoParked == /\ At("propose")
                /\ want \notin memo
                /\ ParkedFor(want) = {}
                /\ Goto(IF want \in anchor THEN "lookup" ELSE "subtype")
                /\ UNCHANGED <<world, faults, files, call, history>>

\* A scan that fails counts as one that found nothing.
ScanFails == /\ At("propose")
             /\ want \notin memo
             /\ Fault
             /\ Forsake(ParkedFor(want))
             /\ Goto(IF want \in anchor THEN "lookup" ELSE "subtype")
             /\ UNCHANGED <<world, files, call, byHand>>

-----------------------------------------------------------------------------
\* A parked duplicate: _parked_issue_disposition.

AskParked == /\ At("ask")
             /\ reply' = acc[cur].status
             /\ Goto("judge")
             /\ UNCHANGED <<world, faults, files, cur, copy, anchored,
                            history>>

AskFails == /\ At("ask")
            /\ Fault
            /\ Proposed
            /\ UNCHANGED <<world, files, history>>

\* Nobody has closed it, or the record says so already.
StillParked == /\ At("judge")
               /\ reply # "closed" \/ disk[cur].status = "declined"
               /\ Proposed
               /\ UNCHANGED <<world, faults, files, history>>

\* The issue is closed: the record is read again ...
ReadParked == /\ At("judge")
              /\ reply = "closed" /\ disk[cur].status # "declined"
              /\ copy' = disk[cur]
              /\ Goto("stamp")
              /\ UNCHANGED <<world, faults, files, cur, reply, anchored,
                             history>>

\* ... and written back as declined.
StampDeclined ==
  /\ At("stamp")
  /\ disk' = [disk EXCEPT ![cur] =
                [copy EXCEPT !.status = "declined", !.life = reply]]
  /\ Proposed
  /\ UNCHANGED <<world, faults, anchor, history>>

StampFails == /\ At("stamp")
              /\ Fault
              /\ Proposed
              /\ UNCHANGED <<world, files, history>>

-----------------------------------------------------------------------------
\* An anchor of an interrupted attempt: _adopt_orphan_proposal.

\* list_issues asks for no status, and the first match is taken.
LookupFinds == /\ At("lookup")
               /\ \E i \in Marked(want) :
                    /\ cur' = i
                    /\ reply' = acc[i].status
                    /\ Forsake(Orphans(want) \ {i})
               /\ Goto("adopt")
               /\ UNCHANGED <<world, faults, files, copy, anchored, byHand>>

\* Wrong: nothing is found, nothing is proposed, and the anchor stays.
LookupGivesUp == /\ At("lookup")
                 /\ Marked(want) = {}
                 /\ NotProposed
                 /\ UNCHANGED <<world, faults, files, history>>

LookupFindsNone == /\ At("lookup")
                   /\ Marked(want) = {}
                   /\ Goto("drop")
                   /\ UNCHANGED <<world, faults, files, call, history>>

\* The issue is outside the 50 that are listed.
LookupMisses == /\ At("lookup")
                /\ Marked(want) # {}
                /\ Fault
                /\ Forsake(Orphans(want))
                /\ Goto("drop")
                /\ UNCHANGED <<world, files, call, byHand>>

\* ACC does not answer: a new issue is raised.
LookupFails == /\ At("lookup")
               /\ Fault
               /\ Forsake(Orphans(want))
               /\ Goto("subtype")
               /\ UNCHANGED <<world, files, call, byHand>>

\* The record is rebuilt from the anchor.
Adopt == /\ At("adopt")
         /\ disk' = [disk EXCEPT ![cur] = Proposal(want, reply)]
         /\ Goto("adopted")
         /\ UNCHANGED <<world, faults, anchor, call, history>>

ClearAdopted == /\ At("adopted")
                /\ anchor' = anchor \ {want}
                /\ Proposed
                /\ UNCHANGED <<world, faults, disk, history>>

\* unlink fails; the anchor stays.
ClearAdoptedFails == /\ At("adopted")
                     /\ Fault
                     /\ Proposed
                     /\ UNCHANGED <<world, files, history>>

\* No issue was found: the anchor is of no more use.
DropAnchor == /\ At("drop")
              /\ anchor' = anchor \ {want}
              /\ Goto("subtype")
              /\ UNCHANGED <<world, faults, disk, call, history>>

DropAnchorFails == /\ At("drop")
                   /\ Fault
                   /\ Goto("subtype")
                   /\ UNCHANGED <<world, files, call, history>>

-----------------------------------------------------------------------------
\* A new issue: anchor, create_issue, record, in this order.

ResolveSubtype == /\ At("subtype")
                  /\ Goto("anchor")
                  /\ UNCHANGED <<world, faults, files, call, history>>

SubtypeFails == /\ At("subtype")
                /\ Fault
                /\ NotProposed
                /\ UNCHANGED <<world, files, history>>

WriteAnchor == /\ At("anchor")
               /\ anchor' = anchor \cup {want}
               /\ anchored' = TRUE
               /\ Goto("create")
               /\ UNCHANGED <<world, faults, disk, cur, reply, copy, history>>

\* The issue is created all the same, and an older anchor is not cleared.
WriteAnchorFails == /\ At("anchor")
                    /\ Fault
                    /\ Goto("create")
                    /\ UNCHANGED <<world, files, call, history>>

\* ACC creates the issue.  Without an anchor nothing leads back to it.
Raise(i) == /\ IsNext(i)
            /\ acc' = [acc EXCEPT ![i] = [fp |-> want, status |-> "open"]]
            /\ Forsake(IF want \in anchor THEN {} ELSE {i})
            /\ UNCHANGED <<needed, byHand>>

CreateIssue == /\ At("create")
               /\ \E i \in Issues : Raise(i) /\ cur' = i
               /\ Goto("record")
               /\ UNCHANGED <<faults, files, reply, copy, anchored>>

\* ACC refuses, or is not reached; beyond the bound it always refuses.
CreateFails == /\ At("create")
               /\ IF Raised = Issues THEN UNCHANGED faults ELSE Fault
               /\ NotProposed
               /\ UNCHANGED <<world, files, history>>

\* Wrong: an exception is taken to mean that there is no issue.
CreateLostCleared == /\ At("create")
                     /\ Fault
                     /\ \E i \in Issues : Raise(i)
                     /\ NotProposed
                     /\ anchor' = anchor \ {want}
                     /\ UNCHANGED disk

\* The issue exists, but its answer is lost or has no id: the anchor stays.
CreateLost == /\ At("create")
              /\ Fault
              /\ \E i \in Issues : Raise(i)
              /\ NotProposed
              /\ UNCHANGED files

WriteRecord == /\ At("record")
               /\ disk' = [disk EXCEPT ![cur] = Proposal(want, "open")]
               /\ pc' = "clear" /\ Remember
               /\ UNCHANGED <<world, faults, anchor, call, history>>

\* Wrong: a failed write is taken for done.
RecordFailsQuietly == /\ pc \in {"adopt", "record"}
                      /\ Fault
                      /\ Proposed
                      /\ UNCHANGED <<world, files, watcher, history>>

\* write_record raises here or in _adopt_orphan_proposal: nothing catches it
\* and the run ends.
RecordFails == /\ pc \in {"adopt", "record"}
               /\ Fault
               /\ Ended
               /\ UNCHANGED <<world, files, watcher, history>>

ClearAnchor == /\ At("clear")
               /\ anchor' = IF anchored THEN anchor \ {want} ELSE anchor
               /\ NotProposed
               /\ UNCHANGED <<world, faults, disk, history>>

ClearAnchorFails == /\ At("clear")
                    /\ Fault
                    /\ NotProposed
                    /\ UNCHANGED <<world, files, history>>

Crash == /\ pc # "idle"
         /\ Fault
         /\ Ended
         /\ UNCHANGED <<world, files, watcher, history>>

-----------------------------------------------------------------------------
\* The watcher, one record at a time (approval_watcher.py).

WatcherAt(p) == wpc = p /\ UNCHANGED run
WatcherGoto(p) == wpc' = p
WatcherDone == wpc' = "idle" /\ wcur' = 1 /\ wrec' = NoRecord

\* _load_records: a record not applied is polled, one whose close failed is
\* closed again.
LoadRecord ==
  /\ WatcherAt("idle")
  /\ \E i \in Recorded :
       /\ disk[i].applied => disk[i].life = "applied_pending_close"
       /\ WatcherGoto(IF disk[i].applied THEN "close" ELSE "poll")
       /\ wcur' = i
       /\ wrec' = disk[i]
  /\ UNCHANGED <<world, faults, files, history>>

PollIssue ==
  /\ WatcherAt("poll")
  /\ IF acc[wcur].status = "in_progress"
       THEN WatcherGoto("write") /\ UNCHANGED <<wcur, wrec>>
       ELSE WatcherDone
  /\ UNCHANGED <<world, faults, files, history>>

\* What an earlier pass applied is not looked at again.
PendingFixes == wrec.fp \ wrec.done

\* The fixes S are written, or found at their target value.
ApplyFixes(S) ==
  /\ WatcherAt("write")
  /\ needed' = needed \ S
  /\ wrec' = [wrec EXCEPT !.done = @ \cup S]
  /\ WatcherGoto("persist")
  /\ UNCHANGED <<acc, files, wcur, history>>

WriteFixes == ApplyFixes(PendingFixes) /\ UNCHANGED faults

\* Some fail, or are held back because somebody changed the value meanwhile.
WriteSome == /\ wpc = "write"
             /\ Fault
             /\ \E S \in SUBSET PendingFixes : ApplyFixes(S)

\* The outcome is saved before the issue is closed.
SaveOutcome ==
  /\ WatcherAt("persist")
  /\ LET all == wrec.fp \subseteq wrec.done
         rec == [wrec EXCEPT
                   !.applied = all,
                   !.status = IF all THEN "applied" ELSE "partial",
                   !.life = IF all THEN "applied_pending_close"
                                   ELSE "partial_pending"]
     IN /\ disk' = [disk EXCEPT ![wcur] = rec]
        /\ IF all THEN WatcherGoto("close") /\ wrec' = rec /\ UNCHANGED wcur
                  ELSE WatcherDone
  /\ UNCHANGED <<world, faults, anchor, history>>

CloseIssue ==
  /\ WatcherAt("close")
  /\ acc' = [acc EXCEPT ![wcur].status = "closed"]
  /\ WatcherGoto("finish")
  /\ UNCHANGED <<needed, faults, files, wcur, wrec, history>>

\* The close fails, or the comment after it; a later pass tries again.
CloseFails ==
  /\ WatcherAt("close")
  /\ Fault
  /\ \/ acc' = [acc EXCEPT ![wcur].status = "closed"]
     \/ UNCHANGED acc
  /\ WatcherDone
  /\ UNCHANGED <<needed, files, history>>

SaveClosed ==
  /\ WatcherAt("finish")
  /\ disk' = [disk EXCEPT ![wcur] = [wrec EXCEPT !.life = "closed"]]
  /\ WatcherDone
  /\ UNCHANGED <<world, faults, anchor, history>>

\* The process dies, a write of the record fails, or ACC does not answer.
WatcherStops ==
  /\ wpc # "idle"
  /\ Fault
  /\ WatcherDone
  /\ UNCHANGED <<world, files, run, history>>

-----------------------------------------------------------------------------
\* People: they decide on issues in ACC, and edit the model.

SetStatus(from, to) ==
  /\ \E i \in Raised :
       /\ acc[i].status \in from
       /\ acc' = [acc EXCEPT ![i].status = to]
       /\ byHand' = IF to = "closed" THEN byHand \cup {i} ELSE byHand
  /\ UNCHANGED <<needed, files, run, watcher, forsaken>>

Approve == SetStatus({"open"}, "in_progress") /\ UNCHANGED faults

CloseByHand == SetStatus({"open", "in_progress"}, "closed") /\ UNCHANGED faults

Reopen == SetStatus({"closed"}, "open") /\ Fault

\* Values are corrected, or undone, by hand.
EditModel ==
  /\ Fault
  /\ needed' \in SUBSET Fixes
  /\ UNCHANGED <<acc, files, run, watcher, history>>

-----------------------------------------------------------------------------
RunStep ==
  \/ StartRun \/ Query \/ Iterate \/ EndRun
  \/ SkipRepeated \/ FindParked \/ FindNoParked
  \/ AskParked \/ StillParked \/ ReadParked \/ StampDeclined
  \/ LookupFinds \/ LookupFindsNone \/ Adopt \/ ClearAdopted \/ DropAnchor
  \/ ResolveSubtype \/ WriteAnchor \/ CreateIssue \/ WriteRecord \/ ClearAnchor

RunFault ==
  \/ ScanFails \/ AskFails \/ StampFails \/ LookupMisses \/ LookupFails
  \/ ClearAdoptedFails \/ DropAnchorFails \/ SubtypeFails \/ WriteAnchorFails
  \/ CreateFails \/ CreateLost \/ RecordFails \/ ClearAnchorFails \/ Crash

WatcherStep == \/ LoadRecord \/ PollIssue \/ WriteFixes \/ SaveOutcome
               \/ CloseIssue \/ SaveClosed

WatcherFault == WriteSome \/ CloseFails \/ WatcherStops

People == Approve \/ CloseByHand \/ Reopen \/ EditModel

Next == RunStep \/ RunFault \/ WatcherStep \/ WatcherFault \/ People

Spec == Init /\ [][Next]_vars

\* Audits are started again and again (schedule, service), a run that neither
\* dies nor is failed gets on, and the number of its iterations is bounded.
FairSpec == Spec /\ WF_vars(RunStep) /\ SF_vars(EndRun)

-----------------------------------------------------------------------------
\* Properties.

TypeOK == /\ acc \in [Issues -> Issue \cup {NoIssue}]
          /\ disk \in [Issues -> Record \cup {NoRecord}]
          /\ anchor \subseteq WriteSets
          /\ needed \subseteq Fixes
          /\ pc \in PCs
          /\ want \subseteq Fixes
          /\ memo \subseteq WriteSets
          /\ cur \in Issues
          /\ reply \in Statuses
          /\ copy \in Record \cup {NoRecord}
          /\ anchored \in BOOLEAN
          /\ wpc \in WatcherPCs
          /\ wcur \in Issues
          /\ wrec \in Record \cup {NoRecord}
          /\ faults \in 0 .. MaxFaults
          /\ forsaken \subseteq Issues
          /\ byHand \subseteq Issues

\* The two levels of deduplication and the adoption of orphans work together:
\* a write-set never has two records waiting for approval, whatever is
\* interrupted and wherever the issue's answer was lost, unless a scan that
\* failed hid the first (_create_proposal_issue, _find_parked_duplicate).
ParkedOnce ==
  \A fp \in WriteSets : \A i, j \in ParkedFor(fp) :
    i = j \/ {i, j} \cap forsaken # {}

\* An issue without a record does nothing when it is approved.  There is one
\* only with an anchor that leads the next run to it, or because a failed or
\* truncated lookup, or a failed anchor, gave it up (the order of anchor,
\* create, record and clear in _create_proposal_issue).
NoSilentOrphan ==
  \A i \in Raised \ Recorded :
    acc[i].fp \in anchor \/ i \in forsaken

\* A run suppresses a write-set as already proposed only if there is a record
\* of it: the memo never outlives a proposal that was not completed.
MemoIsRecorded ==
  \A fp \in memo : \E i \in Recorded : disk[i].fp = fp

\* Every proposal is accounted for: no issue goes astray, no write-set waits
\* twice, and nothing is suppressed that was not recorded.
ProposalsAccountedFor == ParkedOnce /\ NoSilentOrphan /\ MemoIsRecorded

\* What the model needs does not stay without a record: interrupted and failed
\* attempts are made up for by later runs (up to the bound on issues).
ParkedOrDone == \/ needed = {}
                \/ ParkedFor(needed) # {}
                \/ Raised = Issues

EventuallyParked == []<>ParkedOrDone

\* "findings reappearing after a real apply means the model drifted since, and
\* a fresh proposal is the correct response (never suppress it)": what the
\* model needs is, again and again, up for a decision or was declined.  A
\* proposal whose issue the watcher closed is neither.
UpForDecision ==
  \/ needed = {}
  \/ \E i \in ParkedFor(needed) : acc[i].status # "closed" \/ i \in byHand
  \/ Raised = Issues

EventuallyProposed == []<>UpForDecision
=============================================================================
