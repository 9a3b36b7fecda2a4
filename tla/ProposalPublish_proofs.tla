----------------------- MODULE ProposalPublish_proofs -----------------------
(***************************************************************************)
(* Theorems about ProposalPublish, for any set of fixes and any number of  *)
(* issues, crashes, failed calls and edits.                                *)
(*                                                                         *)
(* That a write-set has one waiting record and no issue is lost depends on *)
(* what the run knew when it left the scan and the lookup behind, and on   *)
(* that knowledge staying true while the watcher and people go on: Places  *)
(* says what the run knows at each place, WatcherHolds what the watcher    *)
(* knows, and Tame what neither the watcher nor people ever do to it.      *)
(***************************************************************************)
EXTENDS ProposalPublish, TLAPS

-----------------------------------------------------------------------------
\* The inductive invariant.

\* A record is about an issue that exists, and about its write-set.
RecordsMatch == \A i \in Recorded : i \in Raised /\ disk[i].fp = acc[i].fp

\* The record the run found is the only one waiting, up to failed scans.
OthersForsaken ==
  \A j \in ParkedFor(want) \ {cur} : j \in forsaken \/ cur \in forsaken

Finding  == {"ask", "judge", "stamp"}
Creating == {"lookup", "adopt", "drop", "subtype", "anchor", "create",
             "record"}
Filling  == {"adopt", "record"}
Clearing == {"adopted", "drop", "subtype", "anchor", "create", "clear"}

\* What the run knows at each place of _create_proposal_issue.
Places ==
  /\ pc = "idle" => memo = {}
  /\ pc \notin {"idle", "query"} => want \in WriteSets
  /\ pc \in Finding \cup {"adopted"} => cur \in Recorded /\ disk[cur].fp = want
  /\ pc \in Finding => OthersForsaken
  /\ pc = "stamp" => /\ copy \in Record
                     /\ copy.fp = want
                     /\ copy.applied => disk[cur].applied
  /\ pc \in Filling => cur \in Raised /\ acc[cur].fp = want
  /\ pc \in Creating => ParkedFor(want) \subseteq forsaken
  /\ pc \in Filling => Orphans(want) \subseteq forsaken \cup {cur}
  /\ pc \in Clearing => Orphans(want) \subseteq forsaken

\* What the watcher knows of the record it works on.
WatcherHolds ==
  /\ wpc # "idle" => /\ wcur \in Recorded
                     /\ wrec \in Record
                     /\ wrec.fp = disk[wcur].fp
  /\ wpc \in {"poll", "write", "persist"} =>
       ~wrec.applied /\ ~disk[wcur].applied
  /\ wpc \in {"close", "finish"} => wrec.applied

IInv == /\ TypeOK
        /\ RecordsMatch
        /\ NoSilentOrphan
        /\ ParkedOnce
        /\ MemoIsRecorded
        /\ Places
        /\ WatcherHolds

LEMMA InvInit == Init => IInv
  <1> SUFFICES ASSUME Init PROVE IInv
    OBVIOUS
  <1>1. Raised = {} /\ Recorded = {}
    BY DEF Init, Raised, Recorded
  <1>2. TypeOK
    <2>1. 1 \in Issues /\ 0 \in 0 .. MaxFaults
      BY ConstantsAssumption DEF Issues
    <2> QED
      BY <2>1 DEF Init, TypeOK, Statuses, PCs, WatcherPCs
  <1>3. RecordsMatch /\ NoSilentOrphan /\ ParkedOnce
    BY <1>1 DEF RecordsMatch, NoSilentOrphan, ParkedOnce, ParkedFor
  <1>4. MemoIsRecorded /\ Places /\ WatcherHolds
    BY DEF Init, MemoIsRecorded, Places, WatcherHolds, Finding, Creating,
           Filling, Clearing
  <1> QED
    BY <1>2, <1>3, <1>4 DEF IInv

-----------------------------------------------------------------------------
\* Steps of the watcher and of people.

\* What they do to issues and records: no issue or record comes or goes or
\* changes its write-set, and no record stops being applied.
Tame ==
  /\ \A i \in Issues :
       /\ i \in Raised' <=> i \in Raised
       /\ i \in Raised => acc'[i].fp = acc[i].fp
  /\ \A i \in Issues :
       /\ i \in Recorded' <=> i \in Recorded
       /\ i \in Recorded => /\ disk'[i].fp = disk[i].fp
                            /\ disk[i].applied => disk'[i].applied

\* What the run knows stays true.
LEMMA TameKeeps ==
  ASSUME IInv, Tame, UNCHANGED <<run, anchor, forsaken>>
  PROVE  RecordsMatch' /\ NoSilentOrphan' /\ ParkedOnce' /\ MemoIsRecorded'
         /\ Places'
  <1>1. Raised' = Raised /\ Recorded' = Recorded
    BY DEF Tame, Raised, Recorded
  <1>2. /\ \A i \in Raised : acc'[i].fp = acc[i].fp
        /\ \A i \in Recorded : disk'[i].fp = disk[i].fp
        /\ \A i \in Recorded : disk[i].applied => disk'[i].applied
    BY DEF Tame, Raised, Recorded
  <1>3. RecordsMatch'
    BY <1>1, <1>2 DEF IInv, RecordsMatch
  <1>4. NoSilentOrphan'
    BY <1>1, <1>2 DEF IInv, NoSilentOrphan
  <1>5. \A fp \in WriteSets : /\ ParkedFor(fp)' \subseteq ParkedFor(fp)
                              /\ Orphans(fp)' = Orphans(fp)
    BY <1>1, <1>2 DEF ParkedFor, Orphans, Marked
  <1>6. ParkedOnce'
    BY <1>5 DEF IInv, ParkedOnce
  <1>7. MemoIsRecorded'
    BY <1>1, <1>2 DEF IInv, MemoIsRecorded, run
  <1>8. Places'
    <2>1. UNCHANGED <<pc, want, memo, cur, copy>>
      BY DEF run, call
    <2>2. CASE pc \in {"idle", "query"}
      BY <2>1, <2>2 DEF IInv, Places, Finding, Creating, Filling, Clearing
    <2>3. CASE pc \notin {"idle", "query"}
      <3>1. want \in WriteSets
        BY <2>3 DEF IInv, Places
      <3>2. /\ ParkedFor(want)' \subseteq ParkedFor(want)
            /\ Orphans(want)' = Orphans(want)
        BY <1>5, <2>1, <3>1 DEF ParkedFor, Orphans, Marked
      <3> QED
        BY <1>1, <1>2, <2>1, <2>3, <3>1, <3>2
        DEF IInv, Places, OthersForsaken, Finding, Creating, Filling, Clearing
    <2> QED
      BY <2>2, <2>3
  <1> QED
    BY <1>3, <1>4, <1>6, <1>7, <1>8

\* A step that leaves issues and records alone is tame.
LEMMA TameIfUnchanged == ASSUME UNCHANGED <<acc, disk>> PROVE Tame
  BY DEF Tame, Raised, Recorded

\* So is one that only changes the status of an issue.
LEMMA TameStatus ==
  ASSUME TypeOK, NEW i \in Raised, NEW s \in Statuses,
         acc' = [acc EXCEPT ![i].status = s], UNCHANGED disk
  PROVE  Tame /\ acc' \in [Issues -> Issue \cup {NoIssue}]
  <1>1. i \in Issues /\ acc[i] \in Issue
    BY DEF TypeOK, Raised
  <1>2. [acc[i] EXCEPT !.status = s] \in Issue
    BY <1>1 DEF Issue
  <1>3. [acc[i] EXCEPT !.status = s] # NoIssue
    BY <1>2, ConstantsAssumption
  <1>4. [acc[i] EXCEPT !.status = s].fp = acc[i].fp
    BY <1>1 DEF Issue
  <1> QED
    BY <1>1, <1>2, <1>3, <1>4 DEF Tame, Raised, Recorded, TypeOK

\* And one that saves a record of the same write-set, no less applied.
LEMMA TameSave ==
  ASSUME TypeOK, NEW i \in Recorded, NEW r \in Record, r.fp = disk[i].fp,
         disk[i].applied => r.applied,
         disk' = [disk EXCEPT ![i] = r], UNCHANGED acc
  PROVE  Tame /\ disk' \in [Issues -> Record \cup {NoRecord}]
  <1>1. i \in Issues /\ r # NoRecord
    BY ConstantsAssumption DEF Recorded
  <1> QED
    BY <1>1 DEF Tame, Raised, Recorded, TypeOK

\* The steps of the watcher.
LEMMA WatcherPreserves ==
  ASSUME IInv, WatcherStep \/ WatcherFault PROVE IInv'
  <1> USE DEF WatcherAt, WatcherGoto, WatcherDone, world, files, call, run,
              watcher, history, WatcherPCs
  <1>0. 1 \in Issues
    BY ConstantsAssumption DEF Issues
  <1>a. ASSUME Tame, TypeOK', WatcherHolds',
               UNCHANGED <<run, anchor, forsaken>>
        PROVE  IInv'
    BY <1>a, TameKeeps DEF IInv
  <1>1. CASE LoadRecord
    <2>1. PICK i \in Recorded :
            /\ disk[i].applied => disk[i].life = "applied_pending_close"
            /\ wpc' = IF disk[i].applied THEN "close" ELSE "poll"
            /\ wcur' = i
            /\ wrec' = disk[i]
      BY <1>1 DEF LoadRecord
    <2>2. i \in Issues /\ disk[i] \in Record /\ disk[i].applied \in BOOLEAN
      BY DEF IInv, TypeOK, Recorded, Record
    <2>3. TypeOK'
      BY <1>1, <2>1, <2>2 DEF LoadRecord, IInv, TypeOK
    <2>4. WatcherHolds'
      BY <1>1, <2>1, <2>2 DEF LoadRecord, WatcherHolds, Recorded
    <2> QED
      BY <1>1, <1>a, <2>3, <2>4, TameIfUnchanged DEF LoadRecord
  <1>2. CASE PollIssue
    <2>1. TypeOK'
      BY <1>0, <1>2 DEF PollIssue, IInv, TypeOK
    <2>2. WatcherHolds'
      BY <1>2 DEF PollIssue, IInv, WatcherHolds, Recorded
    <2> QED
      BY <1>2, <1>a, <2>1, <2>2, TameIfUnchanged DEF PollIssue
  <1>3. CASE WriteFixes \/ WriteSome
    <2>1. wpc = "write"
      BY <1>3 DEF WriteFixes, WriteSome, ApplyFixes
    <2>2. wrec \in Record /\ wcur \in Recorded /\ wrec.fp \subseteq Fixes
      BY <2>1 DEF IInv, WatcherHolds, Record, WriteSets
    <2>3. PICK S \in SUBSET Fixes : ApplyFixes(S)
      BY <1>3, <2>2 DEF WriteFixes, WriteSome, PendingFixes
    <2>4. /\ wrec' \in Record
          /\ wrec'.fp = wrec.fp
          /\ wrec'.applied = wrec.applied
      BY <2>2, <2>3 DEF ApplyFixes, Record
    <2>5. faults' \in 0 .. MaxFaults
      BY <1>3, ConstantsAssumption
      DEF WriteFixes, WriteSome, Fault, IInv, TypeOK
    <2>6. TypeOK'
      BY <2>3, <2>4, <2>5 DEF ApplyFixes, IInv, TypeOK
    <2>7. WatcherHolds'
      BY <2>1, <2>3, <2>4 DEF ApplyFixes, IInv, WatcherHolds, Recorded
    <2> QED
      BY <1>a, <2>3, <2>6, <2>7, TameIfUnchanged DEF ApplyFixes
  <1>4. CASE SaveOutcome
    <2> DEFINE all == wrec.fp \subseteq wrec.done
               rec == [wrec EXCEPT
                         !.applied = all,
                         !.status = IF all THEN "applied" ELSE "partial",
                         !.life = IF all THEN "applied_pending_close"
                                         ELSE "partial_pending"]
    <2>1. /\ wrec \in Record /\ wcur \in Recorded
          /\ wrec.fp = disk[wcur].fp /\ ~disk[wcur].applied
      BY <1>4 DEF SaveOutcome, IInv, WatcherHolds
    <2>2. rec \in Record /\ rec.fp = wrec.fp /\ rec.applied = all
      BY <2>1 DEF Record
    <2>3. /\ disk' = [disk EXCEPT ![wcur] = rec]
          /\ IF all THEN wpc' = "close" /\ wrec' = rec /\ UNCHANGED wcur
                    ELSE WatcherDone
          /\ UNCHANGED <<world, faults, anchor, history, run>>
      BY <1>4 DEF SaveOutcome
    <2> HIDE DEF rec, all
    <2>4. Tame /\ disk' \in [Issues -> Record \cup {NoRecord}]
      BY <2>1, <2>2, <2>3, TameSave DEF IInv
    <2>5. TypeOK'
      BY <1>0, <2>2, <2>3, <2>4 DEF IInv, TypeOK
    <2>6. WatcherHolds'
      <3>1. wcur \in Issues /\ rec # NoRecord
        BY <2>1, <2>2, ConstantsAssumption DEF Recorded
      <3> QED
        BY <2>1, <2>2, <2>3, <3>1 DEF IInv, TypeOK, WatcherHolds, Recorded
    <2> QED
      BY <1>a, <2>3, <2>4, <2>5, <2>6
  <1>5. CASE CloseIssue \/ CloseFails
    <2>1. /\ wpc = "close" /\ wcur \in Raised
          /\ wrec \in Record /\ wcur \in Recorded
      BY <1>5 DEF CloseIssue, CloseFails, IInv, WatcherHolds, RecordsMatch
    <2>2. Tame /\ acc' \in [Issues -> Issue \cup {NoIssue}]
      <3>1. CASE acc' = [acc EXCEPT ![wcur].status = "closed"]
        BY <1>5, <2>1, <3>1, TameStatus
        DEF CloseIssue, CloseFails, IInv, Statuses
      <3>2. CASE UNCHANGED acc
        BY <1>5, <3>2, TameIfUnchanged
        DEF CloseIssue, CloseFails, IInv, TypeOK
      <3> QED
        BY <1>5, <3>1, <3>2 DEF CloseIssue, CloseFails
    <2>3. faults' \in 0 .. MaxFaults
      BY <1>5, ConstantsAssumption
      DEF CloseIssue, CloseFails, Fault, IInv, TypeOK
    <2>4. TypeOK'
      BY <1>0, <1>5, <2>2, <2>3 DEF CloseIssue, CloseFails, IInv, TypeOK
    <2>5. WatcherHolds'
      BY <1>5, <2>1 DEF CloseIssue, CloseFails, IInv, WatcherHolds, Recorded
    <2> QED
      BY <1>5, <1>a, <2>2, <2>4, <2>5 DEF CloseIssue, CloseFails
  <1>6. CASE SaveClosed
    <2> DEFINE rec == [wrec EXCEPT !.life = "closed"]
    <2>1. /\ wrec \in Record /\ wcur \in Recorded
          /\ wrec.fp = disk[wcur].fp /\ wrec.applied
      BY <1>6 DEF SaveClosed, IInv, WatcherHolds
    <2>2. rec \in Record /\ rec.fp = wrec.fp /\ rec.applied
      BY <2>1 DEF Record, Statuses
    <2>3. disk' = [disk EXCEPT ![wcur] = rec]
      BY <1>6 DEF SaveClosed
    <2> HIDE DEF rec
    <2>4. Tame /\ disk' \in [Issues -> Record \cup {NoRecord}]
      BY <1>6, <2>1, <2>2, <2>3, TameSave DEF SaveClosed, IInv
    <2>5. TypeOK'
      BY <1>0, <1>6, <2>4 DEF SaveClosed, IInv, TypeOK
    <2>6. WatcherHolds'
      BY <1>6 DEF SaveClosed, WatcherHolds
    <2> QED
      BY <1>6, <1>a, <2>4, <2>5, <2>6 DEF SaveClosed
  <1>7. CASE WatcherStops
    <2>1. faults' \in 0 .. MaxFaults
      BY <1>7, ConstantsAssumption DEF WatcherStops, Fault, IInv, TypeOK
    <2>2. TypeOK'
      BY <1>0, <1>7, <2>1 DEF WatcherStops, IInv, TypeOK
    <2>3. WatcherHolds'
      BY <1>7 DEF WatcherStops, WatcherHolds
    <2> QED
      BY <1>7, <1>a, <2>2, <2>3, TameIfUnchanged DEF WatcherStops
  <1> QED
    BY <1>1, <1>2, <1>3, <1>4, <1>5, <1>6, <1>7 DEF WatcherStep, WatcherFault

\* The steps of people.
LEMMA PeoplePreserves == ASSUME IInv, People PROVE IInv'
  <1> USE DEF world, files, call, run, watcher, history
  <1>1. Tame /\ acc' \in [Issues -> Issue \cup {NoIssue}]
    <2>1. ASSUME NEW from, NEW to \in Statuses, SetStatus(from, to)
          PROVE  Tame /\ acc' \in [Issues -> Issue \cup {NoIssue}]
      BY <2>1, TameStatus DEF SetStatus, IInv
    <2>2. CASE EditModel
      BY <2>2, TameIfUnchanged DEF EditModel, IInv, TypeOK
    <2> QED
      BY <2>1, <2>2 DEF People, Approve, CloseByHand, Reopen, Statuses
  <1>2. /\ UNCHANGED <<disk, anchor, run, watcher, forsaken>>
        /\ needed' \subseteq Fixes
        /\ byHand' \subseteq Issues
    BY DEF People, Approve, CloseByHand, Reopen, EditModel, SetStatus, IInv,
           TypeOK, Raised
  <1>3. faults' \in 0 .. MaxFaults
    BY ConstantsAssumption
    DEF People, Approve, CloseByHand, Reopen, EditModel, Fault, IInv, TypeOK
  <1>4. TypeOK'
    BY <1>1, <1>2, <1>3 DEF IInv, TypeOK
  <1>5. WatcherHolds'
    BY <1>2 DEF IInv, WatcherHolds, Recorded
  <1> QED
    BY <1>1, <1>2, <1>4, <1>5, TameKeeps DEF IInv

-----------------------------------------------------------------------------
\* Steps of the run that change neither issues nor files.

\* They can only fail what the run remembers and knows.
LEMMA QuietKeeps ==
  ASSUME IInv, UNCHANGED <<acc, disk, anchor, watcher>>,
         forsaken \subseteq forsaken',
         TypeOK', MemoIsRecorded', Places'
  PROVE  IInv'
  <1>1. /\ Raised' = Raised /\ Recorded' = Recorded
        /\ \A fp \in WriteSets : ParkedFor(fp)' = ParkedFor(fp)
    BY DEF Raised, Recorded, ParkedFor
  <1>2. RecordsMatch' /\ NoSilentOrphan' /\ ParkedOnce'
    BY <1>1 DEF IInv, RecordsMatch, NoSilentOrphan, ParkedOnce
  <1>3. WatcherHolds'
    BY <1>1 DEF IInv, WatcherHolds, watcher
  <1> QED
    BY <1>2, <1>3 DEF IInv

\* The locals that are forgotten have a type.
LEMMA ForgetType ==
  ASSUME Forget
  PROVE  /\ cur' \in Issues
         /\ reply' \in Statuses
         /\ copy' \in Record \cup {NoRecord}
         /\ anchored' \in BOOLEAN
  <1>1. 1 \in Issues
    BY ConstantsAssumption DEF Issues
  <1> QED
    BY <1>1 DEF Forget, Statuses

\* A fault stays within the bound.
LEMMA FaultType == ASSUME TypeOK, Fault PROVE faults' \in 0 .. MaxFaults
  BY ConstantsAssumption DEF TypeOK, Fault

\* The run begins, looks at the model again, or is over.
LEMMA TurnPreserves ==
  ASSUME IInv,
         StartRun \/ Query \/ Iterate \/ EndRun \/ RecordFails \/ Crash
  PROVE  IInv'
  <1> USE DEF At, Goto, world, files, call, history
  <1>1. UNCHANGED <<acc, needed, disk, anchor, watcher, forsaken, byHand>>
    BY DEF StartRun, Query, Iterate, EndRun, RecordFails, Crash
  <1>2. faults' \in 0 .. MaxFaults
    BY FaultType
    DEF StartRun, Query, Iterate, EndRun, RecordFails, Crash, IInv, TypeOK
  <1>3. CASE Ended
    <2>1. TypeOK'
      BY <1>1, <1>2, <1>3, ForgetType DEF Ended, IInv, TypeOK, watcher, PCs
    <2>2. MemoIsRecorded' /\ Places'
      BY <1>3
      DEF Ended, MemoIsRecorded, Places, Finding, Creating, Filling, Clearing
    <2> QED
      BY <1>1, <2>1, <2>2, QuietKeeps
  <1>4. CASE /\ pc' \in {"query", "propose"}
             /\ pc' = "propose" => want' \in WriteSets
             /\ want' \subseteq Fixes
             /\ UNCHANGED <<memo, cur, reply, copy, anchored>>
    <2>1. TypeOK'
      BY <1>1, <1>2, <1>4 DEF IInv, TypeOK, watcher, PCs
    <2>2. MemoIsRecorded'
      BY <1>1, <1>4 DEF IInv, MemoIsRecorded, Recorded
    <2>3. Places'
      BY <1>4 DEF Places, Finding, Creating, Filling, Clearing
    <2> QED
      BY <1>1, <2>1, <2>2, <2>3, QuietKeeps
  <1>5. CASE StartRun \/ Iterate
    BY <1>4, <1>5 DEF StartRun, Iterate, IInv, TypeOK
  <1>6. CASE Query
    <2>1. CASE needed = {}
      BY <1>3, <1>6, <2>1 DEF Query
    <2>2. CASE needed # {}
      <3>1. needed \in WriteSets /\ needed \subseteq Fixes
        BY <2>2 DEF IInv, TypeOK, WriteSets
      <3>2. /\ pc' = "propose" /\ want' = needed
            /\ UNCHANGED <<memo, cur, reply, copy, anchored>>
        BY <1>6, <2>2 DEF Query
      <3> QED
        BY <1>4, <3>1, <3>2
    <2> QED
      BY <2>1, <2>2
  <1> QED
    BY <1>3, <1>5, <1>6 DEF EndRun, RecordFails, Crash

\* What has to be seen to when the run leaves _create_proposal_issue.
LEMMA LeaveKeeps ==
  ASSUME IInv, want \in WriteSets,
         \/ NotProposed
         \/ Proposed /\ \E i \in Recorded' : disk'[i].fp = want,
         \A i \in Recorded : i \in Recorded' /\ disk'[i].fp = disk[i].fp
  PROVE  /\ MemoIsRecorded' /\ Places'
         /\ pc' \in PCs /\ want' \subseteq Fixes /\ memo' \subseteq WriteSets
         /\ Forget
  <1> USE DEF NotProposed, Proposed, Remember, Goto
  <1>1. MemoIsRecorded'
    BY DEF IInv, MemoIsRecorded
  <1>2. Places'
    BY DEF Places, Finding, Creating, Filling, Clearing
  <1> QED
    BY <1>1, <1>2 DEF IInv, TypeOK, PCs

\* The run gives up, or is done, without a change.
LEMMA LeavePreserves ==
  ASSUME IInv,
         \/ SkipRepeated \/ AskFails \/ StillParked \/ StampFails
         \/ ClearAdoptedFails \/ SubtypeFails \/ CreateFails
         \/ ClearAnchorFails
  PROVE  IInv'
  <1> USE DEF SkipRepeated, AskFails, StillParked, StampFails,
              ClearAdoptedFails, SubtypeFails, CreateFails, ClearAnchorFails,
              At, world, files, history
  <1>1. /\ UNCHANGED <<acc, needed, disk, anchor, watcher, forsaken, byHand>>
        /\ faults' \in 0 .. MaxFaults
    BY FaultType DEF IInv, TypeOK
  <1>2. want \in WriteSets
    BY DEF IInv, Places
  <1>3. \/ NotProposed
        \/ Proposed /\ \E i \in Recorded : disk[i].fp = want
    <2>1. CASE SkipRepeated
      <3>1. Proposed /\ want \in memo
        BY <2>1
      <3>2. \E i \in Recorded : disk[i].fp = want
        BY <3>1 DEF IInv, MemoIsRecorded
      <3> QED
        BY <3>1, <3>2
    <2>2. CASE AskFails \/ StillParked \/ StampFails \/ ClearAdoptedFails
      <3>1. cur \in Recorded /\ disk[cur].fp = want
        BY <2>2 DEF IInv, Places, Finding
      <3> QED
        BY <2>2, <3>1
    <2> QED
      BY <2>1, <2>2
  <1>4. Recorded' = Recorded
    BY <1>1 DEF Recorded
  <1>5. /\ MemoIsRecorded' /\ Places'
        /\ pc' \in PCs /\ want' \subseteq Fixes /\ memo' \subseteq WriteSets
        /\ Forget
    BY <1>1, <1>2, <1>3, <1>4, LeaveKeeps
  <1>6. TypeOK'
    BY <1>1, <1>5, ForgetType DEF IInv, TypeOK, watcher
  <1> QED
    BY <1>1, <1>5, <1>6, QuietKeeps

\* A step within _create_proposal_issue that only moves the run keeps its memo.
LEMMA MemoKept ==
  ASSUME MemoIsRecorded, UNCHANGED memo,
         \A i \in Recorded : i \in Recorded' /\ disk'[i].fp = disk[i].fp
  PROVE  MemoIsRecorded'
  BY DEF MemoIsRecorded

\* The run finds a record of its write-set, or none, and asks ACC about it.
LEMMA FindPreserves ==
  ASSUME IInv,
         FindParked \/ FindNoParked \/ ScanFails \/ AskParked \/ ReadParked
  PROVE  IInv'
  <1> USE DEF At, Goto, Forsake, world, files, call, history
  <1>1. /\ UNCHANGED <<acc, needed, disk, anchor, watcher, byHand, want, memo,
                       anchored>>
        /\ want \in WriteSets
    BY DEF FindParked, FindNoParked, ScanFails, AskParked, ReadParked, IInv,
           Places, Finding
  <1>2. /\ Raised' = Raised /\ Recorded' = Recorded
        /\ ParkedFor(want)' = ParkedFor(want)
        /\ Orphans(want)' = Orphans(want)
    BY <1>1 DEF Raised, Recorded, ParkedFor, Orphans, Marked
  <1>3. MemoIsRecorded'
    BY <1>1, <1>2, MemoKept DEF IInv
  <1>4. CASE FindParked
    <2>1. cur' \in ParkedFor(want) /\ pc' = "ask" /\ UNCHANGED forsaken
      BY <1>4 DEF FindParked
    <2>2. cur' \in Recorded /\ disk[cur'].fp = want /\ cur' \in Issues
      BY <2>1 DEF ParkedFor, Recorded
    <2>3. \A j \in ParkedFor(want) \ {cur'} :
            j \in forsaken \/ cur' \in forsaken
      BY <1>1, <2>1 DEF IInv, ParkedOnce
    <2>4. OthersForsaken'
      BY <1>1, <1>2, <2>1, <2>3 DEF OthersForsaken
    <2>5. Places'
      BY <1>1, <1>2, <2>1, <2>2, <2>4
      DEF Places, Finding, Creating, Filling, Clearing
    <2>6. TypeOK'
      BY <1>1, <1>4, <2>1, <2>2 DEF FindParked, IInv, TypeOK, watcher, PCs
    <2> QED
      BY <1>1, <1>3, <2>1, <2>5, <2>6, QuietKeeps
  <1>5. CASE FindNoParked \/ ScanFails
    <2>1. /\ pc' = IF want \in anchor THEN "lookup" ELSE "subtype"
          /\ forsaken \subseteq forsaken'
          /\ forsaken' \subseteq Issues
          /\ ParkedFor(want) \subseteq forsaken'
          /\ UNCHANGED <<cur, reply, copy>>
      BY <1>5 DEF FindNoParked, ScanFails, IInv, TypeOK, ParkedFor, Recorded
    <2>2. want \notin anchor => Orphans(want) \subseteq forsaken
      BY DEF IInv, NoSilentOrphan, Orphans, Marked
    <2>3. Places'
      BY <1>1, <1>2, <2>1, <2>2
      DEF Places, Finding, Creating, Filling, Clearing
    <2>4. faults' \in 0 .. MaxFaults
      BY <1>5, FaultType DEF FindNoParked, ScanFails, IInv, TypeOK
    <2>5. TypeOK'
      BY <1>1, <2>1, <2>4 DEF IInv, TypeOK, watcher, PCs
    <2> QED
      BY <1>1, <1>3, <2>1, <2>3, <2>5, QuietKeeps
  <1>6. CASE AskParked
    <2>1. /\ pc = "ask" /\ pc' = "judge" /\ reply' = acc[cur].status
          /\ UNCHANGED <<cur, copy, forsaken, faults>>
      BY <1>6 DEF AskParked
    <2>2. acc[cur].status \in Statuses
      BY <2>1 DEF IInv, Places, Finding, RecordsMatch, Raised, TypeOK, Issue
    <2>3. Places'
      BY <1>1, <1>2, <2>1
      DEF IInv, Places, OthersForsaken, Finding, Creating, Filling, Clearing
    <2>4. TypeOK'
      BY <1>1, <2>1, <2>2 DEF IInv, TypeOK, watcher, PCs
    <2> QED
      BY <1>1, <1>3, <2>1, <2>3, <2>4, QuietKeeps
  <1>7. CASE ReadParked
    <2>1. /\ pc = "judge" /\ pc' = "stamp" /\ copy' = disk[cur]
          /\ UNCHANGED <<cur, reply, forsaken, faults>>
      BY <1>7 DEF ReadParked
    <2>2. disk[cur] \in Record /\ disk[cur].fp = want
      BY <2>1 DEF IInv, Places, Finding, Recorded, TypeOK
    <2>3. Places'
      BY <1>1, <1>2, <2>1, <2>2
      DEF IInv, Places, OthersForsaken, Finding, Creating, Filling, Clearing
    <2>4. TypeOK'
      BY <1>1, <2>1, <2>2 DEF IInv, TypeOK, watcher, PCs
    <2> QED
      BY <1>1, <1>3, <2>1, <2>3, <2>4, QuietKeeps
  <1> QED
    BY <1>4, <1>5, <1>6, <1>7

\* The run looks for the issue of an interrupted attempt, and goes on to
\* create one without touching a file.
LEMMA LookupPreserves ==
  ASSUME IInv,
         \/ LookupFinds \/ LookupFindsNone \/ LookupMisses \/ LookupFails
         \/ DropAnchorFails \/ ResolveSubtype \/ WriteAnchorFails
  PROVE  IInv'
  <1> USE DEF LookupFinds, LookupFindsNone, LookupMisses, LookupFails,
              DropAnchorFails, ResolveSubtype, WriteAnchorFails,
              At, Goto, Forsake, world, files, call, history
  <1>1. /\ UNCHANGED <<acc, needed, disk, anchor, watcher, byHand, want, memo,
                       anchored, copy>>
        /\ pc \in {"lookup", "drop", "subtype", "anchor"}
        /\ faults' \in 0 .. MaxFaults
    BY FaultType DEF IInv, TypeOK
  <1>2. want \in WriteSets
    BY <1>1 DEF IInv, Places
  <1>3. /\ Raised' = Raised /\ Recorded' = Recorded
        /\ ParkedFor(want)' = ParkedFor(want)
        /\ Orphans(want)' = Orphans(want)
    BY <1>1 DEF Raised, Recorded, ParkedFor, Orphans, Marked
  <1>4. MemoIsRecorded'
    BY <1>1, <1>3, MemoKept DEF IInv
  <1>5. /\ Orphans(want) \subseteq Issues
        /\ ParkedFor(want) \subseteq forsaken
        /\ pc # "lookup" => Orphans(want) \subseteq forsaken
    BY <1>1 DEF IInv, Places, Creating, Clearing, Orphans, Marked, Raised
  <1>6. CASE LookupFinds
    <2>1. PICK i \in Marked(want) :
            /\ cur' = i /\ reply' = acc[i].status
            /\ forsaken' = forsaken \cup (Orphans(want) \ {i})
      BY <1>6
    <2>2. pc' = "adopt" /\ UNCHANGED faults
      BY <1>6
    <2>3. i \in Raised /\ acc[i].fp = want /\ i \in Issues
      BY <2>1 DEF Marked, Raised
    <2>4. acc[i].status \in Statuses
      BY <2>3 DEF IInv, TypeOK, Raised, Issue
    <2>5. Places'
      BY <1>1, <1>2, <1>3, <1>5, <2>1, <2>2, <2>3
      DEF Places, Finding, Creating, Filling, Clearing
    <2>6. TypeOK'
      BY <1>1, <1>5, <2>1, <2>2, <2>3, <2>4 DEF IInv, TypeOK, watcher, PCs
    <2> QED
      BY <1>1, <1>4, <2>1, <2>5, <2>6, QuietKeeps
  <1>7. CASE ~LookupFinds
    <2>1. /\ pc' \in {"drop", "subtype", "anchor", "create"}
          /\ forsaken \subseteq forsaken' /\ forsaken' \subseteq Issues
          /\ Orphans(want) \subseteq forsaken'
          /\ UNCHANGED <<cur, reply>>
      <3>1. CASE LookupFindsNone
        BY <3>1, <1>5 DEF IInv, TypeOK, Orphans
      <3>2. CASE LookupMisses \/ LookupFails
        BY <3>2, <1>5 DEF IInv, TypeOK
      <3>3. CASE DropAnchorFails \/ ResolveSubtype \/ WriteAnchorFails
        BY <3>3, <1>5 DEF IInv, TypeOK
      <3> QED
        BY <1>7, <3>1, <3>2, <3>3
    <2>2. Places'
      BY <1>1, <1>2, <1>3, <1>5, <2>1
      DEF Places, Finding, Creating, Filling, Clearing
    <2>3. TypeOK'
      BY <1>1, <2>1 DEF IInv, TypeOK, watcher, PCs
    <2> QED
      BY <1>1, <1>4, <2>1, <2>2, <2>3, QuietKeeps
  <1> QED
    BY <1>6, <1>7

-----------------------------------------------------------------------------
\* Steps of the run that write the anchor, a record or an issue.

\* The anchor goes only when every orphan it leads to was given up.
LEMMA AnchorPreserves ==
  ASSUME IInv, ClearAdopted \/ DropAnchor \/ WriteAnchor \/ ClearAnchor
  PROVE  IInv'
  <1> USE DEF ClearAdopted, DropAnchor, WriteAnchor, ClearAnchor, At, world,
              call, history
  <1>1. /\ UNCHANGED <<acc, needed, disk, watcher, forsaken, byHand, faults>>
        /\ pc \in {"adopted", "drop", "anchor", "clear"}
    OBVIOUS
  <1>2. /\ want \in WriteSets
        /\ pc \in Clearing => Orphans(want) \subseteq forsaken
    BY <1>1 DEF IInv, Places
  <1>3. /\ Raised' = Raised /\ Recorded' = Recorded
        /\ \A fp \in WriteSets : ParkedFor(fp)' = ParkedFor(fp)
    BY <1>1 DEF Raised, Recorded, ParkedFor
  <1>4. anchor' \in {anchor, anchor \cup {want}, anchor \ {want}}
    OBVIOUS
  <1>5. pc # "anchor" => Orphans(want) \subseteq forsaken
    BY <1>1, <1>2 DEF Clearing
  <1>6. NoSilentOrphan'
    <2>1. SUFFICES ASSUME NEW i \in Raised, i \notin Recorded
                   PROVE  acc[i].fp \in anchor' \/ i \in forsaken
      BY <1>1, <1>3 DEF NoSilentOrphan
    <2>2. acc[i].fp \in anchor \/ i \in forsaken
      BY <2>1 DEF IInv, NoSilentOrphan
    <2>3. pc # "anchor" /\ acc[i].fp = want => i \in forsaken
      BY <1>5, <2>1 DEF Orphans, Marked
    <2>4. pc = "anchor" => anchor' = anchor \cup {want}
      OBVIOUS
    <2> QED
      BY <1>4, <2>2, <2>3, <2>4
  <1>7. RecordsMatch' /\ ParkedOnce'
    BY <1>1, <1>3 DEF IInv, RecordsMatch, ParkedOnce
  <1>8. WatcherHolds'
    BY <1>1, <1>3 DEF IInv, WatcherHolds, watcher
  <1>9. MemoIsRecorded' /\ Places' /\ TypeOK'
    <2>1. anchor' \subseteq WriteSets
      BY <1>2, <1>4 DEF IInv, TypeOK
    <2>2. CASE ClearAdopted \/ ClearAnchor
      <3>1. \/ NotProposed
            \/ Proposed /\ \E i \in Recorded : disk[i].fp = want
        <4>1. CASE ClearAdopted
          <5>1. Proposed /\ cur \in Recorded /\ disk[cur].fp = want
            BY <4>1 DEF IInv, Places
          <5> QED
            BY <5>1
        <4> QED
          BY <2>2, <4>1
      <3>2. /\ MemoIsRecorded' /\ Places'
            /\ pc' \in PCs /\ want' \subseteq Fixes
            /\ memo' \subseteq WriteSets
            /\ Forget
        BY <1>1, <1>2, <1>3, <3>1, LeaveKeeps
      <3> QED
        BY <1>1, <2>1, <3>2, ForgetType DEF IInv, TypeOK, watcher
    <2>3. CASE DropAnchor \/ WriteAnchor
      <3>1. /\ pc' \in {"subtype", "create"}
            /\ UNCHANGED <<want, memo, cur, reply, copy>>
            /\ anchored' \in BOOLEAN
        BY <2>3 DEF Goto, IInv, TypeOK
      <3>2. MemoIsRecorded'
        BY <1>1, <1>3, <3>1, MemoKept DEF IInv
      <3>3. /\ ParkedFor(want)' = ParkedFor(want)
            /\ Orphans(want)' = Orphans(want)
        BY <1>1, <1>3, <3>1 DEF ParkedFor, Orphans, Marked
      <3>4. /\ ParkedFor(want) \subseteq forsaken
            /\ Orphans(want) \subseteq forsaken
        BY <2>3 DEF IInv, Places, Creating, Clearing
      <3>5. Places'
        BY <1>1, <1>2, <3>1, <3>3, <3>4
        DEF Places, Finding, Creating, Filling, Clearing
      <3>6. TypeOK'
        BY <1>1, <2>1, <3>1 DEF IInv, TypeOK, watcher, PCs
      <3> QED
        BY <3>2, <3>5, <3>6
    <2> QED
      BY <2>2, <2>3
  <1> QED
    BY <1>6, <1>7, <1>8, <1>9 DEF IInv

\* A record saved for an issue of the same write-set, when every other record
\* of it that waits was missed by a scan, and not less applied than before.
LEMMA SaveKeeps ==
  ASSUME IInv, NEW i \in Raised, NEW r \in Record, r.fp = acc[i].fp,
         \A j \in ParkedFor(r.fp) : j = i \/ j \in forsaken \/ i \in forsaken,
         r.applied => i \in Recorded /\ disk[i].applied,
         disk' = [disk EXCEPT ![i] = r],
         UNCHANGED <<acc, anchor, forsaken, watcher>>
  PROVE  /\ disk' \in [Issues -> Record \cup {NoRecord}]
         /\ Raised' = Raised /\ Recorded' = Recorded \cup {i}
         /\ disk'[i] = r
         /\ \A j \in Recorded : disk'[j].fp = disk[j].fp
         /\ RecordsMatch' /\ NoSilentOrphan' /\ ParkedOnce' /\ WatcherHolds'
  <1>1. i \in Issues /\ r # NoRecord
    BY ConstantsAssumption DEF Raised
  <1>2. /\ disk' \in [Issues -> Record \cup {NoRecord}]
        /\ disk'[i] = r
        /\ \A j \in Issues \ {i} : disk'[j] = disk[j]
        /\ Raised' = Raised /\ Recorded' = Recorded \cup {i}
    BY <1>1 DEF IInv, TypeOK, Raised, Recorded
  <1>3. Recorded \subseteq Issues /\ (i \in Recorded => disk[i].fp = acc[i].fp)
    BY DEF Recorded, IInv, RecordsMatch
  <1>4. \A j \in Recorded : disk'[j].fp = disk[j].fp
    BY <1>2, <1>3
  <1>5. RecordsMatch'
    BY <1>2, <1>3 DEF IInv, RecordsMatch
  <1>6. NoSilentOrphan'
    BY <1>2 DEF IInv, NoSilentOrphan
  <1>7. ParkedOnce'
    <2>1. SUFFICES ASSUME NEW fp \in WriteSets,
                          NEW j \in ParkedFor(fp)', NEW k \in ParkedFor(fp)',
                          j # k
                   PROVE  {j, k} \cap forsaken # {}
      BY DEF ParkedOnce
    <2>2. \A n \in ParkedFor(fp)' : n # i => n \in ParkedFor(fp)
      BY <1>2, <1>3 DEF ParkedFor
    <2>3. i \in ParkedFor(fp)' => fp = r.fp
      BY <1>2 DEF ParkedFor
    <2> QED
      BY <2>1, <2>2, <2>3 DEF IInv, ParkedOnce
  <1>8. WatcherHolds'
    <2>1. UNCHANGED <<wpc, wcur, wrec>>
      BY DEF watcher
    <2>2. CASE wpc = "idle"
      BY <2>1, <2>2 DEF WatcherHolds
    <2>3. CASE wpc # "idle"
      <3>1. wcur \in Recorded /\ wrec \in Record /\ wrec.fp = disk[wcur].fp
        BY <2>3 DEF IInv, WatcherHolds
      <3>2. ~disk[wcur].applied => ~disk'[wcur].applied
        BY <1>2, <1>3, <3>1
      <3> QED
        BY <1>2, <1>4, <2>1, <3>1, <3>2 DEF IInv, WatcherHolds
    <2> QED
      BY <2>2, <2>3
  <1> QED
    BY <1>2, <1>4, <1>5, <1>6, <1>7, <1>8

\* A proposal is a record that waits.
LEMMA ProposalType ==
  ASSUME NEW fp \in WriteSets, NEW s \in Statuses
  PROVE  /\ Proposal(fp, s) \in Record
         /\ Proposal(fp, s).fp = fp /\ ~Proposal(fp, s).applied
  BY DEF Proposal, Record

\* Records are written when the run stamps, adopts or creates.
LEMMA RecordPreserves ==
  ASSUME IInv, StampDeclined \/ Adopt \/ WriteRecord PROVE IInv'
  <1> USE DEF At, world, call, history
  <1>1. CASE StampDeclined
    <2> DEFINE r == [copy EXCEPT !.status = "declined", !.life = reply]
    <2>1. /\ UNCHANGED <<acc, needed, anchor, forsaken, byHand, watcher,
                         faults>>
          /\ pc = "stamp" /\ Proposed /\ disk' = [disk EXCEPT ![cur] = r]
      BY <1>1 DEF StampDeclined
    <2>2. /\ want \in WriteSets
          /\ cur \in Recorded /\ disk[cur].fp = want
          /\ copy \in Record /\ copy.fp = want
          /\ copy.applied => disk[cur].applied
          /\ OthersForsaken
      BY <2>1 DEF IInv, Places, Finding
    <2>3. cur \in Raised /\ acc[cur].fp = want
      BY <2>2 DEF IInv, RecordsMatch
    <2>4. r \in Record /\ r.fp = want /\ (r.applied => copy.applied)
      BY <2>2 DEF Record, IInv, TypeOK
    <2>5. \A j \in ParkedFor(want) :
            j = cur \/ j \in forsaken \/ cur \in forsaken
      BY <2>2 DEF OthersForsaken
    <2> HIDE DEF r
    <2>6. /\ disk' \in [Issues -> Record \cup {NoRecord}]
          /\ Recorded' = Recorded \cup {cur} /\ disk'[cur] = r
          /\ \A j \in Recorded : disk'[j].fp = disk[j].fp
          /\ RecordsMatch' /\ NoSilentOrphan' /\ ParkedOnce' /\ WatcherHolds'
      BY <2>1, <2>2, <2>3, <2>4, <2>5, SaveKeeps
    <2>7. /\ MemoIsRecorded' /\ Places'
          /\ pc' \in PCs /\ want' \subseteq Fixes /\ memo' \subseteq WriteSets
          /\ Forget
      BY <2>1, <2>2, <2>4, <2>6, LeaveKeeps
    <2>8. TypeOK'
      BY <2>1, <2>6, <2>7, ForgetType DEF IInv, TypeOK, watcher
    <2> QED
      BY <2>6, <2>7, <2>8 DEF IInv
  <1>2. CASE Adopt \/ WriteRecord
    <2>1. PICK s \in Statuses :
            /\ disk' = [disk EXCEPT ![cur] = Proposal(want, s)]
            /\ pc \in Filling
            /\ UNCHANGED <<acc, needed, anchor, forsaken, byHand, watcher,
                           faults, want, cur, reply, copy, anchored>>
            /\ \/ pc' = "adopted" /\ UNCHANGED memo
               \/ pc' = "clear" /\ memo' = memo \cup {want}
      BY <1>2
      DEF Adopt, WriteRecord, Goto, Remember, Filling, Statuses, IInv, TypeOK
    <2>2. /\ want \in WriteSets
          /\ cur \in Raised /\ acc[cur].fp = want
          /\ ParkedFor(want) \subseteq forsaken
          /\ Orphans(want) \subseteq forsaken \cup {cur}
      BY <2>1 DEF IInv, Places, Filling, Creating
    <2> DEFINE r == Proposal(want, s)
    <2>3. r \in Record /\ r.fp = want /\ ~r.applied
      BY <2>2, ProposalType
    <2> HIDE DEF r
    <2>4. disk' = [disk EXCEPT ![cur] = r]
      BY <2>1 DEF r
    <2>5. /\ disk' \in [Issues -> Record \cup {NoRecord}]
          /\ Raised' = Raised
          /\ Recorded' = Recorded \cup {cur} /\ disk'[cur] = r
          /\ \A j \in Recorded : disk'[j].fp = disk[j].fp
          /\ RecordsMatch' /\ NoSilentOrphan' /\ ParkedOnce' /\ WatcherHolds'
      BY <2>1, <2>2, <2>3, <2>4, SaveKeeps
    <2>6. MemoIsRecorded'
      BY <2>1, <2>3, <2>5 DEF IInv, MemoIsRecorded
    <2>7. Orphans(want)' \subseteq forsaken
      BY <2>1, <2>2, <2>5 DEF Orphans, Marked
    <2>8. Places'
      BY <2>1, <2>2, <2>3, <2>5, <2>7
      DEF Places, Finding, Creating, Filling, Clearing
    <2>9. TypeOK'
      BY <2>1, <2>2, <2>5 DEF IInv, TypeOK, watcher, PCs
    <2> QED
      BY <2>5, <2>6, <2>8, <2>9 DEF IInv
  <1> QED
    BY <1>1, <1>2

\* An issue is created, and its answer arrives or is lost.
LEMMA IssuePreserves == ASSUME IInv, CreateIssue \/ CreateLost PROVE IInv'
  <1> USE DEF At, files, call
  <1>1. /\ pc = "create" /\ want \in WriteSets
        /\ ParkedFor(want) \subseteq forsaken
        /\ Orphans(want) \subseteq forsaken
    BY DEF CreateIssue, CreateLost, IInv, Places, Creating, Clearing
  <1>2. PICK i \in Issues :
          /\ Raise(i)
          /\ \/ /\ pc' = "record" /\ cur' = i
                /\ UNCHANGED <<want, memo, reply, copy, anchored>>
             \/ NotProposed
    BY DEF CreateIssue, CreateLost, Goto
  <1>3. /\ UNCHANGED <<disk, anchor, watcher, needed, byHand>>
        /\ faults' \in 0 .. MaxFaults
    BY <1>2, FaultType DEF CreateIssue, CreateLost, Raise, IInv, TypeOK
  <1> DEFINE new == [fp |-> want, status |-> "open"]
  <1>4. /\ i \notin Raised
        /\ acc' = [acc EXCEPT ![i] = new]
        /\ forsaken' = forsaken \cup (IF want \in anchor THEN {} ELSE {i})
    BY <1>2 DEF Raise, IsNext, Forsake
  <1>5. new \in Issue /\ new.fp = want /\ new # NoIssue
    BY <1>1, ConstantsAssumption DEF Issue, Statuses
  <1> HIDE DEF new
  <1>6. /\ acc' \in [Issues -> Issue \cup {NoIssue}]
        /\ acc'[i] = new
        /\ \A j \in Issues \ {i} : acc'[j] = acc[j]
        /\ Raised' = Raised \cup {i} /\ Recorded' = Recorded
        /\ Raised \subseteq Issues /\ Recorded \subseteq Raised
    BY <1>3, <1>4, <1>5 DEF IInv, TypeOK, Raised, Recorded, RecordsMatch
  <1>7. \A fp \in WriteSets : ParkedFor(fp)' = ParkedFor(fp)
    BY <1>3, <1>6 DEF ParkedFor
  <1>8. RecordsMatch' /\ ParkedOnce' /\ WatcherHolds'
    <2>1. RecordsMatch'
      BY <1>3, <1>4, <1>6 DEF IInv, RecordsMatch
    <2>2. ParkedOnce'
      BY <1>4, <1>7 DEF IInv, ParkedOnce
    <2>3. WatcherHolds'
      BY <1>3, <1>6 DEF IInv, WatcherHolds, watcher
    <2> QED
      BY <2>1, <2>2, <2>3
  <1>9. NoSilentOrphan'
    BY <1>3, <1>4, <1>5, <1>6 DEF IInv, NoSilentOrphan
  <1>10. forsaken' \subseteq Issues
    BY <1>4 DEF IInv, TypeOK
  <1>11. CASE NotProposed
    <2>1. /\ MemoIsRecorded' /\ Places'
          /\ pc' \in PCs /\ want' \subseteq Fixes /\ memo' \subseteq WriteSets
          /\ Forget
      BY <1>1, <1>3, <1>6, <1>11, LeaveKeeps
    <2>2. TypeOK'
      BY <1>3, <1>6, <1>10, <2>1, ForgetType DEF IInv, TypeOK, watcher
    <2> QED
      BY <1>8, <1>9, <2>1, <2>2 DEF IInv
  <1>12. CASE /\ pc' = "record" /\ cur' = i
              /\ UNCHANGED <<want, memo, reply, copy, anchored>>
    <2>1. MemoIsRecorded'
      BY <1>3, <1>6, <1>12, MemoKept DEF IInv
    <2>2. Orphans(want)' \subseteq Orphans(want) \cup {i}
      BY <1>6, <1>12 DEF Orphans, Marked
    <2>3. ParkedFor(want)' = ParkedFor(want)
      BY <1>3, <1>6, <1>12 DEF ParkedFor
    <2>4. Places'
      BY <1>1, <1>4, <1>5, <1>6, <1>12, <2>2, <2>3
      DEF Places, Finding, Creating, Filling, Clearing
    <2>5. TypeOK'
      BY <1>3, <1>6, <1>10, <1>12 DEF IInv, TypeOK, watcher, PCs
    <2> QED
      BY <1>8, <1>9, <2>1, <2>4, <2>5 DEF IInv
  <1> QED
    BY <1>2, <1>11, <1>12

-----------------------------------------------------------------------------
\* The theorems.

\* A stuttering step preserves the invariant.
LEMMA StutterPreserves == ASSUME IInv, UNCHANGED vars PROVE IInv'
  <1> USE DEF vars, world, files, run, call, history, watcher
  <1>1. TypeOK'
    BY DEF IInv, TypeOK
  <1>2. MemoIsRecorded'
    BY DEF IInv, MemoIsRecorded, Recorded
  <1>3. Places'
    BY TameIfUnchanged, TameKeeps
  <1> QED
    BY <1>1, <1>2, <1>3, QuietKeeps

\* What the run and the watcher know is true in every reachable state: the
\* invariant behind the theorems below.
THEOREM PublishInvariance == Spec => []IInv
  <1>1. IInv /\ [Next]_vars => IInv'
    <2> SUFFICES ASSUME IInv, [Next]_vars PROVE IInv'
      OBVIOUS
    <2>1. CASE RunStep \/ RunFault
      BY <2>1, TurnPreserves, LeavePreserves, FindPreserves, LookupPreserves,
         AnchorPreserves, RecordPreserves, IssuePreserves
      DEF RunStep, RunFault
    <2>2. CASE WatcherStep \/ WatcherFault
      BY <2>2, WatcherPreserves
    <2>3. CASE People
      BY <2>3, PeoplePreserves
    <2>4. CASE UNCHANGED vars
      BY <2>4, StutterPreserves
    <2> QED
      BY <2>1, <2>2, <2>3, <2>4 DEF Next
  <1> QED
    BY <1>1, InvInit, PTL DEF Spec

\* Issues, records, anchors and the locals of run and watcher always have the
\* shape the code gives them.
THEOREM PublishTypeCorrect == Spec => []TypeOK
  BY PublishInvariance, PTL DEF IInv

\* However often runs die, calls fail and answers are lost, an issue without a
\* record has an anchor that leads the next run to it, or was given up by a
\* failed or truncated lookup or a failed anchor.
THEOREM OrphansAreAnchored == Spec => []NoSilentOrphan
  BY PublishInvariance, PTL DEF IInv

\* A write-set never has two records waiting, unless a scan or a lookup that
\* failed missed one of them.
THEOREM ParkedAtMostOnce == Spec => []ParkedOnce
  BY PublishInvariance, PTL DEF IInv

\* What a run suppresses as proposed has a record.
THEOREM MemoHasRecords == Spec => []MemoIsRecorded
  BY PublishInvariance, PTL DEF IInv

\* Proposals are accounted for: _create_proposal_issue and its two levels of
\* deduplication.
THEOREM ProposalsAreAccountedFor == Spec => []ProposalsAccountedFor
  BY OrphansAreAnchored, ParkedAtMostOnce, MemoHasRecords, PTL
     DEF ProposalsAccountedFor
=============================================================================
