----------------------- MODULE ApprovalWatcher_proofs -----------------------
(***************************************************************************)
(* Theorems about ApprovalWatcher, for any appliers, proposals and fixes,  *)
(* any number of crashes and any environment.  Two assume more: appliers   *)
(* exclude each other if no apply outlasts _STALE_LOCK_S (Prompt), and     *)
(* what is known to be applied is not forgotten if one process applies     *)
(* (Sole) and a rename does not replace a file; two appliers load the same *)
(* record before either has the lock.                                      *)
(***************************************************************************)
EXTENDS ApprovalWatcher, TLAPS

-----------------------------------------------------------------------------
\* What the parts of a step do to the types.

\* A record that an applier changes in its memory stays a record, and the
\* other appliers keep theirs.
LEMMA HoldType ==
  ASSUME TypeOK, NEW a \in Appliers, pc[a] \in Holding, NEW r \in Record,
         Hold(a, r)
  PROVE  /\ snap' \in [Appliers -> [Proposals -> Record \cup {NoRecord}]]
         /\ snap'[a][cur[a]] = r
         /\ \A b \in Appliers : b # a => snap'[b] = snap[b]
  BY DEF Hold, TypeOK, Rec

\* What an applier knows of its drift check is emptied.
LEMMA ForgetType ==
  ASSUME TypeOK, NEW a \in Appliers, ForgetCheck(a)
  PROVE  /\ toRead' \in [Appliers -> SUBSET Fixes]
         /\ reading' \in [Appliers -> [Fixes -> Readings]]
         /\ blind' \in [Appliers -> SUBSET Fixes]
         /\ toWrite' \in [Appliers -> SUBSET Fixes]
         /\ touched' \in [Appliers -> SUBSET Fixes]
  BY DEF ForgetCheck, TypeOK, NoReadings, Readings

\* A record that is dropped leaves the memory of its applier, which goes on
\* with its pass and works on no record.
LEMMA DropType ==
  ASSUME TypeOK, NEW a \in Appliers, NEW p \in Proposals, Drop(a, p)
  PROVE  /\ pc' \in [Appliers -> PCs]
         /\ cur' \in [Appliers -> Proposals \cup {NoProposal}]
         /\ snap' \in [Appliers -> [Proposals -> Record \cup {NoRecord}]]
         /\ marker' \in [Appliers -> BOOLEAN]
         /\ \A b \in Appliers :
              IF pc'[b] \in Holding \cup Locking
                THEN cur'[b] \in Proposals /\ snap'[b][cur'[b]] \in Record
                ELSE cur'[b] = NoProposal
  <1>1. /\ snap' \in [Appliers -> [Proposals -> Record \cup {NoRecord}]]
        /\ cur' \in [Appliers -> Proposals \cup {NoProposal}]
        /\ marker' \in [Appliers -> BOOLEAN]
        /\ pc' \in [Appliers -> PCs]
        /\ cur'[a] = NoProposal /\ pc'[a] = "scan"
    BY DEF Drop, Goto, TypeOK, PCs
  <1>2. \A b \in Appliers \ {a} :
          snap'[b] = snap[b] /\ cur'[b] = cur[b] /\ pc'[b] = pc[b]
    BY DEF Drop, Goto, TypeOK
  <1>3. pc'[a] \notin Holding \cup Locking
    BY <1>1 DEF Holding, Locking
  <1> QED
    BY <1>1, <1>2, <1>3 DEF TypeOK, Rec

\* Writes keep the model and the history well formed.
LEMMA LandType ==
  ASSUME TypeOK, NEW a \in Appliers, pc[a] \in Holding,
         NEW W \in SUBSET Fixes, Land(a, W)
  PROVE  /\ model' \in [Proposals -> [Fixes -> ModelValues]]
         /\ landed' \in [Proposals -> SUBSET Fixes]
         /\ clobbered' \in SUBSET Proposals
  <1>1. cur[a] \in Proposals /\ Rec(a) \in Record
    BY DEF TypeOK
  <1>2. Target(Rec(a)) \in ModelValues
    BY DEF Target, ModelValues
  <1> QED
    BY <1>1, <1>2 DEF Land, TypeOK

\* A new status of an issue is one of the statuses ACC knows.
LEMMA StatusType ==
  ASSUME TypeOK, NEW p \in Proposals, NEW s \in AccStatuses, SetStatus(p, s)
  PROVE  /\ acc' \in [Proposals -> [status : AccStatuses, marker : BOOLEAN]]
         /\ statuses' \in [Proposals -> SUBSET AccStatuses]
  BY ZenonT(30) DEF SetStatus, TypeOK, AccStatuses

\* An applier that only moves on, within the places where it works on a
\* record or within those where it does not.
LEMMA JumpType ==
  ASSUME TypeOK, NEW a \in Appliers, NEW from \in PCs, NEW to \in PCs,
         Jump(a, from, to),
         from \in Holding \cup Locking <=> to \in Holding \cup Locking
  PROVE  TypeOK'
  BY DEF Jump, Goto, TypeOK, Rec, files, inbox, outside, memory, check, history

LEMMA TypeInit == Init => TypeOK
  BY ConstantsAssumption
  DEF Init, TypeOK, Parked, NoReadings, Record, Lifecycles, AccStatuses,
      ModelValues, Readings, PCs, Holding, Locking

\* The steps of scan_once.
LEMMA ScanType == ASSUME TypeOK, NEW a \in Appliers, ScanStep(a) PROVE TypeOK'
  <1>1. CASE StartPass(a)
    BY <1>1 DEF StartPass, TypeOK, Goto, Rec, PCs, Holding, Locking, files,
                inbox, outside, check, history
  <1>2. CASE EndPass(a)
    BY <1>2, JumpType DEF EndPass, PCs, Holding, Locking
  <1>3. ASSUME NEW p \in Proposals,
               SkipSettled(a, p) \/ PollPending(a, p) \/ PollFails(a, p)
        PROVE  TypeOK'
    <2>1. Drop(a, p) /\ UNCHANGED <<files, outside, check, crashes, history>>
      BY <1>3 DEF SkipSettled, PollPending, PollFails
    <2> QED
      BY <2>1, DropType DEF TypeOK, Rec, files, inbox, outside, check, history
  <1>4. ASSUME NEW p \in Proposals, RetryClose(a, p)
        PROVE  TypeOK'
    BY <1>4 DEF RetryClose, Due, TypeOK, Goto, Rec, PCs, Holding, Locking,
                files, inbox, outside, check, history
  <1>5. ASSUME NEW p \in Proposals, PollApproved(a, p)
        PROVE  TypeOK'
    BY <1>5 DEF PollApproved, Due, TypeOK, Goto, Rec, PCs, Holding, Locking,
                files, inbox, outside, check, history
  <1> QED
    BY <1>1, <1>2, <1>3, <1>4, <1>5 DEF ScanStep

\* The steps of _acquire_lock and _release_lock.
LEMMA LockType == ASSUME TypeOK, NEW a \in Appliers, LockStep(a) PROVE TypeOK'
  <1> USE DEF PCs, Holding, Locking
  <1>0. NewLock(a) \in LockFile
    BY DEF NewLock, LockFile
  <1>1. CASE CreateLock(a)
    BY <1>0, <1>1 DEF CreateLock, TypeOK, Goto, Rec, outside, inbox, memory,
                      check, history
  <1>2. CASE LockHeld(a)
    <2>1. /\ cur[a] \in Proposals /\ Drop(a, cur[a])
          /\ UNCHANGED <<files, outside, check, crashes, history>>
      BY <1>2 DEF LockHeld, TypeOK
    <2> QED
      BY <2>1, DropType DEF TypeOK, Rec, files, outside, inbox, check, history
  <1>3. CASE SeeStaleLock(a)
    BY <1>3, JumpType DEF SeeStaleLock
  <1>4. CASE UnlinkStaleLock(a)
    <2>1. cur[a] \in Proposals
      BY <1>4 DEF UnlinkStaleLock, TypeOK
    <2> QED
      BY <1>4, <2>1 DEF UnlinkStaleLock, TypeOK, Goto, Rec, inbox, outside,
                        memory, check
  <1>4a. CASE UnlinkFails(a)
    <2>1. /\ cur[a] \in Proposals /\ Drop(a, cur[a])
          /\ UNCHANGED <<files, outside, check, crashes, history>>
      BY <1>4a DEF UnlinkFails, TypeOK
    <2> QED
      BY <2>1, DropType DEF TypeOK, Rec, files, outside, inbox, check, history
  <1>5. CASE RecreateLock(a)
    <2>1. /\ cur[a] \in Proposals
          /\ UNCHANGED <<disk, ignored, inbox, outside, check, crashes,
                         history>>
      BY <1>5 DEF RecreateLock, TypeOK
    <2>2. CASE /\ lock' = [lock EXCEPT ![cur[a]] = NewLock(a)]
               /\ Goto(a, "locked")
               /\ UNCHANGED memory
      BY <1>0, <1>5, <2>1, <2>2 DEF RecreateLock, TypeOK, Goto, Rec, outside,
                                    inbox, memory, check, history
    <2>3. CASE Drop(a, cur[a]) /\ UNCHANGED lock
      BY <2>1, <2>3, DropType DEF TypeOK, Rec, outside, inbox, check, history
    <2> QED
      BY <1>5, <2>2, <2>3 DEF RecreateLock
  <1>6. CASE Release(a)
    <2>1. /\ cur[a] \in Proposals /\ Drop(a, cur[a]) /\ ForgetCheck(a)
          /\ lock' = [lock EXCEPT ![cur[a]] = NoLock]
          /\ UNCHANGED <<disk, ignored, inbox, outside, crashes, history>>
      BY <1>6 DEF Release, TypeOK
    <2>2. lock' \in [Proposals -> LockFile \cup {NoLock}]
      BY <2>1 DEF TypeOK
    <2> QED
      BY <2>1, <2>2, DropType, ForgetType DEF TypeOK, Rec, outside, inbox,
                                              history
  <1>7. CASE ReleaseFails(a)
    <2>1. /\ cur[a] \in Proposals /\ Drop(a, cur[a]) /\ ForgetCheck(a)
          /\ UNCHANGED <<files, outside, crashes, history>>
      BY <1>7 DEF ReleaseFails, TypeOK
    <2> QED
      BY <2>1, DropType, ForgetType DEF TypeOK, Rec, files, outside, inbox,
                                        history
  <1> QED
    BY <1>1, <1>2, <1>3, <1>4, <1>4a, <1>5, <1>6, <1>7 DEF LockStep

\* The classification of a pass's readings.
LEMMA ClassifyType ==
  ASSUME TypeOK, NEW a \in Appliers, pc[a] \in Holding,
         NEW rd \in [Fixes -> Readings], Classify(a, rd),
         UNCHANGED <<files, outside, cur, marker, touched, crashes, history>>
  PROVE  TypeOK'
  <1> DEFINE r == Rec(a)
             r2 == [r EXCEPT !.applied = @ \cup Satisfied(r, rd),
                             !.stale = (@ \ Pending(r)) \cup Drifted(r, rd)]
  <1>1. cur[a] \in Proposals /\ r \in Record
    BY DEF TypeOK
  <1>2. /\ Satisfied(r, rd) \subseteq Fixes
        /\ Drifted(r, rd) \subseteq Fixes
        /\ Unjudged(r, rd) \subseteq Fixes
        /\ Kept(r, rd) \subseteq Fixes
    BY DEF Satisfied, Drifted, Judged, Unjudged, Unmoved, Kept, Pending
  <1>3. r2 \in Record
    BY <1>1, <1>2 DEF Record
  <1>4. Hold(a, r2)
    BY DEF Classify
  <1>5. /\ snap' \in [Appliers -> [Proposals -> Record \cup {NoRecord}]]
        /\ snap'[a][cur[a]] \in Record
        /\ \A b \in Appliers : b # a => snap'[b] = snap[b]
    BY <1>3, <1>4, HoldType
  <1>6. /\ toRead' \in [Appliers -> SUBSET Fixes]
        /\ reading' \in [Appliers -> [Fixes -> Readings]]
        /\ blind' \in [Appliers -> SUBSET Fixes]
        /\ toWrite' \in [Appliers -> SUBSET Fixes]
    BY <1>2 DEF Classify, TypeOK, NoReadings, Readings
  <1>7. /\ pc' \in [Appliers -> PCs]
        /\ pc'[a] \in Holding
        /\ \A b \in Appliers : b # a => pc'[b] = pc[b]
    BY DEF Classify, Goto, TypeOK, PCs, Holding
  <1> QED
    BY <1>1, <1>5, <1>6, <1>7 DEF TypeOK, Rec, files, inbox, outside, history

\* The steps of _apply before anything is written.
LEMMA PreviewType ==
  ASSUME TypeOK, NEW a \in Appliers, PreviewStep(a) PROVE TypeOK'
  <1> USE DEF PCs, Holding, Locking
  <1>1. CASE BeginClose(a)
    BY <1>1, JumpType DEF BeginClose
  <1>2. CASE RefuseApply(a)
    <2>1. Rec(a) \in Record /\ cur[a] \in Proposals
      BY <1>2 DEF RefuseApply, TypeOK
    <2>2. [Rec(a) EXCEPT !.life = "integrity_failed"] \in Record
      BY <2>1 DEF Record, Lifecycles
    <2> QED
      BY <1>2, <2>1, <2>2, HoldType DEF RefuseApply, TypeOK, Goto, Rec, files,
                                        inbox, outside, check, history
  <1>3. CASE BeginApply(a)
    BY <1>3 DEF BeginApply, TypeOK, Goto, Rec, Pending, files, inbox, outside,
                memory, history
  <1>4. CASE PreviewBatch(a)
    <2>1. pc[a] \in Holding /\ cur[a] \in Proposals
      BY <1>4 DEF PreviewBatch, TypeOK
    <2>2. PICK measured \in SUBSET toRead[a] :
            Classify(a, [f \in Fixes |-> IF f \in measured
                                           THEN model[cur[a]][f]
                                           ELSE "unread"])
      BY <1>4 DEF PreviewBatch
    <2>3. [f \in Fixes |-> IF f \in measured THEN model[cur[a]][f]
                                             ELSE "unread"]
            \in [Fixes -> Readings]
      BY <2>1 DEF TypeOK, Readings
    <2> QED
      BY <1>4, <2>1, <2>2, <2>3, ClassifyType DEF PreviewBatch
  <1>5. CASE PreviewFallback(a)
    BY <1>5, JumpType DEF PreviewFallback
  <1>6. CASE PreviewLost(a)
    BY <1>6, JumpType DEF PreviewLost
  <1>7. ASSUME NEW f \in Fixes, PreviewOne(a, f)
        PROVE  TypeOK'
    <2>1. pc[a] \in Holding /\ cur[a] \in Proposals
      BY <1>7 DEF PreviewOne, TypeOK
    <2>2. PICK v \in {model[cur[a]][f], "unread"} :
            LET rd == [reading[a] EXCEPT ![f] = v]
            IN IF toRead[a] = {f}
                 THEN Classify(a, rd)
                 ELSE /\ reading' = [reading EXCEPT ![a] = rd]
                      /\ toRead' = [toRead EXCEPT ![a] = @ \ {f}]
                      /\ UNCHANGED <<pc, snap, blind, toWrite>>
      BY <1>7 DEF PreviewOne
    <2>3. [reading[a] EXCEPT ![f] = v] \in [Fixes -> Readings]
      BY <2>1 DEF TypeOK, Readings
    <2>4. CASE toRead[a] = {f}
      BY <1>7, <2>1, <2>2, <2>3, <2>4, ClassifyType DEF PreviewOne
    <2>5. CASE toRead[a] # {f}
      <3>0. /\ reading' = [reading EXCEPT ![a] = [reading[a] EXCEPT ![f] = v]]
            /\ toRead' = [toRead EXCEPT ![a] = @ \ {f}]
            /\ UNCHANGED <<pc, snap, blind, toWrite>>
        BY <2>2, <2>5, Zenon
      <3>1. /\ reading' \in [Appliers -> [Fixes -> Readings]]
            /\ toRead' \in [Appliers -> SUBSET Fixes]
        BY <2>3, <3>0 DEF TypeOK
      <3>2. UNCHANGED <<pc, snap, blind, toWrite, touched, files, outside, cur,
                        marker, crashes, history>>
        BY <1>7, <3>0 DEF PreviewOne
      <3> QED
        BY <3>1, <3>2 DEF TypeOK, Rec, files, inbox, outside, history
    <2> QED
      BY <2>4, <2>5
  <1>8. CASE PreviewUnavailable(a)
    <2>1. Rec(a) \in Record /\ cur[a] \in Proposals
      BY <1>8 DEF PreviewUnavailable, TypeOK
    <2> QED
      BY <1>8, <2>1
      DEF PreviewUnavailable, TypeOK, Goto, Rec, Pending, NoReadings, Readings,
          files, inbox, outside, memory, history
  <1> QED
    BY <1>1, <1>2, <1>3, <1>4, <1>5, <1>6, <1>7, <1>8 DEF PreviewStep

\* The steps of _commit_writes.
LEMMA CommitType ==
  ASSUME TypeOK, NEW a \in Appliers, CommitStep(a) PROVE TypeOK'
  <1> USE DEF PCs, Holding, Locking
  <1>0. toWrite[a] \in SUBSET Fixes
    BY DEF TypeOK
  <1>1. CASE CommitBatch(a)
    <2>1. Rec(a) \in Record /\ cur[a] \in Proposals
      BY <1>1 DEF CommitBatch, TypeOK
    <2>2. PICK env \in Envelopes(toWrite[a]), L \in SUBSET toWrite[a] :
            /\ Land(a, L)
            /\ Hold(a, [Rec(a) EXCEPT !.applied =
                                        @ \cup Confirmed(env, toWrite[a])])
      BY <1>1 DEF CommitBatch
    <2>3. [Rec(a) EXCEPT !.applied = @ \cup Confirmed(env, toWrite[a])]
            \in Record
      BY <1>0, <2>1 DEF Confirmed, Record
    <2> QED
      BY <1>0, <1>1, <2>1, <2>2, <2>3, HoldType, LandType, ForgetType
      DEF CommitBatch, TypeOK, Goto, Rec, files, inbox
  <1>2. CASE CommitRejected(a)
    BY <1>2, JumpType DEF CommitRejected
  <1>3. CASE CommitLost(a)
    BY <1>0, <1>3, LandType
    DEF CommitLost, TypeOK, Goto, Rec, files, inbox, memory, check
  <1>4. CASE CommitFallback(a)
    BY <1>4, JumpType DEF CommitFallback
  <1>5. ASSUME NEW f \in Fixes, CommitOne(a, f)
        PROVE  TypeOK'
    <2>1. Rec(a) \in Record /\ cur[a] \in Proposals
      BY <1>5 DEF CommitOne, TypeOK
    <2>2. [Rec(a) EXCEPT !.applied = @ \cup {f}] \in Record
      BY <2>1 DEF Record
    <2> QED
      BY <1>5, <2>1, <2>2, HoldType, LandType
      DEF CommitOne, NextWrite, TypeOK, Goto, Rec, files, inbox
  <1>6. ASSUME NEW f \in Fixes, CommitOneRejected(a, f)
        PROVE  TypeOK'
    BY <1>6 DEF CommitOneRejected, NextWrite, TypeOK, Goto, Rec, files, inbox,
                outside, memory, history
  <1>7. ASSUME NEW f \in Fixes, CommitOneLost(a, f)
        PROVE  TypeOK'
    BY <1>7, LandType
    DEF CommitOneLost, TypeOK, Goto, Rec, files, inbox, memory, check
  <1> QED
    BY <1>1, <1>2, <1>3, <1>4, <1>5, <1>6, <1>7 DEF CommitStep

\* A record that is saved is the one in the applier's memory.
LEMMA SaveType ==
  ASSUME TypeOK, NEW a \in Appliers, pc[a] \in Holding, NEW r \in Record,
         Save(a, r), NEW to \in {"close", "release"}, Goto(a, to),
         UNCHANGED <<outside, cur, marker, check, crashes, history>>
  PROVE  TypeOK'
  <1>1. cur[a] \in Proposals
    BY DEF TypeOK
  <1> QED
    BY <1>1, HoldType DEF Save, TypeOK, Goto, Rec, PCs, Holding, Locking,
                          inbox, outside, check, history

\* The steps that persist the outcome and close the issue.
LEMMA SettleType ==
  ASSUME TypeOK, NEW a \in Appliers, SettleStep(a) PROVE TypeOK'
  <1> USE DEF PCs, Holding, Locking
  <1>0. "closed" \in AccStatuses
    BY DEF AccStatuses
  <1>1. CASE Persist(a)
    <2>1. Rec(a) \in Record
      BY <1>1 DEF Persist, TypeOK
    <2>2. Outcome(Rec(a), blind[a]) \in Record
      BY <2>1 DEF Outcome, Record, Lifecycles
    <2> QED
      BY <1>1, <2>2, SaveType DEF Persist
  <1>2. CASE PersistRefusal(a)
    <2>1. Rec(a) \in Record
      BY <1>2 DEF PersistRefusal, TypeOK
    <2> QED
      BY <1>2, <2>1, SaveType DEF PersistRefusal
  <1>3. CASE SaveFails(a)
    BY <1>3, JumpType DEF SaveFails
  <1>4. CASE CloseIssue(a)
    BY <1>0, <1>4, StatusType
    DEF CloseIssue, TypeOK, Goto, Rec, files, inbox, memory, check
  <1>5. CASE CloseFails(a)
    BY <1>0, <1>5, StatusType
    DEF CloseFails, TypeOK, Goto, Rec, files, inbox, memory, check
  <1>6. CASE Comment(a)
    BY <1>6, JumpType DEF Comment
  <1>7. CASE CommentFails(a)
    BY <1>7, JumpType DEF CommentFails
  <1>8. CASE FinishClose(a)
    <2>1. Rec(a) \in Record
      BY <1>8 DEF FinishClose, TypeOK
    <2>2. [Rec(a) EXCEPT !.life = "closed"] \in Record
      BY <2>1 DEF Record, Lifecycles
    <2> QED
      BY <1>8, <2>2, SaveType DEF FinishClose
  <1> QED
    BY <1>1, <1>2, <1>3, <1>4, <1>5, <1>6, <1>7, <1>8 DEF SettleStep

\* Crash and restart.
LEMMA CrashType ==
  ASSUME TypeOK, NEW a \in Appliers, Crash(a) \/ Restart(a) PROVE TypeOK'
  <1> USE DEF PCs, Holding, Locking
  <1>1. CASE Crash(a)
    BY <1>1, ForgetType, ConstantsAssumption
    DEF Crash, TypeOK, Goto, Rec, files, inbox, outside, history
  <1>2. CASE Restart(a)
    BY <1>2, JumpType DEF Restart
  <1> QED
    BY <1>1, <1>2

\* The steps of the people, the inbox and the clock.
LEMMA EnvironmentType ==
  ASSUME TypeOK, NEW p \in Proposals, EnvironmentStep(p) PROVE TypeOK'
  <1>1. CASE Approve(p) \/ HumanSetsStatus(p)
    <2>1. PICK s \in AccStatuses : SetStatus(p, s)
      BY <1>1 DEF Approve, HumanSetsStatus, AccStatuses
    <2> QED
      BY <1>1, <2>1, StatusType DEF Approve, HumanSetsStatus, TypeOK, Rec,
                                    files, inbox, memory, check
  <1>2. CASE StripMarker(p)
    BY ZenonT(30), <1>2
    DEF StripMarker, TypeOK, Rec, files, inbox, memory, check, history
  <1>3. ASSUME NEW f \in Fixes, HumanEdits(p, f)
        PROVE  TypeOK'
    <2>0. PICK v \in ModelValues :
            /\ model' = [model EXCEPT ![p][f] = v]
            /\ landed' = [landed EXCEPT ![p] = IF v = "new" THEN @ \cup {f}
                                                            ELSE @]
      BY <1>3 DEF HumanEdits, ModelValues
    <2>1. /\ model' \in [Proposals -> [Fixes -> ModelValues]]
          /\ landed' \in [Proposals -> SUBSET Fixes]
      BY <2>0 DEF TypeOK
    <2>2. touched' \in [Appliers -> SUBSET Fixes]
      BY <1>3 DEF HumanEdits, TypeOK
    <2> QED
      BY <1>3, <2>1, <2>2 DEF HumanEdits, TypeOK, Rec, files, inbox, memory
  <1>4. CASE RecordEdited(p)
    <2>0. disk[p] \in Record
      BY <1>4 DEF RecordEdited, TypeOK
    <2>1. [disk[p] EXCEPT !.intact = FALSE] \in Record
      BY <2>0 DEF Record
    <2>2. disk' \in [Proposals -> Record \cup {NoRecord}]
      BY <1>4, <2>1 DEF RecordEdited, TypeOK
    <2> QED
      BY <1>4, <2>2 DEF RecordEdited, TypeOK, Rec, inbox, outside, memory,
                        check, history
  <1>5. CASE IgnoreChecked(p) \/ IgnoreMoved(p) \/ RestoreChecked(p)
             \/ RestoreMoved(p)
    BY <1>5 DEF IgnoreChecked, IgnoreMoved, RestoreChecked, RestoreMoved,
                inbox, TypeOK, Rec, outside, memory, check, history
  <1>6. CASE LockAges(p)
    BY ZenonT(30), <1>6
    DEF LockAges, TypeOK, Rec, LockFile, inbox, outside, memory, check,
        history
  <1> QED
    BY <1>1, <1>2, <1>3, <1>4, <1>5, <1>6 DEF EnvironmentStep

LEMMA TypeNext == TypeOK /\ [Next]_vars => TypeOK'
  <1> SUFFICES ASSUME TypeOK, [Next]_vars PROVE TypeOK'
    OBVIOUS
  <1>1. CASE UNCHANGED vars
    BY <1>1 DEF vars, files, inbox, outside, memory, check, history, TypeOK,
                Rec
  <1>2. CASE Next
    BY <1>2, ScanType, LockType, PreviewType, CommitType, SettleType,
       CrashType, EnvironmentType
    DEF Next, ApplierStep, WorkStep
  <1> QED
    BY <1>1, <1>2

\* Records, lock files, the model and the memory of every applier keep the
\* shape the code gives them, and an applier in _apply works on a record.
THEOREM TypeCorrect == Spec => []TypeOK
  <1> QED
    BY TypeInit, TypeNext, PTL DEF Spec

-----------------------------------------------------------------------------
\* The inductive invariant behind the safety properties.

Writing == {"preview", "previewOne", "commit", "commitOne"}
Closing == {"close", "comment", "finish"}

\* What record r of proposal p claims is so: L are the targets of p that
\* held the new value, if that can be told (gated), S its statuses.
Claims(r, gated, L, S) ==
  /\ gated => r.applied \subseteq L
  /\ r.done => r.applied = Fixes /\ "in_progress" \in S
  /\ r.life = "closed" => "closed" \in S

RecordSound(r, p) == Claims(r, Gated(p), landed[p], statuses[p])

\* ... on disk, in _ignored and in the memory of every applier.
RecordsSound ==
  \A p \in Proposals :
    /\ disk[p] # NoRecord => RecordSound(disk[p], p)
    /\ ignored[p] # NoRecord => RecordSound(ignored[p], p)
    /\ \A a \in Appliers :
         snap[a][p] # NoRecord => RecordSound(snap[a][p], p)

\* The approved value is in the model only if it was put there, and an edited
\* one only where nothing could tell it from the approved one.
ModelSound ==
  \A p \in Proposals, f \in Fixes :
    /\ model[p][f] = "new" => f \in landed[p]
    /\ model[p][f] = "edited" => ~Gated(p)

\* Where an applier is tells what it has established about its record.
ApplierSound(a) ==
  /\ pc[a] \in Holding \cup Locking => "in_progress" \in statuses[cur[a]]
  /\ pc[a] \in Locking \cup {"locked"} /\ ~Rec(a).done /\ acc[cur[a]].marker
       => marker[a]
  /\ pc[a] \in Writing /\ Gated(cur[a]) => Rec(a).intact
  /\ pc[a] \in Closing => Rec(a).done
  /\ pc[a] \in {"comment", "finish"} => "closed" \in statuses[cur[a]]
  /\ \A f \in Fixes :
       reading[a][f] = "new" => pc[a] = "previewOne" /\ f \in landed[cur[a]]

\* The history knows the status an issue has now.
StatusesRemembered == \A p \in Proposals : acc[p].status \in statuses[p]

IInv == /\ TypeOK
        /\ RecordsSound
        /\ StatusesRemembered
        /\ ModelSound
        /\ \A a \in Appliers : ApplierSound(a)

\* What the part outside the memory of applier a does in a step: issues keep
\* or lose their marker, values that landed and statuses are remembered.
Grows == \A p \in Proposals : /\ landed[p] \subseteq landed'[p]
                              /\ statuses[p] \subseteq statuses'[p]
                              /\ acc'[p].marker => acc[p].marker

Alone(a) == \A b \in Appliers \ {a} :
              /\ pc'[b] = pc[b] /\ cur'[b] = cur[b] /\ snap'[b] = snap[b]
              /\ marker'[b] = marker[b] /\ reading'[b] = reading[b]

\* A record that was sound stays so.
LEMMA SoundStays ==
  ASSUME Grows, NEW p \in Proposals, NEW r \in Record, RecordSound(r, p)
  PROVE  Claims(r, Gated(p)', landed'[p], statuses'[p])
  BY DEF Grows, RecordSound, Claims, Gated

\* A step that does not touch the memory of applier b leaves what it holds
\* sound.
LEMMA BystanderSound ==
  ASSUME IInv, TypeOK', Grows, NEW b \in Appliers, pc'[b] = pc[b],
         cur'[b] = cur[b], snap'[b] = snap[b], marker'[b] = marker[b],
         reading'[b] = reading[b]
  PROVE  /\ ApplierSound(b)'
         /\ \A p \in Proposals :
              snap'[b][p] # NoRecord => RecordSound(snap[b][p], p)'
  <1>1. ApplierSound(b)'
    <2>1. CASE pc[b] \in Holding \cup Locking
      <3>1. cur[b] \in Proposals /\ Rec(b)' = Rec(b)
        BY <2>1 DEF IInv, TypeOK, Rec
      <3> QED
        BY <3>1 DEF IInv, ApplierSound, Grows, Gated
    <2>2. CASE pc[b] \notin Holding \cup Locking
      BY <2>2 DEF IInv, ApplierSound, Holding, Locking, Writing, Closing
    <2> QED
      BY <2>1, <2>2
  <1>2. ASSUME NEW p \in Proposals, snap'[b][p] # NoRecord
        PROVE  RecordSound(snap[b][p], p)'
    <2>1. snap'[b][p] = snap[b][p] /\ snap[b][p] \in Record
      BY <1>2 DEF IInv, TypeOK
    <2>2. RecordSound(snap[b][p], p)
      BY <1>2, <2>1 DEF IInv, RecordsSound
    <2> QED
      BY <2>1, <2>2, SoundStays DEF RecordSound
  <1> QED
    BY <1>1, <1>2

\* A step of one applier leaves the others sound.
LEMMA OthersSound ==
  ASSUME IInv, TypeOK', NEW a \in Appliers, Grows, Alone(a)
  PROVE  \A b \in Appliers \ {a} :
           /\ ApplierSound(b)'
           /\ \A p \in Proposals :
                snap'[b][p] # NoRecord => RecordSound(snap[b][p], p)'
  BY BystanderSound DEF Alone

\* A step that changes neither the records nor the world outside needs to
\* keep the memory of its applier sound.
LEMMA QuietSound ==
  ASSUME IInv, TypeOK', NEW a \in Appliers, Alone(a), ApplierSound(a)',
         UNCHANGED <<disk, ignored, acc, model, landed, statuses>>,
         \A p \in Proposals :
           snap'[a][p] # NoRecord => RecordSound(snap[a][p], p)'
  PROVE  IInv'
  <1>1. Grows
    BY DEF Grows, IInv, TypeOK
  <1>2. \A b \in Appliers :
           /\ ApplierSound(b)'
           /\ \A p \in Proposals :
                snap'[b][p] # NoRecord => RecordSound(snap[b][p], p)'
    BY <1>1, OthersSound
  <1>3. ModelSound' /\ StatusesRemembered'
    BY DEF IInv, ModelSound, StatusesRemembered, Gated
  <1>4. \A p \in Proposals :
          /\ disk'[p] # NoRecord => RecordSound(disk[p], p)'
          /\ ignored'[p] # NoRecord => RecordSound(ignored[p], p)'
    BY DEF IInv, RecordsSound, RecordSound, Gated
  <1> QED
    BY <1>2, <1>3, <1>4 DEF IInv, RecordsSound

\* An applier that only moves on, to a place that asks nothing new of it.
LEMMA JumpSound ==
  ASSUME IInv, TypeOK', NEW a \in Appliers, NEW from \in PCs, NEW to \in PCs,
         Jump(a, from, to), ApplierSound(a)'
  PROVE  IInv'
  <1>1. Alone(a)
    BY DEF Jump, Goto, Alone, IInv, TypeOK, memory, check
  <1>2. UNCHANGED <<disk, ignored, acc, model, landed, statuses, snap>>
    BY DEF Jump, files, inbox, outside, memory, history
  <1>3. \A p \in Proposals :
          snap'[a][p] # NoRecord => RecordSound(snap[a][p], p)'
    BY <1>2 DEF IInv, RecordsSound, RecordSound, Gated
  <1> QED
    BY <1>1, <1>2, <1>3, QuietSound

\* A record that is dropped takes nothing along but itself.
LEMMA DropSound ==
  ASSUME IInv, TypeOK', NEW a \in Appliers, NEW p \in Proposals, Drop(a, p),
         UNCHANGED <<disk, ignored, acc, model, landed, statuses>>,
         \A b \in Appliers \ {a} : reading'[b] = reading[b],
         \A f \in Fixes : reading'[a][f] # "new"
  PROVE  IInv'
  <1>1. Alone(a)
    BY DEF Drop, Goto, Alone, IInv, TypeOK
  <1>2. ApplierSound(a)'
    <2>1. pc'[a] = "scan"
      BY DEF Drop, Goto, IInv, TypeOK
    <2> QED
      BY <2>1 DEF ApplierSound, Holding, Locking, Writing, Closing
  <1>3. \A q \in Proposals :
          snap'[a][q] # NoRecord => RecordSound(snap[a][q], q)'
    <2> TAKE q \in Proposals
    <2>1. snap'[a][q] \in {snap[a][q], NoRecord}
      BY DEF Drop, IInv, TypeOK
    <2> QED
      BY <2>1 DEF IInv, RecordsSound, RecordSound, Gated
  <1> QED
    BY <1>1, <1>2, <1>3, QuietSound

\* Nothing has been read where no per-element preview is under way.
LEMMA NothingRead ==
  ASSUME IInv, NEW a \in Appliers, pc[a] # "previewOne"
  PROVE  \A f \in Fixes : reading[a][f] # "new"
  BY DEF IInv, ApplierSound

LEMMA InitSound == Init => IInv
  <1> SUFFICES ASSUME Init PROVE IInv
    OBVIOUS
  <1>1. TypeOK
    BY TypeInit
  <1>2. RecordsSound
    BY DEF Init, RecordsSound, RecordSound, Claims, Parked
  <1>3. ModelSound /\ StatusesRemembered
    BY DEF Init, ModelSound, StatusesRemembered
  <1>4. \A a \in Appliers : ApplierSound(a)
    BY DEF Init, ApplierSound, NoReadings, Holding, Locking, Writing, Closing
  <1> QED
    BY <1>1, <1>2, <1>3, <1>4 DEF IInv

\* The steps of scan_once: a record is taken up only after ACC said
\* in_progress, or when it was applied, hence approved, before.
LEMMA ScanSound == ASSUME IInv, NEW a \in Appliers, ScanStep(a) PROVE IInv'
  <1>0. TypeOK /\ TypeOK'
    BY ScanType DEF IInv
  <1>1. CASE StartPass(a)
    <2>1. Alone(a) /\ UNCHANGED <<disk, ignored, acc, model, landed, statuses>>
      BY <1>0, <1>1 DEF StartPass, Goto, Alone, TypeOK, files, inbox, outside,
                        check, history
    <2>2. pc'[a] = "scan" /\ reading'[a] = reading[a] /\ pc[a] = "idle"
      BY <1>0, <1>1 DEF StartPass, Goto, TypeOK, check
    <2>3. ApplierSound(a)'
      BY <2>2, NothingRead DEF ApplierSound, Holding, Locking, Writing, Closing
    <2>4. \A p \in Proposals :
            snap'[a][p] # NoRecord => RecordSound(snap[a][p], p)'
      <3>1. snap'[a] = disk
        BY <1>0, <1>1 DEF StartPass, TypeOK
      <3> QED
        BY <2>1, <3>1 DEF IInv, RecordsSound, RecordSound, Gated
    <2> QED
      BY <1>0, <2>1, <2>3, <2>4, QuietSound
  <1>2. CASE EndPass(a)
    <2>1. Jump(a, "scan", "idle")
      BY <1>2 DEF EndPass
    <2>2. ApplierSound(a)'
      BY ZenonT(30), <1>0, <2>1, NothingRead
      DEF Jump, Goto, TypeOK, check, ApplierSound, Holding, Locking, Writing,
          Closing
    <2> QED
      BY <1>0, <2>1, <2>2, JumpSound DEF PCs
  <1>3. ASSUME NEW p \in Proposals,
               SkipSettled(a, p) \/ PollPending(a, p) \/ PollFails(a, p)
        PROVE  IInv'
    <2>1. /\ Drop(a, p) /\ pc[a] = "scan"
          /\ UNCHANGED <<disk, ignored, acc, model, landed, statuses, reading>>
      BY <1>3 DEF SkipSettled, PollPending, PollFails, Due, files, inbox,
                  outside, check, history
    <2> QED
      BY <1>0, <2>1, NothingRead, DropSound
  <1>4. ASSUME NEW p \in Proposals, RetryClose(a, p) \/ PollApproved(a, p)
        PROVE  IInv'
    <2>1. /\ Alone(a)
          /\ UNCHANGED <<disk, ignored, acc, model, landed, statuses, snap>>
          /\ pc'[a] = "lock" /\ cur'[a] = p /\ reading'[a] = reading[a]
          /\ pc[a] = "scan" /\ snap[a][p] # NoRecord
      BY <1>0, <1>4 DEF RetryClose, PollApproved, Due, Goto, Alone, TypeOK,
                        files, inbox, outside, check, history
    <2>2. \A q \in Proposals :
            snap'[a][q] # NoRecord => RecordSound(snap[a][q], q)'
      BY <2>1 DEF IInv, RecordsSound, RecordSound, Gated
    <2>3. ApplierSound(a)'
      <3>1. "in_progress" \in statuses[p]
        BY <1>4, <2>1 DEF RetryClose, PollApproved, IInv, RecordsSound,
                          RecordSound, Claims, StatusesRemembered
      <3>2. ~snap[a][p].done => marker'[a] = acc[p].marker
        BY <1>0, <1>4 DEF RetryClose, PollApproved, TypeOK
      <3> QED
        BY <2>1, <3>1, <3>2, NothingRead
        DEF ApplierSound, Rec, Holding, Locking, Writing, Closing
    <2> QED
      BY <1>0, <2>1, <2>2, <2>3, QuietSound
  <1> QED
    BY <1>1, <1>2, <1>3, <1>4 DEF ScanStep

\* The steps on the lock file: what was established when the issue was read
\* stays.
LEMMA LockSound == ASSUME IInv, NEW a \in Appliers, LockStep(a) PROVE IInv'
  <1>0. TypeOK /\ TypeOK'
    BY LockType DEF IInv
  <1> USE DEF Holding, Locking
  <1>1. CASE SeeStaleLock(a)
    <2>1. Jump(a, "lock", "steal")
      BY <1>1 DEF SeeStaleLock
    <2>2. ApplierSound(a)'
      BY <1>0, <2>1, NothingRead
      DEF IInv, Jump, Goto, TypeOK, memory, check, outside, history,
          ApplierSound, Rec, Writing, Closing
    <2> QED
      BY <1>0, <2>1, <2>2, JumpSound DEF PCs
  <1>2. ASSUME pc[a] \in Locking, Drop(a, cur[a]),
               UNCHANGED <<disk, ignored, outside, check, history>>
        PROVE  IInv'
    <2>1. cur[a] \in Proposals
      BY <1>0, <1>2 DEF TypeOK
    <2> QED
      BY <1>0, <1>2, <2>1, NothingRead, DropSound DEF outside, check, history
  <1>3. ASSUME pc[a] \in Locking, NEW to \in {"recreate", "locked"},
               Goto(a, to),
               UNCHANGED <<disk, ignored, outside, memory, check, landed,
                           statuses>>
        PROVE  IInv'
    <2>1. /\ Alone(a)
          /\ UNCHANGED <<disk, ignored, acc, model, landed, statuses, snap,
                         reading, cur, marker>>
          /\ pc'[a] = to
      BY <1>0, <1>3 DEF Goto, Alone, TypeOK, outside, memory, check
    <2>2. \A p \in Proposals :
            snap'[a][p] # NoRecord => RecordSound(snap[a][p], p)'
      BY <2>1 DEF IInv, RecordsSound, RecordSound, Gated
    <2>3. ApplierSound(a)'
      BY <1>3, <2>1, NothingRead
      DEF IInv, ApplierSound, Rec, Writing, Closing
    <2> QED
      BY <1>0, <2>1, <2>2, <2>3, QuietSound
  <1>4. CASE CreateLock(a)
    BY <1>3, <1>4 DEF CreateLock, history
  <1>5. CASE LockHeld(a)
    BY <1>2, <1>5 DEF LockHeld, files, inbox
  <1>6. CASE UnlinkStaleLock(a)
    <2>1. /\ pc[a] \in Locking /\ Goto(a, "recreate")
          /\ UNCHANGED <<disk, ignored, outside, memory, check, landed,
                         statuses>>
      BY <1>6 DEF UnlinkStaleLock
    <2> QED
      BY <1>3, <2>1
  <1>6a. CASE UnlinkFails(a)
    BY <1>2, <1>6a DEF UnlinkFails, files, Locking
  <1>7. CASE RecreateLock(a)
    BY <1>2, <1>3, <1>7 DEF RecreateLock, history
  <1>8. CASE Release(a) \/ ReleaseFails(a)
    <2>1. /\ cur[a] \in Proposals /\ Drop(a, cur[a]) /\ ForgetCheck(a)
          /\ UNCHANGED <<disk, ignored, acc, model, landed, statuses>>
      BY <1>0, <1>8 DEF Release, ReleaseFails, TypeOK, files, outside, history
    <2>2. /\ \A b \in Appliers \ {a} : reading'[b] = reading[b]
          /\ \A f \in Fixes : reading'[a][f] # "new"
      BY <1>0, <2>1 DEF ForgetCheck, TypeOK, NoReadings
    <2> QED
      BY <1>0, <2>1, <2>2, DropSound
  <1> QED
    BY <1>1, <1>4, <1>5, <1>6, <1>6a, <1>7, <1>8 DEF LockStep

\* A record in the hands of applier a that is replaced by a sound one.
LEMMA HoldSound ==
  ASSUME IInv, TypeOK', NEW a \in Appliers, pc[a] \in Holding, Alone(a),
         NEW r \in Record, Hold(a, r), UNCHANGED cur, Grows,
         Claims(r, Gated(cur[a])', landed'[cur[a]], statuses'[cur[a]])
  PROVE  \A p \in Proposals :
           snap'[a][p] # NoRecord => RecordSound(snap[a][p], p)'
  <1> TAKE p \in Proposals
  <1>1. CASE p = cur[a]
    <2>1. snap'[a][p] = r
      BY <1>1, HoldType DEF IInv
    <2> QED
      BY <1>1, <2>1 DEF RecordSound
  <1>2. CASE p # cur[a]
    <2>1. snap'[a][p] = snap[a][p]
      BY <1>2 DEF Hold, IInv, TypeOK
    <2>2. snap[a][p] # NoRecord => snap[a][p] \in Record
                                   /\ RecordSound(snap[a][p], p)
      BY DEF IInv, TypeOK, RecordsSound
    <2> QED
      BY <2>1, <2>2, SoundStays DEF RecordSound
  <1> QED
    BY <1>1, <1>2

\* What the drift check calls satisfied did land.
LEMMA ClassifySound ==
  ASSUME IInv, TypeOK', NEW a \in Appliers, pc[a] \in Writing,
         NEW rd \in [Fixes -> Readings], Classify(a, rd),
         \A f \in Fixes : rd[f] = "new" => f \in landed[cur[a]],
         UNCHANGED <<files, outside, cur, marker, crashes, history>>
  PROVE  IInv'
  <1> DEFINE r == Rec(a)
             r2 == [r EXCEPT !.applied = @ \cup Satisfied(r, rd),
                             !.stale = (@ \ Pending(r)) \cup Drifted(r, rd)]
             place == IF Kept(r, rd) = {} THEN "persist" ELSE "commit"
  <1>0. pc[a] \in Holding
    BY DEF Writing, Holding
  <1>1. cur[a] \in Proposals /\ r \in Record /\ snap[a][cur[a]] # NoRecord
    BY <1>0, ConstantsAssumption DEF IInv, TypeOK, Rec
  <1>2. RecordSound(r, cur[a])
    BY <1>1 DEF IInv, RecordsSound, Rec
  <1>3. r2 \in Record
    <2>1. /\ Satisfied(r, rd) \subseteq Fixes
          /\ Drifted(r, rd) \subseteq Fixes
      BY DEF Satisfied, Drifted, Judged, Unjudged, Pending
    <2> QED
      BY <1>1, <2>1 DEF Record
  <1>4. /\ Alone(a) /\ Grows /\ Hold(a, r2)
        /\ UNCHANGED <<disk, ignored, acc, model, landed, statuses, cur>>
        /\ pc'[a] = place
        /\ reading'[a] = NoReadings
    BY DEF Classify, Goto, Hold, Alone, Grows, IInv, TypeOK, files, inbox,
           outside, history
  <1>5. Gated(cur[a]) => Satisfied(r, rd) \subseteq landed[cur[a]]
    BY DEF Satisfied, Judged, Pending, Target, IInv, ApplierSound
  <1>6. /\ r2.done = r.done /\ r2.life = r.life /\ r2.intact = r.intact
        /\ r2.applied = r.applied \cup Satisfied(r, rd)
    BY <1>1 DEF Record
  <1>7. Claims(r2, Gated(cur[a])', landed'[cur[a]], statuses'[cur[a]])
    <2>1. r2.done => r2.applied = Fixes
      BY <1>2, <1>6 DEF RecordSound, Claims, Satisfied, Judged, Pending
    <2> QED
      BY <1>2, <1>4, <1>5, <1>6, <2>1 DEF RecordSound, Claims, Gated
  <1>8. ApplierSound(a)'
    <2>1. snap'[a][cur'[a]] = r2
      BY <1>0, <1>3, <1>4, HoldType DEF IInv
    <2>2. /\ "in_progress" \in statuses'[cur'[a]]
          /\ Gated(cur[a])' => r2.intact
      BY <1>0, <1>4, <1>6 DEF IInv, ApplierSound, Gated
    <2>3. place \notin Closing \cup Locking \cup {"locked"}
      BY DEF Closing, Locking
    <2> HIDE DEF r2, place
    <2> QED
      BY <1>4, <2>1, <2>2, <2>3
      DEF ApplierSound, Rec, NoReadings, Closing, Gated
  <1>9. \A p \in Proposals :
          snap'[a][p] # NoRecord => RecordSound(snap[a][p], p)'
    BY <1>0, <1>3, <1>4, <1>7, HoldSound
  <1> QED
    BY <1>4, <1>8, <1>9, QuietSound

\* A step that leaves the world alone and changes the record in the hands of
\* applier a to one that claims the same, or less.
LEMMA AmendSound ==
  ASSUME IInv, TypeOK', NEW a \in Appliers, pc[a] \in Holding,
         NEW r \in Record, Hold(a, r), NEW to \in Holding, Goto(a, to),
         r.applied = Rec(a).applied, r.done = Rec(a).done,
         r.intact = Rec(a).intact,
         r.life = "closed" => Rec(a).life = "closed",
         to \in Writing => pc[a] \in Writing,
         to \notin Closing \cup {"locked"},
         \A b \in Appliers \ {a} : reading'[b] = reading[b],
         \A f \in Fixes : reading'[a][f] # "new",
         UNCHANGED <<files, outside, cur, marker, history>>
  PROVE  IInv'
  <1>1. cur[a] \in Proposals /\ snap[a][cur[a]] # NoRecord
    BY ConstantsAssumption DEF IInv, TypeOK, Rec
  <1>2. RecordSound(Rec(a), cur[a])
    BY <1>1 DEF IInv, RecordsSound, Rec
  <1>3. /\ Alone(a) /\ Grows
        /\ UNCHANGED <<disk, ignored, acc, model, landed, statuses, cur>>
        /\ pc'[a] = to
    BY DEF Hold, Goto, Alone, Grows, IInv, TypeOK, files, inbox, outside,
           history
  <1>4. Claims(r, Gated(cur[a])', landed'[cur[a]], statuses'[cur[a]])
    BY <1>2, <1>3 DEF RecordSound, Claims, Gated
  <1>5. \A p \in Proposals :
          snap'[a][p] # NoRecord => RecordSound(snap[a][p], p)'
    BY <1>3, <1>4, HoldSound
  <1>6. ApplierSound(a)'
    <2>1. snap'[a][cur'[a]] = r
      BY <1>3, HoldType DEF IInv
    <2>2. "in_progress" \in statuses'[cur'[a]]
      BY <1>3 DEF IInv, ApplierSound
    <2>3. to \in Writing /\ Gated(cur[a])' => r.intact
      BY <1>3 DEF IInv, ApplierSound, Gated
    <2>4. to \notin Locking \cup {"locked", "comment", "finish"}
      BY DEF Holding, Locking, Closing
    <2> QED
      BY <1>3, <2>1, <2>2, <2>3, <2>4 DEF ApplierSound, Rec, Closing, Gated
  <1> QED
    BY <1>3, <1>5, <1>6, QuietSound

\* The steps of _apply before anything is written.
LEMMA PreviewSound ==
  ASSUME IInv, NEW a \in Appliers, PreviewStep(a) PROVE IInv'
  <1>0. TypeOK /\ TypeOK'
    BY PreviewType DEF IInv
  <1>1. CASE BeginClose(a)
    <2>1. Jump(a, "locked", "close") /\ Rec(a).done
      BY <1>1 DEF BeginClose
    <2>2. ApplierSound(a)'
      BY <1>0, <2>1, NothingRead
      DEF IInv, Jump, Goto, TypeOK, memory, check, outside, history,
          ApplierSound, Rec, Holding, Locking, Writing, Closing
    <2> QED
      BY <1>0, <2>1, <2>2, JumpSound DEF PCs, Holding
  <1>2. CASE RefuseApply(a)
    <2> DEFINE r == [Rec(a) EXCEPT !.life = "integrity_failed"]
    <2>1. Rec(a) \in Record /\ pc[a] = "locked"
      BY <1>0, <1>2 DEF RefuseApply, TypeOK, Holding
    <2>2. /\ r \in Record /\ r.applied = Rec(a).applied
          /\ r.done = Rec(a).done /\ r.intact = Rec(a).intact
          /\ r.life # "closed"
      BY <2>1 DEF Record, Lifecycles
    <2>3. /\ Hold(a, r) /\ Goto(a, "refuse") /\ UNCHANGED reading
          /\ UNCHANGED <<files, outside, cur, marker, history>>
      BY <1>2 DEF RefuseApply, check
    <2> HIDE DEF r
    <2>4. "refuse" \in Holding /\ "refuse" \notin Writing
          /\ "refuse" \notin Closing \cup {"locked"} /\ pc[a] \in Holding
      BY <2>1 DEF Holding, Writing, Closing
    <2> QED
      BY <1>0, <2>1, <2>2, <2>3, <2>4, NothingRead, AmendSound
  <1>3. CASE BeginApply(a)
    <2>1. /\ Alone(a) /\ pc[a] = "locked" /\ pc'[a] = "preview"
          /\ UNCHANGED <<disk, ignored, acc, model, landed, statuses, snap,
                         cur, reading>>
          /\ cur[a] \in Proposals /\ ~Rec(a).done /\ Verified(a)
      BY <1>0, <1>3 DEF BeginApply, Goto, Alone, TypeOK, files, inbox, outside,
                        memory, history, Holding
    <2>2. \A p \in Proposals :
            snap'[a][p] # NoRecord => RecordSound(snap[a][p], p)'
      BY <2>1 DEF IInv, RecordsSound, RecordSound, Gated
    <2>3. Gated(cur[a]) => Rec(a).intact
      BY <2>1 DEF Verified, Gated, IInv, ApplierSound
    <2>4. ApplierSound(a)'
      BY <2>1, <2>3, NothingRead
      DEF IInv, ApplierSound, Rec, Gated, Holding, Locking, Writing, Closing
    <2> QED
      BY <1>0, <2>1, <2>2, <2>4, QuietSound
  <1>4. CASE PreviewBatch(a)
    <2>1. pc[a] = "preview" /\ cur[a] \in Proposals
      BY <1>0, <1>4 DEF PreviewBatch, TypeOK, Holding
    <2>2. PICK measured \in SUBSET toRead[a] :
            Classify(a, [f \in Fixes |-> IF f \in measured
                                           THEN model[cur[a]][f]
                                           ELSE "unread"])
      BY <1>4 DEF PreviewBatch
    <2> DEFINE rd == [f \in Fixes |-> IF f \in measured THEN model[cur[a]][f]
                                                        ELSE "unread"]
    <2>3. rd \in [Fixes -> Readings]
      BY <1>0, <2>1 DEF TypeOK, Readings
    <2>4. \A f \in Fixes : rd[f] = "new" => f \in landed[cur[a]]
      BY <2>1 DEF IInv, ModelSound
    <2>5. UNCHANGED <<files, outside, cur, marker, crashes, history>>
      BY <1>4 DEF PreviewBatch
    <2> QED
      <3>1. Classify(a, rd) /\ pc[a] \in Writing
        BY <2>1, <2>2 DEF Writing
      <3> HIDE DEF rd
      <3> QED
        BY <1>0, <2>3, <2>4, <2>5, <3>1, ClassifySound
  <1>5. CASE PreviewFallback(a)
    <2>1. Jump(a, "preview", "previewOne")
      BY <1>5 DEF PreviewFallback
    <2>2. ApplierSound(a)'
      BY <1>0, <2>1, NothingRead
      DEF IInv, Jump, Goto, TypeOK, memory, check, outside, history, Gated,
          ApplierSound, Rec, Holding, Locking, Writing, Closing
    <2> QED
      BY <1>0, <2>1, <2>2, JumpSound DEF PCs, Holding
  <1>6. CASE PreviewLost(a)
    <2>1. Jump(a, "preview", "release")
      BY <1>6 DEF PreviewLost
    <2>2. ApplierSound(a)'
      BY <1>0, <2>1, NothingRead
      DEF IInv, Jump, Goto, TypeOK, memory, check, outside, history,
          ApplierSound, Rec, Holding, Locking, Writing, Closing
    <2> QED
      BY <1>0, <2>1, <2>2, JumpSound DEF PCs, Holding
  <1>7. ASSUME NEW f \in Fixes, PreviewOne(a, f)
        PROVE  IInv'
    <2>1. /\ pc[a] = "previewOne" /\ cur[a] \in Proposals
          /\ UNCHANGED <<files, outside, cur, marker, crashes, history>>
      BY <1>0, <1>7 DEF PreviewOne, TypeOK, Holding
    <2>2. PICK v \in {model[cur[a]][f], "unread"} :
            LET rd == [reading[a] EXCEPT ![f] = v]
            IN IF toRead[a] = {f}
                 THEN Classify(a, rd)
                 ELSE /\ reading' = [reading EXCEPT ![a] = rd]
                      /\ toRead' = [toRead EXCEPT ![a] = @ \ {f}]
                      /\ UNCHANGED <<pc, snap, blind, toWrite>>
      BY <1>7 DEF PreviewOne
    <2> DEFINE rd == [reading[a] EXCEPT ![f] = v]
    <2>3. rd \in [Fixes -> Readings]
      BY <1>0, <2>1 DEF TypeOK, Readings
    <2>4. \A g \in Fixes : rd[g] = "new" => g \in landed[cur[a]]
      BY <1>0, <2>1 DEF IInv, ModelSound, ApplierSound, TypeOK
    <2>5. CASE toRead[a] = {f}
      <3>1. Classify(a, rd) /\ pc[a] \in Writing
        BY <2>1, <2>2, <2>5 DEF Writing
      <3> HIDE DEF rd
      <3> QED
        BY <1>0, <2>1, <2>3, <2>4, <3>1, ClassifySound
    <2>6. CASE toRead[a] # {f}
      <3>1. reading' = [reading EXCEPT ![a] = rd] /\ UNCHANGED <<pc, snap>>
        BY <2>2, <2>6, Zenon
      <3>2. /\ Alone(a) /\ reading'[a] = rd
            /\ UNCHANGED <<disk, ignored, acc, model, landed, statuses, snap,
                           cur, marker, pc>>
        BY <1>0, <2>1, <3>1 DEF Alone, TypeOK, files, inbox, outside, history
      <3> HIDE DEF rd
      <3>3. \A p \in Proposals :
              snap'[a][p] # NoRecord => RecordSound(snap[a][p], p)'
        BY <3>2 DEF IInv, RecordsSound, RecordSound, Gated
      <3>4. ApplierSound(a)'
        BY <2>1, <2>4, <3>2 DEF IInv, ApplierSound, Rec, Gated
      <3> QED
        BY <1>0, <3>2, <3>3, <3>4, QuietSound
    <2> QED
      BY <2>5, <2>6
  <1>8. CASE PreviewUnavailable(a)
    <2>1. /\ pc[a] = "previewOne" /\ Goto(a, "commit") /\ UNCHANGED memory
          /\ \A b \in Appliers \ {a} : reading'[b] = reading[b]
          /\ \A f \in Fixes : reading'[a][f] # "new"
          /\ UNCHANGED <<disk, ignored, acc, model, landed, statuses>>
      BY <1>0, <1>8 DEF PreviewUnavailable, TypeOK, NoReadings, files, outside,
                        history
    <2>2. Alone(a) /\ pc'[a] = "commit"
      BY <1>0, <2>1 DEF Alone, Goto, TypeOK, memory
    <2>3. ApplierSound(a)'
      BY <2>1, <2>2 DEF IInv, ApplierSound, Rec, Gated, Writing, Closing,
                        Holding, Locking, memory
    <2>4. \A p \in Proposals :
            snap'[a][p] # NoRecord => RecordSound(snap[a][p], p)'
      BY <2>1 DEF IInv, RecordsSound, RecordSound, Gated, memory
    <2> QED
      BY <1>0, <2>1, <2>2, <2>3, <2>4, QuietSound
  <1> QED
    BY <1>1, <1>2, <1>3, <1>4, <1>5, <1>6, <1>7, <1>8 DEF PreviewStep

\* Writes keep the model sound, and every one of a gated proposal puts the
\* approved value there.
LEMMA LandSound ==
  ASSUME IInv, NEW a \in Appliers, pc[a] \in {"commit", "commitOne"},
         NEW W \in SUBSET Fixes, Land(a, W), UNCHANGED <<acc, statuses>>
  PROVE  /\ ModelSound' /\ StatusesRemembered' /\ Grows
         /\ Gated(cur[a]) => W \subseteq landed'[cur[a]]
  <1>1. cur[a] \in Proposals /\ pc[a] \in Writing
    BY DEF IInv, TypeOK, Holding, Writing
  <1>2. Gated(cur[a]) => Target(Rec(a)) = "new"
    BY <1>1 DEF IInv, ApplierSound, Target
  <1>3. Target(Rec(a)) \in {"new", "edited"}
    BY DEF Target
  <1>4. landed' = [landed EXCEPT ![cur[a]] =
                     IF Target(Rec(a)) = "new" THEN @ \cup W ELSE @]
    BY DEF Land
  <1>5. model' = [model EXCEPT ![cur[a]] =
                    [f \in Fixes |-> IF f \in W THEN Target(Rec(a)) ELSE @[f]]]
    BY DEF Land
  <1>6. Grows
    BY <1>1, <1>4 DEF Grows, IInv, TypeOK
  <1>7. \A p \in Proposals : Gated(p)' <=> Gated(p)
    BY DEF Gated
  <1>8. ModelSound'
    <2> SUFFICES ASSUME NEW p \in Proposals, NEW f \in Fixes
                 PROVE  /\ model'[p][f] = "new" => f \in landed'[p]
                        /\ model'[p][f] = "edited" => ~Gated(p)'
      BY DEF ModelSound
    <2>1. CASE p = cur[a] /\ f \in W
      <3>1. model'[p][f] = Target(Rec(a))
        BY <2>1, <1>5 DEF IInv, TypeOK
      <3>2. Target(Rec(a)) = "new" => f \in landed'[p]
        BY <2>1, <1>4 DEF IInv, TypeOK
      <3> QED
        BY <1>2, <1>7, <2>1, <3>1, <3>2
    <2>2. CASE p # cur[a] \/ f \notin W
      <3>1. model'[p][f] = model[p][f]
        BY <2>2, <1>5 DEF IInv, TypeOK
      <3> QED
        BY <1>6, <1>7, <3>1 DEF IInv, ModelSound, Grows
    <2> QED
      BY <2>1, <2>2
  <1> QED
    BY <1>1, <1>2, <1>4, <1>6, <1>8 DEF IInv, TypeOK, StatusesRemembered

\* An applier that wrote keeps everything sound if its own record and its own
\* place are.
LEMMA WroteSound ==
  ASSUME IInv, TypeOK', NEW a \in Appliers, Grows, Alone(a),
         ModelSound', StatusesRemembered', ApplierSound(a)',
         UNCHANGED <<disk, ignored>>,
         \A p \in Proposals :
           snap'[a][p] # NoRecord => RecordSound(snap[a][p], p)'
  PROVE  IInv'
  <1>1. \A b \in Appliers :
           /\ ApplierSound(b)'
           /\ \A p \in Proposals :
                snap'[b][p] # NoRecord => RecordSound(snap[b][p], p)'
    BY OthersSound
  <1>2. ASSUME NEW p \in Proposals
        PROVE  /\ disk'[p] # NoRecord => RecordSound(disk[p], p)'
               /\ ignored'[p] # NoRecord => RecordSound(ignored[p], p)'
    <2>1. /\ disk[p] # NoRecord => disk[p] \in Record
                                   /\ RecordSound(disk[p], p)
          /\ ignored[p] # NoRecord => ignored[p] \in Record
                                      /\ RecordSound(ignored[p], p)
      BY DEF IInv, TypeOK, RecordsSound
    <2> QED
      BY <2>1, SoundStays DEF RecordSound
  <1> QED
    BY <1>1, <1>2 DEF IInv, RecordsSound

\* The writes W of applier a landed, and it marks W or fewer fixes applied.
LEMMA MarkSound ==
  ASSUME IInv, TypeOK', NEW a \in Appliers, pc[a] \in {"commit", "commitOne"},
         NEW L \in SUBSET Fixes, NEW M \in SUBSET L, Land(a, L),
         Hold(a, [Rec(a) EXCEPT !.applied = @ \cup M]),
         NEW to \in {"commitOne", "persist"}, Goto(a, to),
         \A b \in Appliers \ {a} : reading'[b] = reading[b],
         \A f \in Fixes : reading'[a][f] # "new",
         UNCHANGED <<files, acc, cur, marker, statuses>>
  PROVE  IInv'
  <1> DEFINE r == [Rec(a) EXCEPT !.applied = @ \cup M]
  <1>0. pc[a] \in Holding /\ pc[a] \in Writing /\ to \notin Closing
        /\ to \notin Locking \cup {"locked", "comment", "finish"}
    BY DEF Holding, Writing, Closing, Locking
  <1>1. /\ cur[a] \in Proposals /\ snap[a][cur[a]] # NoRecord
        /\ Rec(a) \in Record
    BY <1>0, ConstantsAssumption DEF IInv, TypeOK, Rec
  <1>2. RecordSound(Rec(a), cur[a])
    BY <1>1 DEF IInv, RecordsSound, Rec
  <1>3. /\ r \in Record /\ r.applied = Rec(a).applied \cup M
        /\ r.done = Rec(a).done /\ r.life = Rec(a).life
        /\ r.intact = Rec(a).intact
    BY <1>1 DEF Record
  <1>4. /\ ModelSound' /\ StatusesRemembered' /\ Grows
        /\ Gated(cur[a]) => M \subseteq landed'[cur[a]]
    BY LandSound
  <1>5. /\ Alone(a) /\ UNCHANGED <<disk, ignored, cur>> /\ pc'[a] = to
        /\ Hold(a, r)
    BY DEF Hold, Goto, Alone, IInv, TypeOK, files, inbox
  <1> HIDE DEF r
  <1>6. Claims(r, Gated(cur[a])', landed'[cur[a]], statuses'[cur[a]])
    BY <1>1, <1>2, <1>3, <1>4, <1>5 DEF RecordSound, Claims, Gated, Grows
  <1>7. \A p \in Proposals :
          snap'[a][p] # NoRecord => RecordSound(snap[a][p], p)'
    BY <1>0, <1>3, <1>4, <1>5, <1>6, HoldSound
  <1>8. ApplierSound(a)'
    <2>1. snap'[a][cur'[a]] = r
      BY <1>0, <1>3, <1>5, HoldType DEF IInv
    <2>2. "in_progress" \in statuses'[cur'[a]]
      BY <1>0, <1>5 DEF IInv, ApplierSound
    <2>3. Gated(cur[a])' => r.intact
      BY <1>0, <1>3, <1>5 DEF IInv, ApplierSound, Gated
    <2> QED
      BY <1>0, <1>5, <2>1, <2>2, <2>3 DEF ApplierSound, Rec, Gated
  <1> QED
    BY <1>4, <1>5, <1>7, <1>8, WroteSound

\* The answer to a write got lost: it may have landed, nothing is marked.
LEMMA LostSound ==
  ASSUME IInv, TypeOK', NEW a \in Appliers, pc[a] \in {"commit", "commitOne"},
         NEW L \in SUBSET Fixes, Land(a, L), Goto(a, "release"),
         UNCHANGED <<files, acc, memory, check, statuses>>
  PROVE  IInv'
  <1>1. ModelSound' /\ StatusesRemembered' /\ Grows
    BY LandSound
  <1>2. /\ Alone(a) /\ pc'[a] = "release"
        /\ UNCHANGED <<disk, ignored, snap, cur, reading>>
    BY DEF Goto, Alone, IInv, TypeOK, files, inbox, memory, check
  <1>3. ASSUME NEW p \in Proposals, snap'[a][p] # NoRecord
        PROVE  RecordSound(snap[a][p], p)'
    <2>1. snap[a][p] \in Record /\ RecordSound(snap[a][p], p)
      BY <1>2, <1>3 DEF IInv, TypeOK, RecordsSound
    <2> QED
      BY <1>1, <1>2, <2>1, SoundStays DEF RecordSound
  <1>4. ApplierSound(a)'
    <2>1. "in_progress" \in statuses'[cur'[a]]
      BY <1>2 DEF IInv, ApplierSound, Holding
    <2> QED
      BY <1>2, <2>1, NothingRead
      DEF ApplierSound, Holding, Locking, Writing, Closing
  <1> QED
    BY <1>1, <1>2, <1>3, <1>4, WroteSound

\* The steps of _commit_writes.
LEMMA CommitSound ==
  ASSUME IInv, NEW a \in Appliers, CommitStep(a) PROVE IInv'
  <1>0. TypeOK /\ TypeOK' /\ toWrite[a] \in SUBSET Fixes
    BY CommitType DEF IInv, TypeOK
  <1>1. CASE CommitBatch(a)
    <2>1. PICK env \in Envelopes(toWrite[a]), L \in SUBSET toWrite[a] :
            /\ Honest(env, toWrite[a], L)
            /\ Land(a, L)
            /\ Hold(a, [Rec(a) EXCEPT !.applied =
                                        @ \cup Confirmed(env, toWrite[a])])
      BY <1>1 DEF CommitBatch
    <2>2. Confirmed(env, toWrite[a]) \in SUBSET L
      BY <2>1 DEF Honest, Confirmed
    <2>3. /\ pc[a] = "commit" /\ Goto(a, "persist")
          /\ UNCHANGED <<files, acc, cur, marker, reading, statuses>>
      BY <1>1 DEF CommitBatch
    <2>4. /\ \A b \in Appliers \ {a} : reading'[b] = reading[b]
          /\ \A f \in Fixes : reading'[a][f] # "new"
      BY <1>0, <1>1, <2>3, NothingRead DEF CommitBatch
    <2>5. L \in SUBSET Fixes
      BY <1>0
    <2> QED
      BY <1>0, <2>1, <2>2, <2>3, <2>4, <2>5, MarkSound
  <1>2. CASE CommitRejected(a)
    <2>1. Jump(a, "commit", "release")
      BY <1>2 DEF CommitRejected
    <2>2. ApplierSound(a)'
      BY <1>0, <2>1, NothingRead
      DEF IInv, Jump, Goto, TypeOK, memory, check, outside, history,
          ApplierSound, Rec, Holding, Locking, Writing, Closing
    <2> QED
      BY <1>0, <2>1, <2>2, JumpSound DEF PCs, Holding
  <1>3. CASE CommitLost(a)
    <2>1. PICK L \in SUBSET toWrite[a] : Land(a, L)
      BY <1>3 DEF CommitLost
    <2>2. L \in SUBSET Fixes
      BY <1>0
    <2> QED
      BY <1>0, <1>3, <2>1, <2>2, LostSound DEF CommitLost
  <1>4. CASE CommitFallback(a)
    <2>1. Jump(a, "commit", "commitOne")
      BY <1>4 DEF CommitFallback
    <2>2. ApplierSound(a)'
      BY <1>0, <2>1, NothingRead
      DEF IInv, Jump, Goto, TypeOK, memory, check, outside, history, Gated,
          ApplierSound, Rec, Holding, Locking, Writing, Closing
    <2> QED
      BY <1>0, <2>1, <2>2, JumpSound DEF PCs, Holding
  <1>5. ASSUME NEW f \in Fixes, CommitOne(a, f)
        PROVE  IInv'
    <2>1. /\ pc[a] = "commitOne" /\ Land(a, {f}) /\ UNCHANGED reading
          /\ Hold(a, [Rec(a) EXCEPT !.applied = @ \cup {f}])
          /\ UNCHANGED <<files, acc, cur, marker, statuses>>
      BY <1>5 DEF CommitOne, NextWrite
    <2>2. PICK to \in {"commitOne", "persist"} : Goto(a, to)
      BY <1>5 DEF CommitOne, NextWrite
    <2>3. {f} \in SUBSET Fixes /\ {f} \in SUBSET {f}
      OBVIOUS
    <2> QED
      BY <1>0, <2>1, <2>2, <2>3, NothingRead, MarkSound
  <1>6. ASSUME NEW f \in Fixes, CommitOneRejected(a, f)
        PROVE  IInv'
    <2>1. /\ pc[a] = "commitOne" /\ UNCHANGED reading
          /\ UNCHANGED <<files, outside, memory, history>>
      BY <1>6 DEF CommitOneRejected, NextWrite
    <2>2. PICK to \in {"commitOne", "persist"} : Goto(a, to)
      BY <1>6 DEF CommitOneRejected, NextWrite
    <2>3. /\ Alone(a) /\ pc'[a] = to
          /\ UNCHANGED <<disk, ignored, acc, model, landed, statuses, snap,
                         cur, reading>>
      BY <1>0, <2>1, <2>2 DEF Goto, Alone, TypeOK, files, inbox, outside,
                              memory, history
    <2>4. \A p \in Proposals :
            snap'[a][p] # NoRecord => RecordSound(snap[a][p], p)'
      BY <2>3 DEF IInv, RecordsSound, RecordSound, Gated
    <2>5. ApplierSound(a)'
      <3>1. pc[a] \in Writing /\ pc[a] \in Holding
            /\ to \notin Closing \cup Locking \cup {"locked"}
        BY <2>1 DEF Writing, Holding, Closing, Locking
      <3> QED
        BY <2>1, <2>3, <3>1, NothingRead
        DEF IInv, ApplierSound, Rec, Gated, Closing
    <2> QED
      BY <1>0, <2>3, <2>4, <2>5, QuietSound
  <1>7. ASSUME NEW f \in Fixes, CommitOneLost(a, f)
        PROVE  IInv'
    <2>1. PICK L \in SUBSET {f} : Land(a, L)
      BY <1>7 DEF CommitOneLost
    <2>2. L \in SUBSET Fixes
      OBVIOUS
    <2> QED
      BY <1>0, <1>7, <2>1, <2>2, LostSound DEF CommitOneLost
  <1> QED
    BY <1>1, <1>2, <1>3, <1>4, <1>5, <1>6, <1>7 DEF CommitStep

\* A sound record may be written to disk.
LEMMA SaveSound ==
  ASSUME IInv, TypeOK', NEW a \in Appliers,
         pc[a] \in {"persist", "refuse", "finish"}, NEW r \in Record,
         Save(a, r), RecordSound(r, cur[a]),
         NEW to \in {"close", "release"}, Goto(a, to),
         to = "close" => r.done,
         UNCHANGED <<outside, cur, marker, check, history>>
  PROVE  IInv'
  <1>0. pc[a] \in Holding /\ cur[a] \in Proposals /\ pc[a] # "previewOne"
    BY DEF Holding, IInv, TypeOK
  <1>1. /\ Alone(a) /\ Grows /\ pc'[a] = to /\ Hold(a, r)
        /\ disk' = [disk EXCEPT ![cur[a]] = r]
        /\ UNCHANGED <<ignored, acc, model, landed, statuses, cur, reading>>
    BY DEF Save, Hold, Goto, Alone, Grows, IInv, TypeOK, outside, check,
           history
  <1>2. ModelSound' /\ StatusesRemembered'
    BY <1>1 DEF IInv, ModelSound, StatusesRemembered, Gated
  <1>3. Claims(r, Gated(cur[a])', landed'[cur[a]], statuses'[cur[a]])
    BY <1>1 DEF RecordSound, Claims, Gated
  <1>4. \A p \in Proposals :
          snap'[a][p] # NoRecord => RecordSound(snap[a][p], p)'
    BY <1>0, <1>1, <1>3, HoldSound
  <1>5. ApplierSound(a)'
    <2>1. snap'[a][cur'[a]] = r
      BY <1>0, <1>1, HoldType DEF IInv
    <2>2. "in_progress" \in statuses'[cur'[a]]
      BY <1>0, <1>1 DEF IInv, ApplierSound
    <2> QED
      BY <1>0, <1>1, <2>1, <2>2, NothingRead
      DEF ApplierSound, Rec, Locking, Writing, Closing
  <1>6. \A b \in Appliers :
          /\ ApplierSound(b)'
          /\ \A p \in Proposals :
               snap'[b][p] # NoRecord => RecordSound(snap[b][p], p)'
    BY <1>1, <1>4, <1>5, OthersSound
  <1>7. ASSUME NEW p \in Proposals
        PROVE  /\ disk'[p] # NoRecord => RecordSound(disk[p], p)'
               /\ ignored'[p] # NoRecord => RecordSound(ignored[p], p)'
    <2>1. ignored'[p] # NoRecord => RecordSound(ignored[p], p)'
      BY <1>1 DEF IInv, RecordsSound, RecordSound, Gated
    <2>2. CASE p = cur[a]
      <3>1. disk'[p] = r
        BY <1>1, <2>2 DEF IInv, TypeOK
      <3> QED
        BY <1>3, <2>1, <2>2, <3>1 DEF RecordSound
    <2>3. CASE p # cur[a]
      <3>1. disk'[p] = disk[p]
        BY <1>1, <2>3 DEF IInv, TypeOK
      <3> QED
        BY <1>1, <2>1, <3>1 DEF IInv, RecordsSound, RecordSound, Gated
    <2> QED
      BY <2>2, <2>3
  <1> QED
    BY <1>2, <1>6, <1>7 DEF IInv, RecordsSound

\* A new status of an issue disturbs nothing.
LEMMA StatusSound ==
  ASSUME IInv, NEW p \in Proposals, NEW s \in AccStatuses, SetStatus(p, s),
         UNCHANGED <<model, landed>>
  PROVE  /\ Grows /\ ModelSound' /\ StatusesRemembered'
         /\ s \in statuses'[p]
  <1>1. Grows /\ s \in statuses'[p]
    BY DEF SetStatus, Grows, IInv, TypeOK
  <1>2. StatusesRemembered'
    BY DEF SetStatus, StatusesRemembered, IInv, TypeOK
  <1>3. ModelSound'
    BY <1>1 DEF Grows, Gated, ModelSound, IInv
  <1> QED
    BY <1>1, <1>2, <1>3

\* The steps that persist the outcome and close the issue.
LEMMA SettleSound ==
  ASSUME IInv, NEW a \in Appliers, SettleStep(a) PROVE IInv'
  <1>0. TypeOK /\ TypeOK'
    BY SettleType DEF IInv
  <1>a. ASSUME pc[a] \in Holding
        PROVE  cur[a] \in Proposals /\ Rec(a) \in Record
               /\ RecordSound(Rec(a), cur[a])
               /\ "in_progress" \in statuses[cur[a]]
    BY <1>0, <1>a, ConstantsAssumption
    DEF TypeOK, IInv, RecordsSound, ApplierSound, Rec
  <1>1. CASE Persist(a)
    <2> DEFINE r == Outcome(Rec(a), blind[a])
    <2>1. pc[a] = "persist" /\ pc[a] \in Holding
      BY <1>1 DEF Persist, Holding
    <2>2. /\ r \in Record /\ r.applied = Rec(a).applied
          /\ r.done = (Rec(a).applied = Fixes) /\ r.life # "closed"
      BY <1>a, <2>1 DEF Outcome, Record, Lifecycles
    <2>3. RecordSound(r, cur[a])
      BY <1>a, <2>1, <2>2 DEF RecordSound, Claims
    <2>4. /\ Save(a, r) /\ Goto(a, IF r.done THEN "close" ELSE "release")
          /\ UNCHANGED <<outside, cur, marker, check, history>>
      BY <1>1 DEF Persist
    <2> HIDE DEF r
    <2>5. PICK to \in {"close", "release"} :
            Goto(a, to) /\ (to = "close" => r.done)
      BY <2>4
    <2> QED
      BY <1>0, <2>1, <2>2, <2>3, <2>4, <2>5, SaveSound
  <1>2. CASE PersistRefusal(a)
    <2>1. pc[a] = "refuse" /\ pc[a] \in Holding
      BY <1>2 DEF PersistRefusal, Holding
    <2>2. /\ Save(a, Rec(a)) /\ Goto(a, "release")
          /\ UNCHANGED <<outside, cur, marker, check, history>>
      BY <1>2 DEF PersistRefusal
    <2>3. Rec(a) \in Record /\ RecordSound(Rec(a), cur[a])
      BY <1>a, <2>1
    <2> QED
      BY <1>0, <2>1, <2>2, <2>3, SaveSound
  <1>3. CASE SaveFails(a)
    <2>1. PICK place \in {"persist", "refuse", "finish"} :
            Jump(a, place, "release")
      BY <1>3 DEF SaveFails
    <2>2. ApplierSound(a)'
      BY <1>0, <2>1, NothingRead
      DEF IInv, Jump, Goto, TypeOK, memory, check, outside, history,
          ApplierSound, Rec, Holding, Locking, Writing, Closing
    <2>3. place \in PCs /\ "release" \in PCs
      BY DEF PCs, Holding
    <2> QED
      BY <1>0, <2>1, <2>2, <2>3, JumpSound
  <1>4. ASSUME pc[a] = "close", NEW to \in {"comment", "release"}, Goto(a, to),
               SetStatus(cur[a], "closed"),
               UNCHANGED <<files, model, memory, check, landed>>
        PROVE  IInv'
    <2>1. cur[a] \in Proposals /\ pc[a] \in Holding
      BY <1>0, <1>4 DEF TypeOK, Holding
    <2>2. /\ Grows /\ ModelSound' /\ StatusesRemembered'
          /\ "closed" \in statuses'[cur[a]]
      BY <1>4, <2>1, StatusSound DEF AccStatuses
    <2>3. /\ Alone(a) /\ pc'[a] = to
          /\ UNCHANGED <<disk, ignored, snap, cur, reading>>
      BY <1>0, <1>4 DEF Goto, Alone, TypeOK, files, inbox, memory, check
    <2>4. ASSUME NEW p \in Proposals, snap'[a][p] # NoRecord
          PROVE  RecordSound(snap[a][p], p)'
      <3>1. snap[a][p] \in Record /\ RecordSound(snap[a][p], p)
        BY <1>0, <2>3, <2>4 DEF IInv, TypeOK, RecordsSound
      <3> QED
        BY <2>2, <2>3, <3>1, SoundStays DEF RecordSound
    <2>5. ApplierSound(a)'
      <3>1. Rec(a).done /\ "in_progress" \in statuses'[cur[a]]
        BY <1>4, <1>a, <2>1, <2>2 DEF IInv, ApplierSound, Closing, Grows
      <3> QED
        BY <1>4, <2>2, <2>3, <3>1, NothingRead
        DEF ApplierSound, Rec, Holding, Locking, Writing, Closing
    <2> QED
      BY <1>0, <2>2, <2>3, <2>4, <2>5, WroteSound
  <1>5. CASE CloseIssue(a)
    BY <1>4, <1>5 DEF CloseIssue
  <1>6. CASE CloseFails(a)
    <2>1. CASE SetStatus(cur[a], "closed")
      BY <1>4, <1>6, <2>1 DEF CloseFails
    <2>2. CASE UNCHANGED <<acc, statuses>>
      <3>1. Jump(a, "close", "release")
        BY <1>6, <2>2 DEF CloseFails, Jump, outside, history
      <3>2. ApplierSound(a)'
        BY <1>0, <3>1, NothingRead
        DEF IInv, Jump, Goto, TypeOK, memory, check, outside, history,
            ApplierSound, Rec, Holding, Locking, Writing, Closing
      <3> QED
        BY <1>0, <3>1, <3>2, JumpSound DEF PCs, Holding
    <2> QED
      BY <1>6, <2>1, <2>2 DEF CloseFails
  <1>7. CASE Comment(a)
    <2>1. Jump(a, "comment", "finish")
      BY <1>7 DEF Comment
    <2>2. ApplierSound(a)'
      BY <1>0, <2>1, NothingRead
      DEF IInv, Jump, Goto, TypeOK, memory, check, outside, history,
          ApplierSound, Rec, Holding, Locking, Writing, Closing
    <2> QED
      BY <1>0, <2>1, <2>2, JumpSound DEF PCs, Holding
  <1>8. CASE CommentFails(a)
    <2>1. Jump(a, "comment", "release")
      BY <1>8 DEF CommentFails
    <2>2. ApplierSound(a)'
      BY <1>0, <2>1, NothingRead
      DEF IInv, Jump, Goto, TypeOK, memory, check, outside, history,
          ApplierSound, Rec, Holding, Locking, Writing, Closing
    <2> QED
      BY <1>0, <2>1, <2>2, JumpSound DEF PCs, Holding
  <1>9. CASE FinishClose(a)
    <2> DEFINE r == [Rec(a) EXCEPT !.life = "closed"]
    <2>1. pc[a] = "finish" /\ pc[a] \in Holding
      BY <1>9 DEF FinishClose, Holding
    <2>2. /\ r \in Record /\ r.applied = Rec(a).applied
          /\ r.done = Rec(a).done
      BY <1>a, <2>1 DEF Record, Lifecycles
    <2>3. "closed" \in statuses[cur[a]]
      BY <2>1 DEF IInv, ApplierSound
    <2>4. RecordSound(r, cur[a])
      BY <1>a, <2>1, <2>2, <2>3 DEF RecordSound, Claims
    <2>5. /\ Save(a, r) /\ Goto(a, "release")
          /\ UNCHANGED <<outside, cur, marker, check, history>>
      BY <1>9 DEF FinishClose
    <2> HIDE DEF r
    <2> QED
      BY <1>0, <2>1, <2>2, <2>4, <2>5, SaveSound
  <1> QED
    BY <1>1, <1>2, <1>3, <1>5, <1>6, <1>7, <1>8, <1>9 DEF SettleStep

\* A crash empties the memory of one applier.
LEMMA CrashSound ==
  ASSUME IInv, NEW a \in Appliers, Crash(a) \/ Restart(a) PROVE IInv'
  <1>0. TypeOK /\ TypeOK'
    BY CrashType DEF IInv
  <1>1. CASE Crash(a)
    <2>1. /\ Alone(a)
          /\ UNCHANGED <<disk, ignored, acc, model, landed, statuses>>
      BY <1>0, <1>1 DEF Crash, ForgetCheck, Goto, Alone, TypeOK, files, inbox,
                        outside, history
    <2>2. /\ pc'[a] = "down"
          /\ \A f \in Fixes : reading'[a][f] # "new"
          /\ \A p \in Proposals : snap'[a][p] = NoRecord
      BY <1>0, <1>1 DEF Crash, ForgetCheck, Goto, TypeOK, NoReadings
    <2>3. ApplierSound(a)'
      BY <2>2 DEF ApplierSound, Holding, Locking, Writing, Closing
    <2> QED
      BY <1>0, <2>1, <2>2, <2>3, QuietSound
  <1>2. CASE Restart(a)
    <2>1. Jump(a, "down", "idle")
      BY <1>2 DEF Restart
    <2>2. ApplierSound(a)'
      BY ZenonT(30), <1>0, <2>1, NothingRead
      DEF Jump, Goto, TypeOK, check, ApplierSound, Holding, Locking, Writing,
          Closing
    <2> QED
      BY <1>0, <2>1, <2>2, JumpSound DEF PCs
  <1> QED
    BY <1>1, <1>2

\* A step of the world around the appliers is sound if it keeps the files,
\* the model and the statuses so.
LEMMA WorldSound ==
  ASSUME IInv, TypeOK', Grows, UNCHANGED <<pc, memory, reading>>,
         ModelSound', StatusesRemembered',
         \A p \in Proposals :
           /\ disk'[p] # NoRecord => RecordSound(disk[p], p)'
           /\ ignored'[p] # NoRecord => RecordSound(ignored[p], p)'
  PROVE  IInv'
  <1>1. \A b \in Appliers :
           /\ ApplierSound(b)'
           /\ \A p \in Proposals :
                snap'[b][p] # NoRecord => RecordSound(snap[b][p], p)'
    BY BystanderSound DEF memory
  <1> QED
    BY <1>1 DEF IInv, RecordsSound

\* A check that stays keeps its readings.
LEMMA CheckRead == UNCHANGED check => UNCHANGED reading
  BY DEF check

\* Files that do not change stay sound.
LEMMA FilesSound ==
  ASSUME IInv, Grows, UNCHANGED <<disk, ignored>>
  PROVE  \A p \in Proposals :
           /\ disk'[p] # NoRecord => RecordSound(disk[p], p)'
           /\ ignored'[p] # NoRecord => RecordSound(ignored[p], p)'
  <1> TAKE p \in Proposals
  <1>1. /\ disk[p] # NoRecord => disk[p] \in Record /\ RecordSound(disk[p], p)
        /\ ignored[p] # NoRecord => ignored[p] \in Record
                                    /\ RecordSound(ignored[p], p)
    BY DEF IInv, TypeOK, RecordsSound
  <1> QED
    BY <1>1, SoundStays DEF RecordSound

\* The steps of the people, the inbox and the clock.
LEMMA EnvironmentSound ==
  ASSUME IInv, NEW p \in Proposals, EnvironmentStep(p) PROVE IInv'
  <1>0. TypeOK /\ TypeOK'
    BY EnvironmentType DEF IInv
  <1>1. CASE Approve(p) \/ HumanSetsStatus(p)
    <2>1. PICK s \in AccStatuses : SetStatus(p, s)
      BY <1>1 DEF Approve, HumanSetsStatus, AccStatuses
    <2>2. UNCHANGED <<disk, ignored, model, landed, pc, memory, check>>
      BY <1>1 DEF Approve, HumanSetsStatus, files, inbox
    <2>3. Grows /\ ModelSound' /\ StatusesRemembered'
      BY <2>1, <2>2, StatusSound
    <2> QED
      BY <1>0, <2>2, <2>3, FilesSound, WorldSound, CheckRead
  <1>2. CASE StripMarker(p)
    <2>1. UNCHANGED <<disk, ignored, model, landed, statuses, pc, memory,
                      check>>
      BY <1>2 DEF StripMarker, files, inbox, history
    <2>2. \A q \in Proposals : /\ acc'[q].status = acc[q].status
                               /\ acc'[q].marker => acc[q].marker
      BY <1>0, <1>2 DEF StripMarker, TypeOK
    <2>3. Grows /\ StatusesRemembered'
      BY <2>1, <2>2 DEF Grows, StatusesRemembered, IInv
    <2>4. ModelSound'
      BY <2>1, <2>2 DEF ModelSound, Gated, IInv
    <2> QED
      BY <1>0, <2>1, <2>3, <2>4, FilesSound, WorldSound, CheckRead
  <1>3. ASSUME NEW f \in Fixes, HumanEdits(p, f)
        PROVE  IInv'
    <2>1. PICK v \in {"old", "new", "other"} :
            /\ model' = [model EXCEPT ![p][f] = v]
            /\ landed' = [landed EXCEPT ![p] = IF v = "new" THEN @ \cup {f}
                                                            ELSE @]
      BY <1>3 DEF HumanEdits
    <2>2. UNCHANGED <<disk, ignored, acc, statuses, pc, memory, reading>>
      BY <1>3 DEF HumanEdits, files, inbox
    <2>3. Grows /\ StatusesRemembered'
      BY <1>0, <2>1, <2>2 DEF Grows, StatusesRemembered, IInv, TypeOK
    <2>4. ASSUME NEW q \in Proposals, NEW g \in Fixes
          PROVE  /\ model'[q][g] = "new" => g \in landed'[q]
                 /\ model'[q][g] = "edited" => ~Gated(q)'
      <3>1. CASE q = p /\ g = f
        <4>1. model'[q][g] = v /\ (v = "new" => f \in landed'[q])
          BY <1>0, <2>1, <3>1 DEF TypeOK
        <4> QED
          BY <3>1, <4>1
      <3>2. CASE q # p \/ g # f
        <4>1. model'[q][g] = model[q][g]
          BY <1>0, <2>1, <3>2 DEF TypeOK
        <4> QED
          BY <2>2, <2>3, <4>1 DEF Grows, Gated, ModelSound, IInv
      <3> QED
        BY <3>1, <3>2
    <2> QED
      BY <1>0, <2>2, <2>3, <2>4, FilesSound, WorldSound, CheckRead
      DEF ModelSound
  <1>4. ASSUME UNCHANGED <<outside, pc, memory, check, history>>
        PROVE  Grows /\ ModelSound' /\ StatusesRemembered'
    BY <1>4 DEF Grows, ModelSound, StatusesRemembered, Gated, IInv, outside,
                history
  <1>5. CASE RecordEdited(p)
    <2>1. /\ UNCHANGED <<outside, pc, memory, check, history, ignored>>
          /\ disk' = [disk EXCEPT ![p].intact = FALSE]
          /\ disk[p] \in Record
      BY <1>0, <1>5 DEF RecordEdited, TypeOK
    <2>2. ASSUME NEW q \in Proposals
          PROVE  /\ disk'[q] # NoRecord => RecordSound(disk[q], q)'
                 /\ ignored'[q] # NoRecord => RecordSound(ignored[q], q)'
      <3>1. ignored'[q] # NoRecord => RecordSound(ignored[q], q)'
        BY <2>1 DEF IInv, RecordsSound, RecordSound, Gated, outside, history
      <3>2. CASE q = p
        <4>1. disk'[q] = [disk[q] EXCEPT !.intact = FALSE]
              /\ disk[q] # NoRecord
          BY <1>0, <1>5, <2>1, <3>2 DEF RecordEdited, TypeOK
        <4>2. /\ disk'[q].applied = disk[q].applied
              /\ disk'[q].done = disk[q].done /\ disk'[q].life = disk[q].life
          BY <2>1, <3>2, <4>1 DEF Record
        <4> QED
          BY <2>1, <3>1, <4>1, <4>2
          DEF IInv, RecordsSound, RecordSound, Claims, Gated, outside, history
      <3>3. CASE q # p
        <4>1. disk'[q] = disk[q]
          BY <1>0, <2>1, <3>3 DEF TypeOK
        <4> QED
          BY <2>1, <3>1, <4>1 DEF IInv, RecordsSound, RecordSound, Gated,
                                  outside, history
      <3> QED
        BY <3>2, <3>3
    <2> QED
      BY <1>0, <1>4, <2>1, <2>2, WorldSound, CheckRead
  <1>6. CASE IgnoreChecked(p) \/ LockAges(p)
    <2>1. UNCHANGED <<disk, ignored, outside, pc, memory, check, history>>
      BY <1>6 DEF IgnoreChecked, LockAges
    <2> QED
      BY <1>0, <1>4, <2>1, FilesSound, WorldSound, CheckRead
  <1>7. CASE IgnoreMoved(p) \/ RestoreChecked(p)
             \/ RestoreMoved(p)
    <2>1. UNCHANGED <<outside, pc, memory, check, history>>
      BY <1>7 DEF IgnoreMoved, RestoreChecked, RestoreMoved, inbox, files
    <2>a. ASSUME IgnoreMoved(p), NEW q \in Proposals
          PROVE  /\ disk'[q] \in {disk[q], NoRecord}
                 /\ ignored'[q] \in {disk[q], ignored[q]}
      BY <1>0, <2>a DEF IgnoreMoved, TypeOK
    <2>b. ASSUME RestoreMoved(p), NEW q \in Proposals
          PROVE  /\ disk'[q] \in {disk[q], ignored[q]}
                 /\ ignored'[q] \in {ignored[q], NoRecord}
      BY <1>0, <2>b DEF RestoreMoved, TypeOK
    <2>2. \A q \in Proposals :
            /\ disk'[q] \in {disk[q], ignored[q], NoRecord}
            /\ ignored'[q] \in {disk[q], ignored[q], NoRecord}
      BY <1>7, <2>a, <2>b DEF RestoreChecked
    <2>3. ASSUME NEW q \in Proposals
          PROVE  /\ disk'[q] # NoRecord => RecordSound(disk[q], q)'
                 /\ ignored'[q] # NoRecord => RecordSound(ignored[q], q)'
      BY <2>1, <2>2 DEF IInv, RecordsSound, RecordSound, Gated, outside,
                        history
    <2> QED
      BY <1>0, <1>4, <2>1, <2>3, WorldSound, CheckRead
  <1> QED
    BY <1>1, <1>2, <1>3, <1>5, <1>6, <1>7 DEF EnvironmentStep

LEMMA NextSound == IInv /\ [Next]_vars => IInv'
  <1> SUFFICES ASSUME IInv, [Next]_vars PROVE IInv'
    OBVIOUS
  <1>1. CASE UNCHANGED vars
    <2>1. TypeOK'
      BY TypeNext DEF IInv
    <2>2. Grows /\ ModelSound' /\ StatusesRemembered'
      BY <1>1 DEF Grows, ModelSound, StatusesRemembered, Gated, IInv, vars,
                  outside, history
    <2>3. UNCHANGED <<disk, ignored, pc, memory, check>>
      BY <1>1 DEF vars, files, inbox
    <2> QED
      BY <2>1, <2>2, <2>3, FilesSound, WorldSound, CheckRead
  <1>2. CASE Next
    BY <1>2, ScanSound, LockSound, PreviewSound, CommitSound, SettleSound,
       CrashSound, EnvironmentSound
    DEF Next, ApplierStep, WorkStep
  <1> QED
    BY <1>1, <1>2

\* IInv holds in every state the system reaches.
THEOREM Invariance == Spec => []IInv
  BY InitSound, NextSound, PTL DEF Spec

-----------------------------------------------------------------------------
\* What follows from it.

\* A fix that a record marks applied did reach the model, whatever crashed,
\* was lost, was answered in part or went on at the same time.
THEOREM AppliedLanded == Spec => []AppliedImpliesLanded
  <1>1. IInv => AppliedImpliesLanded
    BY DEF IInv, RecordsSound, RecordSound, Claims, AppliedImpliesLanded
  <1> QED
    BY <1>1, Invariance, PTL

\* The watcher closes an issue only when every approved value has been in the
\* model.
THEOREM ClosesAreJustified == Spec => []CloseJustified
  <1>1. IInv => CloseJustified
    <2> SUFFICES ASSUME IInv, NEW a \in Appliers, pc[a] \in Closing,
                        Gated(cur[a])
                 PROVE  landed[cur[a]] = Fixes
      BY DEF CloseJustified, Closing
    <2>1. /\ cur[a] \in Proposals /\ snap[a][cur[a]] # NoRecord
          /\ Rec(a).done
      BY ConstantsAssumption
      DEF IInv, TypeOK, Rec, Closing, Holding, ApplierSound
    <2>2. Fixes \subseteq landed[cur[a]]
      BY <2>1 DEF IInv, RecordsSound, RecordSound, Claims, Rec
    <2> QED
      BY <2>1, <2>2 DEF IInv, TypeOK
  <1> QED
    BY <1>1, Invariance, PTL

\* What a record says of its issue did happen on ACC.
THEOREM RecordsTellTruth == Spec => []RecordTellsTruth
  <1>1. IInv => RecordTellsTruth
    BY DEF IInv, RecordsSound, RecordSound, Claims, RecordTellsTruth
  <1> QED
    BY <1>1, Invariance, PTL

\* A record is true of model and issue: write_record after _commit_writes and
\* _close_issue.
THEOREM RecordsTrue == Spec => []RecordsAreTrue
  BY AppliedLanded, RecordsTellTruth, PTL DEF RecordsAreTrue

\* No value that was edited into a record reaches the model where anything is
\* left to check it against.
THEOREM GateHolds == Spec => []IntegrityGate
  <1>1. IInv => IntegrityGate
    BY DEF IInv, ModelSound, IntegrityGate
  <1> QED
    BY <1>1, Invariance, PTL

-----------------------------------------------------------------------------
\* What the step of one applier does to the files, to the records and to the
\* model.

\* The record in its hands, possibly amended, is written to approvals_dir.
Saves(a) == /\ pc[a] \in Holding
            /\ \E r \in Record : Save(a, r) /\ r.applied = Rec(a).applied

\* The steps that call write_record.
LEMMA SaveSteps ==
  ASSUME TypeOK, NEW a \in Appliers,
         Persist(a) \/ PersistRefusal(a) \/ FinishClose(a)
  PROVE  Saves(a)
  <1>1. pc[a] \in Holding /\ Rec(a) \in Record
    BY DEF Persist, PersistRefusal, FinishClose, Holding, TypeOK
  <1>2. CASE Persist(a)
    <2>1. /\ Outcome(Rec(a), blind[a]) \in Record
          /\ Outcome(Rec(a), blind[a]).applied = Rec(a).applied
      BY <1>1 DEF Outcome, Record, Lifecycles
    <2> QED
      BY <1>1, <1>2, <2>1 DEF Persist, Saves
  <1>3. CASE PersistRefusal(a)
    BY <1>1, <1>3 DEF PersistRefusal, Saves
  <1>4. CASE FinishClose(a)
    <2>1. /\ [Rec(a) EXCEPT !.life = "closed"] \in Record
          /\ [Rec(a) EXCEPT !.life = "closed"].applied = Rec(a).applied
      BY <1>1 DEF Record, Lifecycles
    <2> QED
      BY <1>1, <1>4, <2>1 DEF FinishClose, Saves
  <1> QED
    BY <1>2, <1>3, <1>4

\* No other step of an applier touches a record file.
LEMMA ApplierFiles ==
  ASSUME TypeOK, NEW a \in Appliers, ApplierStep(a)
  PROVE  UNCHANGED <<disk, ignored>> \/ Saves(a)
  <1> USE DEF files, inbox
  <1>1. CASE ScanStep(a)
    BY <1>1 DEF ScanStep, StartPass, EndPass, SkipSettled, RetryClose,
                PollApproved, PollPending, PollFails, Jump
  <1>2. CASE LockStep(a)
    BY <1>2 DEF LockStep, CreateLock, LockHeld, SeeStaleLock,
                UnlinkStaleLock, UnlinkFails, RecreateLock, Release,
                ReleaseFails, Jump
  <1>3. CASE PreviewStep(a)
    BY <1>3 DEF PreviewStep, BeginClose, RefuseApply, BeginApply,
                PreviewBatch, PreviewFallback, PreviewLost, PreviewOne,
                PreviewUnavailable, Jump
  <1>4. CASE CommitStep(a)
    BY <1>4 DEF CommitStep, CommitBatch, CommitRejected, CommitLost,
                CommitFallback, CommitOne, CommitOneRejected, CommitOneLost,
                Jump
  <1>5. CASE SettleStep(a)
    <2>1. CASE Persist(a) \/ PersistRefusal(a) \/ FinishClose(a)
      BY <2>1, SaveSteps
    <2>2. CASE SaveFails(a) \/ CloseIssue(a) \/ CloseFails(a) \/ Comment(a)
               \/ CommentFails(a)
      BY <2>2 DEF SaveFails, CloseIssue, CloseFails, Comment, CommentFails,
                  Jump
    <2> QED
      BY <1>5, <2>1, <2>2 DEF SettleStep
  <1>6. CASE Crash(a) \/ Restart(a)
    BY <1>6 DEF Crash, Restart, Jump
  <1> QED
    BY <1>1, <1>2, <1>3, <1>4, <1>5, <1>6 DEF ApplierStep, WorkStep

\* A record in the memory of an applier was just read from disk, or knows of
\* all the fixes it knew of before.
Learns(a) ==
  \A p \in Proposals : snap'[a][p] # NoRecord =>
    \/ snap'[a][p] = disk[p]
    \/ snap[a][p] # NoRecord /\ snap[a][p].applied \subseteq snap'[a][p].applied

\* A record that is amended by more applied fixes.
LEMMA HoldLearns ==
  ASSUME TypeOK, NEW a \in Appliers, pc[a] \in Holding, NEW r \in Record,
         Hold(a, r), Rec(a).applied \subseteq r.applied
  PROVE  Learns(a)
  <1> SUFFICES ASSUME NEW p \in Proposals, snap'[a][p] # NoRecord
               PROVE  /\ snap[a][p] # NoRecord
                      /\ snap[a][p].applied \subseteq snap'[a][p].applied
    BY DEF Learns
  <1>1. CASE p = cur[a]
    BY <1>1, HoldType, ConstantsAssumption DEF TypeOK, Rec
  <1>2. CASE p # cur[a]
    <2>1. snap'[a][p] = snap[a][p]
      BY <1>2 DEF Hold, TypeOK
    <2> QED
      BY <2>1
  <1> QED
    BY <1>1, <1>2

\* A record that is dropped.
LEMMA DropLearns ==
  ASSUME TypeOK, NEW a \in Appliers, NEW p \in Proposals, Drop(a, p)
  PROVE  Learns(a)
  <1> SUFFICES ASSUME NEW q \in Proposals, snap'[a][q] # NoRecord
               PROVE  snap'[a][q] = snap[a][q]
    BY DEF Learns
  <1> QED
    BY DEF Drop, TypeOK

\* Records that stay as they are.
LEMMA KeepLearns ==
  ASSUME NEW a \in Appliers, UNCHANGED snap
  PROVE  Learns(a)
  BY DEF Learns

\* The classification marks fixes applied, and takes no mark away.
LEMMA ClassifyLearns ==
  ASSUME TypeOK, NEW a \in Appliers, pc[a] \in Holding,
         NEW rd \in [Fixes -> Readings], Classify(a, rd)
  PROVE  Learns(a)
  <1> DEFINE r == Rec(a)
             r2 == [r EXCEPT !.applied = @ \cup Satisfied(r, rd),
                             !.stale = (@ \ Pending(r)) \cup Drifted(r, rd)]
  <1>1. r \in Record
    BY DEF TypeOK
  <1>2. /\ Satisfied(r, rd) \subseteq Fixes
        /\ Drifted(r, rd) \subseteq Fixes
    BY DEF Satisfied, Drifted, Judged, Unjudged, Pending
  <1>3. r2 \in Record /\ r.applied \subseteq r2.applied
    BY <1>1, <1>2 DEF Record
  <1>4. Hold(a, r2)
    BY DEF Classify
  <1> HIDE DEF r2
  <1> QED
    BY <1>3, <1>4, HoldLearns

\* No step of an applier makes it forget that a fix was applied.
LEMMA ApplierLearns ==
  ASSUME TypeOK, NEW a \in Appliers, ApplierStep(a)
  PROVE  Learns(a)
  <1> USE DEF memory
  <1>0. ASSUME pc[a] \in Holding PROVE Rec(a) \in Record
    BY <1>0 DEF TypeOK
  <1>1. CASE ScanStep(a)
    <2>1. CASE StartPass(a)
      BY <2>1 DEF StartPass, Learns, TypeOK
    <2>2. ASSUME NEW p \in Proposals,
                 SkipSettled(a, p) \/ PollPending(a, p) \/ PollFails(a, p)
          PROVE  Learns(a)
      BY <2>2, DropLearns DEF SkipSettled, PollPending, PollFails
    <2>3. ASSUME EndPass(a) \/ \E p \in Proposals : RetryClose(a, p)
                                                    \/ PollApproved(a, p)
          PROVE  Learns(a)
      BY <2>3, KeepLearns DEF EndPass, RetryClose, PollApproved, Jump
    <2> QED
      BY <1>1, <2>1, <2>2, <2>3 DEF ScanStep
  <1>2. CASE LockStep(a)
    <2>1. ASSUME pc[a] \in Locking \cup Holding, Drop(a, cur[a])
          PROVE  Learns(a)
      BY <2>1, DropLearns DEF TypeOK
    <2> QED
      BY <1>2, <2>1, KeepLearns
      DEF LockStep, CreateLock, LockHeld, SeeStaleLock, UnlinkStaleLock,
          UnlinkFails, RecreateLock, Release, ReleaseFails, Jump, Locking,
          Holding
  <1>3. CASE PreviewStep(a)
    <2>1. CASE RefuseApply(a)
      <3> DEFINE r == [Rec(a) EXCEPT !.life = "integrity_failed"]
      <3>1. pc[a] \in Holding /\ Rec(a) \in Record
        BY <1>0, <2>1 DEF RefuseApply, Holding
      <3>2. r \in Record /\ r.applied = Rec(a).applied
        BY <3>1 DEF Record, Lifecycles
      <3> QED
        BY <2>1, <3>1, <3>2, HoldLearns DEF RefuseApply
    <2>2. CASE PreviewBatch(a)
      <3>1. pc[a] \in Holding /\ cur[a] \in Proposals
        BY <2>2 DEF PreviewBatch, TypeOK, Holding
      <3>2. PICK measured \in SUBSET toRead[a] :
              Classify(a, [f \in Fixes |-> IF f \in measured
                                             THEN model[cur[a]][f]
                                             ELSE "unread"])
        BY <2>2 DEF PreviewBatch
      <3>3. [f \in Fixes |-> IF f \in measured THEN model[cur[a]][f]
                                               ELSE "unread"]
              \in [Fixes -> Readings]
        BY <3>1 DEF TypeOK, Readings
      <3> QED
        BY <3>1, <3>2, <3>3, ClassifyLearns
    <2>3. ASSUME NEW f \in Fixes, PreviewOne(a, f) PROVE Learns(a)
      <3>1. pc[a] \in Holding /\ cur[a] \in Proposals
        BY <2>3 DEF PreviewOne, TypeOK, Holding
      <3>2. PICK v \in {model[cur[a]][f], "unread"} :
              LET rd == [reading[a] EXCEPT ![f] = v]
              IN IF toRead[a] = {f} THEN Classify(a, rd) ELSE UNCHANGED snap
        BY <2>3 DEF PreviewOne
      <3>3. [reading[a] EXCEPT ![f] = v] \in [Fixes -> Readings]
        BY <3>1 DEF TypeOK, Readings
      <3> QED
        BY <3>1, <3>2, <3>3, ClassifyLearns, KeepLearns
    <2>4. CASE PreviewUnavailable(a)
      BY <2>4, KeepLearns DEF PreviewUnavailable
    <2>5. ASSUME BeginClose(a) \/ BeginApply(a) \/ PreviewFallback(a)
                 \/ PreviewLost(a)
          PROVE  Learns(a)
      BY <2>5, KeepLearns DEF BeginClose, BeginApply, PreviewFallback,
                              PreviewLost, Jump
    <2> QED
      BY <1>3, <2>1, <2>2, <2>3, <2>4, <2>5 DEF PreviewStep
  <1>4. CASE CommitStep(a)
    <2>1. ASSUME pc[a] \in {"commit", "commitOne"}, NEW W \in SUBSET Fixes,
                 Hold(a, [Rec(a) EXCEPT !.applied = @ \cup W])
          PROVE  Learns(a)
      <3>1. pc[a] \in Holding /\ Rec(a) \in Record
        BY <1>0, <2>1 DEF Holding
      <3>2. /\ [Rec(a) EXCEPT !.applied = @ \cup W] \in Record
            /\ Rec(a).applied \subseteq
                 [Rec(a) EXCEPT !.applied = @ \cup W].applied
        BY <3>1 DEF Record
      <3> QED
        BY <2>1, <3>1, <3>2, HoldLearns
    <2>2. CASE CommitBatch(a)
      <3>1. PICK env \in Envelopes(toWrite[a]) :
              Hold(a, [Rec(a) EXCEPT !.applied =
                                       @ \cup Confirmed(env, toWrite[a])])
        BY <2>2 DEF CommitBatch
      <3>2. Confirmed(env, toWrite[a]) \in SUBSET Fixes
        BY DEF Confirmed, TypeOK
      <3> QED
        BY <2>1, <2>2, <3>1, <3>2 DEF CommitBatch
    <2>3. ASSUME NEW f \in Fixes, CommitOne(a, f) PROVE Learns(a)
      BY <2>1, <2>3 DEF CommitOne
    <2>4. ASSUME CommitRejected(a) \/ CommitLost(a) \/ CommitFallback(a)
                 \/ \E f \in Fixes : CommitOneRejected(a, f)
                                     \/ CommitOneLost(a, f)
          PROVE  Learns(a)
      BY <2>4, KeepLearns DEF CommitRejected, CommitLost, CommitFallback,
                              CommitOneRejected, CommitOneLost, Jump
    <2> QED
      BY <1>4, <2>2, <2>3, <2>4 DEF CommitStep
  <1>5. CASE SettleStep(a)
    <2>1. CASE Persist(a) \/ PersistRefusal(a) \/ FinishClose(a)
      BY <2>1, SaveSteps, HoldLearns DEF Saves, Save
    <2>2. CASE UNCHANGED snap
      BY <2>2, KeepLearns
    <2>3. CASE SaveFails(a) \/ CloseIssue(a) \/ CloseFails(a) \/ Comment(a)
               \/ CommentFails(a)
      BY <2>2, <2>3 DEF SaveFails, CloseIssue, CloseFails, Comment,
                        CommentFails, Jump
    <2> QED
      BY <1>5, <2>1, <2>3 DEF SettleStep
  <1>6. CASE Crash(a)
    BY <1>6 DEF Crash, Learns, TypeOK
  <1>7. CASE Restart(a)
    BY <1>7, KeepLearns DEF Restart, Jump
  <1> QED
    BY <1>1, <1>2, <1>3, <1>4, <1>5, <1>6, <1>7 DEF ApplierStep, WorkStep

\* The memory of the others is left alone.
Apart(a) ==
  \A b \in Appliers \ {a} :
    /\ pc'[b] = pc[b] /\ cur'[b] = cur[b] /\ snap'[b] = snap[b]
    /\ reading'[b] = reading[b] /\ blind'[b] = blind[b]
    /\ toWrite'[b] = toWrite[b]
    /\ toRead'[b] = toRead[b] /\ touched'[b] = touched[b]

\* No step of an applier reaches into another process.
LEMMA ApplierApart ==
  ASSUME TypeOK, NEW a \in Appliers, ApplierStep(a)
  PROVE  Apart(a)
  <1> USE DEF Apart, Drop, Goto, Hold, Jump, ForgetCheck, TypeOK, memory, check
  <1>1. CASE ScanStep(a)
    BY <1>1 DEF ScanStep, StartPass, EndPass, SkipSettled, RetryClose,
                PollApproved, PollPending, PollFails
  <1>2. CASE LockStep(a)
    BY <1>2 DEF LockStep, CreateLock, LockHeld, SeeStaleLock,
                UnlinkStaleLock, UnlinkFails, RecreateLock, Release,
                ReleaseFails
  <1>3. CASE PreviewStep(a)
    <2>1. ASSUME NEW rd, Classify(a, rd), UNCHANGED <<cur, touched>>
          PROVE  Apart(a)
      BY <2>1 DEF Classify
    <2>2. CASE PreviewBatch(a)
      BY <2>1, <2>2 DEF PreviewBatch
    <2>3. ASSUME NEW f \in Fixes, PreviewOne(a, f) PROVE Apart(a)
      <3>1. UNCHANGED <<cur, touched>>
        BY <2>3 DEF PreviewOne
      <3>2. \/ \E rd : Classify(a, rd)
            \/ /\ \E rd : reading' = [reading EXCEPT ![a] = rd]
               /\ toRead' = [toRead EXCEPT ![a] = @ \ {f}]
               /\ UNCHANGED <<pc, snap, blind, toWrite>>
        BY <2>3 DEF PreviewOne
      <3> QED
        BY <2>1, <3>1, <3>2
    <2>4. ASSUME BeginClose(a) \/ RefuseApply(a) \/ BeginApply(a)
                 \/ PreviewFallback(a) \/ PreviewLost(a)
                 \/ PreviewUnavailable(a)
          PROVE  Apart(a)
      BY <2>4 DEF BeginClose, RefuseApply, BeginApply, PreviewFallback,
                  PreviewLost, PreviewUnavailable
    <2> QED
      BY <1>3, <2>2, <2>3, <2>4 DEF PreviewStep
  <1>4. CASE CommitStep(a)
    BY <1>4 DEF CommitStep, CommitBatch, CommitRejected, CommitLost,
                CommitFallback, CommitOne, CommitOneRejected, CommitOneLost,
                NextWrite
  <1>5. CASE SettleStep(a)
    BY <1>5 DEF SettleStep, Persist, PersistRefusal, SaveFails, CloseIssue,
                CloseFails, Comment, CommentFails, FinishClose, Save
  <1>6. CASE Crash(a) \/ Restart(a)
    BY <1>6 DEF Crash, Restart
  <1> QED
    BY <1>1, <1>2, <1>3, <1>4, <1>5, <1>6 DEF ApplierStep, WorkStep

\* The work on a record begins and ends with its lock, and never touches it.
LEMMA WorkStays ==
  ASSUME TypeOK, NEW a \in Appliers,
         PreviewStep(a) \/ CommitStep(a) \/ SettleStep(a)
  PROVE  /\ pc[a] \in Holding /\ pc'[a] \in Holding
         /\ UNCHANGED <<lock, cur, stolen>>
  <1>1. ASSUME NEW from \in Holding, NEW to \in Holding, pc[a] = from,
               Goto(a, to)
        PROVE  pc[a] \in Holding /\ pc'[a] \in Holding
    BY <1>1 DEF Goto, TypeOK
  <1> USE <1>1 DEF Holding, files, inbox, memory, history
  <1>2. CASE PreviewStep(a)
    <2>1. ASSUME NEW f \in Fixes, PreviewOne(a, f)
          PROVE  /\ pc[a] \in Holding /\ pc'[a] \in Holding
                 /\ UNCHANGED <<lock, cur, stolen>>
      <3>1. UNCHANGED <<lock, cur, stolen>> /\ pc[a] = "previewOne"
        BY <2>1 DEF PreviewOne
      <3>2. CASE UNCHANGED pc
        BY <3>1, <3>2
      <3>3. CASE \E rd : Classify(a, rd)
        BY <3>1, <3>3 DEF Classify
      <3> QED
        BY <2>1, <3>1, <3>2, <3>3 DEF PreviewOne
    <2> QED
      BY <1>2, <2>1 DEF PreviewStep, BeginClose, RefuseApply, BeginApply,
                        PreviewBatch, PreviewFallback, PreviewLost,
                        PreviewUnavailable, Classify, Jump
  <1>3. CASE CommitStep(a)
    BY <1>3 DEF CommitStep, CommitBatch, CommitRejected, CommitLost,
                CommitFallback, CommitOne, CommitOneRejected, CommitOneLost,
                NextWrite, Jump
  <1>4. CASE SettleStep(a)
    BY <1>4 DEF SettleStep, Persist, PersistRefusal, SaveFails, CloseIssue,
                CloseFails, Comment, CommentFails, FinishClose, Save, Jump
  <1> QED
    BY <1>2, <1>3, <1>4

-----------------------------------------------------------------------------
\* The lock, as long as no holder outlasts _STALE_LOCK_S.

Prompt == ~SlowHolders

\* The lock file of a record that an applier works on is its own and not stale,
\* unless somebody unlinked a lock of this record that was not stale.
HolderOwns(a) ==
  pc[a] \in Holding /\ cur[a] \notin stolen =>
    /\ lock[cur[a]] # NoLock
    /\ lock[cur[a]].by = a
    /\ ~lock[cur[a]].stale

LockInv == \A a \in Appliers : HolderOwns(a)

\* An applier whose place, lock file and record stay as they are.
LEMMA OwnerStays ==
  ASSUME NEW b \in Appliers, HolderOwns(b), pc'[b] = pc[b], cur'[b] = cur[b],
         stolen \subseteq stolen',
         pc[b] \in Holding => \/ lock'[cur[b]] = lock[cur[b]]
                              \/ cur[b] \in stolen'
  PROVE  HolderOwns(b)'
  BY DEF HolderOwns

\* Steps of a pass outside the lock leave lock files and their owners alone.
LEMMA ScanKeepsLock ==
  ASSUME TypeOK, LockInv, NEW a \in Appliers,
         ScanStep(a) \/ Crash(a) \/ Restart(a)
  PROVE  LockInv'
  <1>1. /\ UNCHANGED <<lock, stolen>> /\ pc'[a] \notin Holding
    <2>1. CASE ScanStep(a)
      BY <2>1 DEF ScanStep, StartPass, EndPass, SkipSettled, RetryClose,
                  PollApproved, PollPending, PollFails, Due, Drop, Jump, Goto,
                  TypeOK, files, inbox, history, Holding
    <2>2. CASE Crash(a) \/ Restart(a)
      BY <2>2 DEF Crash, Restart, Jump, Goto, TypeOK, files, inbox, history,
                  Holding
    <2> QED
      BY <2>1, <2>2
  <1>2. Apart(a)
    BY ApplierApart DEF ApplierStep, WorkStep
  <1> QED
    BY <1>1, <1>2, OwnerStays DEF LockInv, HolderOwns, Apart

\* The work on a record leaves lock files alone.
LEMMA WorkKeepsLock ==
  ASSUME TypeOK, LockInv, NEW a \in Appliers,
         PreviewStep(a) \/ CommitStep(a) \/ SettleStep(a)
  PROVE  LockInv'
  <1>1. /\ Apart(a) /\ pc[a] \in Holding /\ pc'[a] \in Holding
        /\ UNCHANGED <<lock, cur, stolen>>
    BY ApplierApart, WorkStays DEF ApplierStep, WorkStep
  <1> QED
    BY <1>1 DEF LockInv, HolderOwns, Apart

\* A lock file is created where there is none, so where nobody works, or in a
\* record whose lock was stolen.
LEMMA CreateKeepsLock ==
  ASSUME TypeOK, LockInv, NEW a \in Appliers, pc[a] \in Locking, Apart(a),
         lock[cur[a]] = NoLock, lock' = [lock EXCEPT ![cur[a]] = NewLock(a)],
         UNCHANGED <<cur, stolen>>
  PROVE  LockInv'
  <1>1. cur[a] \in Proposals
    BY DEF TypeOK
  <1>2. NewLock(a) \in LockFile
    BY DEF NewLock, LockFile
  <1>3. HolderOwns(a)'
    BY <1>1, <1>2, ConstantsAssumption DEF HolderOwns, NewLock, TypeOK
  <1>4. ASSUME NEW b \in Appliers \ {a} PROVE HolderOwns(b)'
    <2>1. pc[b] \in Holding => cur[b] \in stolen \/ cur[b] # cur[a]
      BY DEF LockInv, HolderOwns
    <2> QED
      BY <1>1, <2>1, OwnerStays DEF LockInv, Apart, TypeOK
  <1> QED
    BY <1>3, <1>4 DEF LockInv

\* A lock file is removed by its owner, or when it is stale, or the theft is on
\* record.
LEMMA RemoveKeepsLock ==
  ASSUME TypeOK, LockInv, NEW a \in Appliers, Apart(a), pc'[a] \notin Holding,
         cur[a] \in Proposals, lock' = [lock EXCEPT ![cur[a]] = NoLock],
         stolen \subseteq stolen',
         \/ pc[a] \in Holding
         \/ lock[cur[a]] # NoLock /\ lock[cur[a]].stale
         \/ cur[a] \in stolen'
  PROVE  LockInv'
  <1>1. HolderOwns(a)'
    BY DEF HolderOwns
  <1>2. ASSUME NEW b \in Appliers \ {a} PROVE HolderOwns(b)'
    <2>1. pc[b] \in Holding => cur[b] \in stolen' \/ cur[b] # cur[a]
      BY DEF LockInv, HolderOwns
    <2> QED
      BY <2>1, OwnerStays DEF LockInv, Apart, TypeOK
  <1> QED
    BY <1>1, <1>2 DEF LockInv

\* The steps on the lock file.
LEMMA LockStepKeeps ==
  ASSUME TypeOK, LockInv, NEW a \in Appliers, LockStep(a)
  PROVE  LockInv'
  <1>1. Apart(a)
    BY ApplierApart DEF ApplierStep, WorkStep
  <1>2. CASE CreateLock(a) \/ (RecreateLock(a) /\ lock[cur[a]] = NoLock)
    <2>1. /\ pc[a] \in Locking /\ lock[cur[a]] = NoLock
          /\ lock' = [lock EXCEPT ![cur[a]] = NewLock(a)]
          /\ UNCHANGED <<cur, stolen>>
      BY <1>2 DEF CreateLock, RecreateLock, Locking, memory, history
    <2> QED
      BY <1>1, <2>1, CreateKeepsLock
  <1>3. CASE UnlinkStaleLock(a)
    <2>1. /\ pc[a] = "steal" /\ pc'[a] = "recreate" /\ cur[a] \in Proposals
          /\ lock[cur[a]] # NoLock
          /\ lock' = [lock EXCEPT ![cur[a]] = NoLock]
          /\ stolen' = IF lock[cur[a]].stale THEN stolen
                                             ELSE stolen \cup {cur[a]}
      BY <1>3 DEF UnlinkStaleLock, Goto, TypeOK, Locking
    <2> QED
      BY <1>1, <2>1, RemoveKeepsLock DEF Holding
  <1>4. CASE Release(a)
    <2>1. /\ pc[a] \in Holding /\ pc'[a] = "scan" /\ cur[a] \in Proposals
          /\ lock' = [lock EXCEPT ![cur[a]] = NoLock] /\ UNCHANGED stolen
      BY <1>4 DEF Release, Drop, Goto, TypeOK, Holding, history
    <2> QED
      BY <1>1, <2>1, RemoveKeepsLock DEF Holding
  <1>5. CASE LockHeld(a) \/ SeeStaleLock(a) \/ UnlinkFails(a)
             \/ ReleaseFails(a)
             \/ (RecreateLock(a) /\ lock[cur[a]] # NoLock)
    <2>1. UNCHANGED <<lock, stolen>>
      BY <1>5 DEF LockHeld, SeeStaleLock, UnlinkFails, ReleaseFails,
                  RecreateLock, Jump, files, history
    <2>2. pc'[a] \notin Holding
      BY <1>5 DEF LockHeld, SeeStaleLock, UnlinkFails, ReleaseFails,
                  RecreateLock, Drop, Jump, Goto, TypeOK, Holding, memory
    <2> QED
      BY <1>1, <2>1, <2>2, OwnerStays DEF LockInv, HolderOwns, Apart
  <1> QED
    BY <1>2, <1>3, <1>4, <1>5 DEF LockStep

\* No lock file of an applier at work ages, and nobody else touches one.
LEMMA EnvironmentKeepsLock ==
  ASSUME Prompt, TypeOK, LockInv, NEW p \in Proposals, EnvironmentStep(p)
  PROVE  LockInv'
  <1>1. UNCHANGED <<pc, cur, stolen>>
    BY DEF EnvironmentStep, Approve, HumanSetsStatus, StripMarker, HumanEdits,
           RecordEdited, IgnoreChecked, IgnoreMoved, RestoreChecked,
           RestoreMoved, LockAges, memory, history
  <1>2. CASE LockAges(p)
    <2>1. /\ lock[p] # NoLock /\ lock[p].by \in Appliers
          /\ cur[lock[p].by] # p \/ pc[lock[p].by] \notin Holding
          /\ \A q \in Proposals \ {p} : lock'[q] = lock[q]
      BY <1>2 DEF LockAges, TypeOK, LockFile, Prompt
    <2>2. ASSUME NEW b \in Appliers PROVE HolderOwns(b)'
      <3>1. pc[b] \in Holding =>
              cur[b] \in stolen \/ cur[b] \in Proposals \ {p}
        BY <2>1 DEF LockInv, HolderOwns, TypeOK
      <3> QED
        BY <1>1, <2>1, <3>1, OwnerStays DEF LockInv
    <2> QED
      BY <2>2 DEF LockInv
  <1>3. CASE ~LockAges(p)
    <2>1. UNCHANGED lock
      BY <1>3 DEF EnvironmentStep, Approve, HumanSetsStatus, StripMarker,
                  HumanEdits, RecordEdited, IgnoreChecked, IgnoreMoved,
                  RestoreChecked, RestoreMoved, files, inbox
    <2> QED
      BY <1>1, <2>1 DEF LockInv, HolderOwns
  <1> QED
    BY <1>2, <1>3

\* As long as no apply outlasts _STALE_LOCK_S, no two appliers work on the same
\* record, however many there are, how many crash and how many lock files stay
\* behind: until somebody unlinks a lock that is not stale any more.
THEOREM PromptHoldersExclude == Prompt /\ Spec => []OneApplierPerRecord
  <1> SUFFICES ASSUME Prompt PROVE Spec => []OneApplierPerRecord
    OBVIOUS
  <1>1. Init => LockInv
    BY DEF Init, LockInv, HolderOwns, Holding
  <1>2. TypeOK /\ LockInv /\ [Next]_vars => LockInv'
    <2> SUFFICES ASSUME TypeOK, LockInv, [Next]_vars PROVE LockInv'
      OBVIOUS
    <2>1. CASE UNCHANGED vars
      BY <2>1 DEF vars, files, inbox, memory, history, LockInv, HolderOwns
    <2>2. CASE Next
      BY <2>2, ScanKeepsLock, LockStepKeeps, WorkKeepsLock,
         EnvironmentKeepsLock
      DEF Next, ApplierStep, WorkStep
    <2> QED
      BY <2>1, <2>2
  <1>3. LockInv => OneApplierPerRecord
    BY DEF LockInv, HolderOwns, OneApplierPerRecord
  <1> QED
    BY <1>1, <1>2, <1>3, TypeCorrect, PTL DEF Spec

\* A rename of the inbox moves the record of p and all it knows.
Moved(p) ==
  \/ /\ CanMove(disk[p], ignored[p])
     /\ ignored' = [ignored EXCEPT ![p] = disk[p]]
     /\ disk' = [disk EXCEPT ![p] = NoRecord]
  \/ /\ CanMove(ignored[p], disk[p])
     /\ disk' = [disk EXCEPT ![p] = ignored[p]]
     /\ ignored' = [ignored EXCEPT ![p] = NoRecord]

\* The inbox moves a record between approvals_dir and _ignored and edits leave
\* its applied flags alone; nobody else in the environment touches the files.
LEMMA EnvironmentFiles ==
  ASSUME TypeOK, NEW p \in Proposals, EnvironmentStep(p)
  PROVE  \/ UNCHANGED <<disk, ignored>>
         \/ RecordEdited(p)
         \/ Moved(p)
  BY DEF EnvironmentStep, Approve, HumanSetsStatus, StripMarker, HumanEdits,
         IgnoreChecked, IgnoreMoved, RestoreChecked, RestoreMoved, LockAges,
         Moved, files, inbox

\* The only record of a proposal is never lost: write_record replaces a file
\* by a whole one, ignore and restore move it.
THEOREM NoRecordIsLost == Spec => []RecordNeverLost
  <1>1. Init => RecordNeverLost
    <2>1. Parked \in Record
      BY DEF Parked, Record, Lifecycles
    <2> QED
      BY <2>1, ConstantsAssumption DEF Init, RecordNeverLost
  <1>2. TypeOK /\ RecordNeverLost /\ [Next]_vars => RecordNeverLost'
    <2> SUFFICES ASSUME TypeOK, RecordNeverLost, [Next]_vars
                 PROVE  RecordNeverLost'
      OBVIOUS
    <2>1. CASE UNCHANGED <<disk, ignored>>
      BY <2>1 DEF RecordNeverLost
    <2>2. ASSUME NEW a \in Appliers, Saves(a)
          PROVE  RecordNeverLost'
      <3>1. PICK r \in Record : Save(a, r)
        BY <2>2 DEF Saves
      <3>2. /\ disk' = [disk EXCEPT ![cur[a]] = r] /\ UNCHANGED ignored
            /\ r # NoRecord
        BY <3>1, ConstantsAssumption DEF Save
      <3> QED
        BY <3>2 DEF RecordNeverLost, TypeOK
    <2>3. ASSUME NEW p \in Proposals, RecordEdited(p)
          PROVE  RecordNeverLost'
      <3>1. /\ disk' = [disk EXCEPT ![p].intact = FALSE] /\ UNCHANGED ignored
            /\ disk[p] \in Record
        BY <2>3 DEF RecordEdited, TypeOK
      <3>2. [disk[p] EXCEPT !.intact = FALSE] # NoRecord
        BY <3>1, ConstantsAssumption DEF Record
      <3> QED
        BY <3>1, <3>2 DEF RecordNeverLost, TypeOK
    <2>4. ASSUME NEW p \in Proposals, Moved(p) PROVE RecordNeverLost'
      BY <2>4 DEF Moved, CanMove, RecordNeverLost, TypeOK
    <2> QED
      BY <2>1, <2>2, <2>3, <2>4, ApplierFiles, EnvironmentFiles
      DEF Next, vars, files, inbox
  <1> QED
    BY <1>1, <1>2, TypeCorrect, PTL DEF Spec

-----------------------------------------------------------------------------
\* The drift check of one apply: what it holds back, and what it writes.

Committing == {"commit", "commitOne"}

\* Readings are kept only while elements are read one by one, and not of those
\* that are still to be read; once there is a list of writes nothing is.
CheckSound(a) ==
  /\ pc[a] # "previewOne" => reading[a] = NoReadings
  /\ pc[a] = "previewOne" => \A f \in toRead[a] : reading[a][f] = "unread"
  /\ pc[a] \in Committing => toRead[a] = {}

\* A fix that was read as untouched, and one on the list that was judged, does
\* not hold a value that a human set, unless it was set since.
Respects(a) ==
  /\ pc[a] = "previewOne" =>
       \A f \in Fixes : reading[a][f] = "old"
                          => model[cur[a]][f] # "other" \/ f \in touched[a]
  /\ pc[a] \in Committing =>
       \A f \in toWrite[a] \ blind[a] :
         model[cur[a]][f] # "other" \/ f \in touched[a]

\* Outside the preview and the commit there is nothing to check.
LEMMA IdleCheck ==
  ASSUME NEW a \in Appliers, pc'[a] \notin Committing \cup {"previewOne"},
         reading'[a] = NoReadings
  PROVE  CheckSound(a)' /\ Respects(a)'
  BY DEF CheckSound, Respects

\* The classification puts on the list what was untouched or not judged.
LEMMA ClassifyCheck ==
  ASSUME TypeOK, NEW a \in Appliers, pc[a] \in Holding,
         NEW rd \in [Fixes -> Readings], Classify(a, rd),
         \A f \in Fixes :
           rd[f] = "old" => model[cur[a]][f] # "other" \/ f \in touched[a],
         UNCHANGED <<outside, cur, touched>>
  PROVE  CheckSound(a)' /\ Respects(a)'
  <1> DEFINE r == Rec(a)
  <1>1. \A f \in Kept(r, rd) \ Unjudged(r, rd) :
          model[cur[a]][f] # "other" \/ f \in touched[a]
    BY DEF Kept, Unmoved, Judged, Unjudged, Pending
  <1>2. /\ toWrite'[a] = Kept(r, rd) /\ blind'[a] = Unjudged(r, rd)
        /\ toRead'[a] = {} /\ reading'[a] = NoReadings
        /\ pc'[a] \in {"persist", "commit"}
        /\ UNCHANGED <<model, cur, touched>>
    BY DEF Classify, Goto, TypeOK, outside
  <1> QED
    BY <1>1, <1>2 DEF CheckSound, Respects, Committing

\* A step of an applier keeps its own check sound.
LEMMA OwnCheck ==
  ASSUME TypeOK, NEW a \in Appliers, CheckSound(a), Respects(a),
         ApplierStep(a)
  PROVE  CheckSound(a)' /\ Respects(a)'
  <1> USE DEF Committing
  <1>1. CASE ScanStep(a)
    <2>1. /\ pc[a] \in {"idle", "scan"} /\ pc'[a] \in {"idle", "scan", "lock"}
          /\ reading'[a] = reading[a]
      BY <1>1 DEF ScanStep, StartPass, EndPass, SkipSettled, RetryClose,
                  PollApproved, PollPending, PollFails, Due, Drop, Goto, Jump,
                  TypeOK, check
    <2> QED
      BY <2>1, IdleCheck DEF CheckSound
  <1>2. CASE LockStep(a)
    <2>1. CASE Release(a) \/ ReleaseFails(a)
      <3>1. pc'[a] = "scan" /\ reading'[a] = NoReadings
        BY <2>1 DEF Release, ReleaseFails, Drop, Goto, ForgetCheck, TypeOK
      <3> QED
        BY <3>1, IdleCheck
    <2>2. CASE ~Release(a) /\ ~ReleaseFails(a)
      <3>1. /\ pc[a] \in Locking
            /\ pc'[a] \in {"scan", "steal", "recreate", "locked"}
            /\ reading'[a] = reading[a]
        BY <1>2, <2>2 DEF LockStep, CreateLock, LockHeld, SeeStaleLock,
                          UnlinkStaleLock, UnlinkFails, RecreateLock, Drop,
                          Goto, Jump,
                          TypeOK, check, Locking
      <3> QED
        BY <3>1, IdleCheck DEF CheckSound, Locking
    <2> QED
      BY <2>1, <2>2
  <1>3. CASE PreviewStep(a)
    <2>1. CASE BeginClose(a) \/ RefuseApply(a) \/ BeginApply(a)
               \/ PreviewLost(a)
      <3>1. /\ pc[a] \in {"locked", "preview"}
            /\ pc'[a] \in {"close", "refuse", "preview", "release"}
            /\ reading'[a] = reading[a]
        BY <2>1 DEF BeginClose, RefuseApply, BeginApply, PreviewLost, Jump,
                    Goto, TypeOK, check
      <3> QED
        BY <3>1, IdleCheck DEF CheckSound
    <2>2. CASE PreviewFallback(a)
      <3>1. /\ pc[a] = "preview" /\ pc'[a] = "previewOne"
            /\ UNCHANGED <<reading, toRead>>
        BY <2>2 DEF PreviewFallback, Jump, Goto, TypeOK, check
      <3> QED
        BY <3>1 DEF CheckSound, Respects, NoReadings, TypeOK
    <2>3. CASE PreviewBatch(a)
      <3>1. /\ pc[a] \in Holding /\ cur[a] \in Proposals
            /\ UNCHANGED <<outside, cur, touched>>
        BY <2>3 DEF PreviewBatch, TypeOK, Holding
      <3>2. PICK measured \in SUBSET toRead[a] :
              Classify(a, [f \in Fixes |-> IF f \in measured
                                             THEN model[cur[a]][f]
                                             ELSE "unread"])
        BY <2>3 DEF PreviewBatch
      <3> DEFINE rd == [f \in Fixes |-> IF f \in measured
                                          THEN model[cur[a]][f]
                                          ELSE "unread"]
      <3>3. /\ rd \in [Fixes -> Readings]
            /\ \A f \in Fixes : rd[f] = "old" => model[cur[a]][f] # "other"
        BY <3>1 DEF TypeOK, Readings
      <3>4. Classify(a, rd)
        BY <3>2
      <3> HIDE DEF rd
      <3> QED
        BY <3>1, <3>3, <3>4, ClassifyCheck
    <2>4. ASSUME NEW f \in Fixes, PreviewOne(a, f)
          PROVE  CheckSound(a)' /\ Respects(a)'
      <3>1. /\ pc[a] = "previewOne" /\ pc[a] \in Holding
            /\ cur[a] \in Proposals /\ UNCHANGED <<outside, cur, touched>>
        BY <2>4 DEF PreviewOne, TypeOK, Holding
      <3>2. PICK v \in {model[cur[a]][f], "unread"} :
              LET rd == [reading[a] EXCEPT ![f] = v]
              IN IF toRead[a] = {f}
                   THEN Classify(a, rd)
                   ELSE /\ reading' = [reading EXCEPT ![a] = rd]
                        /\ toRead' = [toRead EXCEPT ![a] = @ \ {f}]
                        /\ UNCHANGED pc
        BY <2>4 DEF PreviewOne
      <3> DEFINE rd == [reading[a] EXCEPT ![f] = v]
      <3>3. rd \in [Fixes -> Readings]
        BY <3>1 DEF TypeOK, Readings
      <3>4. \A g \in Fixes :
              rd[g] = "old" => model[cur[a]][g] # "other" \/ g \in touched[a]
        BY <3>1 DEF TypeOK, Respects
      <3>5. CASE toRead[a] = {f}
        <4>1. Classify(a, rd)
          BY <3>2, <3>5
        <4> HIDE DEF rd
        <4> QED
          BY <3>1, <3>3, <3>4, <4>1, ClassifyCheck
      <3>6. CASE toRead[a] # {f}
        <4>1. /\ reading' = [reading EXCEPT ![a] = rd]
              /\ toRead' = [toRead EXCEPT ![a] = @ \ {f}] /\ UNCHANGED pc
          BY <3>2, <3>6
        <4>2. /\ reading'[a] = rd /\ toRead'[a] = toRead[a] \ {f}
              /\ pc'[a] = "previewOne"
          BY <3>1, <4>1 DEF TypeOK
        <4>3. \A g \in toRead[a] \ {f} : rd[g] = "unread"
          BY <3>1 DEF CheckSound, TypeOK
        <4> HIDE DEF rd
        <4> QED
          BY <3>1, <3>4, <4>2, <4>3 DEF CheckSound, Respects, Committing,
                                        outside
      <3> QED
        BY <3>5, <3>6
    <2>5. CASE PreviewUnavailable(a)
      <3>1. /\ toWrite'[a] = Pending(Rec(a)) /\ blind'[a] = Pending(Rec(a))
            /\ toRead'[a] = {} /\ reading'[a] = NoReadings
            /\ pc'[a] = "commit"
        BY <2>5 DEF PreviewUnavailable, Goto, TypeOK
      <3> QED
        BY <3>1 DEF CheckSound, Respects
    <2> QED
      BY <1>3, <2>1, <2>2, <2>3, <2>4, <2>5 DEF PreviewStep
  <1>4. CASE CommitStep(a)
    <2>0. ASSUME pc[a] \in Committing
          PROVE  /\ cur[a] \in Proposals /\ Rec(a) \in Record
                 /\ pc[a] \in Holding
                 /\ reading[a] = NoReadings /\ toRead[a] = {}
      BY <2>0 DEF TypeOK, Holding, CheckSound
    <2>1. CASE CommitBatch(a)
      <3>1. pc'[a] = "persist" /\ reading'[a] = NoReadings
        BY <2>0, <2>1 DEF CommitBatch, Goto, TypeOK
      <3> QED
        BY <3>1, IdleCheck
    <2>2. CASE CommitRejected(a) \/ CommitLost(a)
               \/ \E f \in Fixes : CommitOneLost(a, f)
      <3>1. /\ pc[a] \in Committing /\ pc'[a] = "release"
            /\ reading'[a] = reading[a]
        BY <2>2 DEF CommitRejected, CommitLost, CommitOneLost, Jump, Goto,
                    TypeOK, check
      <3> QED
        BY <2>0, <3>1, IdleCheck
    <2>3. CASE CommitFallback(a)
      <3>1. /\ pc[a] = "commit" /\ pc'[a] = "commitOne"
            /\ UNCHANGED <<reading, toRead, toWrite, blind, touched, cur,
                           model>>
        BY <2>3 DEF CommitFallback, Jump, Goto, TypeOK, check, memory, outside
      <3> QED
        BY <3>1 DEF CheckSound, Respects, Rec
    <2>4. ASSUME NEW f \in Fixes, CommitOneRejected(a, f)
          PROVE  CheckSound(a)' /\ Respects(a)'
      <3>1. /\ pc[a] = "commitOne" /\ pc'[a] \in {"commitOne", "persist"}
            /\ toWrite'[a] = toWrite[a] \ {f} /\ touched'[a] = touched[a] \ {f}
            /\ UNCHANGED <<reading, toRead, blind, cur, model>>
        BY <2>4 DEF CommitOneRejected, NextWrite, Goto, TypeOK, memory, outside
      <3> QED
        BY <2>0, <3>1 DEF CheckSound, Respects, Rec
    <2>5. ASSUME NEW f \in Fixes, CommitOne(a, f)
          PROVE  CheckSound(a)' /\ Respects(a)'
      <3>1. /\ pc[a] = "commitOne" /\ pc'[a] \in {"commitOne", "persist"}
            /\ toWrite'[a] = toWrite[a] \ {f} /\ touched'[a] = touched[a] \ {f}
            /\ UNCHANGED <<reading, toRead, blind, cur>> /\ Land(a, {f})
        BY <2>5 DEF CommitOne, NextWrite, Goto, TypeOK
      <3>4. \A g \in Fixes : model'[cur[a]][g] = "other"
                               => model[cur[a]][g] = "other"
        BY <2>0, <3>1 DEF Land, Target, TypeOK
      <3>5. CheckSound(a)'
        BY <2>0, <3>1 DEF CheckSound
      <3>6. Respects(a)'
        BY <3>1, <3>4 DEF Respects, TypeOK
      <3> QED
        BY <3>5, <3>6
    <2> QED
      BY <1>4, <2>1, <2>2, <2>3, <2>4, <2>5 DEF CommitStep
  <1>5. CASE SettleStep(a)
    <2>1. /\ pc[a] \in {"persist", "refuse", "close", "comment", "finish"}
          /\ pc'[a] \in {"close", "comment", "finish", "release"}
          /\ reading'[a] = reading[a]
      BY <1>5 DEF SettleStep, Persist, PersistRefusal, SaveFails, CloseIssue,
                  CloseFails, Comment, CommentFails, FinishClose, Jump, Goto,
                  TypeOK, check
    <2> QED
      BY <2>1, IdleCheck DEF CheckSound
  <1>6. CASE Crash(a)
    <2>1. pc'[a] = "down" /\ reading'[a] = NoReadings
      BY <1>6 DEF Crash, Goto, ForgetCheck, TypeOK
    <2> QED
      BY <2>1, IdleCheck
  <1>7. CASE Restart(a)
    <2>1. pc[a] = "down" /\ pc'[a] = "idle" /\ reading'[a] = reading[a]
      BY <1>7 DEF Restart, Jump, Goto, TypeOK, check
    <2> QED
      BY <2>1, IdleCheck DEF CheckSound
  <1> QED
    BY <1>1, <1>2, <1>3, <1>4, <1>5, <1>6, <1>7 DEF ApplierStep, WorkStep

\* A step of an applier changes the model only in fixes on its own list, and
\* never to a value that a human set.
Writes(a) ==
  \A p \in Proposals, f \in Fixes :
    \/ model'[p][f] = model[p][f]
    \/ /\ pc[a] \in Committing /\ p = cur[a] /\ f \in toWrite[a]
       /\ model'[p][f] # "other"

\* A write that lands.
LEMMA LandWrites ==
  ASSUME TypeOK, NEW a \in Appliers, pc[a] \in Committing,
         NEW L \in SUBSET toWrite[a], Land(a, L)
  PROVE  Writes(a)
  <1>1. cur[a] \in Proposals /\ toWrite[a] \in SUBSET Fixes
    BY DEF TypeOK, Committing, Holding
  <1>2. Target(Rec(a)) # "other"
    BY DEF Target
  <1> QED
    BY <1>1, <1>2 DEF Land, TypeOK, Writes

\* No step of an applier writes anything else.
LEMMA ApplierWrites ==
  ASSUME TypeOK, NEW a \in Appliers, ApplierStep(a)
  PROVE  Writes(a)
  <1>0. ASSUME UNCHANGED model PROVE Writes(a)
    BY <1>0 DEF Writes
  <1> USE <1>0 DEF outside, Jump
  <1>1. CASE ScanStep(a)
    BY <1>1 DEF ScanStep, StartPass, EndPass, SkipSettled, RetryClose,
                PollApproved, PollPending, PollFails
  <1>2. CASE LockStep(a)
    BY <1>2 DEF LockStep, CreateLock, LockHeld, SeeStaleLock,
                UnlinkStaleLock, UnlinkFails, RecreateLock, Release,
                ReleaseFails
  <1>3. CASE PreviewStep(a)
    BY <1>3 DEF PreviewStep, BeginClose, RefuseApply, BeginApply,
                PreviewBatch, PreviewFallback, PreviewLost, PreviewOne,
                PreviewUnavailable
  <1>4. CASE CommitStep(a)
    <2>1. CASE CommitBatch(a) \/ CommitLost(a)
      BY <2>1, LandWrites DEF CommitBatch, CommitLost, Committing
    <2>2. ASSUME NEW f \in Fixes, CommitOne(a, f) \/ CommitOneLost(a, f)
          PROVE  Writes(a)
      BY <2>2, LandWrites DEF CommitOne, CommitOneLost, Committing
    <2>3. CASE CommitRejected(a) \/ CommitFallback(a)
               \/ \E f \in Fixes : CommitOneRejected(a, f)
      BY <2>3 DEF CommitRejected, CommitFallback, CommitOneRejected
    <2> QED
      BY <1>4, <2>1, <2>2, <2>3 DEF CommitStep
  <1>5. CASE SettleStep(a)
    BY <1>5 DEF SettleStep, Persist, PersistRefusal, SaveFails, CloseIssue,
                CloseFails, Comment, CommentFails, FinishClose
  <1>6. CASE Crash(a) \/ Restart(a)
    BY <1>6 DEF Crash, Restart
  <1> QED
    BY <1>1, <1>2, <1>3, <1>4, <1>5, <1>6 DEF ApplierStep, WorkStep

\* The checks of all appliers stay sound.
ChecksSound == \A a \in Appliers : CheckSound(a) /\ Respects(a)

\* They are sound at the start, when nothing has been read.
LEMMA InitCheck == Init => ChecksSound
  BY DEF Init, ChecksSound, CheckSound, Respects, Committing

\* A check whose applier does not step: what others set to another value was
\* not read yet or is on record as touched.
LEMMA BystanderCheck ==
  ASSUME TypeOK, NEW b \in Appliers, CheckSound(b), Respects(b),
         pc'[b] = pc[b], cur'[b] = cur[b], toRead'[b] = toRead[b],
         reading'[b] = reading[b], blind'[b] = blind[b],
         toWrite'[b] = toWrite[b], touched[b] \subseteq touched'[b],
         cur[b] \in Proposals /\ pc[b] \in Committing \cup {"previewOne"}
           => \A f \in Fixes : \/ model'[cur[b]][f] # "other"
                               \/ model[cur[b]][f] = "other"
                               \/ f \in toRead[b] \/ f \in touched'[b]
  PROVE  CheckSound(b)' /\ Respects(b)'
  <1>1. CASE pc[b] \in Committing \cup {"previewOne"}
    <2>1. cur[b] \in Proposals /\ toWrite[b] \subseteq Fixes
      BY <1>1 DEF TypeOK, Committing, Holding
    <2> QED
      BY <1>1, <2>1 DEF CheckSound, Respects, Rec
  <1>2. CASE pc[b] \notin Committing \cup {"previewOne"}
    BY <1>2 DEF CheckSound, Respects
  <1> QED
    BY <1>1, <1>2

\* Every step keeps all checks sound.
LEMMA NextCheck == TypeOK /\ ChecksSound /\ [Next]_vars => ChecksSound'
  <1> SUFFICES ASSUME TypeOK, ChecksSound, [Next]_vars PROVE ChecksSound'
    OBVIOUS
  <1>1. CASE UNCHANGED vars
    BY <1>1, BystanderCheck DEF ChecksSound, vars, outside, memory, check
  <1>2. ASSUME NEW a \in Appliers, ApplierStep(a)
        PROVE  ChecksSound'
    <2>1. CheckSound(a)' /\ Respects(a)'
      BY <1>2, OwnCheck DEF ChecksSound
    <2>2. ASSUME NEW b \in Appliers \ {a}
          PROVE  CheckSound(b)' /\ Respects(b)'
      <3>1. cur[b] \in Proposals =>
              \A f \in Fixes : model'[cur[b]][f] = "other"
                                 => model[cur[b]][f] = "other"
        BY <1>2, ApplierWrites DEF Writes
      <3> QED
        BY <1>2, <2>2, <3>1, ApplierApart, BystanderCheck
        DEF Apart, ChecksSound
    <2> QED
      BY <2>1, <2>2 DEF ChecksSound
  <1>3. ASSUME NEW p \in Proposals, EnvironmentStep(p)
        PROVE  ChecksSound'
    <2>1. UNCHANGED <<pc, cur, toRead, reading, blind, toWrite>>
      BY <1>3 DEF EnvironmentStep, Approve, HumanSetsStatus, StripMarker,
                  HumanEdits, RecordEdited, IgnoreChecked, IgnoreMoved,
                  RestoreChecked, RestoreMoved, LockAges, memory, check
    <2>2. CASE UNCHANGED <<model, touched>>
      BY <2>1, <2>2, BystanderCheck DEF ChecksSound
    <2>3. ASSUME NEW f \in Fixes, HumanEdits(p, f) PROVE ChecksSound'
      <3>1. /\ \E v : model' = [model EXCEPT ![p][f] = v]
            /\ touched' = [a \in Appliers |-> IF HasRead(a, p, f)
                                              THEN touched[a] \cup {f}
                                              ELSE touched[a]]
        BY <2>3 DEF HumanEdits
      <3>2. ASSUME NEW b \in Appliers, cur[b] \in Proposals,
                   pc[b] \in Committing \cup {"previewOne"}, NEW g \in Fixes
            PROVE  \/ model'[cur[b]][g] = model[cur[b]][g]
                   \/ g \in toRead[b] \/ g \in touched'[b]
        BY <3>1, <3>2 DEF HasRead, Committing, TypeOK
      <3>3. \A b \in Appliers : touched[b] \subseteq touched'[b]
        BY <3>1
      <3> QED
        BY <2>1, <3>2, <3>3, BystanderCheck DEF ChecksSound
    <2> QED
      BY <1>3, <2>2, <2>3
      DEF EnvironmentStep, Approve, HumanSetsStatus, StripMarker, RecordEdited,
          IgnoreChecked, IgnoreMoved, RestoreChecked, RestoreMoved, LockAges,
          outside, check
  <1> QED
    BY <1>1, <1>2, <1>3 DEF Next

\* The checks are sound in every state the system reaches.
LEMMA CheckInvariance == Spec => []ChecksSound
  BY InitCheck, NextCheck, TypeCorrect, PTL DEF Spec

\* Whatever number of appliers is at work and whenever people edit the model:
\* _commit_writes replaces a value that one of them set only where
\* _reprove_stale could not judge the fix, or where the value was set after it
\* had read the fix.
THEOREM NothingIsClobbered == Spec => NeverClobber
  <1>1. TypeOK /\ ChecksSound /\ [Next]_vars =>
          \A a \in Appliers, f \in Fixes :
            Overwrites(a, f) => f \in blind[a] \/ f \in touched[a]
    <2> SUFFICES ASSUME TypeOK, ChecksSound, [Next]_vars,
                        NEW a \in Appliers, NEW f \in Fixes, Overwrites(a, f)
                 PROVE  f \in blind[a] \/ f \in touched[a]
      OBVIOUS
    <2>1. /\ pc[a] \in Committing /\ cur[a] \in Proposals
          /\ ~UNCHANGED <<pc[a], toWrite[a]>>
          /\ model[cur[a]][f] = "other" /\ model'[cur[a]][f] # "other"
      BY DEF Overwrites, TypeOK, Committing, Holding
    <2>2. ApplierStep(a)
      <3>1. ASSUME NEW b \in Appliers \ {a}, ApplierStep(b) PROVE FALSE
        BY <2>1, <3>1, ApplierApart DEF Apart
      <3>2. ASSUME NEW p \in Proposals, EnvironmentStep(p) PROVE FALSE
        BY <2>1, <3>2
        DEF EnvironmentStep, Approve, HumanSetsStatus, StripMarker,
            HumanEdits, RecordEdited, IgnoreChecked, IgnoreMoved,
            RestoreChecked, RestoreMoved, LockAges, check
      <3>3. ~UNCHANGED vars
        BY <2>1 DEF vars, check
      <3> QED
        BY <3>1, <3>2, <3>3 DEF Next
    <2>3. f \in toWrite[a]
      BY <2>1, <2>2, ApplierWrites DEF Writes
    <2> QED
      BY <2>1, <2>3 DEF ChecksSound, CheckSound, Respects
  <1> QED
    BY <1>1, CheckInvariance, TypeCorrect, PTL DEF Spec, NeverClobber

-----------------------------------------------------------------------------
\* What is known to be applied, when one process applies at a time.

Sole == \A a, b \in Appliers : a = b

\* The record of p on disk, and the one in the memory of an applier, know of
\* every fix that any file of p marks applied.
LedgerOf(p) ==
  /\ disk[p] # NoRecord => KnownApplied(p) \subseteq disk[p].applied
  /\ \A a \in Appliers :
       snap[a][p] # NoRecord => KnownApplied(p) \subseteq snap[a][p].applied

LedgerSound == \A p \in Proposals : LedgerOf(p)

\* What the files of p know to be applied is not forgotten in this step.
Remembers(p) == KnownApplied(p) \subseteq KnownApplied(p)'

\* A fix is known from a file if the file is there and marks it.
LEMMA KnownFrom ==
  ASSUME NEW d, NEW i, NEW f
  PROVE  f \in UNION {r.applied : r \in {d, i} \ {NoRecord}}
           <=> \/ d # NoRecord /\ f \in d.applied
               \/ i # NoRecord /\ f \in i.applied
  OBVIOUS

\* Nothing is known at the start.
LEMMA InitLedger == Init => LedgerSound
  BY DEF Init, LedgerSound, LedgerOf, KnownApplied, Parked

\* Files of p that stay, or whose edit leaves the applied flags alone.
LEMMA FilesStay ==
  ASSUME NEW p \in Proposals, LedgerOf(p), ignored'[p] = ignored[p],
         \/ disk'[p] = disk[p]
         \/ /\ disk[p] # NoRecord /\ disk'[p] # NoRecord
            /\ disk'[p].applied = disk[p].applied,
         \A a \in Appliers : snap'[a][p] # NoRecord =>
           \/ snap'[a][p] = disk[p]
           \/ /\ snap[a][p] # NoRecord
              /\ snap[a][p].applied \subseteq snap'[a][p].applied
  PROVE  LedgerOf(p)' /\ Remembers(p)
  <1>1. KnownApplied(p)' = KnownApplied(p)
    <2>1. \A f : f \in KnownApplied(p)' <=> f \in KnownApplied(p)
      BY KnownFrom DEF KnownApplied
    <2> QED
      BY <2>1 DEF KnownApplied
  <1>2. disk'[p] # NoRecord => /\ disk[p] # NoRecord
                               /\ disk'[p].applied = disk[p].applied
    OBVIOUS
  <1>3. ASSUME NEW a \in Appliers, snap'[a][p] # NoRecord
        PROVE  KnownApplied(p) \subseteq snap'[a][p].applied
    BY <1>3 DEF LedgerOf
  <1> QED
    BY <1>1, <1>2, <1>3 DEF LedgerOf, Remembers

\* A step of the only applier: what it writes it holds, and what it holds it
\* read.
LEMMA ApplierLedger ==
  ASSUME Sole, TypeOK, LedgerSound, NEW a \in Appliers, ApplierStep(a)
  PROVE  LedgerSound' /\ \A p \in Proposals : Remembers(p)
  <1> SUFFICES ASSUME NEW p \in Proposals
               PROVE  LedgerOf(p)' /\ Remembers(p)
    BY DEF LedgerSound
  <1>1. \A b \in Appliers : b = a
    BY DEF Sole
  <1>2. Learns(a)
    BY ApplierLearns
  <1>3. LedgerOf(p)
    BY DEF LedgerSound
  <1>4. CASE disk'[p] = disk[p] /\ ignored'[p] = ignored[p]
    BY <1>1, <1>2, <1>3, <1>4, FilesStay DEF Learns
  <1>5. CASE ~(disk'[p] = disk[p] /\ ignored'[p] = ignored[p])
    <2>1. Saves(a)
      BY <1>5, ApplierFiles
    <2>2. PICK r \in Record : Save(a, r) /\ r.applied = Rec(a).applied
      BY <2>1 DEF Saves
    <2>3. p = cur[a] /\ disk'[p] = r /\ ignored'[p] = ignored[p]
      BY <1>5, <2>2 DEF Save, TypeOK
    <2>4. pc[a] \in Holding /\ snap'[a][p] = r
      BY <2>1, <2>2, <2>3, HoldType DEF Save, Saves
    <2>5. KnownApplied(p) \subseteq r.applied
      BY <1>3, <2>2, <2>3, <2>4, ConstantsAssumption
      DEF LedgerOf, TypeOK, Rec
    <2>6. r # NoRecord
      BY ConstantsAssumption
    <2>7. KnownApplied(p)' = r.applied
      <3>1. \A f : f \in KnownApplied(p)' <=> f \in r.applied
        BY <2>3, <2>5, <2>6, KnownFrom DEF KnownApplied
      <3> QED
        BY <3>1
    <2> QED
      BY <1>1, <2>3, <2>4, <2>5, <2>7 DEF LedgerOf, Remembers
  <1> QED
    BY <1>4, <1>5

\* The inbox moves the record with all it knows; edits leave that alone.
LEMMA EnvironmentLedger ==
  ASSUME ~RenameReplaces, TypeOK, LedgerSound, NEW q \in Proposals,
         EnvironmentStep(q)
  PROVE  LedgerSound' /\ \A p \in Proposals : Remembers(p)
  <1> SUFFICES ASSUME NEW p \in Proposals
               PROVE  LedgerOf(p)' /\ Remembers(p)
    BY DEF LedgerSound
  <1>1. UNCHANGED snap
    BY DEF EnvironmentStep, Approve, HumanSetsStatus, StripMarker,
           HumanEdits, RecordEdited, IgnoreChecked, IgnoreMoved,
           RestoreChecked, RestoreMoved, LockAges, memory
  <1>2. LedgerOf(p)
    BY DEF LedgerSound
  <1>3. CASE disk'[p] = disk[p] /\ ignored'[p] = ignored[p]
    BY <1>1, <1>2, <1>3, FilesStay
  <1>4. CASE RecordEdited(q)
    <2>1. /\ disk' = [disk EXCEPT ![q].intact = FALSE] /\ UNCHANGED ignored
          /\ disk[q] \in Record
      BY <1>4 DEF RecordEdited, TypeOK
    <2>2. CASE p = q
      <3>1. disk'[p] = [disk[p] EXCEPT !.intact = FALSE]
        BY <2>1, <2>2 DEF TypeOK
      <3>2. disk[p] \in Record /\ ignored'[p] = ignored[p]
        BY <2>1, <2>2
      <3>3. /\ disk[p] # NoRecord /\ disk'[p] # NoRecord
            /\ disk'[p].applied = disk[p].applied
        BY <3>1, <3>2, ConstantsAssumption DEF Record
      <3>4. \A b \in Appliers : snap'[b][p] # NoRecord =>
              /\ snap[b][p] # NoRecord
              /\ snap[b][p].applied \subseteq snap'[b][p].applied
        BY <1>1
      <3> QED
        BY <1>2, <3>2, <3>3, <3>4, FilesStay
    <2>3. CASE p # q
      BY <1>3, <2>1, <2>3 DEF TypeOK
    <2> QED
      BY <2>2, <2>3
  <1>5. CASE Moved(q)
    <2>1. CASE p = q
      <3>1. \/ /\ disk'[p] = NoRecord /\ ignored'[p] = disk[p]
               /\ disk[p] # NoRecord /\ ignored[p] = NoRecord
            \/ /\ disk'[p] = ignored[p] /\ ignored'[p] = NoRecord
               /\ disk[p] = NoRecord /\ ignored[p] # NoRecord
        BY <1>5, <2>1 DEF Moved, CanMove, TypeOK
      <3>2. \A f : f \in KnownApplied(p)' <=> f \in KnownApplied(p)
        BY <3>1, KnownFrom DEF KnownApplied
      <3>3. KnownApplied(p)' = KnownApplied(p)
        BY <3>2 DEF KnownApplied
      <3>4. disk'[p] # NoRecord =>
              \A f : f \in KnownApplied(p) => f \in disk'[p].applied
        BY <3>1, KnownFrom DEF KnownApplied
      <3> QED
        BY <1>1, <1>2, <3>3, <3>4 DEF LedgerOf, Remembers
    <2>2. CASE p # q
      BY <1>3, <1>5, <2>2 DEF Moved, TypeOK
    <2> QED
      BY <2>1, <2>2
  <1> QED
    BY <1>3, <1>4, <1>5, EnvironmentFiles

\* Every step keeps the ledger, and forgets nothing.
LEMMA NextLedger ==
  ASSUME Sole, ~RenameReplaces
  PROVE  TypeOK /\ LedgerSound /\ [Next]_vars
           => LedgerSound' /\ \A p \in Proposals : Remembers(p)
  <1> SUFFICES ASSUME TypeOK, LedgerSound, [Next]_vars
               PROVE  LedgerSound' /\ \A p \in Proposals : Remembers(p)
    OBVIOUS
  <1>1. CASE UNCHANGED vars
    BY <1>1, FilesStay DEF vars, files, inbox, memory, LedgerSound
  <1>2. CASE Next
    BY <1>2, ApplierLedger, EnvironmentLedger DEF Next
  <1> QED
    BY <1>1, <1>2

\* The ledger is sound in every state one applier reaches.
LEMMA LedgerInvariance == Sole /\ ~RenameReplaces /\ Spec => []LedgerSound
  <1> SUFFICES ASSUME Sole, ~RenameReplaces PROVE Spec => []LedgerSound
    OBVIOUS
  <1>1. TypeOK /\ LedgerSound /\ [Next]_vars => LedgerSound'
    BY NextLedger
  <1> QED
    BY <1>1, InitLedger, TypeCorrect, PTL DEF Spec

\* Where one process applies at a time and a rename does not replace a file,
\* what a record knows to be applied survives crashes, failed writes, edits and
\* the inbox, also a record that is written back while it is being restored.
\* (Two appliers that loaded the record before either wrote it overwrite each
\* other's flags.)
THEOREM AppliedIsRemembered ==
  Sole /\ ~RenameReplaces /\ Spec => AppliedNeverForgotten
  <1> SUFFICES ASSUME Sole, ~RenameReplaces PROVE Spec => AppliedNeverForgotten
    OBVIOUS
  <1>1. TypeOK /\ LedgerSound /\ [Next]_vars
          => \A p \in Proposals : KnownApplied(p) \subseteq KnownApplied(p)'
    BY NextLedger DEF Remembers
  <1> QED
    BY <1>1, LedgerInvariance, TypeCorrect, PTL
    DEF Spec, AppliedNeverForgotten

=============================================================================
