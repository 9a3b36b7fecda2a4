-------------------------- MODULE AuditLoop_proofs --------------------------
(***************************************************************************)
(* Theorems about AuditLoop, for any problems, rules, models and profiles, *)
(* any iteration limit and any number of runs and of events around them.   *)
(*                                                                         *)
(* The invariant has one part per concern: the session, the place in the   *)
(* graph, what a scan tells of the model, the history, the write log, the  *)
(* issues, and what covers the findings of the last pass. The part of one  *)
(* concern is proved over all steps before the next.                       *)
(***************************************************************************)
EXTENDS AuditLoop, FiniteNumbers

LEMMA ProfilesAreTyped ==
  /\ SomeProfile \in Profiles
  /\ \A p \in Profiles :
       /\ p.name \in {"nightly", "weekly"} /\ p.propose_only \in BOOLEAN
       /\ p.dry_run \in BOOLEAN /\ p.max_issues \in Nat
       /\ p.dropped \subseteq Rules /\ p.unattended \in BOOLEAN
       /\ p.strict \in BOOLEAN
  BY ConstantsAssumption DEF SomeProfile, Profile

-----------------------------------------------------------------------------
\* Types.

\* The steps between two runs of code that leave the model, the record and
\* the registry alone.
Session == \/ \E p \in Profiles : Start(p)
           \/ Spawn \/ WaitReady \/ WaitFails \/ OpenFolder \/ OpenFolderFails
           \/ Leave \/ LeaveCancelled
Scan == CheckGeometry \/ Query \/ QueryFails
Loop == Supervise \/ Route \/ Bump \/ Diagnose
Publish == (\E g \in toPropose : Propose(g)) \/ (\E g \in toRaise : Raise(g))
End == Finish \/ Abort \/ Cancel
World == \/ Halt
         \/ \E p \in Problems : Edit(p)
         \/ \E i \in DOMAIN issues : CloseIssue(i)
         \/ \E g \in parked : Apply(g)

LEMMA NextSplit ==
  Next => Session \/ Scan \/ Loop \/ Design \/ Publish \/ End \/ World
  BY DEF Next, Step, Session, Scan, Loop, Publish, End, World

\* The bounds that the type of a step's result rests on.
Places ==
  /\ pc \in {"design", "publish"} => iteration < MaxIterations
  /\ pc \notin {"idle", "leave"} => Len(history) < run
  /\ pc \in {"diagnose", "finish"} => status \in {"converged", "failed"}

EventsTyped == events \in 0 .. MaxEvents
LEMMA EventTyped == ASSUME EventsTyped, Event PROVE EventsTyped'
  BY ConstantsAssumption DEF EventsTyped, Event

LEMMA ReturnTyped ==
  ASSUME TypeOK, Return, UNCHANGED <<model, parked, run, storeVars>>,
         issues' = issues, rc' \in Outcomes, EventsTyped',
         watchdog' = "none", paused' \in BOOLEAN, told' \in BOOLEAN
  PROVE  TypeOK' /\ Places'
  <1>1. TypeOK'
    BY ConstantsAssumption, ProfilesAreTyped
    DEF TypeOK, Return, storeVars, Phases, NoPrint, Stops, EventsTyped
  <1>2. Places'
    BY DEF Return, Places
  <1> QED
    BY <1>1, <1>2

LEMMA SessionTyped == ASSUME TypeOK, Places, Session PROVE TypeOK' /\ Places'
  <1> USE DEF stateVars, writeVars, designVars, storeVars, worldVars, runVars,
              sessionVars
  <1>1. ASSUME NEW p \in Profiles, Start(p) PROVE TypeOK' /\ Places'
    <2>1. run' \in 0 .. MaxRuns /\ run' = run + 1 /\ run \in Nat
      BY <1>1, ConstantsAssumption DEF Start, TypeOK
    <2>2. Len(history) \in Nat /\ history' = history /\ Len(history) < run'
      BY <1>1, <2>1 DEF Start, TypeOK
    <2>3. Len(history) <= run'
      BY <2>1, <2>2
    <2>4. TypeOK'
      BY <1>1, <2>1, <2>2, <2>3 DEF Start, TypeOK, Phases, Outcomes
    <2> QED
      BY <1>1, <2>2, <2>4 DEF Start, Places
  <1>2. CASE Spawn \/ WaitReady \/ OpenFolder \/ OpenFolderFails
    <2>1. EventsTyped'
      BY <1>2, EventTyped
      DEF Spawn, WaitReady, OpenFolder, OpenFolderFails, TypeOK, EventsTyped
    <2>2. told' \in BOOLEAN /\ rc' \in Outcomes
      BY <1>2 DEF Spawn, WaitReady, OpenFolder, OpenFolderFails, TypeOK,
                  Outcomes
    <2>3. TypeOK'
      BY <1>2, <2>1, <2>2
      DEF Spawn, WaitReady, OpenFolder, OpenFolderFails, TypeOK, Phases,
          EventsTyped
    <2>4. Places'
      BY <1>2 DEF Spawn, WaitReady, OpenFolder, OpenFolderFails, Places
    <2> QED
      BY <2>3, <2>4
  <1>3. CASE WaitFails \/ LeaveCancelled
    BY <1>3, ReturnTyped, EventTyped
    DEF WaitFails, LeaveCancelled, TypeOK, Outcomes, EventsTyped
  <1>4. CASE Leave
    BY <1>4, ReturnTyped DEF Leave, LeaveCancelled, TypeOK, EventsTyped
  <1> QED
    BY <1>1, <1>2, <1>3, <1>4 DEF Session

LEMMA ScanTyped == ASSUME TypeOK, Places, Scan PROVE TypeOK' /\ Places'
  <1> USE DEF stateVars, writeVars, designVars, storeVars, worldVars, runVars,
              sessionVars
  <1>1. CASE CheckGeometry
    <2>1. EventsTyped'
      BY <1>1, EventTyped DEF CheckGeometry, TypeOK, EventsTyped
    <2>2. geo' \subseteq Problems /\ ran' \subseteq Geometry
            /\ seen' \subseteq Problems
      BY <1>1 DEF CheckGeometry, TypeOK
    <2>3. TypeOK'
      BY <1>1, <2>1, <2>2 DEF CheckGeometry, TypeOK, Phases, EventsTyped
    <2> QED
      BY <1>1, <2>3 DEF CheckGeometry, Places
  <1>2. CASE Query
    <2>1. findings' \subseteq Problems /\ seen' \subseteq Problems
      BY <1>2 DEF Query, Found, TypeOK
    <2>2. TypeOK'
      BY <1>2, <2>1 DEF Query, TypeOK, Phases
    <2> QED
      BY <1>2, <2>2 DEF Query, Places
  <1>3. CASE QueryFails
    <2>1. EventsTyped'
      BY <1>3, EventTyped DEF QueryFails, TypeOK, EventsTyped
    <2>2. TypeOK'
      BY <1>3, <2>1 DEF QueryFails, TypeOK, Phases, EventsTyped
    <2> QED
      BY <1>3, <2>2 DEF QueryFails, Places
  <1> QED
    BY <1>1, <1>2, <1>3 DEF Scan

LEMMA LoopTyped == ASSUME TypeOK, Places, Loop PROVE TypeOK' /\ Places'
  <1> USE DEF stateVars, writeVars, designVars, storeVars, worldVars, runVars,
              sessionVars
  <1>1. CASE Supervise \/ Diagnose
    <2>1. TypeOK'
      BY <1>1 DEF Supervise, Diagnose, TypeOK, Phases
    <2> QED
      BY <1>1, <2>1 DEF Supervise, Diagnose, Places
  <1>2. CASE Route
    <2>1. /\ status' \in {"designing", "converged", "failed"}
          /\ stop' \in Stops
          /\ pc' = IF status' = "designing" THEN "design" ELSE "diagnose"
          /\ status' = "designing" => iteration = 0 \/ ~(iteration >= MaxIterations)
      BY <1>2 DEF Route, RouteTo, Verdict, RouteBy, Stops
    <2>2. TypeOK'
      BY <1>2, <2>1 DEF Route, TypeOK, Phases
    <2>3. Places'
      BY <1>2, <2>1, ConstantsAssumption DEF Route, TypeOK, Places
    <2> QED
      BY <2>2, <2>3
  <1>3. CASE Bump
    <2>1. iteration' \in 0 .. MaxIterations /\ prev' \in SUBSET SUBSET Problems
      BY <1>3, ConstantsAssumption DEF Bump, TypeOK, Places
    <2>2. TypeOK'
      BY <1>3, <2>1 DEF Bump, TypeOK, Phases
    <2> QED
      BY <1>3, <2>2 DEF Bump, Places
  <1> QED
    BY <1>1, <1>2, <1>3 DEF Loop

\* The groups of some problems list these problems, and each of them.
LEMMA GroupsTyped ==
  ASSUME NEW bucket \in Buckets, NEW ps, ps \subseteq Problems
  PROVE  /\ GroupsOf(bucket, ps) \subseteq Groups
         /\ \A p \in ps : \E g \in GroupsOf(bucket, ps) : p \in g.elements
  <1>1. \A r \in Rules : Group(r, bucket, ps) \in Groups
    BY DEF Group, Groups
  <1>2. \A p \in ps : RuleOf[p] \in Rules
    BY ConstantsAssumption
  <1>3. \A p \in ps : p \in Group(RuleOf[p], bucket, ps).elements
    BY DEF Group
  <1> QED
    BY <1>1, <1>2, <1>3 DEF GroupsOf

LEMMA WithinSome ==
  ASSUME NEW n, NEW all, NEW kept \in Within(n, all)
  PROVE  kept \subseteq all /\ (profile.max_issues = 0 => kept = all)
  BY DEF Within

\* The problems Path B has a value for, and what a pass does with them.
LEMMA DesignSets ==
  ASSUME TypeOK, NEW reps, reps \subseteq findings, NEW bad
  PROVE  /\ Prepared(reps, bad) \subseteq reps
         /\ \A d : Decided(reps, bad, d) \subseteq Prepared(reps, bad)
         /\ Unfixed(reps, bad) \subseteq Problems
         /\ PathA(reps, bad) \subseteq Groups
         /\ \A d : GroupsOf("non_compliant", Decided(reps, bad, d))
                    \subseteq Groups
  <1>1. Prepared(reps, bad) \subseteq reps
    BY DEF Prepared
  <1>2. \A d : Decided(reps, bad, d) \subseteq Prepared(reps, bad)
    BY DEF Decided
  <1>3. \A d : Decided(reps, bad, d) \subseteq Problems
    BY <1>1, <1>2 DEF TypeOK
  <1>4. "non_compliant" \in Buckets /\ "human_only" \in Buckets
    BY DEF Buckets
  <1>5. \A d : GroupsOf("non_compliant", Decided(reps, bad, d))
               \subseteq Groups
    BY <1>3, <1>4, GroupsTyped
  <1>6. Unfixed(reps, bad) \subseteq Problems
    BY DEF Unfixed, TypeOK
  <1>7. PathA(reps, bad) \subseteq Groups
    <2>1. GroupsOf("non_compliant", Unfixed(reps, bad)) \subseteq Groups
      BY <1>4, <1>6, GroupsTyped
    <2>2. GroupsOf("human_only", Decided(reps, bad, "human-only"))
            \subseteq Groups
      BY <1>3, <1>4, GroupsTyped
    <2> QED
      BY <2>1, <2>2 DEF PathA
  <1> QED
    BY <1>1, <1>2, <1>5, <1>6, <1>7

\* Design, with its choices named.
DesignBy(reps, bad, specs, landed, confirmed) ==
  /\ reps \in Representatives /\ bad \in SUBSET reps
  /\ specs = IF profile.dry_run THEN {} ELSE Decided(reps, bad, "auto")
  /\ landed \in SUBSET specs /\ confirmed \in SUBSET landed
  /\ (bad = {} /\ confirmed = specs /\ UNCHANGED events) \/ Event
  /\ model' = AfterWrites(landed)
  /\ writelog' = Logged(confirmed)
  /\ written' = written \cup (confirmed \X {iteration})
  /\ failed' = specs \ confirmed
  /\ toPropose' \in Within(profile.max_issues,
                   GroupsOf("non_compliant", Decided(reps, bad, "approve")))
  /\ toRaise' \in Within(Left(toPropose'), PathA(reps, bad))

LEMMA DesignChoices ==
  ASSUME Design
  PROVE  \E reps, bad, specs, landed, confirmed :
           DesignBy(reps, bad, specs, landed, confirmed)
  <1>1. PICK reps \in Representatives : \E bad \in SUBSET reps :
          LET specs == IF profile.dry_run THEN {}
                       ELSE Decided(reps, bad, "auto")
          IN  \E landed \in SUBSET specs : \E confirmed \in SUBSET landed :
                /\ IF bad = {} /\ confirmed = specs
                   THEN UNCHANGED events ELSE Event
                /\ model' = AfterWrites(landed)
                /\ writelog' = Logged(confirmed)
                /\ written' = written \cup (confirmed \X {iteration})
                /\ failed' = specs \ confirmed
                /\ \E kept \in Within(profile.max_issues,
                          GroupsOf("non_compliant",
                                   Decided(reps, bad, "approve"))) :
                     /\ toPropose' = kept
                     /\ toRaise' \in Within(Left(kept), PathA(reps, bad))
    BY DEF Design
  <1>2. PICK bad \in SUBSET reps :
          LET specs == IF profile.dry_run THEN {}
                       ELSE Decided(reps, bad, "auto")
          IN  \E landed \in SUBSET specs : \E confirmed \in SUBSET landed :
                /\ IF bad = {} /\ confirmed = specs
                   THEN UNCHANGED events ELSE Event
                /\ model' = AfterWrites(landed)
                /\ writelog' = Logged(confirmed)
                /\ written' = written \cup (confirmed \X {iteration})
                /\ failed' = specs \ confirmed
                /\ \E kept \in Within(profile.max_issues,
                          GroupsOf("non_compliant",
                                   Decided(reps, bad, "approve"))) :
                     /\ toPropose' = kept
                     /\ toRaise' \in Within(Left(kept), PathA(reps, bad))
    BY <1>1
  <1> DEFINE specs == IF profile.dry_run THEN {}
                      ELSE Decided(reps, bad, "auto")
  <1>3. PICK landed \in SUBSET specs : \E confirmed \in SUBSET landed :
          /\ IF bad = {} /\ confirmed = specs THEN UNCHANGED events ELSE Event
          /\ model' = AfterWrites(landed)
          /\ writelog' = Logged(confirmed)
          /\ written' = written \cup (confirmed \X {iteration})
          /\ failed' = specs \ confirmed
          /\ \E kept \in Within(profile.max_issues,
                    GroupsOf("non_compliant", Decided(reps, bad, "approve"))) :
               /\ toPropose' = kept
               /\ toRaise' \in Within(Left(kept), PathA(reps, bad))
    BY <1>2
  <1>4. PICK confirmed \in SUBSET landed :
          DesignBy(reps, bad, specs, landed, confirmed)
    BY <1>3 DEF DesignBy
  <1> QED
    BY <1>4

LEMMA RepresentativesFound ==
  ASSUME NEW reps \in Representatives
  PROVE  /\ reps \subseteq findings
         /\ \A p \in PathB : \E q \in reps : StandsFor(q, p)
  BY DEF Representatives, PathB, StandsFor

LEMMA DesignTyped == ASSUME TypeOK, Places, Design PROVE TypeOK' /\ Places'
  <1>1. PICK reps, bad, specs, landed, confirmed :
          DesignBy(reps, bad, specs, landed, confirmed)
    BY DesignChoices
  <1>2. EventsTyped'
    BY <1>1, EventTyped DEF DesignBy, TypeOK, EventsTyped
  <1>3. specs \subseteq findings /\ confirmed \subseteq findings
          /\ landed \subseteq findings
    <2>1. reps \subseteq findings
      BY <1>1, RepresentativesFound DEF DesignBy
    <2>2. Decided(reps, bad, "auto") \subseteq findings
      BY <2>1, DesignSets
    <2> QED
      BY <1>1, <2>2 DEF DesignBy
  <1>4. model' \subseteq Problems
    <2>1. \A p \in landed : Reveals[p] \subseteq Problems
      BY <1>3, ConstantsAssumption DEF TypeOK
    <2>2. AfterWrites(landed) \subseteq Problems
      BY <2>1 DEF AfterWrites, TypeOK
    <2> QED
      BY <1>1, <2>2 DEF DesignBy
  <1>5. confirmed \X {iteration} \subseteq Problems \X (0 .. MaxIterations)
    BY <1>3 DEF TypeOK
  <1>6. /\ writelog' \subseteq Problems \X (0 .. MaxIterations)
        /\ written' \subseteq Problems \X (0 .. MaxIterations)
        /\ failed' \subseteq Problems
    <2>1. writelog' = writelog \cup (confirmed \X {iteration})
      BY <1>1 DEF DesignBy, Logged
    <2>2. written' = written \cup (confirmed \X {iteration})
      BY <1>1 DEF DesignBy
    <2>3. failed' \subseteq specs
      BY <1>1 DEF DesignBy
    <2> QED
      BY <1>3, <1>5, <2>1, <2>2, <2>3 DEF TypeOK
  <1>7. toPropose' \subseteq Groups /\ toRaise' \subseteq Groups
    <2>1. toPropose' \subseteq GroupsOf("non_compliant",
                                        Decided(reps, bad, "approve"))
      BY <1>1, WithinSome DEF DesignBy
    <2>2. toRaise' \subseteq PathA(reps, bad)
      BY <1>1, WithinSome DEF DesignBy
    <2>3. reps \subseteq findings
      BY <1>1, RepresentativesFound DEF DesignBy
    <2> QED
      BY <2>1, <2>2, <2>3, DesignSets
  <1>8. TypeOK'
    BY <1>2, <1>4, <1>6, <1>7
    DEF Design, TypeOK, Phases, EventsTyped, runVars, storeVars, sessionVars
  <1>9. Places'
    BY DEF Design, Places, runVars, storeVars
  <1> QED
    BY <1>8, <1>9

IssueRecord == [group : Groups, closed : 0 .. MaxRuns]
LEMMA NewIssueTyped ==
  ASSUME NEW s \in Seq(IssueRecord), NEW g \in Groups
  PROVE  LET new == Append(s, [group |-> g, closed |-> 0])
         IN  /\ new \in Seq(IssueRecord) /\ Len(new) = Len(s) + 1
             /\ DOMAIN new = DOMAIN s \cup {Len(s) + 1}
             /\ new[Len(s) + 1] = [group |-> g, closed |-> 0]
             /\ \A i \in DOMAIN s : new[i] = s[i]
  <1>1. [group |-> g, closed |-> 0] \in IssueRecord
    BY ConstantsAssumption DEF IssueRecord
  <1> QED
    BY <1>1

\* What becomes of a group that _propose_rule_group looks at.
Skipped(g) ==
  /\ Skip(g) /\ (g \in raised \/ (Registered(g) /\ IsOpen(registry[g])))
Kept(g) == Withhold(g) /\ (Event \/ UNCHANGED events)
Made(g, id) ==
  /\ Created(g, id) /\ id \in {0, Len(issues) + 1}
  /\ Event \/ UNCHANGED events
  /\ \/ blind' = blind \cup {g}
     \/ /\ UNCHANGED blind
        /\ id # 0 /\ ~(Registered(g) /\ IsOpen(registry[g]))

LEMMA RaiseChoices ==
  ASSUME TypeOK, NEW g, Raise(g)
  PROVE  Taken(g) /\ (Skipped(g) \/ Kept(g) \/ \E id : Made(g, id))
  <1>1. Taken(g)
    BY DEF Raise, RaiseUnless
  <1>2. Len(issues) + 1 # 0
    BY DEF TypeOK
  <1>3. CASE RaiseUnless(g \in raised
                          \/ (Registered(g) /\ IsOpen(registry[g])), g)
    <2> DEFINE skip == g \in raised \/ (Registered(g) /\ IsOpen(registry[g]))
    <2>1. CASE skip
      BY <1>3, <2>1 DEF RaiseUnless, Skipped
    <2>2. CASE ~skip /\ Create(g) /\ UNCHANGED events
      <3>1. CASE MayRaise(g)
        <4>1. Made(g, Len(issues) + 1)
          BY <1>2, <2>2, <3>1 DEF Create, Made
        <4> QED
          BY <1>1, <4>1
      <3>2. CASE ~MayRaise(g)
        BY <1>1, <2>2, <3>2 DEF Create, Kept
      <3> QED
        BY <3>1, <3>2
    <2>3. CASE PreviewEmpty(g)
      BY <1>1, <2>3 DEF PreviewEmpty, Kept
    <2>4. CASE CreateNameless(g)
      <3>1. Made(g, 0)
        BY <2>4 DEF CreateNameless, Made
      <3> QED
        BY <1>1, <3>1
    <2> QED
      BY <1>1, <1>3, <2>1, <2>2, <2>3, <2>4 DEF RaiseUnless
  <1>4. CASE /\ Event
             /\ IF MayRaise(g)
                THEN Created(g, Len(issues) + 1) /\ blind' = blind \cup {g}
                ELSE Withhold(g)
    <2>1. CASE MayRaise(g)
      <3>1. Made(g, Len(issues) + 1)
        BY <1>4, <2>1 DEF Made
      <3> QED
        BY <1>1, <3>1
    <2>2. CASE ~MayRaise(g)
      BY <1>1, <1>4, <2>2 DEF Kept
    <2> QED
      BY <2>1, <2>2
  <1> QED
    BY <1>3, <1>4 DEF Raise

LEMMA MadeTyped ==
  ASSUME TypeOK, NEW g \in Groups, NEW id, Made(g, id)
  PROVE  /\ issues' \in Seq(IssueRecord) /\ raised' \subseteq Groups
         /\ DOMAIN registry' \subseteq Groups
         /\ \A h \in DOMAIN registry' :
              registry'[h] \in {0} \cup DOMAIN issues'
  <1>1. /\ issues' \in Seq(IssueRecord) /\ DOMAIN issues \subseteq DOMAIN issues'
        /\ Len(issues) + 1 \in DOMAIN issues'
    BY NewIssueTyped DEF Made, Created, NewIssue, TypeOK, IssueRecord
  <1>2. id \in {0} \cup DOMAIN issues'
    BY <1>1 DEF Made
  <1>3. /\ DOMAIN registry' = DOMAIN registry \cup {g}
        /\ \A h \in DOMAIN registry' :
             registry'[h] = IF h = g THEN id ELSE registry[h]
    BY DEF Made, Created, Recorded
  <1>4. raised' \subseteq Groups
    BY DEF Made, Created, TypeOK
  <1> QED
    BY <1>1, <1>2, <1>3, <1>4 DEF TypeOK

LEMMA PublishTyped == ASSUME TypeOK, Places, Publish PROVE TypeOK' /\ Places'
  <1>1. ASSUME NEW g \in toPropose, Propose(g) PROVE TypeOK' /\ Places'
    <2>1. parked' \subseteq Groups /\ proposed' \subseteq Groups
      BY <1>1 DEF Propose, TypeOK
    <2>2. toPropose' \subseteq Groups
      BY <1>1 DEF Propose, TypeOK
    <2>3. TypeOK'
      BY <1>1, <2>1, <2>2
      DEF Propose, TypeOK, runVars, stateVars, writeVars, storeVars,
          sessionVars
    <2> QED
      BY <1>1, <2>3
      DEF Propose, Places, runVars, stateVars, storeVars
  <1>2. ASSUME NEW g \in toRaise, Raise(g) PROVE TypeOK' /\ Places'
    <2>1. Taken(g) /\ g \in Groups
            /\ (Skipped(g) \/ Kept(g) \/ \E id : Made(g, id))
      BY <1>2, RaiseChoices DEF TypeOK
    <2>2. withheld' \subseteq Groups
      BY <2>1 DEF Skipped, Skip, Kept, Withhold, Made, Created, TypeOK
    <2>3. /\ issues' \in Seq(IssueRecord) /\ raised' \subseteq Groups
          /\ DOMAIN registry' \subseteq Groups
          /\ \A h \in DOMAIN registry' :
               registry'[h] \in {0} \cup DOMAIN issues'
      <3>1. CASE Skipped(g) \/ Kept(g)
        BY <3>1, <2>1
        DEF Skipped, Skip, Kept, Withhold, TypeOK, IssueRecord
      <3>2. CASE \E id : Made(g, id)
        BY <3>2, <2>1, MadeTyped
      <3> QED
        BY <2>1, <3>1, <3>2
    <2>4. blind' \subseteq Groups /\ EventsTyped'
      BY <2>1, EventTyped
      DEF Skipped, Skip, Kept, Withhold, Made, TypeOK, EventsTyped
    <2>5. toRaise' \subseteq Groups
      BY <2>1 DEF Taken, TypeOK
    <2>6. TypeOK'
      BY <2>1, <2>2, <2>3, <2>4, <2>5
      DEF Taken, TypeOK, runVars, stateVars, writeVars, sessionVars,
          IssueRecord, EventsTyped
    <2> QED
      BY <2>1, <2>6 DEF Taken, Places, runVars, stateVars
  <1> QED
    BY <1>1, <1>2 DEF Publish

-----------------------------------------------------------------------------
\* Entries of the history.

LEMMA NewestIsOne ==
  ASSUME NEW s, s \subseteq DOMAIN history, TypeOK
  PROVE  Newest(s) \in Nat /\ (Newest(s) # 0 => Newest(s) \in s)
  <1>1. s \subseteq Nat /\ IsFiniteSet(s)
    <2>1. Len(history) \in Nat /\ DOMAIN history = 1 .. Len(history)
      BY DEF TypeOK
    <2>2. IsFiniteSet(1 .. Len(history))
      BY <2>1, FS_Interval
    <2> QED
      BY <2>1, <2>2, FS_Subset
  <1>2. CASE s = {}
    BY <1>2 DEF Newest
  <1>3. CASE s # {}
    <2>1. \E i \in s : \A k \in s : k <= i
      BY <1>1, <1>3, GreatestExists
    <2>2. Newest(s) \in s
      BY <1>3, <2>1 DEF Newest
    <2> QED
      BY <1>1, <2>2
  <1> QED
    BY <1>2, <1>3

LEMMA BaselineIsOne ==
  ASSUME TypeOK, NEW pr
  PROVE  /\ Baseline(pr) \in Nat
         /\ Baseline(pr) # 0 =>
              /\ Baseline(pr) \in DOMAIN history
              /\ history[Baseline(pr)].name = pr.name
              /\ history[Baseline(pr)].status \in Successful
  <1> DEFINE s == {i \in DOMAIN history : history[i].name = pr.name
                     /\ history[i].status \in Successful}
  <1>1. Newest(s) \in Nat /\ (Newest(s) # 0 => Newest(s) \in s)
    <2>1. s \subseteq DOMAIN history
      OBVIOUS
    <2> HIDE DEF s
    <2> QED
      BY <2>1, NewestIsOne
  <1>2. Baseline(pr) = Newest(s)
    BY DEF Baseline
  <1> QED
    BY <1>1, <1>2

Scopes == [query : Verdicts, geometry : Verdicts]
Deltas == [base : Nat, resolved : SUBSET Problems, fresh : SUBSET Problems,
           persistent : SUBSET Problems]

LEMMA ScopesTyped == Scope \in Scopes /\ NoScope \in Scopes
  <1>1. Coverage(profile) \in Verdicts
    BY DEF Coverage, Verdicts
  <1>2. GeometryVerdict(ran) \in Verdicts
    BY DEF GeometryVerdict, Verdicts
  <1> QED
    BY <1>1, <1>2 DEF Scope, NoScope, Scopes, Verdicts

LEMMA DeltaTyped ==
  ASSUME TypeOK, NEW pr, NEW now, now \subseteq Problems
  PROVE  Delta(Baseline(pr), now) \in Deltas
  <1> DEFINE base == Baseline(pr)
             old == IF base = 0 THEN {} ELSE history[base].findings
  <1>1. base \in Nat /\ (base # 0 => base \in DOMAIN history)
    BY BaselineIsOne
  <1>2. base # 0 => history[base] \in Entries
    BY <1>1 DEF TypeOK
  <1>3. old \subseteq Problems
    BY <1>2 DEF Entries
  <1>4. Delta(base, now) = [base |-> base, resolved |-> old \ now,
                            fresh |-> now \ old, persistent |-> old \cap now]
    BY DEF Delta
  <1> HIDE DEF base, old
  <1>5. Delta(base, now) \in Deltas
    BY <1>1, <1>3, <1>4 DEF Deltas
  <1> QED
    BY <1>5 DEF base

LEMMA EntryTyped ==
  ASSUME TypeOK, NEW st \in {"converged", "failed"},
         NEW now, now \subseteq Problems,
         NEW writes, writes \subseteq Problems \X (0 .. MaxIterations),
         NEW scope \in Scopes
  PROVE  Entry(st, now, writes, scope) \in Entries
  <1> DEFINE recorded == RecordedStatus(st, scope)
             delta == IF recorded \in Successful
                      THEN Delta(Baseline(profile), now) ELSE NoDelta
  <1>1. recorded \in {"converged", "failed", "no_audit"}
    BY DEF RecordedStatus
  <1>2. delta \in Deltas
    <2>1. Delta(Baseline(profile), now) \in Deltas
      BY DeltaTyped
    <2>2. NoDelta \in Deltas
      BY DEF NoDelta, Deltas
    <2> QED
      BY <2>1, <2>2
  <1>3. profile.name \in {"nightly", "weekly"}
    BY ProfilesAreTyped DEF TypeOK
  <1>4. writes \subseteq Problems \X Nat
    BY ConstantsAssumption
  <1>5. run \in Nat /\ stop \in Stops /\ seen \subseteq Problems
    BY ConstantsAssumption DEF TypeOK
  <1>6. Entry(st, now, writes, scope) =
          [run |-> run, name |-> profile.name, status |-> recorded,
           findings |-> now, stop |-> stop, writes |-> writes,
           truth |-> seen, scope |-> scope, delta |-> delta]
    BY DEF Entry
  <1> HIDE DEF recorded, delta
  <1> QED
    BY <1>1, <1>2, <1>3, <1>4, <1>5, <1>6 DEF Entries, Scopes, Deltas

LEMMA LastEntryTyped ==
  ASSUME TypeOK, status \in {"converged", "failed"}
  PROVE  FinalEntry(status) \in Entries
  <1>1. findings \cup geo \subseteq Problems
          /\ writelog \subseteq Problems \X (0 .. MaxIterations)
    BY DEF TypeOK
  <1> QED
    BY <1>1, EntryTyped, ScopesTyped DEF FinalEntry

LEMMA FailedEntriesTyped ==
  ASSUME TypeOK
  PROVE  FinalEntry("failed") \in Entries /\ EmptyEntry \in Entries
  <1>1. findings \cup geo \subseteq Problems
          /\ writelog \subseteq Problems \X (0 .. MaxIterations)
    BY DEF TypeOK
  <1>2. FinalEntry("failed") \in Entries
    BY <1>1, EntryTyped, ScopesTyped DEF FinalEntry
  <1>3. EmptyEntry \in Entries
    <2>1. {} \subseteq Problems /\ {} \subseteq Problems \X (0 .. MaxIterations)
      OBVIOUS
    <2> QED
      BY <2>1, EntryTyped, ScopesTyped DEF EmptyEntry
  <1> QED
    BY <1>2, <1>3

LEMMA HistoryGrows ==
  ASSUME TypeOK, Places, pc \notin {"idle", "leave"}, NEW e \in Entries,
         history' = Append(history, e)
  PROVE  /\ history' \in Seq(Entries) /\ Len(history') = Len(history) + 1
         /\ Len(history') <= run /\ Len(history) \in Nat
         /\ DOMAIN history = 1 .. Len(history)
         /\ DOMAIN history' = 1 .. Len(history) + 1
         /\ history'[Len(history')] = e
         /\ \A i \in DOMAIN history : history'[i] = history[i]
  <1>1. history \in Seq(Entries) /\ Len(history) < run /\ run \in Nat
    BY ConstantsAssumption DEF TypeOK, Places
  <1>2. /\ history' \in Seq(Entries) /\ Len(history') = Len(history) + 1
        /\ Len(history) \in Nat
    BY <1>1
  <1>3. Len(history) + 1 <= run
    BY <1>1, <1>2
  <1> QED
    BY <1>1, <1>2, <1>3

LEMMA LoseTyped ==
  ASSUME TypeOK, LoseIssue
  PROVE  /\ issues' \in Seq(IssueRecord) /\ DOMAIN issues \subseteq DOMAIN issues'
         /\ blind' \subseteq Groups
  <1>1. CASE UNCHANGED <<issues, blind>>
    BY <1>1 DEF TypeOK, IssueRecord
  <1>2. CASE \E g \in toRaise \ raised :
               MayRaise(g) /\ NewIssue(g) /\ blind' = blind \cup {g}
    <2>1. PICK g \in toRaise : NewIssue(g) /\ blind' = blind \cup {g}
      BY <1>2
    <2>2. g \in Groups /\ issues \in Seq(IssueRecord)
      BY DEF TypeOK, IssueRecord
    <2> QED
      BY <2>1, <2>2, NewIssueTyped DEF NewIssue, TypeOK
  <1> QED
    BY <1>1, <1>2 DEF LoseIssue

LEMMA EndTyped == ASSUME TypeOK, Places, End PROVE TypeOK' /\ Places'
  <1> USE DEF worldVars, runVars, stateVars, writeVars, designVars, storeVars,
              sessionVars
  <1>1. CASE Finish
    <2>1. status \in {"converged", "failed"} /\ pc \notin {"idle", "leave"}
      BY <1>1 DEF Finish, Places
    <2>2. history' \in Seq(Entries) /\ Len(history') <= run
      <3>1. FinalEntry(status) \in Entries
        BY <2>1, LastEntryTyped
      <3>2. history' = Append(history, FinalEntry(status))
        BY <1>1 DEF Finish
      <3> QED
        BY <2>1, <3>1, <3>2, HistoryGrows
    <2>3. rc' \in Outcomes
      BY <1>1 DEF Finish, ExitCode, Outcomes
    <2>4. TypeOK'
      BY <1>1, <2>2, <2>3 DEF Finish, TypeOK, Phases
    <2> QED
      BY <1>1, <2>4 DEF Finish, Places
  <1>2. CASE Abort
    <2>1. pc \notin {"idle", "leave"}
      BY <1>2 DEF Abort, InGraph
    <2>2. history' \in Seq(Entries) /\ Len(history') <= run
      <3>1. \E e \in Entries : history' = Append(history, e)
        BY <1>2, FailedEntriesTyped DEF Abort
      <3> QED
        BY <2>1, <3>1, HistoryGrows
    <2>3. issues' \in Seq(IssueRecord) /\ DOMAIN issues \subseteq DOMAIN issues'
            /\ blind' \subseteq Groups
      BY <1>2, LoseTyped DEF Abort
    <2>4. EventsTyped'
      BY <1>2, EventTyped DEF Abort, TypeOK, EventsTyped
    <2>5. TypeOK'
      BY <1>2, <2>2, <2>3, <2>4
      DEF Abort, TypeOK, Phases, Outcomes, EventsTyped, IssueRecord
    <2> QED
      BY <1>2, <2>5 DEF Abort, Places
  <1>3. CASE Cancel
    <2>1. EventsTyped'
      BY <1>3, EventTyped DEF Cancel, TypeOK, EventsTyped
    <2>2. issues' \in Seq(IssueRecord) /\ DOMAIN issues \subseteq DOMAIN issues'
            /\ blind' \subseteq Groups
      BY <1>3, LoseTyped DEF Cancel
    <2>3. TypeOK'
      BY <1>3, <2>1, <2>2
      DEF Cancel, TypeOK, Phases, Outcomes, EventsTyped, IssueRecord
    <2> QED
      BY <1>3, <2>3 DEF Cancel, Places
  <1> QED
    BY <1>1, <1>2, <1>3 DEF End

\* Closing an issue touches nothing else of any issue.
LEMMA ClosingTyped ==
  ASSUME TypeOK, NEW i \in DOMAIN issues, run > 0,
         issues' = [issues EXCEPT ![i].closed = run]
  PROVE  /\ issues' \in Seq(IssueRecord) /\ DOMAIN issues' = DOMAIN issues
         /\ \A k \in DOMAIN issues :
              /\ issues'[k].group = issues[k].group
              /\ issues'[k].closed = IF k = i THEN run ELSE issues[k].closed
  <1>0. issues \in Seq(IssueRecord)
    BY DEF TypeOK, IssueRecord
  <1>1. issues \in Seq(IssueRecord) /\ issues[i] \in IssueRecord
    BY <1>0
  <1>2. issues' = [issues EXCEPT ![i] = [issues[i] EXCEPT !.closed = run]]
    BY <1>1
  <1>3. [issues[i] EXCEPT !.closed = run] \in IssueRecord
    BY <1>1, ConstantsAssumption DEF TypeOK, IssueRecord
  <1>4. issues' \in Seq(IssueRecord) /\ DOMAIN issues' = DOMAIN issues
    BY <1>1, <1>2, <1>3
  <1>5. \A k \in DOMAIN issues : issues[k] \in IssueRecord
    BY <1>1
  <1> QED
    BY <1>2, <1>4, <1>5 DEF IssueRecord

LEMMA WorldTyped == ASSUME TypeOK, Places, World PROVE TypeOK' /\ Places'
  <1> USE DEF worldVars, runVars, stateVars, writeVars, designVars, storeVars,
              sessionVars
  <1>1. EventsTyped'
    BY EventTyped DEF World, Halt, Edit, CloseIssue, Apply, TypeOK,
                      EventsTyped
  <1>2. CASE Halt
    <2>1. TypeOK'
      BY <1>1, <1>2 DEF Halt, TypeOK, EventsTyped
    <2>2. Places'
      BY <1>2 DEF Halt, Places
    <2> QED
      BY <2>1, <2>2
  <1>3. ASSUME NEW p \in Problems, Edit(p) PROVE TypeOK' /\ Places'
    <2>1. model' \subseteq Problems
      BY <1>3 DEF Edit, TypeOK
    <2>2. TypeOK'
      BY <1>1, <1>3, <2>1 DEF Edit, TypeOK, EventsTyped
    <2>3. Places'
      BY <1>3 DEF Edit, Places
    <2> QED
      BY <2>2, <2>3
  <1>4. ASSUME NEW i \in DOMAIN issues, CloseIssue(i)
        PROVE  TypeOK' /\ Places'
    <2>1. issues' \in Seq(IssueRecord) /\ DOMAIN issues' = DOMAIN issues
      BY <1>4, ClosingTyped DEF CloseIssue
    <2>2. TypeOK'
      BY <1>1, <1>4, <2>1 DEF CloseIssue, TypeOK, EventsTyped, IssueRecord
    <2>3. Places'
      BY <1>4 DEF CloseIssue, Places
    <2> QED
      BY <2>2, <2>3
  <1>5. ASSUME NEW g \in parked, Apply(g) PROVE TypeOK' /\ Places'
    <2>1. model' \subseteq Problems
      <3>1. \A p \in Problems : Reveals[p] \subseteq Problems
        BY ConstantsAssumption
      <3> QED
        BY <1>5, <3>1 DEF Apply, AfterWrites, TypeOK
    <2>2. parked' \subseteq Groups
      BY <1>5 DEF Apply, TypeOK
    <2>3. TypeOK'
      BY <1>1, <1>5, <2>1, <2>2 DEF Apply, TypeOK, EventsTyped
    <2>4. Places'
      BY <1>5 DEF Apply, Places
    <2> QED
      BY <2>3, <2>4
  <1> QED
    BY <1>2, <1>3, <1>4, <1>5 DEF World

LEMMA InitTyped == ASSUME Init PROVE TypeOK /\ Places
  <1>1. /\ issues = <<>> /\ history = <<>> /\ registry = <<>>
        /\ DOMAIN registry = {} /\ Len(history) = 0
    BY DEF Init
  <1>2. /\ issues \in Seq([group : Groups, closed : 0 .. MaxRuns])
        /\ history \in Seq(Entries) /\ Len(history) <= run
    BY <1>1 DEF Init
  <1>3. model \subseteq Problems /\ profile \in Profiles
    BY ConstantsAssumption, ProfilesAreTyped DEF Init
  <1>4. /\ iteration \in 0 .. MaxIterations /\ run \in 0 .. MaxRuns
        /\ events \in 0 .. MaxEvents
    BY ConstantsAssumption DEF Init
  <1>5. TypeOK
    BY <1>1, <1>2, <1>3, <1>4
    DEF Init, TypeOK, Phases, NoPrint, Stops, Outcomes
  <1>6. Places
    BY DEF Init, Places
  <1> QED
    BY <1>5, <1>6

TypeInv == TypeOK /\ Places

LEMMA TypesKept == ASSUME TypeInv, [Next]_vars PROVE TypeInv'
  <1>1. CASE UNCHANGED vars
    BY <1>1 DEF vars, worldVars, runVars, stateVars, writeVars, designVars,
                storeVars, sessionVars, TypeInv, TypeOK, Places
  <1>2. CASE Next
    BY <1>2, NextSplit, SessionTyped, ScanTyped, LoopTyped, DesignTyped,
       PublishTyped, EndTyped, WorldTyped DEF TypeInv
  <1> QED
    BY <1>1, <1>2

-----------------------------------------------------------------------------
\* The session and the place in the graph.

SessionSound == pc \in {"idle", "launch"} => watchdog = "none"

LEMMA SessionKept ==
  ASSUME SessionSound, [Next]_vars PROVE SessionSound'
  <1> USE DEF SessionSound, sessionVars
  <1>1. CASE Session
    BY <1>1 DEF Session, Start, Spawn, WaitReady, WaitFails, OpenFolder,
                OpenFolderFails, Leave, LeaveCancelled
  <1>2. CASE Scan \/ Loop
    BY <1>2 DEF Scan, CheckGeometry, Query, QueryFails, Loop, Supervise,
                Route, RouteTo, Bump, Diagnose
  <1>3. CASE Design \/ Publish
    BY <1>3 DEF Design, Publish, Propose, Raise, RaiseUnless, Taken
  <1>4. CASE End \/ World
    BY <1>4 DEF End, Finish, Abort, Cancel, World, Halt, Edit, CloseIssue,
                Apply
  <1>5. CASE UNCHANGED vars
    BY <1>5 DEF vars
  <1> QED
    BY <1>1, <1>2, <1>3, <1>4, <1>5, NextSplit

GraphSound ==
  /\ pc \in {"idle", "launch", "wait", "folder", "geometry"} => iteration = 0
  /\ pc \notin {"diagnose", "finish", "leave"} => stop = "none"
  /\ (pc \in {"diagnose", "finish"} /\ status = "converged") =>
       /\ iteration > 0
       /\ \/ findings = {}
          \/ prev = {findings}
          \/ stop = "supervisor" /\ iteration < MaxIterations
  /\ ((pc \in {"diagnose", "finish"} \/ Ended) /\ stop = "fingerprint_stable")
       => iteration > 0 /\ prev = {findings}

LEMMA GraphKept ==
  ASSUME TypeInv, GraphSound, [Next]_vars PROVE GraphSound'
  <1> USE DEF GraphSound, Ended, stateVars
  <1>1. CASE Session
    BY <1>1 DEF Session, Start, Spawn, WaitReady, WaitFails, OpenFolder,
                OpenFolderFails, Leave, LeaveCancelled, Return
  <1>2. CASE Scan
    BY <1>2 DEF Scan, CheckGeometry, Query, QueryFails
  <1>3. CASE Supervise \/ Diagnose \/ Bump
    BY <1>3 DEF Supervise, Bump, Diagnose
  <1>4. CASE Route
    <2>1. iteration \in Nat /\ MaxIterations \in Nat
      BY ConstantsAssumption DEF TypeInv, TypeOK
    <2>2. /\ pc' = IF status' = "designing" THEN "design" ELSE "diagnose"
          /\ status' = "designing" => stop' = "none"
          /\ status' # "designing" => iteration # 0
          /\ status' = "converged" =>
               \/ findings = {} \/ prev = {findings}
               \/ stop' = "supervisor" /\ ~(iteration >= MaxIterations)
          /\ stop' = "fingerprint_stable" => prev = {findings}
      BY <1>4 DEF Route, RouteTo, Verdict, RouteBy
    <2>3. iteration' = iteration /\ findings' = findings /\ prev' = prev
      BY <1>4 DEF Route
    <2>4. status' # "designing" => iteration > 0
      BY <2>1, <2>2
    <2>5. ~(iteration >= MaxIterations) => iteration < MaxIterations
      BY <2>1
    <2> QED
      BY <2>2, <2>3, <2>4, <2>5
  <1>5. CASE Design \/ Publish
    BY <1>5 DEF Design, Publish, Propose, Raise, RaiseUnless, Taken
  <1>6. CASE End \/ World
    BY <1>6 DEF End, Finish, Abort, Cancel, World, Halt, Edit, CloseIssue,
                Apply
  <1>7. CASE UNCHANGED vars
    BY <1>7 DEF vars
  <1> QED
    BY <1>1, <1>2, <1>3, <1>4, <1>5, <1>6, <1>7, NextSplit DEF Loop

\* Where a run comes to its end, and what is on record then.
LEMMA EndReached ==
  ASSUME TypeInv, [Next]_vars, Ended'
  PROVE  \/ Finish
         \/ Ended /\ UNCHANGED <<pc, runVars, stateVars, written, history, rc>>
  <1> USE DEF Ended, runVars, stateVars, writeVars, storeVars
  <1>1. CASE Session
    BY <1>1 DEF Session, Start, Spawn, WaitReady, WaitFails, OpenFolder,
                OpenFolderFails, Leave, LeaveCancelled, Return
  <1>2. CASE Scan \/ Loop
    BY <1>2 DEF Scan, CheckGeometry, Query, QueryFails, Loop, Supervise,
                Route, RouteTo, Bump, Diagnose
  <1>3. CASE Design
    BY <1>3 DEF Design
  <1>4. CASE Publish
    <2>1. pc = "publish" /\ pc' = pc
      BY <1>4 DEF Publish, Propose, Raise, RaiseUnless, Taken
    <2> QED
      BY <2>1
  <1>5. CASE End
    BY <1>5 DEF End, Finish, Abort, Cancel
  <1>6. CASE World
    BY <1>6 DEF World, Halt, Edit, CloseIssue, Apply
  <1>7. CASE UNCHANGED vars
    BY <1>7 DEF vars
  <1> QED
    BY <1>1, <1>2, <1>3, <1>4, <1>5, <1>6, <1>7, NextSplit

LEMMA FinishRecords ==
  ASSUME TypeInv, Finish
  PROVE  /\ LastEntry' = FinalEntry(status)
         /\ UNCHANGED <<runVars, stateVars, writeVars>>
  <1>1. FinalEntry(status) \in Entries /\ pc \notin {"idle", "leave"}
          /\ history' = Append(history, FinalEntry(status))
    BY LastEntryTyped DEF Finish, TypeInv, Places
  <1>2. history'[Len(history')] = FinalEntry(status)
    BY <1>1, HistoryGrows DEF TypeInv
  <1> QED
    BY <1>2 DEF LastEntry, Finish

LEMMA SuccessKept ==
  ASSUME TypeInv, GraphSound, NoSilentSuccess, [Next]_vars
  PROVE  NoSilentSuccess'
  <1> SUFFICES ASSUME Ended' PROVE NoSilentSuccess'
    BY DEF NoSilentSuccess
  <1>1. CASE Finish
    <2>1. /\ LastEntry' = FinalEntry(status)
          /\ UNCHANGED <<runVars, stateVars>>
      BY <1>1, FinishRecords
    <2>2. LastEntry'.status = RecordedStatus(status, Scope)
      BY <2>1 DEF FinalEntry, Entry
    <2>3. rc' = ExitCode(status, Scope, profile.strict)
            /\ pc = "finish" /\ status \in {"converged", "failed"}
      BY <1>1 DEF Finish, TypeInv, Places
    <2>4. /\ Scope.query = Coverage(profile)
          /\ Scope.geometry = GeometryVerdict(ran)
      BY DEF Scope
    <2>5. ran = {} /\ Geometry # {} => GeometryVerdict(ran) = "no_audit"
      BY DEF GeometryVerdict
    <2>6. rc' = "ok" =>
            /\ LastEntry'.status = "converged" /\ iteration > 0
            /\ Coverage(profile) # "no_audit" /\ (Geometry = {} \/ ran # {})
            /\ \/ findings = {}
               \/ prev = {findings}
               \/ stop = "supervisor" /\ iteration < MaxIterations
      BY <2>2, <2>3, <2>4, <2>5
      DEF ExitCode, Nothing, RecordedStatus, GraphSound
    <2> QED
      BY <2>1, <2>6
      DEF NoSilentSuccess, runVars, stateVars, Coverage
  <1>2. CASE /\ Ended
             /\ UNCHANGED <<pc, runVars, stateVars, written, history, rc>>
    BY <1>2 DEF NoSilentSuccess, LastEntry, Coverage, runVars, stateVars
  <1> QED
    BY <1>1, <1>2, EndReached

-----------------------------------------------------------------------------
\* The write log.

WriteSound == writelog = written /\ WritesRecorded

LEMMA WriteKept == ASSUME TypeInv, WriteSound, [Next]_vars PROVE WriteSound'
  <1>1. writelog' = written'
    <2> USE DEF WriteSound, writeVars
    <2>1. CASE Session
      BY <2>1 DEF Session, Start, Spawn, WaitReady, WaitFails, OpenFolder,
                  OpenFolderFails, Leave, LeaveCancelled, Return
    <2>2. CASE Scan \/ Loop
      BY <2>2 DEF Scan, CheckGeometry, Query, QueryFails, Loop, Supervise,
                  Route, Bump, Diagnose
    <2>3. CASE Design
      BY <2>3, DesignChoices DEF DesignBy, Logged
    <2>4. CASE Publish
      BY <2>4 DEF Publish, Propose, Raise, RaiseUnless, Taken
    <2>5. CASE End \/ World
      BY <2>5 DEF End, Finish, Abort, Cancel, World, Halt, Edit, CloseIssue,
                  Apply
    <2>6. CASE UNCHANGED vars
      BY <2>6 DEF vars
    <2> QED
      BY <2>1, <2>2, <2>3, <2>4, <2>5, <2>6, NextSplit
  <1>2. ASSUME Ended' PROVE LastEntry'.writes = written'
    <2>1. CASE Finish
      <3>1. LastEntry'.writes = writelog
        BY <2>1, FinishRecords DEF FinalEntry, Entry
      <3> QED
        BY <2>1, <3>1, FinishRecords DEF WriteSound, writeVars
    <2>2. CASE /\ Ended
               /\ UNCHANGED <<pc, runVars, stateVars, written, history, rc>>
      BY <2>2 DEF WriteSound, WritesRecorded, LastEntry
    <2> QED
      BY <1>2, <2>1, <2>2, EndReached
  <1> QED
    BY <1>1, <1>2 DEF WriteSound, WritesRecorded

-----------------------------------------------------------------------------
\* The issues and the registry.

\* An open issue is the one the registry has for its group, unless its group
\* is one ACC could not tell about; the registry has the right group.
Listed(i) == LET g == issues[i].group
             IN  g \in blind \/ (g \in DOMAIN registry /\ registry[g] = i)
IssueSound ==
  /\ \A i \in DOMAIN issues : IsOpen(i) => Listed(i)
  /\ \A g \in DOMAIN registry :
       registry[g] # 0 => issues[registry[g]].group = g

LEMMA OneOpenIssue ==
  ASSUME IssueSound PROVE NoDoubleIssue
  BY DEF IssueSound, NoDoubleIssue, Listed

LEMMA NewIssueListed ==
  ASSUME TypeInv, IssueSound, NEW g \in Groups, NEW id, Made(g, id)
  PROVE  IssueSound'
  <1> DEFINE n == Len(issues) + 1
  <1>1. /\ DOMAIN issues' = DOMAIN issues \cup {n} /\ n \notin DOMAIN issues
        /\ issues'[n].group = g
        /\ \A i \in DOMAIN issues : issues'[i] = issues[i]
    <2>1. issues \in Seq(IssueRecord)
      BY DEF TypeInv, TypeOK, IssueRecord
    <2>2. issues' = Append(issues, [group |-> g, closed |-> 0])
      BY DEF Made, Created, NewIssue
    <2>3. /\ DOMAIN issues' = DOMAIN issues \cup {n}
          /\ issues'[n] = [group |-> g, closed |-> 0]
          /\ \A i \in DOMAIN issues : issues'[i] = issues[i]
      BY <2>1, <2>2, NewIssueTyped
    <2>4. Len(issues) \in Nat /\ DOMAIN issues = 1 .. Len(issues)
      BY <2>1
    <2>5. n \notin DOMAIN issues
      BY <2>4
    <2> QED
      BY <2>3, <2>5
  <1>2. /\ DOMAIN registry' = DOMAIN registry \cup {g}
        /\ \A h \in DOMAIN registry' :
             registry'[h] = IF h = g THEN id ELSE registry[h]
    BY DEF Made, Created, Recorded
  <1>3. \A h \in DOMAIN registry : registry[h] \in {0} \cup DOMAIN issues
    BY DEF TypeInv, TypeOK
  <1>4. /\ id \in {0, n} /\ blind \subseteq blind'
        /\ g \in blind' \/ (id = n /\ ~(Registered(g) /\ IsOpen(registry[g])))
    BY DEF Made
  <1>5. \A i \in DOMAIN issues : i # 0
    BY DEF TypeInv, TypeOK
  <1> HIDE DEF n
  <1>6. \A h \in DOMAIN registry' :
           registry'[h] # 0 => issues'[registry'[h]].group = h
    BY <1>1, <1>2, <1>3, <1>4 DEF IssueSound
  <1>7. ASSUME NEW i \in DOMAIN issues', IsOpen(i)' PROVE Listed(i)'
    <2>1. CASE i = n
      BY <1>1, <1>2, <1>4, <2>1 DEF Listed
    <2>2. CASE i # n
      <3>1. i \in DOMAIN issues /\ issues'[i] = issues[i]
        BY <1>1, <2>2
      <3>2. IsOpen(i) /\ Listed(i)
        BY <1>7, <3>1 DEF IsOpen, IssueSound
      <3>3. CASE issues[i].group # g
        BY <1>2, <1>4, <3>1, <3>2, <3>3 DEF Listed
      <3>4. CASE issues[i].group = g
        BY <1>4, <1>5, <3>1, <3>2, <3>4 DEF Listed, Registered
      <3> QED
        BY <3>3, <3>4
    <2> QED
      BY <2>1, <2>2
  <1> QED
    BY <1>6, <1>7 DEF IssueSound

LEMMA IssuesKept == ASSUME TypeInv, IssueSound, [Next]_vars PROVE IssueSound'
  <1> USE DEF worldVars, storeVars
  <1>0. ASSUME UNCHANGED <<issues, registry, blind>> PROVE IssueSound'
    BY <1>0 DEF IssueSound, IsOpen, Listed
  <1>1. CASE Session
    BY <1>0, <1>1 DEF Session, Start, Spawn, WaitReady, WaitFails, OpenFolder,
                      OpenFolderFails, Leave, LeaveCancelled
  <1>2. CASE Scan \/ Loop
    BY <1>0, <1>2 DEF Scan, CheckGeometry, Query, QueryFails, Loop, Supervise,
                      Route, Bump, Diagnose
  <1>3. CASE Design
    BY <1>0, <1>3 DEF Design
  <1>4. ASSUME NEW g \in toPropose, Propose(g) PROVE IssueSound'
    BY <1>0, <1>4 DEF Propose
  <1>5. ASSUME NEW g \in toRaise, Raise(g) PROVE IssueSound'
    <2>1. g \in Groups
      BY DEF TypeInv, TypeOK
    <2>2. Skipped(g) \/ Kept(g) \/ \E id : Made(g, id)
      BY <1>5, RaiseChoices DEF TypeInv
    <2>3. CASE Skipped(g) \/ Kept(g)
      BY <1>0, <2>3 DEF Skipped, Skip, Kept, Withhold
    <2> QED
      BY <2>1, <2>2, <2>3, NewIssueListed
  <1>6. CASE Finish
    BY <1>0, <1>6 DEF Finish
  <1>7. CASE Abort \/ Cancel
    <2>1. registry' = registry /\ LoseIssue
      BY <1>7 DEF Abort, Cancel
    <2>2. CASE UNCHANGED <<issues, blind>>
      BY <1>0, <2>1, <2>2
    <2>3. CASE \E g \in toRaise \ raised :
                 MayRaise(g) /\ NewIssue(g) /\ blind' = blind \cup {g}
      <3>1. PICK g \in toRaise : NewIssue(g) /\ blind' = blind \cup {g}
        BY <2>3
      <3>2. g \in Groups /\ issues \in Seq(IssueRecord)
        BY DEF TypeInv, TypeOK, IssueRecord
      <3>3. /\ DOMAIN issues' = DOMAIN issues \cup {Len(issues) + 1}
            /\ issues'[Len(issues) + 1].group = g
            /\ \A i \in DOMAIN issues : issues'[i] = issues[i]
        BY <3>1, <3>2, NewIssueTyped DEF NewIssue
      <3>4. \A h \in DOMAIN registry :
               registry[h] # 0 => registry[h] \in DOMAIN issues
        BY DEF TypeInv, TypeOK
      <3> QED
        BY <2>1, <3>1, <3>3, <3>4 DEF IssueSound, IsOpen, Listed
    <2> QED
      BY <2>1, <2>2, <2>3 DEF LoseIssue
  <1>8. ASSUME NEW i \in DOMAIN issues, CloseIssue(i) PROVE IssueSound'
    <2>1. /\ DOMAIN issues' = DOMAIN issues
          /\ \A k \in DOMAIN issues :
               /\ issues'[k].group = issues[k].group
               /\ issues'[k].closed = IF k = i THEN run ELSE issues[k].closed
      BY <1>8, ClosingTyped DEF CloseIssue, TypeInv
    <2>2. /\ UNCHANGED <<registry, blind>> /\ run # 0
          /\ \A h \in DOMAIN registry :
               registry[h] # 0 => registry[h] \in DOMAIN issues
      BY <1>8, ConstantsAssumption DEF CloseIssue, TypeInv, TypeOK
    <2> QED
      BY <2>1, <2>2 DEF IssueSound, IsOpen, Listed
  <1>9. CASE Halt \/ (\E p \in Problems : Edit(p))
               \/ (\E g \in parked : Apply(g))
    BY <1>0, <1>9 DEF Halt, Edit, Apply
  <1>10. CASE UNCHANGED vars
    BY <1>0, <1>10 DEF vars
  <1> QED
    BY <1>1, <1>2, <1>3, <1>4, <1>5, <1>6, <1>7, <1>8, <1>9, <1>10, NextSplit
    DEF Publish, End, World

-----------------------------------------------------------------------------
\* What a scan tells of the model, and the history.

ScanSound ==
  /\ pc \in {"idle", "launch", "wait", "folder"} => seen = {}
  /\ profile.dropped = {} => {p \in seen : ~IsGeometry(p)} \subseteq findings
  /\ ran = Geometry => {p \in seen : IsGeometry(p)} \subseteq geo

LEMMA ScanKept == ASSUME TypeInv, ScanSound, [Next]_vars PROVE ScanSound'
  <1> USE DEF runVars, stateVars
  <1>0. ASSUME UNCHANGED <<profile, seen, findings, ran, geo>>,
               pc' \in {"idle", "launch", "wait", "folder"} =>
                 pc \in {"idle", "launch", "wait", "folder"}
        PROVE  ScanSound'
    BY <1>0 DEF ScanSound, IsGeometry
  <1>1. CASE seen' = {}
    BY <1>1 DEF ScanSound
  <1>2. CASE Session
    <2>1. CASE \/ \E p \in Profiles : Start(p)
               \/ Spawn \/ WaitReady
      <3>1. seen' = {}
        BY <2>1 DEF Start, Spawn, WaitReady, ScanSound
      <3> QED
        BY <1>1, <3>1
    <2>2. CASE WaitFails \/ Leave \/ LeaveCancelled
      BY <1>1, <2>2 DEF WaitFails, Leave, LeaveCancelled, Return
    <2>3. CASE OpenFolder \/ OpenFolderFails
      BY <1>1, <2>3 DEF OpenFolder, OpenFolderFails, ScanSound
    <2> QED
      BY <1>2, <2>1, <2>2, <2>3 DEF Session
  <1>3. CASE CheckGeometry
    <2>1. /\ geo' = {p \in model : RuleOf[p] \in ran'}
          /\ seen' = {p \in model : IsGeometry(p)}
          /\ pc' = "query"
      BY <1>3 DEF CheckGeometry
    <2> QED
      BY <2>1 DEF ScanSound, IsGeometry
  <1>4. CASE Query
    <2>1. /\ findings' = Found
          /\ seen' = {p \in seen : IsGeometry(p)}
                       \cup {p \in model : ~IsGeometry(p)}
          /\ pc' = "supervise" /\ UNCHANGED <<profile, geo, ran>>
      BY <1>4 DEF Query
    <2> QED
      BY <2>1 DEF ScanSound, IsGeometry, Found
  <1>5. CASE QueryFails
    BY <1>0, <1>5 DEF QueryFails
  <1>6. CASE Loop
    BY <1>0, <1>6 DEF Loop, Supervise, Route, RouteTo, Bump, Diagnose
  <1>7. CASE Design
    BY <1>0, <1>7 DEF Design
  <1>8. CASE Publish
    BY <1>0, <1>8 DEF Publish, Propose, Raise, RaiseUnless, Taken
  <1>9. CASE End
    BY <1>0, <1>9 DEF End, Finish, Abort, Cancel
  <1>10. CASE World
    BY <1>0, <1>10 DEF World, Halt, Edit, CloseIssue, Apply
  <1>11. CASE UNCHANGED vars
    BY <1>0, <1>11 DEF vars
  <1> QED
    BY <1>2, <1>3, <1>4, <1>5, <1>6, <1>7, <1>8, <1>9, <1>10, <1>11, NextSplit
    DEF Scan

\* The findings of a successful run are all it could have found, unless it
\* checked a part only, and its delta report is honest.
EntrySound(e) ==
  e.status \in Successful =>
    ~Nothing(e.scope) /\ (Whole(e) => e.truth \subseteq e.findings)
HonestAt(i) == LET now == history[i]  base == now.delta.base IN
  /\ Whole(now) => now.delta.resolved \cap now.truth = {}
  /\ base # 0 => /\ base < i /\ history[base].name = now.name
                 /\ Whole(history[base]) =>
                      now.delta.fresh \cap history[base].truth = {}
HistorySound ==
  \A i \in DOMAIN history : EntrySound(history[i]) /\ HonestAt(i)

LEMMA HistoryIsHonest == ASSUME HistorySound PROVE DeltaHonest
  BY DEF HistorySound, HonestAt, DeltaHonest

\* The record of the final state of a run that read anything.
LEMMA FullFindings ==
  ASSUME ScanSound, Scope = [query |-> "ok", geometry |-> "ok"]
  PROVE  seen \subseteq findings \cup geo
  <1>1. Coverage(profile) = "ok" /\ GeometryVerdict(ran) = "ok"
    BY DEF Scope
  <1>2. profile.dropped = {} /\ ran = Geometry
    BY <1>1 DEF Coverage, GeometryVerdict
  <1> QED
    BY <1>2 DEF ScanSound

\* What a new record has to say to keep the history as it should be.
RecordSound(e) ==
  /\ EntrySound(e)
  /\ Whole(e) => e.delta.resolved \cap e.truth = {}
  /\ LET base == e.delta.base
     IN  base # 0 => /\ base \in DOMAIN history /\ history[base].name = e.name
                     /\ history[base].status \in Successful
                     /\ e.delta.fresh \cap history[base].findings = {}

LEMMA RecordKept ==
  ASSUME TypeInv, HistorySound, pc \notin {"idle", "leave"},
         NEW e \in Entries, RecordSound(e), history' = Append(history, e)
  PROVE  HistorySound'
  <1> DEFINE n == Len(history) + 1
             base == e.delta.base
  <1>1. /\ Len(history) \in Nat /\ DOMAIN history = 1 .. Len(history)
        /\ DOMAIN history' = 1 .. n /\ history'[n] = e
        /\ \A i \in DOMAIN history : history'[i] = history[i]
    BY HistoryGrows DEF TypeInv
  <1>2. base # 0 => /\ base < n /\ base \in DOMAIN history
                    /\ Whole(history[base]) =>
                         e.delta.fresh \cap history[base].truth = {}
    BY <1>1 DEF RecordSound, HistorySound, EntrySound
  <1> HIDE DEF n
  <1>3. ASSUME NEW i \in DOMAIN history'
        PROVE  EntrySound(history'[i]) /\ HonestAt(i)'
    <2>1. CASE i = n
      <3>1. base # 0 => history'[base] = history[base]
        BY <1>1, <1>2
      <3> QED
        BY <1>1, <1>2, <2>1, <3>1 DEF HonestAt, RecordSound
    <2>2. CASE i # n
      <3>1. i \in DOMAIN history /\ history'[i] = history[i]
        BY <1>1, <2>2 DEF n
      <3>2. history[i].delta.base # 0 => history[i].delta.base \in DOMAIN history
        <4>1. i \in Nat /\ i <= Len(history)
          BY <1>1, <3>1
        <4>2. history[i] \in Entries
          BY <3>1 DEF TypeInv, TypeOK
        <4>3. history[i].delta.base \in Nat
          BY <4>2 DEF Entries
        <4>4. history[i].delta.base # 0 => history[i].delta.base < i
          BY <3>1 DEF HistorySound, HonestAt
        <4> QED
          BY <1>1, <4>1, <4>3, <4>4
      <3> QED
        BY <1>1, <3>1, <3>2 DEF HistorySound, HonestAt
    <2> QED
      BY <2>1, <2>2
  <1> QED
    BY <1>3 DEF HistorySound

LEMMA EmptyRecordSound == RecordSound(EmptyEntry)
  <1>1. EmptyEntry.status = "failed" /\ EmptyEntry.delta = NoDelta
    BY DEF EmptyEntry, Entry, RecordedStatus, NoScope, Nothing, Successful
  <1> QED
    BY <1>1 DEF RecordSound, EntrySound, Successful, NoDelta

LEMMA FinalRecordSound ==
  ASSUME TypeInv, ScanSound, NEW st \in {"converged", "failed"}
  PROVE  RecordSound(FinalEntry(st))
  <1> DEFINE e == FinalEntry(st)
             base == e.delta.base
  <1>1. /\ e.status = RecordedStatus(st, Scope) /\ e.scope = Scope
        /\ e.findings = findings \cup geo /\ e.truth = seen
        /\ e.name = profile.name
        /\ e.delta = IF RecordedStatus(st, Scope) \in Successful
                     THEN Delta(Baseline(profile), findings \cup geo)
                     ELSE NoDelta
    BY DEF FinalEntry, Entry
  <1>2. EntrySound(e)
    <2>1. e.status \in Successful => ~Nothing(Scope)
      BY <1>1 DEF RecordedStatus, Successful
    <2> QED
      BY <1>1, <2>1, FullFindings DEF EntrySound, Whole
  <1>3. Whole(e) => e.delta.resolved \cap e.truth = {}
    <2>1. CASE e.status \in Successful
      <3>1. e.delta.resolved \cap e.findings = {}
        BY <1>1, <2>1 DEF Delta
      <3> QED
        BY <1>2, <2>1, <3>1 DEF EntrySound
    <2>2. CASE e.status \notin Successful
      BY <1>1, <2>2 DEF NoDelta
    <2> QED
      BY <2>1, <2>2
  <1>4. base # 0 => /\ base \in DOMAIN history /\ history[base].name = e.name
                    /\ history[base].status \in Successful
                    /\ e.delta.fresh \cap history[base].findings = {}
    <2>1. CASE e.status \in Successful
      <3>1. e.delta = Delta(Baseline(profile), findings \cup geo)
        BY <1>1, <2>1
      <3>2. base = Baseline(profile)
        BY <3>1 DEF Delta
      <3>3. base # 0 => e.delta.fresh = (findings \cup geo)
                                           \ history[base].findings
        BY <3>1, <3>2 DEF Delta
      <3> QED
        BY <1>1, <3>2, <3>3, BaselineIsOne DEF TypeInv
    <2>2. CASE e.status \notin Successful
      BY <1>1, <2>2 DEF NoDelta
    <2> QED
      BY <2>1, <2>2
  <1> HIDE DEF e
  <1>5. RecordSound(e)
    BY <1>2, <1>3, <1>4 DEF RecordSound
  <1> QED
    BY <1>5 DEF e

LEMMA HistoryKept ==
  ASSUME TypeInv, ScanSound, HistorySound, [Next]_vars PROVE HistorySound'
  <1> USE DEF storeVars
  <1>0. ASSUME history' = history PROVE HistorySound'
    BY <1>0 DEF HistorySound, HonestAt
  <1>1. CASE Session
    BY <1>0, <1>1 DEF Session, Start, Spawn, WaitReady, WaitFails, OpenFolder,
                      OpenFolderFails, Leave, LeaveCancelled
  <1>2. CASE Scan \/ Loop \/ Design
    BY <1>0, <1>2 DEF Scan, CheckGeometry, Query, QueryFails, Loop, Supervise,
                      Route, Bump, Diagnose, Design
  <1>3. CASE Publish
    BY <1>0, <1>3 DEF Publish, Propose, Raise, RaiseUnless, Taken
  <1>4. CASE World
    BY <1>0, <1>4 DEF World, Halt, Edit, CloseIssue, Apply
  <1>5. CASE Finish
    <2>1. /\ status \in {"converged", "failed"} /\ pc \notin {"idle", "leave"}
          /\ history' = Append(history, FinalEntry(status))
      BY <1>5 DEF Finish, TypeInv, Places
    <2>2. FinalEntry(status) \in Entries
      BY <2>1, LastEntryTyped DEF TypeInv
    <2> QED
      BY <2>1, <2>2, FinalRecordSound, RecordKept
  <1>6. CASE Abort
    <2>1. /\ pc \notin {"idle", "leave"}
          /\ \/ history' = Append(history, FinalEntry("failed"))
             \/ history' = Append(history, EmptyEntry)
      BY <1>6 DEF Abort, InGraph
    <2>2. FinalEntry("failed") \in Entries /\ EmptyEntry \in Entries
      BY FailedEntriesTyped DEF TypeInv
    <2> QED
      BY <2>1, <2>2, FinalRecordSound, EmptyRecordSound, RecordKept
  <1>7. CASE Cancel
    BY <1>0, <1>7 DEF Cancel
  <1>8. CASE UNCHANGED vars
    BY <1>0, <1>8 DEF vars
  <1> QED
    BY <1>1, <1>2, <1>3, <1>4, <1>5, <1>6, <1>7, <1>8, NextSplit DEF End

-----------------------------------------------------------------------------
\* Every finding a pass worked on is in someone's hands when the pass is over.

Live == Ended \/ pc \in {"query", "supervise", "route", "diagnose", "finish"}
Unlimited == ~profile.dry_run /\ profile.max_issues = 0
\* An issue that was open during this run.
Recent(i) == issues[i].closed \in {0, run}
Handled(p, pass) == \/ Named(p)
                    \/ \E g \in proposed : p \in g.elements
                    \/ p \in failed
                    \/ <<p, pass>> \in written
Awaits(p, groups) == \E g \in groups : p \in g.elements

RaisedSound ==
  /\ pc = "idle" => raised = {}
  /\ \A g \in raised : \E i \in DOMAIN issues :
       issues[i].group = g /\ Recent(i)
CoverSound ==
  Unlimited =>
    /\ iteration > 0 => \A p \in geo : Named(p)
    /\ pc = "publish" =>
         /\ \A p \in findings : \E q \in findings :
              /\ StandsFor(q, p)
              /\ Handled(q, iteration) \/ Awaits(q, toPropose \cup toRaise)
         /\ iteration = 0 =>
              \A p \in geo : Named(p) \/ Awaits(p, toRaise)
    /\ (Live /\ iteration > 0) =>
         \A p \in UNION prev : \E q \in UNION prev :
           StandsFor(q, p) /\ Handled(q, iteration - 1)

LEMMA CoverEscalates ==
  ASSUME TypeInv, GraphSound, CoverSound PROVE Escalated
  <1> SUFFICES ASSUME AtRest, NEW p \in findings \cup geo
               PROVE  \E q \in findings \cup geo :
                        StandsFor(q, p) /\ (Named(q) \/ Mending(q))
    BY DEF Escalated
  <1>1. iteration > 0 /\ prev = {findings} /\ Unlimited /\ Ended
    BY DEF GraphSound, AtRest, Unlimited
  <1>2. CASE p \in geo
    BY <1>1, <1>2 DEF CoverSound, StandsFor
  <1>3. CASE p \in findings
    <2>1. PICK q \in findings : StandsFor(q, p) /\ Handled(q, iteration - 1)
      BY <1>1, <1>3 DEF CoverSound, Live
    <2>2. q \in Problems
      BY <2>1 DEF TypeInv, TypeOK
    <2>3. Named(q) \/ Mending(q)
      BY <2>1, <2>2 DEF Handled, Mending, Attempted
    <2> QED
      BY <2>1, <2>3
  <1> QED
    BY <1>2, <1>3

\* Within a run issues only appear or are closed by people.
OnlyMore ==
  /\ run' = run /\ DOMAIN issues \subseteq DOMAIN issues'
  /\ \A i \in DOMAIN issues : /\ issues'[i].group = issues[i].group
                              /\ issues'[i].closed \in {issues[i].closed, run}
LEMMA MoreIssues ==
  ASSUME OnlyMore
  PROVE  /\ withheld \subseteq withheld' => \A p : Named(p) => Named(p)'
         /\ \A g : (\E i \in DOMAIN issues : issues[i].group = g /\ Recent(i))
              => (\E i \in DOMAIN issues : issues[i].group = g /\ Recent(i))'
  BY DEF OnlyMore, Named, Recent

LEMMA StillHandled ==
  ASSUME OnlyMore, proposed \subseteq proposed', failed' = failed,
         written \subseteq written', withheld \subseteq withheld'
  PROVE  \A p, pass : Handled(p, pass) => Handled(p, pass)'
  BY MoreIssues DEF Handled

LEMMA IssueSteps ==
  ASSUME TypeInv, [Next]_vars, run' = run
  PROVE  OnlyMore
  <1> USE DEF worldVars
  <1>0. ASSUME issues' = issues PROVE OnlyMore
    BY <1>0 DEF OnlyMore
  <1>1. CASE Session
    BY <1>0, <1>1 DEF Session, Start, Spawn, WaitReady, WaitFails, OpenFolder,
                      OpenFolderFails, Leave, LeaveCancelled
  <1>2. CASE Scan \/ Loop
    BY <1>0, <1>2 DEF Scan, CheckGeometry, Query, QueryFails, Loop, Supervise,
                      Route, Bump, Diagnose
  <1>3. CASE Design \/ Finish
    BY <1>0, <1>3 DEF Design, Finish
  <1>4. ASSUME NEW g \in Groups,
               issues' = Append(issues, [group |-> g, closed |-> 0])
        PROVE  OnlyMore
    <2>1. issues \in Seq(IssueRecord)
      BY DEF TypeInv, TypeOK, IssueRecord
    <2> QED
      BY <1>4, <2>1, NewIssueTyped DEF OnlyMore
  <1>5. CASE Publish
    <2>1. ASSUME NEW g \in toRaise, Raise(g) PROVE OnlyMore
      <3>1. g \in Groups
        BY DEF TypeInv, TypeOK
      <3>2. CASE Skipped(g) \/ Kept(g)
        BY <1>0, <3>2 DEF Skipped, Skip, Kept, Withhold
      <3>3. CASE \E id : Made(g, id)
        BY <1>4, <3>1, <3>3 DEF Made, Created, NewIssue
      <3> QED
        BY <2>1, <3>2, <3>3, RaiseChoices DEF TypeInv
    <2>2. ASSUME NEW g \in toPropose, Propose(g) PROVE OnlyMore
      BY <1>0, <2>2 DEF Propose
    <2> QED
      BY <1>5, <2>1, <2>2 DEF Publish
  <1>6. CASE Abort \/ Cancel
    <2>1. \/ issues' = issues
          \/ \E g \in toRaise :
               issues' = Append(issues, [group |-> g, closed |-> 0])
      BY <1>6 DEF Abort, Cancel, LoseIssue, NewIssue
    <2> QED
      BY <1>0, <1>4, <2>1 DEF TypeInv, TypeOK
  <1>7. ASSUME NEW i \in DOMAIN issues, CloseIssue(i) PROVE OnlyMore
    BY <1>7, ClosingTyped DEF CloseIssue, TypeInv, OnlyMore
  <1>8. CASE Halt \/ (\E p \in Problems : Edit(p))
               \/ (\E g \in parked : Apply(g))
    BY <1>0, <1>8 DEF Halt, Edit, Apply
  <1>9. CASE UNCHANGED vars
    BY <1>0, <1>9 DEF vars
  <1> QED
    BY <1>1, <1>2, <1>3, <1>5, <1>6, <1>7, <1>8, <1>9, NextSplit
    DEF End, World

LEMMA RaisedKept ==
  ASSUME TypeInv, IssueSound, RaisedSound, [Next]_vars PROVE RaisedSound'
  <1> USE DEF runVars, designVars
  <1>0. ASSUME raised' = raised, run' = run, pc' = "idle" => pc = "idle"
        PROVE  RaisedSound'
    BY <1>0, IssueSteps, MoreIssues DEF RaisedSound
  <1>1. CASE Session
    <2>1. CASE \/ \E p \in Profiles : Start(p)
               \/ WaitFails \/ Leave \/ LeaveCancelled
      <3>1. raised' = {}
        BY <2>1 DEF Start, WaitFails, Leave, LeaveCancelled, Return,
                    RaisedSound
      <3> QED
        BY <3>1 DEF RaisedSound
    <2>2. CASE Spawn \/ WaitReady \/ OpenFolder \/ OpenFolderFails
      BY <1>0, <2>2 DEF Spawn, WaitReady, OpenFolder, OpenFolderFails
    <2> QED
      BY <1>1, <2>1, <2>2 DEF Session
  <1>2. CASE Scan \/ Loop \/ Design
    BY <1>0, <1>2 DEF Scan, CheckGeometry, Query, QueryFails, Loop, Supervise,
                      Route, RouteTo, Bump, Diagnose, Design
  <1>3. ASSUME NEW g \in toPropose, Propose(g) PROVE RaisedSound'
    BY <1>0, <1>3 DEF Propose
  <1>4. ASSUME NEW g \in toRaise, Raise(g) PROVE RaisedSound'
    <2>1. /\ pc' = pc /\ pc = "publish" /\ run' = run
          /\ Skipped(g) \/ Kept(g) \/ \E id : Made(g, id)
      BY <1>4, RaiseChoices DEF TypeInv, Taken
    <2>2. raised' = raised \/ raised' = raised \cup {g}
      BY <2>1 DEF Skipped, Skip, Kept, Withhold, Made, Created
    <2>3. CASE raised' = raised
      BY <1>0, <2>1, <2>3
    <2>4. CASE raised' # raised
      <3>1. raised' = raised \cup {g} /\ g \notin raised
        BY <2>2, <2>4
      <3>2. \E i \in DOMAIN issues' : (issues[i].group = g /\ Recent(i))'
        <4>1. CASE \E id : Made(g, id)
          <5>1. issues' = Append(issues, [group |-> g, closed |-> 0])
            BY <4>1 DEF Made, Created, NewIssue
          <5>2. g \in Groups /\ issues \in Seq(IssueRecord)
            BY DEF TypeInv, TypeOK, IssueRecord
          <5> QED
            BY <5>1, <5>2, NewIssueTyped DEF Recent
        <4>2. CASE Skipped(g)
          <5>1. Registered(g) /\ IsOpen(registry[g]) /\ UNCHANGED issues
            BY <3>1, <4>2 DEF Skipped, Skip
          <5> QED
            BY <5>1 DEF Recent, IssueSound, Registered, IsOpen, TypeInv, TypeOK
        <4>3. ~Kept(g)
          BY <2>4 DEF Kept, Withhold
        <4> QED
          BY <2>1, <4>1, <4>2, <4>3
      <3>3. \A h \in raised : \E i \in DOMAIN issues' :
              (issues[i].group = h /\ Recent(i))'
        BY <2>1, IssueSteps, MoreIssues DEF RaisedSound
      <3> QED
        BY <2>1, <3>1, <3>2, <3>3 DEF RaisedSound
    <2> QED
      BY <2>3, <2>4
  <1>5. CASE End
    BY <1>0, <1>5 DEF End, Finish, Abort, Cancel
  <1>6. CASE World
    BY <1>0, <1>6 DEF World, Halt, Edit, CloseIssue, Apply
  <1>7. CASE UNCHANGED vars
    BY <1>0, <1>7 DEF vars
  <1> QED
    BY <1>1, <1>2, <1>3, <1>4, <1>5, <1>6, <1>7, NextSplit DEF Publish

\* What a pass does with its findings: each, or the one that stands for it,
\* gets an issue or a proposal, or is written.
LEMMA DesignCovers ==
  ASSUME TypeInv, Design, Unlimited
  PROVE  /\ \A p \in findings : \E q \in findings :
              /\ StandsFor(q, p)
              /\ \/ Handled(q, iteration)'
                 \/ Awaits(q, toPropose' \cup toRaise')
         /\ iteration = 0 => \A p \in geo : Awaits(p, toRaise')
  <1>1. PICK reps, bad, specs, landed, confirmed :
          DesignBy(reps, bad, specs, landed, confirmed)
    BY DesignChoices
  <1>2. /\ reps \in Representatives
        /\ specs = Decided(reps, bad, "auto")
        /\ toPropose' = GroupsOf("non_compliant", Decided(reps, bad, "approve"))
        /\ toRaise' = PathA(reps, bad)
        /\ written' = written \cup (confirmed \X {iteration})
        /\ failed' = specs \ confirmed
    BY <1>1, WithinSome DEF DesignBy, Unlimited
  <1>3. iteration' = iteration
    BY DEF Design
  <1>4. reps \subseteq findings /\ \A p \in PathB : \E q \in reps : StandsFor(q, p)
    BY <1>2, RepresentativesFound
  <1>5. /\ Prepared(reps, bad) \subseteq Problems
        /\ Unfixed(reps, bad) \subseteq Problems
        /\ \A d : Decided(reps, bad, d) \subseteq Problems
    BY <1>4, DesignSets DEF TypeInv, TypeOK
  <1>6. "non_compliant" \in Buckets /\ "human_only" \in Buckets
    BY DEF Buckets
  <1>7. \A p \in Unfixed(reps, bad) : Awaits(p, toRaise')
    BY <1>2, <1>5, <1>6, GroupsTyped DEF Awaits, PathA
  <1>8. \A p \in Decided(reps, bad, "human-only") : Awaits(p, toRaise')
    BY <1>2, <1>5, <1>6, GroupsTyped DEF Awaits, PathA
  <1>9. \A p \in Decided(reps, bad, "approve") : Awaits(p, toPropose')
    BY <1>2, <1>5, <1>6, GroupsTyped DEF Awaits
  <1>10. \A p \in Decided(reps, bad, "auto") : Handled(p, iteration)'
    BY <1>2, <1>3 DEF Handled
  <1>11. \A p \in Prepared(reps, bad) :
           \E d \in {"auto", "approve", "human-only"} :
             p \in Decided(reps, bad, d)
    <2> TAKE p \in Prepared(reps, bad)
    <2>1. RuleOf[p] \in Rules
      BY <1>5, ConstantsAssumption
    <2>2. Policy[RuleOf[p]] \in Decisions
      BY <2>1, ConstantsAssumption
    <2>3. Gated(RuleOf[p], Policy[RuleOf[p]]) \in Decisions
      BY <2>2 DEF Gated, Decisions
    <2>4. Decision(RuleOf[p]) \in Decisions
      BY <2>3 DEF Decision, Demoted, Decisions
    <2> QED
      BY <2>4 DEF Decided, Decisions
  <1>12. \A q \in reps : \/ Handled(q, iteration)'
                          \/ Awaits(q, toPropose' \cup toRaise')
    <2> TAKE q \in reps
    <2>1. CASE q \in Prepared(reps, bad)
      BY <1>8, <1>9, <1>10, <1>11, <2>1 DEF Awaits
    <2>2. CASE q \notin Prepared(reps, bad)
      BY <1>7, <2>2 DEF Awaits, Unfixed
    <2> QED
      BY <2>1, <2>2
  <1>13. ASSUME NEW p \in findings
         PROVE  \E q \in findings :
                  /\ StandsFor(q, p)
                  /\ \/ Handled(q, iteration)'
                     \/ Awaits(q, toPropose' \cup toRaise')
    <2>1. CASE p \in PathB
      <3>1. PICK q \in reps : StandsFor(q, p)
        BY <1>4, <2>1
      <3>2. /\ q \in findings /\ StandsFor(q, p)
            /\ \/ Handled(q, iteration)'
               \/ Awaits(q, toPropose' \cup toRaise')
        BY <1>4, <1>12, <3>1
      <3> QED
        BY <3>2
    <2>2. CASE p \notin PathB
      <3>1. StandsFor(p, p) /\ Awaits(p, toPropose' \cup toRaise')
        BY <1>7, <2>2 DEF Unfixed, StandsFor, Awaits
      <3> QED
        BY <3>1
    <2> QED
      BY <2>1, <2>2
  <1>14. iteration = 0 => \A p \in geo : Awaits(p, toRaise')
    BY <1>7 DEF Unfixed
  <1> QED
    BY <1>13, <1>14

\* What a pass worked on stays in someone's hands, and a group that was dealt
\* with does not have to wait.
LEMMA PublishCovers ==
  ASSUME CoverSound, Unlimited, pc = "publish", OnlyMore, NEW g,
         UNCHANGED <<pc, iteration, findings, geo, failed, written, profile>>,
         proposed \subseteq proposed', withheld \subseteq withheld',
         \A q : Awaits(q, toPropose \cup toRaise) =>
                  \/ q \in g.elements
                  \/ Awaits(q, toPropose \cup toRaise)',
         \A q : Awaits(q, toRaise) =>
                  Awaits(q, toRaise)' \/ (q \in g.elements /\ Named(q)'),
         \A q \in g.elements : Handled(q, iteration)'
  PROVE  CoverSound'
  <1>1. \A q : Named(q) => Named(q)'
    BY MoreIssues
  <1>2. \A q, pass : Handled(q, pass) => Handled(q, pass)'
    BY StillHandled
  <1>3. ASSUME NEW p \in findings
        PROVE  \E q \in findings :
                 /\ StandsFor(q, p)
                 /\ \/ Handled(q, iteration)'
                    \/ Awaits(q, toPropose \cup toRaise)'
    <2>1. PICK q \in findings :
            /\ StandsFor(q, p)
            /\ Handled(q, iteration) \/ Awaits(q, toPropose \cup toRaise)
      BY DEF CoverSound
    <2>2. Handled(q, iteration) => \E pass : pass = iteration /\ Handled(q, pass)'
      BY <1>2
    <2>3. Handled(q, iteration) => Handled(q, iteration)'
      BY <2>2 DEF Handled
    <2>4. Handled(q, iteration)' \/ Awaits(q, toPropose \cup toRaise)'
      BY <2>1, <2>3
    <2> QED
      BY <2>1, <2>4
  <1>4. iteration = 0 => \A p \in geo : Named(p)' \/ Awaits(p, toRaise)'
    BY <1>1 DEF CoverSound
  <1>5. iteration > 0 => \A p \in geo : Named(p)'
    BY <1>1 DEF CoverSound
  <1>6. ~Live'
    BY DEF Live, Ended
  <1> QED
    BY <1>3, <1>4, <1>5, <1>6 DEF CoverSound

LEMMA ProposeCovers ==
  ASSUME TypeInv, CoverSound, Unlimited, OnlyMore,
         NEW g \in toPropose, Propose(g)
  PROVE  CoverSound'
  <1> USE DEF runVars, stateVars, writeVars
  <1>1. /\ pc = "publish" /\ toPropose' = toPropose \ {g}
        /\ proposed' = proposed \cup {g}
        /\ UNCHANGED <<pc, iteration, findings, geo, toRaise, failed, written,
                       withheld, profile>>
    BY DEF Propose, Unlimited
  <1>2. \A q \in g.elements : Handled(q, iteration)'
    BY <1>1 DEF Handled
  <1>3. \A q : Awaits(q, toPropose \cup toRaise) =>
                 q \in g.elements \/ Awaits(q, toPropose \cup toRaise)'
    BY <1>1 DEF Awaits
  <1>4. \A q : Awaits(q, toRaise) => Awaits(q, toRaise)'
    BY <1>1 DEF Awaits
  <1> QED
    BY <1>1, <1>2, <1>3, <1>4, PublishCovers

LEMMA RaiseCovers ==
  ASSUME TypeInv, RaisedSound, RaisedSound', CoverSound, Unlimited, OnlyMore,
         NEW g \in toRaise, Raise(g)
  PROVE  CoverSound'
  <1> USE DEF runVars, stateVars, writeVars
  <1>1. /\ pc = "publish" /\ toRaise' = toRaise \ {g}
        /\ UNCHANGED <<pc, iteration, findings, geo, toPropose, proposed,
                       failed, written, profile>>
        /\ Skipped(g) \/ Kept(g) \/ \E id : Made(g, id)
    BY RaiseChoices DEF TypeInv, Taken
  <1>2. g \in raised' \/ g \in withheld'
    BY <1>1 DEF Skipped, Skip, Kept, Withhold, Made, Created
  <1>3. withheld \subseteq withheld'
    BY <1>1 DEF Skipped, Skip, Kept, Withhold, Made, Created
  <1>4. \A q \in g.elements : Named(q)'
    BY <1>2 DEF RaisedSound, Named, Recent
  <1>5. \A q \in g.elements : Handled(q, iteration)'
    BY <1>4 DEF Handled
  <1>6. \A q : Awaits(q, toPropose \cup toRaise) =>
                 q \in g.elements \/ Awaits(q, toPropose \cup toRaise)'
    BY <1>1 DEF Awaits
  <1>7. \A q : Awaits(q, toRaise) =>
                 Awaits(q, toRaise)' \/ (q \in g.elements /\ Named(q)')
    BY <1>1, <1>4 DEF Awaits
  <1> QED
    BY <1>1, <1>3, <1>5, <1>6, <1>7, PublishCovers

LEMMA CoverKept ==
  ASSUME TypeInv, GraphSound, RaisedSound, RaisedSound', CoverSound,
         [Next]_vars
  PROVE  CoverSound'
  <1> USE DEF runVars, stateVars, writeVars, designVars
  <1>0. ASSUME run' = run, UNCHANGED <<profile, iteration, geo, findings,
                 proposed, toPropose, toRaise, withheld, failed, written,
                 prev>>,
               pc' = "publish" => pc = "publish", Live' => Live
        PROVE  CoverSound'
    <2>1. /\ \A p : Named(p) => Named(p)'
          /\ \A p, pass : Handled(p, pass) => Handled(p, pass)'
      BY <1>0, IssueSteps, MoreIssues, StillHandled
    <2>2. Unlimited' => Unlimited
      BY <1>0 DEF Unlimited
    <2>3. ASSUME Unlimited
          PROVE  /\ iteration > 0 => \A p \in geo : Named(p)'
                 /\ (Live' /\ iteration > 0) =>
                      \A p \in UNION prev : \E q \in UNION prev :
                        StandsFor(q, p) /\ Handled(q, iteration - 1)'
      <3>1. \A q : Handled(q, iteration - 1) => Handled(q, iteration - 1)'
        BY <1>0, <2>1
      <3> QED
        BY <1>0, <2>1, <2>3, <3>1 DEF CoverSound
    <2>4. ASSUME Unlimited, pc' = "publish"
          PROVE  /\ \A p \in findings : \E q \in findings :
                      /\ StandsFor(q, p)
                      /\ \/ Handled(q, iteration)'
                         \/ Awaits(q, toPropose \cup toRaise)
                 /\ iteration = 0 =>
                      \A p \in geo : Named(p)' \/ Awaits(p, toRaise)
      <3>1. \A q : Handled(q, iteration) => Handled(q, iteration)'
        BY <1>0, <2>1
      <3> QED
        BY <1>0, <2>1, <2>4, <3>1 DEF CoverSound
    <2> QED
      BY <1>0, <2>2, <2>3, <2>4 DEF CoverSound
  <1>1. ASSUME iteration' = 0, pc' # "publish" PROVE CoverSound'
    BY <1>1 DEF CoverSound
  <1>2. CASE Session
    BY <1>1, <1>2 DEF Session, Start, Spawn, WaitReady, WaitFails, OpenFolder,
                      OpenFolderFails, Leave, LeaveCancelled, Return,
                      GraphSound
  <1>3. CASE CheckGeometry
    BY <1>1, <1>3 DEF CheckGeometry, GraphSound
  <1>4. CASE Query
    <2>1. /\ pc' = "supervise" /\ Live
          /\ UNCHANGED <<profile, run, iteration, geo, prev, proposed,
                         withheld, failed, written>>
      BY <1>4 DEF Query, Live
    <2>2. OnlyMore
      BY <2>1, IssueSteps
    <2>3. /\ \A p : Named(p) => Named(p)'
          /\ \A p, pass : Handled(p, pass) => Handled(p, pass)'
      BY <2>1, <2>2, MoreIssues, StillHandled
    <2>4. Unlimited' => Unlimited
      BY <2>1 DEF Unlimited
    <2> QED
      BY <2>1, <2>3, <2>4 DEF CoverSound
  <1>5. CASE QueryFails
    BY <1>0, <1>5 DEF QueryFails, Live
  <1>6. CASE Supervise \/ Diagnose
    BY <1>0, <1>6 DEF Supervise, Diagnose, Live
  <1>7. CASE Route
    BY <1>0, <1>7 DEF Route, RouteTo, Live
  <1>8. CASE Bump
    <2>1. /\ pc = "publish" /\ toPropose = {} /\ toRaise = {}
          /\ pc' = "query" /\ iteration' = iteration + 1 /\ prev' = {findings}
          /\ UNCHANGED <<profile, run, geo, proposed, withheld, failed,
                         written>>
      BY <1>8 DEF Bump
    <2>2. OnlyMore
      BY <2>1, IssueSteps
    <2>3. /\ \A p : Named(p) => Named(p)'
          /\ \A p, pass : Handled(p, pass) => Handled(p, pass)'
      BY <2>1, <2>2, MoreIssues, StillHandled
    <2>4. Unlimited' => Unlimited
      BY <2>1 DEF Unlimited
    <2>5. iteration \in Nat
      BY ConstantsAssumption DEF TypeInv, TypeOK
    <2>6. iteration' - 1 = iteration
      BY <2>1, <2>5
    <2>7. ASSUME Unlimited PROVE \A p \in geo : Named(p)'
      <3>1. iteration = 0 \/ iteration > 0
        BY <2>5
      <3> QED
        BY <2>1, <2>3, <2>7, <3>1 DEF CoverSound, Awaits
    <2>8. ASSUME Unlimited, NEW p \in findings
          PROVE  \E q \in findings :
                   StandsFor(q, p) /\ Handled(q, iteration - 1)'
      <3>1. PICK q \in findings : StandsFor(q, p) /\ Handled(q, iteration)
        BY <2>1, <2>8 DEF CoverSound, Awaits
      <3>2. \E pass : pass = iteration /\ Handled(q, pass)'
        BY <2>3, <3>1
      <3>3. Handled(q, iteration - 1)'
        BY <2>6, <3>2 DEF Handled
      <3> QED
        BY <3>1, <3>3
    <2>9. ASSUME Unlimited
          PROVE  \A p \in UNION prev' : \E q \in UNION prev' :
                   StandsFor(q, p) /\ Handled(q, iteration - 1)'
      BY <2>1, <2>8, <2>9
    <2> QED
      BY <2>1, <2>4, <2>7, <2>9 DEF CoverSound
  <1>9. CASE Design
    <2>1. /\ pc = "design" /\ pc' = "publish"
          /\ UNCHANGED <<profile, run, iteration, geo, findings, withheld>>
      BY <1>9 DEF Design
    <2>2. OnlyMore
      BY <2>1, IssueSteps
    <2>3. Unlimited' => Unlimited
      BY <2>1 DEF Unlimited
    <2>4. ~Live'
      BY <2>1 DEF Live, Ended
    <2>5. Unlimited => (iteration > 0 => \A p \in geo : Named(p)')
      BY <2>1, <2>2, MoreIssues DEF CoverSound
    <2> QED
      BY <1>9, <2>1, <2>3, <2>4, <2>5, DesignCovers DEF CoverSound
  <1>10. CASE Publish
    <2>1. CASE Unlimited
      <3>1. OnlyMore
        BY <1>10, IssueSteps
        DEF Publish, Propose, Raise, RaiseUnless, Taken
      <3> QED
        BY <1>10, <2>1, <3>1, ProposeCovers, RaiseCovers DEF Publish
    <2>2. CASE ~Unlimited
      <3>1. profile' = profile
        BY <1>10 DEF Publish, Propose, Raise, RaiseUnless, Taken
      <3> QED
        BY <2>2, <3>1 DEF CoverSound, Unlimited
    <2> QED
      BY <2>1, <2>2
  <1>11. CASE Finish
    BY <1>0, <1>11 DEF Finish, Live
  <1>12. CASE Abort \/ Cancel
    <2>1. /\ pc' = "leave" /\ ~Live'
          /\ UNCHANGED <<profile, run, iteration, geo, withheld>>
      BY <1>12 DEF Abort, Cancel, Live, Ended
    <2>2. OnlyMore
      BY <2>1, IssueSteps
    <2>3. Unlimited' => Unlimited
      BY <2>1 DEF Unlimited
    <2> QED
      BY <2>1, <2>2, <2>3, MoreIssues DEF CoverSound
  <1>13. CASE World
    BY <1>0, <1>13 DEF World, Halt, Edit, CloseIssue, Apply, Live, Ended
  <1>14. CASE UNCHANGED vars
    BY <1>0, <1>14 DEF vars, Live, Ended
  <1> QED
    BY <1>2, <1>3, <1>4, <1>5, <1>6, <1>7, <1>8, <1>9, <1>10, <1>11, <1>12,
       <1>13, <1>14, NextSplit DEF Scan, Loop, End

-----------------------------------------------------------------------------
\* The theorems.

IInv == /\ TypeInv /\ SessionSound /\ GraphSound /\ NoSilentSuccess
        /\ WriteSound /\ IssueSound /\ ScanSound /\ HistorySound
        /\ RaisedSound /\ CoverSound

\* Every audit starts from, and leaves behind, what the parts of the
\* invariant say, whatever the interleaving of steps, edits and failures.
THEOREM LoopInvariance == Spec => []IInv
  <1>1. Init => IInv
    <2> SUFFICES ASSUME Init PROVE IInv
      OBVIOUS
    <2>1. TypeInv
      BY InitTyped DEF TypeInv
    <2>2. pc = "idle" /\ watchdog = "none" /\ iteration = 0 /\ stop = "none"
            /\ writelog = written /\ raised = {} /\ seen = {}
            /\ issues = <<>> /\ registry = <<>> /\ history = <<>>
      BY DEF Init
    <2>3. DOMAIN issues = {} /\ DOMAIN registry = {} /\ DOMAIN history = {}
      BY <2>2
    <2>4. ~Ended /\ ~Live
      BY <2>2 DEF Ended, Live
    <2> QED
      BY <2>1, <2>2, <2>3, <2>4
      DEF IInv, SessionSound, GraphSound, NoSilentSuccess, WriteSound,
          WritesRecorded, IssueSound, ScanSound, HistorySound, RaisedSound,
          CoverSound
  <1>2. IInv /\ [Next]_vars => IInv'
    <2> SUFFICES ASSUME IInv, [Next]_vars PROVE IInv'
      OBVIOUS
    <2>1. TypeInv' /\ SessionSound' /\ GraphSound' /\ NoSilentSuccess'
      BY TypesKept, SessionKept, GraphKept, SuccessKept DEF IInv
    <2>2. WriteSound' /\ IssueSound' /\ ScanSound' /\ HistorySound'
      BY WriteKept, IssuesKept, ScanKept, HistoryKept DEF IInv
    <2>3. RaisedSound'
      BY RaisedKept DEF IInv
    <2>4. CoverSound'
      BY <2>3, CoverKept DEF IInv
    <2> QED
      BY <2>1, <2>2, <2>3, <2>4 DEF IInv
  <1> QED
    BY <1>1, <1>2, PTL DEF Spec

\* Every variable keeps its type.
THEOREM LoopTypeCorrect == Spec => []TypeOK
  <1>1. IInv => TypeOK
    BY DEF IInv, TypeInv
  <1> QED
    BY <1>1, LoopInvariance, PTL

\* An audit that exits 0 did read the model, is on record as converged and
\* left the loop for one of the three reasons that are no failure.
THEOREM SuccessIsMeant == Spec => []NoSilentSuccess
  <1>1. IInv => NoSilentSuccess
    BY DEF IInv
  <1> QED
    BY <1>1, LoopInvariance, PTL

\* When nothing moves any more, every finding, or one that the same write
\* would mend, is in someone's hands.
THEOREM NothingIsDropped == Spec => []Escalated
  <1>1. IInv => Escalated
    BY CoverEscalates DEF IInv
  <1> QED
    BY <1>1, LoopInvariance, PTL

\* Over any number of runs a group has one open issue.
THEOREM IssuesAreSingle == Spec => []NoDoubleIssue
  <1>1. IInv => NoDoubleIssue
    BY OneOpenIssue DEF IInv
  <1> QED
    BY <1>1, LoopInvariance, PTL

\* The delta report of a run claims nothing the model contradicts.
THEOREM DeltaIsHonest == Spec => []DeltaHonest
  <1>1. IInv => DeltaHonest
    BY HistoryIsHonest DEF IInv
  <1> QED
    BY <1>1, LoopInvariance, PTL

\* The record of a run lists the confirmed writes of all its passes.
THEOREM WritesAreRecorded == Spec => []WritesRecorded
  <1>1. IInv => WritesRecorded
    BY DEF IInv, WriteSound
  <1> QED
    BY <1>1, LoopInvariance, PTL

\* Exit code, record and delta report are true of the run.
THEOREM RecordIsTrue == Spec => []RecordIsHonest
  BY SuccessIsMeant, DeltaIsHonest, WritesAreRecorded, PTL
     DEF RecordIsHonest

\* Findings are escalated, and none of them twice: _propose_rule_group with
\* the registry and the memo of the run.
THEOREM EscalationIsSingle == Spec => []EscalatedOnce
  BY NothingIsDropped, IssuesAreSingle, PTL DEF EscalatedOnce

\* No watchdog of ours outlives the audit that started it.
THEOREM WatchdogIsReaped == Spec => []WatchdogReaped
  <1>1. IInv => WatchdogReaped
    BY DEF IInv, SessionSound, WatchdogReaped
  <1> QED
    BY <1>1, LoopInvariance, PTL

\* What a pass may write to the model on its own.
LEMMA OnlyDesignWrites ==
  ASSUME Next, pc = "design", pc' = "publish" PROVE Design
  <1>1. CASE Session
    BY <1>1 DEF Session, Start, Spawn, WaitReady, WaitFails, OpenFolder,
                OpenFolderFails, Leave, LeaveCancelled
  <1>2. CASE Scan \/ Loop
    BY <1>2 DEF Scan, CheckGeometry, Query, QueryFails, Loop, Supervise,
                Route, Bump, Diagnose
  <1>3. CASE Publish
    BY <1>3 DEF Publish, Propose, Raise, RaiseUnless, Taken
  <1>4. CASE End \/ World
    BY <1>4 DEF End, Finish, Abort, Cancel, World, Halt, Edit, CloseIssue,
                Apply
  <1> QED
    BY <1>1, <1>2, <1>3, <1>4, NextSplit

LEMMA AutoIsUnasked ==
  ASSUME TypeOK, NEW reps \in Representatives, NEW bad,
         NEW p \in Decided(reps, bad, "auto")
  PROVE  ~profile.propose_only /\ Unasked(p)
  <1> DEFINE r == RuleOf[p]
  <1>1. p \in findings /\ Fixable(p) /\ Strategy[r] # "novalue"
          /\ Decision(r) = "auto"
    BY RepresentativesFound DEF Decided, Prepared, Representatives, PathB
  <1>2. r \in Rules
    BY <1>1, ConstantsAssumption DEF TypeOK
  <1>3. Strategy[r] \in Strategies
    BY <1>2, ConstantsAssumption
  <1>4. ~(Strategy[r] = "renumber" \/ profile.propose_only)
          /\ Gated(r, Policy[r]) = "auto"
    BY <1>1 DEF Decision, Demoted
  <1> QED
    BY <1>1, <1>3, <1>4 DEF Gated, Unasked, Fixable, Strategies

\* A dry or propose_only run writes nothing, and any other one only what may
\* be written without asking.
THEOREM WritesAreGranted == Spec => OnlyGrantedWrites
  <1>1. IInv /\ [Next]_vars =>
          [(pc = "design" /\ model' # model /\ pc' = "publish") =>
             /\ ~profile.dry_run /\ ~profile.propose_only
             /\ \A p \in model \ model' : Unasked(p)]_vars
    <2> SUFFICES ASSUME IInv, Next, pc = "design", model' # model,
                        pc' = "publish"
                 PROVE  /\ ~profile.dry_run /\ ~profile.propose_only
                        /\ \A p \in model \ model' : Unasked(p)
      OBVIOUS
    <2>1. PICK reps, bad, specs, landed, confirmed :
            DesignBy(reps, bad, specs, landed, confirmed)
      BY OnlyDesignWrites, DesignChoices
    <2>2. /\ reps \in Representatives
          /\ landed \subseteq specs /\ model' = AfterWrites(landed)
          /\ specs = IF profile.dry_run THEN {} ELSE Decided(reps, bad, "auto")
      BY <2>1 DEF DesignBy
    <2>3. PICK p \in landed : TRUE
      BY <2>2 DEF AfterWrites
    <2>4. ~profile.dry_run /\ landed \subseteq Decided(reps, bad, "auto")
      BY <2>2, <2>3
    <2>5. TypeOK
      BY DEF IInv, TypeInv
    <2>6. ~profile.propose_only /\ \A q \in landed : Unasked(q)
      BY <2>2, <2>3, <2>4, <2>5, AutoIsUnasked
    <2>7. \A q \in model \ model' : \E o \in landed : SameWrite(q, o)
      BY <2>2 DEF AfterWrites
    <2> QED
      BY <2>4, <2>6, <2>7 DEF SameWrite, Unasked
  <1> QED
    BY <1>1, LoopInvariance, PTL DEF Spec, OnlyGrantedWrites
=============================================================================
