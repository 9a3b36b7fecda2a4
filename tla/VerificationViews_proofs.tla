----------------------- MODULE VerificationViews_proofs ------------------------
(***************************************************************************)
(* What VerificationViews guarantees for any traces, addins, models,       *)
(* processes and bounds: the types, the lock of the service, dry runs, one *)
(* schedule per rule, complete manifests, rows that are true when they are *)
(* written, and passes that repair whatever was left half-built.           *)
(*                                                                         *)
(* The steps are first described once each (...Facts): what they make of   *)
(* their own pass, of the other passes (Others: those that lose the model  *)
(* to this step are not quiet any more), of the schedules and of what was  *)
(* spent.  The invariant rests on Alone(p): nobody but the pass changed a  *)
(* schedule since it began.  While a pass is alone, what its probe saw is  *)
(* still there and what it did not see belongs to no rule that is left     *)
(* (SeenSound), the schedule it just created is as the addin made it       *)
(* (HandSound), and every rule that is done has its schedule (DoneSound).  *)
(***************************************************************************)
EXTENDS VerificationViews, TLAPS

-----------------------------------------------------------------------------
\* Typing of the rule views, the schedules and what the addin does to them.

LEMMA Constants ==
  /\ \A r \in Runs : Trace[r] \in Seq(RuleViews)
  /\ \A r \in Runs : \A i, j \in DOMAIN Trace[r] :
       Trace[r][i].id = Trace[r][j].id => i = j
  /\ MaxPasses \in Nat /\ MaxFaults \in Nat /\ MaxEdits \in Nat
  /\ \A a \in Addins : /\ a.renames \in BOOLEAN /\ a.creates \in BOOLEAN
                       /\ a.configures \in BOOLEAN
  BY ConstantsAssumption

LEMMA RulesAreTyped ==
  ASSUME NEW v \in RuleViews
  PROVE  /\ v.id \in Ids /\ Name(v) \in Titles
         /\ v.category \in {w.category : w \in RuleViews}
         /\ Columns(v) \subseteq UNION {Columns(w) : w \in RuleViews}
         /\ v.param \in Columns(v)
         /\ SortOf(v) \in Sorts
         /\ FiltersOf(v) \subseteq UNION {FiltersOf(w) : w \in RuleViews}
  <1>1. v.id \in Ids /\ Name(v) \in Titles
    BY DEF Ids, Titles, Name
  <1>2. v.param \in Columns(v)
    BY DEF Columns
  <1> QED
    BY <1>1, <1>2 DEF Sorts

LEMMA NewIsTyped ==
  ASSUME NEW v \in RuleViews, NEW name \in Titles
  PROVE  New(name, v) \in Schedules
  <1>1. New(name, v).cols \in SUBSET UNION {Columns(w) : w \in RuleViews}
    BY RulesAreTyped DEF New
  <1>2. /\ v.category \in {w.category : w \in RuleViews}
        /\ v.id \in Ids
    BY RulesAreTyped
  <1>3. <<>> \in Seq(Sorts)
    OBVIOUS
  <1> QED
    BY <1>1, <1>2, <1>3 DEF New, Schedules

LEMMA ConfiguredIsTyped ==
  ASSUME NEW v \in RuleViews, NEW s \in Schedules, NEW clear \in BOOLEAN
  PROVE  /\ Configured(s, v, clear) \in Schedules
         /\ Configured(s, v, clear).name = s.name
         /\ Configured(s, v, clear).category = s.category
         /\ Configured(s, v, clear).madeFor = s.madeFor
         /\ Configured(s, v, clear).deleted = s.deleted
  <1> DEFINE can == v.param \in Schedulable[s.category]
             add == IF can THEN <<SortOf(v)>> ELSE <<>>
             new == IF can THEN FiltersOf(v) ELSE {}
             cols == s.cols \cup (IF can THEN {v.param} ELSE {})
             sort == IF clear THEN add ELSE s.sort \o add
             filters == IF clear THEN new ELSE s.filters \cup new
  <1>1. Configured(s, v, clear)
          = [s EXCEPT !.cols = cols, !.sort = sort, !.filters = filters]
    BY DEF Configured
  <1>2. /\ s.cols \in SUBSET UNION {Columns(w) : w \in RuleViews}
        /\ s.sort \in Seq(Sorts)
        /\ s.filters \in SUBSET UNION {FiltersOf(w) : w \in RuleViews}
    BY DEF Schedules
  <1>3. cols \in SUBSET UNION {Columns(w) : w \in RuleViews}
    BY <1>2, RulesAreTyped
  <1>4. sort \in Seq(Sorts)
    <2>1. SortOf(v) \in Sorts
      BY RulesAreTyped
    <2>2. add \in Seq(Sorts)
      BY <2>1
    <2> QED
      BY <1>2, <2>2
  <1>5. filters \in SUBSET UNION {FiltersOf(w) : w \in RuleViews}
    BY <1>2, RulesAreTyped
  <1> HIDE DEF cols, sort, filters
  <1> QED
    BY <1>1, <1>3, <1>4, <1>5 DEF Schedules

\* What a step makes of the schedules.
LEMMA SchedulesStay ==
  ASSUME TypeOK, NEW id \in DOMAIN schedules, NEW v \in RuleViews,
         NEW clear \in BOOLEAN, NEW dry \in BOOLEAN
  PROVE  /\ Reconfigured(id, v, clear, dry) \in Seq(Schedules)
         /\ DOMAIN Reconfigured(id, v, clear, dry) = DOMAIN schedules
         /\ Len(Reconfigured(id, v, clear, dry)) = Len(schedules)
         /\ ~dry => Reconfigured(id, v, clear, dry)[id]
                      = Configured(schedules[id], v, clear)
         /\ \A i \in DOMAIN schedules \ {id} :
              Reconfigured(id, v, clear, dry)[i] = schedules[i]
  <1>1. schedules \in Seq(Schedules)
    BY DEF TypeOK
  <1>2. Configured(schedules[id], v, clear) \in Schedules
    BY <1>1, ConfiguredIsTyped
  <1> QED
    BY <1>1, <1>2 DEF Reconfigured

-----------------------------------------------------------------------------
\* The passes: what a step does to its own pass and to the others.

\* A pass that a step of another one, or of a person, leaves where it is.
Kept(q) ==
  /\ pass'[q].pc = pass[q].pc /\ pass'[q].run = pass[q].run
  /\ pass'[q].dry = pass[q].dry /\ pass'[q].seen = pass[q].seen
  /\ pass'[q].todo = pass[q].todo /\ pass'[q].sid = pass[q].sid
  /\ pass'[q].name = pass[q].name /\ pass'[q].warned = pass[q].warned
  /\ pass'[q].rows = pass[q].rows /\ pass'[q].told = pass[q].told

LEMMA QuietIsKept ==
  ASSUME NEW s \in Passings, NEW quiet \in BOOLEAN
  PROVE  LET t == [s EXCEPT !.quiet = quiet]
         IN  /\ t \in Passings
             /\ t.pc = s.pc /\ t.run = s.run /\ t.dry = s.dry
             /\ t.seen = s.seen /\ t.todo = s.todo /\ t.sid = s.sid
             /\ t.name = s.name /\ t.warned = s.warned /\ t.rows = s.rows
             /\ t.told = s.told /\ t.quiet = quiet
  BY DEF Passings

LEMMA BecomesFacts ==
  ASSUME TypeOK, NEW p \in Procs, NEW next \in Passings, NEW changed \in BOOLEAN,
         Becomes(p, next, changed)
  PROVE  /\ pass' \in [Procs -> Passings]
         /\ pass'[p] = next
         /\ \A q \in Procs \ {p} :
              /\ Kept(q)
              /\ pass'[q].quiet = (pass[q].quiet /\ ~(changed /\ Busy(q)))
  <1>1. \A q \in Procs : pass[q] \in Passings /\ pass[q].quiet \in BOOLEAN
    BY DEF TypeOK, Passings
  <1>2. \A q \in Procs \ {p} :
          pass'[q] = [pass[q] EXCEPT
                        !.quiet = pass[q].quiet /\ ~(changed /\ Busy(q))]
    BY DEF Becomes
  <1>3. ASSUME NEW q \in Procs \ {p}
        PROVE  /\ pass'[q] \in Passings /\ Kept(q)
               /\ pass'[q].quiet = (pass[q].quiet /\ ~(changed /\ Busy(q)))
    <2> DEFINE quiet == pass[q].quiet /\ ~(changed /\ Busy(q))
    <2>1. quiet \in BOOLEAN
      OBVIOUS
    <2>2. pass[q] \in Passings /\ pass'[q] = [pass[q] EXCEPT !.quiet = quiet]
      BY <1>1, <1>2
    <2> HIDE DEF quiet
    <2>3. pass'[q] \in Passings /\ Kept(q) /\ pass'[q].quiet = quiet
      BY <2>1, <2>2, QuietIsKept DEF Kept
    <2> QED
      BY <2>3 DEF quiet
  <1>4. pass'[p] = next
    BY DEF Becomes
  <1>5. pass' = [q \in Procs |-> pass'[q]]
    BY DEF Becomes
  <1>6. \A q \in Procs : pass'[q] \in Passings
    BY <1>3, <1>4
  <1>7. pass' \in [Procs -> Passings]
    BY <1>5, <1>6
  <1> QED
    BY <1>3, <1>4, <1>7

LEMMA RuleIsTyped ==
  ASSUME TypeOK, NEW p \in Procs, AtRule(p) \/ AtConfigure(p)
  PROVE  /\ pass[p].todo \in Seq(RuleViews) /\ pass[p].todo # <<>>
         /\ Rule(p) \in RuleViews /\ Rule(p) = pass[p].todo[1]
         /\ Name(Rule(p)) \in Titles
         /\ Busy(p) /\ pass[p].run \in Runs
  <1>1. pass[p].todo \in Seq(RuleViews) /\ pass[p].todo # <<>>
    BY DEF TypeOK, Passings, AtRule, AtConfigure
  <1>2. Rule(p) \in RuleViews /\ Rule(p) = pass[p].todo[1]
    BY <1>1 DEF Rule
  <1>3. Busy(p)
    BY DEF Busy, AtRule, AtConfigure
  <1> QED
    BY <1>1, <1>2, <1>3, RulesAreTyped DEF TypeOK

Advanced(s, todo, rows) ==
  [s EXCEPT !.pc = "rule", !.todo = todo, !.sid = NoId, !.name = <<>>,
            !.warned = FALSE, !.rows = rows]

LEMMA AdvancedFacts ==
  ASSUME NEW s \in Passings, NEW todo \in Seq(RuleViews), NEW rows \in Seq(Rows)
  PROVE  LET t == Advanced(s, todo, rows)
         IN  /\ t \in Passings
             /\ t.pc = "rule" /\ t.run = s.run /\ t.dry = s.dry
             /\ t.seen = s.seen /\ t.todo = todo /\ t.told = s.told
             /\ t.quiet = s.quiet /\ t.rows = rows
  BY DEF Passings, NoId, Advanced

\* The row of the rule at hand is appended and the next rule is up.
LEMMA ReportedFacts ==
  ASSUME TypeOK, NEW p \in Procs, AtRule(p) \/ AtConfigure(p),
         NEW status \in Statuses, NEW id \in Nat, NEW name \in Titles,
         NEW warned \in BOOLEAN
  PROVE  LET s == pass[p]
             t == Reported(p, status, id, name, warned)
         IN  /\ t \in Passings /\ Faulty(t) \in Passings
             /\ t.pc = "rule" /\ t.run = s.run /\ t.dry = s.dry
             /\ t.seen = s.seen /\ t.todo = Tail(s.todo) /\ t.told = s.told
             /\ t.quiet = s.quiet
             /\ t.rows = Append(s.rows, Row(Rule(p), status, id, name, warned))
             /\ Faulty(t) = [t EXCEPT !.quiet = FALSE]
  <1> DEFINE row == Row(Rule(p), status, id, name, warned)
  <1>1. Rule(p) \in RuleViews /\ pass[p].todo \in Seq(RuleViews)
        /\ pass[p].todo # <<>>
    BY RuleIsTyped
  <1>2. row \in Rows
    BY <1>1, RulesAreTyped DEF Row, Rows
  <1>3. pass[p] \in Passings
    BY DEF TypeOK
  <1>4. Append(pass[p].rows, row) \in Seq(Rows)
    <2> HIDE DEF row
    <2> QED
      BY <1>2, <1>3 DEF Passings
  <1>5. Tail(pass[p].todo) \in Seq(RuleViews)
    BY <1>1
  <1>6. Reported(p, status, id, name, warned)
          = Advanced(pass[p], Tail(pass[p].todo), Append(pass[p].rows, row))
    BY DEF Reported, Advanced
  <1> HIDE DEF row
  <1>7. LET s == pass[p]
            t == Reported(p, status, id, name, warned)
        IN  /\ t \in Passings
            /\ t.pc = "rule" /\ t.run = s.run /\ t.dry = s.dry
            /\ t.seen = s.seen /\ t.todo = Tail(s.todo) /\ t.told = s.told
            /\ t.quiet = s.quiet /\ t.rows = Append(s.rows, row)
    <2> DEFINE todo == Tail(pass[p].todo)
               rows == Append(pass[p].rows, row)
    <2>1. todo \in Seq(RuleViews) /\ rows \in Seq(Rows)
      BY <1>4, <1>5
    <2>2. Reported(p, status, id, name, warned) = Advanced(pass[p], todo, rows)
      BY <1>6
    <2> HIDE DEF todo, rows
    <2>3. LET s == pass[p]
              t == Advanced(s, todo, rows)
          IN  /\ t \in Passings
              /\ t.pc = "rule" /\ t.run = s.run /\ t.dry = s.dry
              /\ t.seen = s.seen /\ t.todo = todo /\ t.told = s.told
              /\ t.quiet = s.quiet /\ t.rows = rows
      BY <1>3, <2>1, AdvancedFacts
    <2> QED
      BY <2>2, <2>3 DEF todo, rows
  <1>8. Faulty(Reported(p, status, id, name, warned)) \in Passings
    BY <1>7, QuietIsKept DEF Faulty
  <1> QED
    BY <1>7, <1>8 DEF Faulty, row

Others(p) ==
  \A q \in Procs \ {p} :
    /\ Kept(q)
    /\ pass'[q].quiet => pass[q].quiet
    /\ schedules' # schedules /\ Busy(q) => ~pass'[q].quiet

\* The pass goes on with its run.
GoesOn(p) ==
  /\ pass'[p].run = pass[p].run /\ pass'[p].dry = pass[p].dry
  /\ pass'[p].seen = pass[p].seen
  /\ pass'[p].quiet => pass[p].quiet

SameSpent == spent'.edits = spent.edits /\ spent'.overlap = spent.overlap

LEMMA SpentIsTyped ==
  ASSUME TypeOK, spent' = spent \/ Fault
  PROVE  /\ spent' \in [passes : 0 .. MaxPasses, faults : 0 .. MaxFaults,
                        edits : 0 .. MaxEdits, overlap : BOOLEAN]
         /\ SameSpent
  BY Constants DEF TypeOK, Fault, SameSpent

LEMMA SpentIsSame ==
  ASSUME spent' = spent PROVE SameSpent
  BY DEF SameSpent

\* Nothing but passes changes, and those who work are of a run.
LEMMA TypesKept ==
  ASSUME TypeOK, pass' \in [Procs -> Passings], addin' = addin,
         schedules' \in Seq(Schedules), lock' \in {"free", "held"},
         manifest' \in [Runs -> Seq(Rows)],
         spent' \in [passes : 0 .. MaxPasses, faults : 0 .. MaxFaults,
                     edits : 0 .. MaxEdits, overlap : BOOLEAN],
         NEW p \in Procs, Others(p),
         pass'[p].pc # "idle" => pass'[p].run \in Runs,
         pass'[p].pc = "configure" =>
           pass'[p].todo # <<>> /\ pass'[p].name # <<>>
  PROVE  TypeOK'
  <1>1. ASSUME NEW q \in Procs
        PROVE  /\ Busy(q)' => pass'[q].run \in Runs
               /\ pass'[q].pc = "configure" =>
                    pass'[q].todo # <<>> /\ pass'[q].name # <<>>
    BY DEF TypeOK, Others, Kept, Busy
  <1> QED
    BY <1>1 DEF TypeOK

LEMMA SchedulesAreTyped ==
  ASSUME TypeOK
  PROVE  /\ schedules \in Seq(Schedules) /\ Len(schedules) \in Nat
         /\ DOMAIN schedules = 1 .. Len(schedules)
         /\ \A id \in DOMAIN schedules :
              /\ id \in Nat /\ id # NoId
              /\ schedules[id] \in Schedules /\ schedules[id].name \in Titles
         /\ \A id \in Live : id \in DOMAIN schedules
  <1>1. schedules \in Seq(Schedules)
    BY DEF TypeOK
  <1>2. \A id \in DOMAIN schedules :
          id \in Nat /\ id # NoId /\ schedules[id] \in Schedules
    BY <1>1 DEF NoId
  <1>3. \A s \in Schedules : s.name \in Titles
    BY DEF Schedules
  <1> QED
    BY <1>1, <1>2, <1>3 DEF Live

LEMMA BeginFacts ==
  ASSUME TypeOK, NEW p \in Procs, NEW r \in Runs, NEW dry \in BOOLEAN,
         Begin(p, r, dry)
  PROVE  /\ TypeOK' /\ Others(p)
         /\ ~Busy(p) /\ pass'[p].pc = "probe" /\ pass'[p].run = r
         /\ pass'[p].todo = Trace[r] /\ pass'[p].rows = <<>>
         /\ pass'[p].told = {}
         /\ spent'.edits = spent.edits
         /\ ~spent'.overlap => /\ ~spent.overlap
                               /\ \A q \in Procs \ {p} : ~Busy(q)
         /\ UNCHANGED <<addin, schedules, manifest>>
         /\ lock' = IF p = "service" THEN "held" ELSE lock
  <1> DEFINE start == [Idle EXCEPT !.pc = "probe", !.run = r, !.dry = dry,
                                   !.todo = Trace[r]]
  <1>1. Trace[r] \in Seq(RuleViews)
    BY Constants
  <1>2. /\ start \in Passings /\ start.pc = "probe" /\ start.run = r
        /\ start.todo = Trace[r] /\ start.rows = <<>> /\ start.told = {}
    <2>1. <<>> \in Seq(Rows)
      OBVIOUS
    <2> QED
      BY <1>1, <2>1 DEF Idle, Passings, NoId
  <1>3. pass' = [pass EXCEPT ![p] = start]
    BY DEF Begin
  <1> HIDE DEF start
  <1>4. pass \in [Procs -> Passings]
    BY DEF TypeOK
  <1>5. /\ pass' \in [Procs -> Passings] /\ pass'[p] = start
        /\ \A q \in Procs \ {p} : pass'[q] = pass[q]
    BY <1>2, <1>3, <1>4
  <1>6. Others(p)
    BY <1>5 DEF Others, Kept, Begin
  <1>7. /\ spent' \in [passes : 0 .. MaxPasses, faults : 0 .. MaxFaults,
                       edits : 0 .. MaxEdits, overlap : BOOLEAN]
        /\ spent'.edits = spent.edits
        /\ ~spent'.overlap => /\ ~spent.overlap
                              /\ \A q \in Procs \ {p} : ~Busy(q)
    <2> DEFINE others == \E q \in Procs \ {p} : Busy(q)
    <2>0. others \in BOOLEAN
      OBVIOUS
    <2>1. /\ spent' = [spent EXCEPT !.passes = @ + 1, !.overlap = @ \/ others]
          /\ spent.passes < MaxPasses
      BY DEF Begin
    <2>2. others <=> \E q \in Procs \ {p} : Busy(q)
      OBVIOUS
    <2> HIDE DEF others
    <2>3. spent'.overlap = (spent.overlap \/ others)
      BY <2>1 DEF TypeOK
    <2>4. spent'.overlap \in BOOLEAN
      BY <2>3
    <2>5. /\ spent'.passes \in 0 .. MaxPasses /\ spent'.faults = spent.faults
          /\ spent'.edits = spent.edits /\ DOMAIN spent' = DOMAIN spent
      BY <2>1, Constants DEF TypeOK
    <2>6. spent' \in [passes : 0 .. MaxPasses, faults : 0 .. MaxFaults,
                      edits : 0 .. MaxEdits, overlap : BOOLEAN]
      <3>1. spent' = [passes |-> spent.passes + 1, faults |-> spent.faults,
                      edits |-> spent.edits, overlap |-> spent'.overlap]
        BY <2>1, <2>3 DEF TypeOK
      <3> QED
        BY <3>1, <2>4, <2>5 DEF TypeOK
    <2> QED
      BY <2>2, <2>3, <2>5, <2>6
  <1>8. lock' \in {"free", "held"}
    BY DEF Begin, TypeOK
  <1>9. TypeOK'
    <2>1. /\ addin' = addin /\ schedules' \in Seq(Schedules)
          /\ manifest' \in [Runs -> Seq(Rows)]
      BY DEF Begin, TypeOK
    <2>2. /\ pass'[p].pc # "idle" => pass'[p].run \in Runs
          /\ pass'[p].pc = "configure" =>
               pass'[p].todo # <<>> /\ pass'[p].name # <<>>
      BY <1>2, <1>5
    <2> QED
      BY <1>5, <1>6, <1>7, <1>8, <2>1, <2>2, TypesKept
  <1> QED
    BY <1>2, <1>5, <1>6, <1>7, <1>9 DEF Begin

LEMMA ProbeFacts ==
  ASSUME TypeOK, NEW p \in Procs, Probe(p)
  PROVE  /\ TypeOK' /\ Others(p)
         /\ Busy(p) /\ pass[p].pc = "probe" /\ pass'[p].pc = "rule"
         /\ pass'[p].seen = Listed
         /\ pass'[p].run = pass[p].run /\ pass'[p].todo = pass[p].todo
         /\ pass'[p].rows = pass[p].rows /\ pass'[p].told = pass[p].told
         /\ pass'[p].quiet = pass[p].quiet
         /\ SameSpent /\ UNCHANGED <<addin, schedules, lock, manifest>>
  <1>1. Listed \in SUBSET [name : Titles, id : Nat]
    <2>1. \A id \in Live : id \in Nat /\ schedules[id].name \in Titles
      BY SchedulesAreTyped
    <2>2. CASE addin.lists = "ids"
      BY <2>1, <2>2 DEF Listed
    <2>3. CASE addin.lists = "names"
      BY <2>1, <2>3 DEF Listed, NoId
    <2>4. CASE addin.lists \notin {"ids", "names"}
      BY <2>4 DEF Listed
    <2> QED
      BY <2>2, <2>3, <2>4
  <1>2. pass \in [Procs -> Passings]
    BY DEF TypeOK
  <1>3. pass' = [pass EXCEPT ![p] = [pass[p] EXCEPT !.pc = "rule",
                                                   !.seen = Listed]]
    BY <1>2 DEF Probe
  <1> DEFINE next == [pass[p] EXCEPT !.pc = "rule", !.seen = Listed]
  <1>4. /\ next \in Passings /\ next.pc = "rule" /\ next.seen = Listed
        /\ next.run = pass[p].run /\ next.todo = pass[p].todo
        /\ next.rows = pass[p].rows /\ next.told = pass[p].told
        /\ next.quiet = pass[p].quiet
    BY <1>1, <1>2 DEF Passings
  <1> HIDE DEF next
  <1>5. /\ pass' \in [Procs -> Passings] /\ pass'[p] = next
        /\ \A q \in Procs \ {p} : pass'[q] = pass[q]
    BY <1>2, <1>3, <1>4 DEF next
  <1>6. Others(p)
    BY <1>5 DEF Others, Kept, Probe
  <1>7. Busy(p) /\ pass[p].run \in Runs /\ pass[p].pc = "probe"
    BY DEF Probe, Busy, TypeOK
  <1>8. TypeOK'
    <2>1. /\ addin' = addin /\ schedules' \in Seq(Schedules)
          /\ lock' \in {"free", "held"} /\ manifest' \in [Runs -> Seq(Rows)]
          /\ spent' = spent
      BY DEF Probe, TypeOK
    <2>2. /\ pass'[p].pc # "idle" => pass'[p].run \in Runs
          /\ pass'[p].pc = "configure" =>
               pass'[p].todo # <<>> /\ pass'[p].name # <<>>
      BY <1>4, <1>5, <1>7
    <2> QED
      BY <1>5, <1>6, <2>1, <2>2, SpentIsTyped, TypesKept
  <1> QED
    BY <1>4, <1>5, <1>6, <1>7, <1>8, SpentIsSame DEF Probe

LEMMA SeenIsTyped ==
  ASSUME TypeOK, NEW p \in Procs, IsKnown(p)
  PROVE  /\ AtRule(p) /\ SeenId(p) \in Nat
         /\ \E v \in pass[p].seen : v.name = Name(Rule(p)) /\ v.id = SeenId(p)
  <1>1. (CHOOSE v \in Known(p) : TRUE) \in Known(p)
    BY DEF IsKnown
  <1>2. pass[p].seen \subseteq [name : Titles, id : Nat]
    BY DEF TypeOK, Passings
  <1> QED
    BY <1>1, <1>2 DEF SeenId, Known, IsKnown

\* The row of a rule for which nothing was configured.
Told(p, row) ==
  /\ AtConfigure(p) => row.id = pass[p].sid
  /\ row.status \notin {"created", "existing_reconfigured"}

\* The next rule is up, with a row for this one.
Appends(p, row) ==
  /\ AtRule(p) \/ AtConfigure(p)
  /\ pass'[p].pc = "rule" /\ pass'[p].todo = Tail(pass[p].todo)
  /\ pass'[p].told = pass[p].told
  /\ pass'[p].rows = Append(pass[p].rows, row)
  /\ row \in Rows /\ row.rule = Rule(p).id

LEMMA AppendsFacts ==
  ASSUME TypeOK, NEW p \in Procs, AtRule(p) \/ AtConfigure(p),
         NEW status \in Statuses, NEW id \in Nat, NEW name \in Titles,
         NEW warned \in BOOLEAN, NEW changed \in BOOLEAN,
         NEW next \in {Reported(p, status, id, name, warned),
                       Faulty(Reported(p, status, id, name, warned))},
         Becomes(p, next, changed),
         schedules' # schedules => changed,
         schedules' \in Seq(Schedules), spent' = spent \/ Fault,
         UNCHANGED <<addin, lock, manifest>>
  PROVE  /\ TypeOK' /\ Others(p) /\ GoesOn(p) /\ SameSpent
         /\ Appends(p, Row(Rule(p), status, id, name, warned))
         /\ next = Faulty(Reported(p, status, id, name, warned)) =>
              ~pass'[p].quiet
  <1> DEFINE t == Reported(p, status, id, name, warned)
  <1>1. /\ t \in Passings /\ Faulty(t) \in Passings
        /\ t.pc = "rule" /\ t.run = pass[p].run /\ t.dry = pass[p].dry
        /\ t.seen = pass[p].seen /\ t.todo = Tail(pass[p].todo)
        /\ t.told = pass[p].told /\ t.quiet = pass[p].quiet
        /\ t.rows = Append(pass[p].rows, Row(Rule(p), status, id, name, warned))
        /\ Faulty(t) = [t EXCEPT !.quiet = FALSE]
    BY ReportedFacts
  <1> HIDE DEF t
  <1>2. /\ next \in Passings
        /\ next.pc = "rule" /\ next.run = pass[p].run /\ next.dry = pass[p].dry
        /\ next.seen = pass[p].seen /\ next.todo = Tail(pass[p].todo)
        /\ next.told = pass[p].told /\ (next.quiet => pass[p].quiet)
        /\ next.rows = Append(pass[p].rows, Row(Rule(p), status, id, name, warned))
        /\ next = Faulty(t) => ~next.quiet
    <2>1. CASE next = t
      <3>1. Faulty(t).quiet = FALSE
        BY <1>1, QuietIsKept
      <3> QED
        BY <1>1, <2>1, <3>1
    <2>2. CASE next = Faulty(t)
      <3>1. /\ Faulty(t).pc = t.pc /\ Faulty(t).run = t.run
            /\ Faulty(t).dry = t.dry /\ Faulty(t).seen = t.seen
            /\ Faulty(t).todo = t.todo /\ Faulty(t).told = t.told
            /\ Faulty(t).rows = t.rows /\ Faulty(t).quiet = FALSE
        BY <1>1, QuietIsKept
      <3> QED
        BY <1>1, <2>2, <3>1
    <2> QED
      BY <2>1, <2>2 DEF t
  <1>3. /\ pass' \in [Procs -> Passings] /\ pass'[p] = next
        /\ \A q \in Procs \ {p} :
             /\ Kept(q)
             /\ pass'[q].quiet = (pass[q].quiet /\ ~(changed /\ Busy(q)))
    BY <1>2, BecomesFacts
  <1>4. Others(p)
    BY <1>3 DEF Others
  <1>5. Rule(p) \in RuleViews /\ Busy(p) /\ pass[p].run \in Runs
    BY RuleIsTyped
  <1>6. Row(Rule(p), status, id, name, warned) \in Rows
        /\ Row(Rule(p), status, id, name, warned).rule = Rule(p).id
    BY <1>5, RulesAreTyped DEF Row, Rows
  <1>7. TypeOK'
    <2>1. /\ addin' = addin /\ lock' \in {"free", "held"}
          /\ manifest' \in [Runs -> Seq(Rows)]
      BY DEF TypeOK
    <2>2. /\ pass'[p].pc # "idle" => pass'[p].run \in Runs
          /\ pass'[p].pc = "configure" =>
               pass'[p].todo # <<>> /\ pass'[p].name # <<>>
      BY <1>2, <1>3, <1>5
    <2> QED
      BY <1>3, <1>4, <2>1, <2>2, SpentIsTyped, TypesKept
  <1>8. Appends(p, Row(Rule(p), status, id, name, warned))
    BY <1>2, <1>3, <1>6 DEF Appends
  <1> QED
    BY <1>2, <1>3, <1>4, <1>7, <1>8, SpentIsTyped DEF GoesOn, t

Skip(p) ==
  \/ ReportUnreachable(p) \/ ReconfigureUnavailable(p) \/ ReconfigureGone(p)
  \/ ReconfigureFails(p) \/ CreateCollides(p) \/ CreateInvalid(p)
  \/ CreateUnavailable(p) \/ CreateFails(p)
  \/ ConfigureUnavailable(p) \/ ConfigureFails(p)

LEMMA SkipFacts ==
  ASSUME TypeOK, NEW p \in Procs, Skip(p)
  PROVE  /\ TypeOK' /\ Others(p) /\ GoesOn(p) /\ SameSpent
         /\ \E row \in Rows : Appends(p, row) /\ Told(p, row)
         /\ UNCHANGED <<addin, schedules, lock, manifest>>
         /\ pass'[p].quiet =>
              \/ ReportUnreachable(p) \/ ReconfigureGone(p)
              \/ CreateCollides(p) \/ CreateInvalid(p) \/ CreateUnavailable(p)
  <1> DEFINE next(status, id) == Reported(p, status, id, Name(Rule(p)), FALSE)
             noisy == ~\/ ReportUnreachable(p) \/ ReconfigureGone(p)
                       \/ CreateCollides(p) \/ CreateInvalid(p)
                       \/ CreateUnavailable(p)
  <1>1. SUFFICES
          \E status \in Statuses, id \in Nat :
            /\ AtRule(p) \/ AtConfigure(p)
            /\ \E n \in {next(status, id), Faulty(next(status, id))} :
                 /\ Becomes(p, n, FALSE)
                 /\ noisy => n = Faulty(next(status, id))
            /\ AtConfigure(p) => id = pass[p].sid
            /\ status \notin {"created", "existing_reconfigured"}
            /\ spent' = spent \/ Fault
            /\ UNCHANGED <<addin, schedules, lock, manifest>>
    <2> SUFFICES ASSUME
          NEW status \in Statuses, NEW id \in Nat,
          AtRule(p) \/ AtConfigure(p),
          NEW n \in {next(status, id), Faulty(next(status, id))},
          Becomes(p, n, FALSE), noisy => n = Faulty(next(status, id)),
          AtConfigure(p) => id = pass[p].sid,
          status \notin {"created", "existing_reconfigured"},
          spent' = spent \/ Fault,
          UNCHANGED <<addin, schedules, lock, manifest>>
        PROVE  /\ TypeOK' /\ Others(p) /\ GoesOn(p) /\ SameSpent
               /\ \E row \in Rows : Appends(p, row) /\ Told(p, row)
               /\ pass'[p].quiet => ~noisy
      BY DEF noisy
    <2> DEFINE row == Row(Rule(p), status, id, Name(Rule(p)), FALSE)
    <2>1. Name(Rule(p)) \in Titles /\ schedules' \in Seq(Schedules)
      BY RuleIsTyped DEF TypeOK
    <2>2. /\ TypeOK' /\ Others(p) /\ GoesOn(p) /\ SameSpent /\ Appends(p, row)
          /\ n = Faulty(next(status, id)) => ~pass'[p].quiet
      BY <2>1, AppendsFacts
    <2>3. row \in Rows
      BY <2>2 DEF Appends
    <2>4. Told(p, row)
      BY DEF Told, Row
    <2> QED
      BY <2>2, <2>3, <2>4
  <1> HIDE DEF next
  <1>2. AtConfigure(p) => pass[p].sid \in Nat
    BY DEF TypeOK, Passings
  <1>3. ~(AtRule(p) /\ AtConfigure(p))
    BY DEF AtRule, AtConfigure
  <1>4. NoId \in Nat /\ "existing" \in Statuses /\ "error" \in Statuses
        /\ "degraded" \in Statuses
    BY DEF NoId, Statuses
  <1>5. CASE ReportUnreachable(p)
    BY <1>3, <1>4, <1>5 DEF ReportUnreachable, IsKnown, next, noisy
  <1>6. CASE ReconfigureUnavailable(p)
    BY <1>3, <1>4, <1>6, SeenIsTyped DEF ReconfigureUnavailable, next
  <1>7. CASE ReconfigureGone(p)
    BY <1>3, <1>4, <1>7, SeenIsTyped DEF ReconfigureGone, next, noisy
  <1>8. CASE ReconfigureFails(p)
    BY <1>3, <1>4, <1>8, SeenIsTyped DEF ReconfigureFails, next
  <1>9. CASE CreateCollides(p)
    BY <1>3, <1>4, <1>9 DEF CreateCollides, IsNew, next, noisy
  <1>10. CASE CreateInvalid(p)
    BY <1>3, <1>4, <1>10 DEF CreateInvalid, IsNew, next, noisy
  <1>11. CASE CreateUnavailable(p)
    BY <1>3, <1>4, <1>11 DEF CreateUnavailable, IsNew, next, noisy
  <1>12. CASE CreateFails(p)
    BY <1>3, <1>4, <1>12 DEF CreateFails, IsNew, next
  <1>13. CASE ConfigureUnavailable(p)
    BY <1>2, <1>4, <1>13 DEF ConfigureUnavailable, next
  <1>14. CASE ConfigureFails(p)
    BY <1>2, <1>4, <1>14 DEF ConfigureFails, next
  <1> QED
    BY <1>5, <1>6, <1>7, <1>8, <1>9, <1>10, <1>11, <1>12, <1>13, <1>14 DEF Skip

LEMMA ReconfigureFacts ==
  ASSUME TypeOK, NEW p \in Procs, Reconfigure(p)
  PROVE  /\ TypeOK' /\ Others(p) /\ GoesOn(p) /\ SameSpent
         /\ IsKnown(p) /\ SeenId(p) \in Live /\ SeenId(p) \in DOMAIN schedules
         /\ Appends(p, Row(Rule(p), "existing_reconfigured", SeenId(p),
                           Name(Rule(p)), Warns(SeenId(p), Rule(p))))
         /\ schedules' = Reconfigured(SeenId(p), Rule(p), TRUE, pass[p].dry)
         /\ UNCHANGED <<addin, lock, manifest>>
  <1> DEFINE id == SeenId(p)
             warned == Warns(id, Rule(p))
             changed == ~pass[p].dry
             t == Reported(p, "existing_reconfigured", id, Name(Rule(p)), warned)
  <1>1. /\ IsKnown(p) /\ AtRule(p) /\ id \in Live
        /\ schedules' = Reconfigured(id, Rule(p), TRUE, pass[p].dry)
        /\ Becomes(p, t, ~pass[p].dry)
        /\ UNCHANGED <<addin, lock, manifest, spent>>
    BY DEF Reconfigure, IsKnown
  <1>2. /\ Rule(p) \in RuleViews /\ Name(Rule(p)) \in Titles
        /\ id \in Nat /\ id \in DOMAIN schedules
        /\ pass[p].dry \in BOOLEAN
    BY <1>1, RuleIsTyped, SeenIsTyped, SchedulesAreTyped DEF TypeOK, Passings
  <1>3. Warns(id, Rule(p)) \in BOOLEAN /\ (~pass[p].dry) \in BOOLEAN
    BY DEF Warns
  <1>4. "existing_reconfigured" \in Statuses
    BY DEF Statuses
  <1>5. schedules' \in Seq(Schedules)
    BY <1>1, <1>2, SchedulesStay
  <1>6. schedules' # schedules => ~pass[p].dry
    BY <1>1 DEF Reconfigured
  <1>7. /\ t \in {t, Faulty(t)} /\ Becomes(p, t, changed)
        /\ warned \in BOOLEAN /\ changed \in BOOLEAN
        /\ schedules' # schedules => changed
    BY <1>1, <1>3, <1>6
  <1>8. /\ TypeOK' /\ Others(p) /\ GoesOn(p) /\ SameSpent
        /\ Appends(p, Row(Rule(p), "existing_reconfigured", id, Name(Rule(p)),
                          warned))
    <2> HIDE DEF warned, changed
    <2> QED
      BY <1>1, <1>2, <1>4, <1>5, <1>7, AppendsFacts
  <1> QED
    BY <1>1, <1>2, <1>8

LEMMA ConfigureFacts ==
  ASSUME TypeOK, NEW p \in Procs, Configure(p)
  PROVE  LET rule == Rule(p)
             id == pass[p].sid
         IN  /\ TypeOK' /\ Others(p) /\ GoesOn(p) /\ SameSpent
             /\ AtConfigure(p) /\ (~pass[p].dry => id \in Live)
             /\ Appends(p, Row(rule, CreatedAs(p), id, pass[p].name,
                               pass[p].warned
                                 \/ rule.param \notin Schedulable[rule.category]))
             /\ schedules' = IF pass[p].dry THEN schedules
                             ELSE Reconfigured(id, rule, FALSE, FALSE)
             /\ UNCHANGED <<addin, lock, manifest>>
  <1> DEFINE id == pass[p].sid
             warned == pass[p].warned
                         \/ Rule(p).param \notin Schedulable[Rule(p).category]
             changed == ~pass[p].dry
             t == Reported(p, CreatedAs(p), id, pass[p].name, warned)
  <1>1. /\ AtConfigure(p) /\ (pass[p].dry \/ id \in Live)
        /\ schedules' = IF pass[p].dry THEN schedules
                        ELSE Reconfigured(id, Rule(p), FALSE, FALSE)
        /\ Becomes(p, t, changed)
        /\ UNCHANGED <<addin, lock, manifest, spent>>
    BY DEF Configure
  <1>2. /\ Rule(p) \in RuleViews /\ id \in Nat
        /\ pass[p].name \in Titles /\ pass[p].dry \in BOOLEAN
        /\ warned \in BOOLEAN /\ changed \in BOOLEAN
    BY <1>1, RuleIsTyped DEF TypeOK, Passings, AtConfigure
  <1>3. CreatedAs(p) \in Statuses
    BY DEF CreatedAs, Statuses
  <1>4. schedules' \in Seq(Schedules) /\ (schedules' # schedules => changed)
    <2>1. CASE pass[p].dry
      BY <1>1, <2>1 DEF TypeOK
    <2>2. CASE ~pass[p].dry
      BY <1>1, <1>2, <2>2, SchedulesAreTyped, SchedulesStay
    <2> QED
      BY <2>1, <2>2
  <1>5. t \in {t, Faulty(t)}
    OBVIOUS
  <1>6. /\ TypeOK' /\ Others(p) /\ GoesOn(p) /\ SameSpent
        /\ Appends(p, Row(Rule(p), CreatedAs(p), id, pass[p].name, warned))
    <2> HIDE DEF warned, changed
    <2> QED
      BY <1>1, <1>2, <1>3, <1>4, <1>5, AppendsFacts
  <1> QED
    BY <1>1, <1>6

\* The schedule a create makes, and the name it is given.
Given(p) ==
  IF Appliable(Rule(p)) THEN Name(Rule(p)) ELSE DefaultName(Len(schedules) + 1)

LEMMA CreateFacts ==
  ASSUME TypeOK, NEW p \in Procs, Create(p)
  PROVE  LET rule == Rule(p)
             id == Len(schedules) + 1
         IN  /\ TypeOK' /\ Others(p) /\ GoesOn(p) /\ SameSpent
             /\ IsNew(p) /\ (Appliable(rule) \/ addin.renames)
             /\ pass'[p].pc = "configure" /\ pass'[p].todo = pass[p].todo
             /\ pass'[p].sid = id /\ pass'[p].name = Given(p)
             /\ pass'[p].rows = pass[p].rows
             /\ pass'[p].told = IF pass[p].dry THEN pass[p].told
                                ELSE pass[p].told \cup {id}
             /\ \/ pass'[p].warned \/ addin.renames
                \/ Columns(rule) \subseteq Schedulable[rule.category]
             /\ schedules' = IF pass[p].dry THEN schedules
                             ELSE Append(schedules, New(Given(p), rule))
             /\ New(Given(p), rule) \in Schedules
             /\ UNCHANGED <<addin, lock, manifest>>
  <1> DEFINE rule == Rule(p)
             id == Len(schedules) + 1
             told == IF pass[p].dry THEN pass[p].told ELSE pass[p].told \cup {id}
             warned == ~(Columns(rule) \subseteq Schedulable[rule.category])
                         /\ ~addin.renames
             changed == ~pass[p].dry
             next == [pass[p] EXCEPT !.pc = "configure", !.sid = id,
                                     !.name = Given(p), !.told = told,
                                     !.warned = warned]
  <1>1. /\ IsNew(p) /\ AtRule(p) /\ (Appliable(rule) \/ addin.renames)
        /\ schedules' = IF pass[p].dry THEN schedules
                        ELSE Append(schedules, New(Given(p), rule))
        /\ Becomes(p, next, changed)
        /\ UNCHANGED <<addin, lock, manifest, spent>>
    BY DEF Create, Given, IsNew
  <1>2. /\ rule \in RuleViews /\ Name(rule) \in Titles /\ id \in Nat
        /\ schedules \in Seq(Schedules) /\ pass[p] \in Passings
        /\ pass[p].dry \in BOOLEAN /\ changed \in BOOLEAN /\ warned \in BOOLEAN
        /\ Busy(p) /\ pass[p].run \in Runs /\ pass[p].todo # <<>>
    BY <1>1, RuleIsTyped, SchedulesAreTyped DEF TypeOK, Passings
  <1>3. Given(p) \in Titles /\ Given(p) # <<>>
    BY <1>2 DEF Given, DefaultName, Titles, Name
  <1>4. New(Given(p), rule) \in Schedules
    BY <1>2, <1>3, NewIsTyped
  <1>5. told \in SUBSET Nat
    BY <1>2 DEF Passings
  <1>6. /\ next \in Passings
        /\ next.pc = "configure" /\ next.sid = id /\ next.name = Given(p)
        /\ next.told = told /\ next.warned = warned /\ next.run = pass[p].run
        /\ next.dry = pass[p].dry /\ next.seen = pass[p].seen
        /\ next.todo = pass[p].todo /\ next.rows = pass[p].rows
        /\ next.quiet = pass[p].quiet
    <2> HIDE DEF told, warned, id, rule
    <2> QED
      BY <1>2, <1>3, <1>5 DEF Passings
  <1>7. schedules' \in Seq(Schedules) /\ (schedules' # schedules => changed)
    BY <1>1, <1>2, <1>4
  <1>8. /\ pass' \in [Procs -> Passings] /\ pass'[p] = next
        /\ \A q \in Procs \ {p} :
             /\ Kept(q)
             /\ pass'[q].quiet = (pass[q].quiet /\ ~(changed /\ Busy(q)))
    <2> HIDE DEF next, changed
    <2> QED
      BY <1>1, <1>2, <1>6, BecomesFacts
  <1> HIDE DEF next
  <1>9. Others(p)
    BY <1>7, <1>8 DEF Others
  <1>10. TypeOK'
    <2>1. /\ addin' = addin /\ lock' \in {"free", "held"}
          /\ manifest' \in [Runs -> Seq(Rows)] /\ spent' = spent
      BY <1>1 DEF TypeOK
    <2>2. /\ pass'[p].pc # "idle" => pass'[p].run \in Runs
          /\ pass'[p].pc = "configure" =>
               pass'[p].todo # <<>> /\ pass'[p].name # <<>>
      BY <1>2, <1>3, <1>6, <1>8
    <2> QED
      BY <1>7, <1>8, <1>9, <2>1, <2>2, SpentIsTyped, TypesKept
  <1> QED
    BY <1>1, <1>4, <1>6, <1>8, <1>9, <1>10, SpentIsSame DEF GoesOn

LEMMA IdleIsTyped ==
  /\ Idle \in Passings /\ Idle.pc = "idle" /\ Idle.rows = <<>>
  /\ Idle.told = {} /\ Idle.quiet = TRUE
  <1>1. <<>> \in Seq(Rows) /\ <<>> \in Seq(RuleViews)
    OBVIOUS
  <1> QED
    BY <1>1 DEF Idle, Passings, NoId

LEMMA FinishFacts ==
  ASSUME TypeOK, NEW p \in Procs, Finish(p)
  PROVE  /\ TypeOK' /\ Others(p) /\ GoesOn(p) /\ SameSpent
         /\ pass[p].pc = "rule" /\ pass[p].todo = <<>>
         /\ pass'[p].pc = "manifest" /\ pass'[p].todo = pass[p].todo
         /\ pass'[p].rows = pass[p].rows /\ pass'[p].told = pass[p].told
         /\ lock' = IF p = "service" THEN "free" ELSE lock
         /\ UNCHANGED <<addin, schedules, manifest>>
  <1> DEFINE next == [pass[p] EXCEPT !.pc = "manifest"]
  <1>1. /\ pass \in [Procs -> Passings] /\ pass[p] \in Passings
        /\ pass' = [pass EXCEPT ![p] = next]
    BY DEF TypeOK, Finish
  <1>2. /\ next \in Passings /\ next.pc = "manifest"
        /\ next.run = pass[p].run /\ next.dry = pass[p].dry
        /\ next.seen = pass[p].seen /\ next.todo = pass[p].todo
        /\ next.rows = pass[p].rows /\ next.told = pass[p].told
        /\ next.quiet = pass[p].quiet
    BY <1>1 DEF Passings
  <1> HIDE DEF next
  <1>3. /\ pass' \in [Procs -> Passings] /\ pass'[p] = next
        /\ \A q \in Procs \ {p} : pass'[q] = pass[q]
    BY <1>1, <1>2
  <1>4. Others(p)
    BY <1>3 DEF Others, Kept, Finish
  <1>5. TypeOK'
    <2>1. /\ addin' = addin /\ lock' \in {"free", "held"}
          /\ schedules' \in Seq(Schedules)
          /\ manifest' \in [Runs -> Seq(Rows)] /\ spent' = spent
      BY DEF TypeOK, Finish
    <2>2. /\ pass'[p].pc # "idle" => pass'[p].run \in Runs
          /\ pass'[p].pc = "configure" =>
               pass'[p].todo # <<>> /\ pass'[p].name # <<>>
      BY <1>2, <1>3 DEF TypeOK, Finish, Busy
    <2> QED
      BY <1>3, <1>4, <2>1, <2>2, SpentIsTyped, TypesKept
  <1> QED
    BY <1>2, <1>3, <1>4, <1>5, SpentIsSame DEF GoesOn, Finish

LEMMA ManifestFacts ==
  ASSUME TypeOK, NEW p \in Procs, WriteManifest(p)
  PROVE  /\ TypeOK' /\ Others(p) /\ SameSpent
         /\ pass[p].pc = "manifest" /\ pass'[p] = Idle
         /\ UNCHANGED <<addin, schedules, lock>>
  <1>1. /\ pass \in [Procs -> Passings] /\ pass[p] \in Passings
        /\ pass' = [pass EXCEPT ![p] = Idle]
        /\ pass[p].pc = "manifest" /\ pass[p].run \in Runs
        /\ manifest' = [manifest EXCEPT ![pass[p].run] = pass[p].rows]
    BY DEF TypeOK, WriteManifest, Busy
  <1>2. /\ pass' \in [Procs -> Passings] /\ pass'[p] = Idle
        /\ \A q \in Procs \ {p} : pass'[q] = pass[q]
    BY <1>1, IdleIsTyped
  <1>3. Others(p)
    BY <1>2 DEF Others, Kept, WriteManifest
  <1>4. TypeOK'
    <2>1. /\ addin' = addin /\ lock' \in {"free", "held"}
          /\ schedules' \in Seq(Schedules) /\ spent' = spent
      BY DEF TypeOK, WriteManifest
    <2>2. manifest' \in [Runs -> Seq(Rows)]
      <3>1. pass[p].rows \in Seq(Rows)
        BY <1>1 DEF Passings
      <3> QED
        BY <1>1, <3>1 DEF TypeOK
    <2> QED
      BY <1>2, <1>3, <2>1, <2>2, SpentIsTyped, TypesKept, IdleIsTyped
  <1> QED
    BY <1>1, <1>2, <1>3, <1>4, SpentIsSame DEF WriteManifest

LEMMA AbortFacts ==
  ASSUME TypeOK, NEW p \in Procs, Abort(p)
  PROVE  /\ TypeOK' /\ Others(p) /\ SameSpent
         /\ pass[p].pc \in {"probe", "rule", "configure"} /\ Busy(p)
         /\ pass'[p] = Idle
         /\ lock' = IF p = "service" THEN "free" ELSE lock
         /\ \/ UNCHANGED schedules
            \/ /\ IsNew(p) /\ Appliable(Rule(p)) /\ Rule(p) \in RuleViews
               /\ New(Name(Rule(p)), Rule(p)) \in Schedules
               /\ schedules' = Append(schedules, New(Name(Rule(p)), Rule(p)))
            \/ \E id \in DOMAIN schedules, v \in RuleViews, clear \in BOOLEAN :
                 schedules' = Reconfigured(id, v, clear, FALSE)
         /\ UNCHANGED <<addin, manifest>>
  <1> DEFINE changed == schedules' # schedules
  <1>1. /\ Becomes(p, Idle, changed) /\ changed \in BOOLEAN /\ Fault
        /\ pass[p].pc \in {"probe", "rule", "configure"}
        /\ UNCHANGED <<addin, manifest>>
    BY DEF Abort
  <1>2. /\ pass' \in [Procs -> Passings] /\ pass'[p] = Idle
        /\ \A q \in Procs \ {p} :
             /\ Kept(q)
             /\ pass'[q].quiet = (pass[q].quiet /\ ~(changed /\ Busy(q)))
    <2> HIDE DEF changed
    <2> QED
      BY <1>1, IdleIsTyped, BecomesFacts
  <1>3. Others(p)
    BY <1>2 DEF Others
  <1>4. \/ UNCHANGED schedules
        \/ /\ IsNew(p) /\ Appliable(Rule(p)) /\ Rule(p) \in RuleViews
           /\ New(Name(Rule(p)), Rule(p)) \in Schedules
           /\ schedules' = Append(schedules, New(Name(Rule(p)), Rule(p)))
        \/ \E id \in DOMAIN schedules, v \in RuleViews, clear \in BOOLEAN :
             schedules' = Reconfigured(id, v, clear, FALSE)
    <2>1. CASE LostCreate(p)
      <3>1. AtRule(p)
        BY <2>1 DEF LostCreate, IsNew
      <3>2. Rule(p) \in RuleViews /\ Name(Rule(p)) \in Titles
        BY <3>1, RuleIsTyped
      <3> QED
        BY <2>1, <3>2, NewIsTyped DEF LostCreate
    <2>2. CASE LostConfigure(p)
      BY <2>2, RuleIsTyped, SchedulesAreTyped DEF LostConfigure
    <2>3. CASE LostReconfigure(p)
      <3>1. /\ AtRule(p) /\ SeenId(p) \in Live
            /\ schedules' = Reconfigured(SeenId(p), Rule(p), TRUE, FALSE)
        BY <2>3 DEF LostReconfigure, IsKnown
      <3>2. Rule(p) \in RuleViews /\ SeenId(p) \in DOMAIN schedules
        BY <3>1, RuleIsTyped, SchedulesAreTyped
      <3> QED
        BY <3>1, <3>2
    <2> QED
      BY <2>1, <2>2, <2>3 DEF Abort
  <1>5. schedules' \in Seq(Schedules)
    <2>1. schedules \in Seq(Schedules)
      BY DEF TypeOK
    <2>2. \A id \in DOMAIN schedules, v \in RuleViews, clear \in BOOLEAN :
            Reconfigured(id, v, clear, FALSE) \in Seq(Schedules)
      BY SchedulesStay
    <2>3. \A s \in Schedules : Append(schedules, s) \in Seq(Schedules)
      BY <2>1
    <2> QED
      BY <1>4, <2>1, <2>2, <2>3
  <1>6. TypeOK'
    <2>1. /\ addin' = addin /\ lock' \in {"free", "held"}
          /\ manifest' \in [Runs -> Seq(Rows)]
      BY <1>1 DEF TypeOK, Abort
    <2> QED
      BY <1>1, <1>2, <1>3, <1>5, <2>1, SpentIsTyped, TypesKept, IdleIsTyped
  <1> QED
    BY <1>1, <1>2, <1>3, <1>4, <1>6, SpentIsTyped DEF Abort, Busy

People(id) == Delete(id) \/ SortByHand(id) \/ RenameToKeep(id)

LEMMA EditFacts ==
  ASSUME TypeOK, NEW id \in Live, People(id)
  PROVE  /\ TypeOK' /\ \A q \in Procs : Kept(q) /\ (Busy(q) => ~pass'[q].quiet)
         /\ spent'.edits # 0 /\ spent'.overlap = spent.overlap
         /\ id \in DOMAIN schedules /\ DOMAIN schedules' = DOMAIN schedules
         /\ Len(schedules') = Len(schedules)
         /\ \A i \in DOMAIN schedules \ {id} : schedules'[i] = schedules[i]
         /\ schedules'[id].name \in {schedules[id].name, KeptName(id)}
         /\ schedules'[id].category = schedules[id].category
         /\ schedules'[id].madeFor = schedules[id].madeFor
         /\ UNCHANGED <<addin, lock, manifest>>
  <1>1. /\ schedules \in Seq(Schedules) /\ id \in DOMAIN schedules
        /\ id \in Nat /\ schedules[id] \in Schedules
    BY SchedulesAreTyped
  <1>2. PICK s \in Schedules :
          /\ Edit(id, s)
          /\ s.name \in {schedules[id].name, KeptName(id)}
          /\ s.category = schedules[id].category
          /\ s.madeFor = schedules[id].madeFor
    <2>1. HandSort \in Seq(Sorts)
      BY DEF HandSort, Sorts
    <2>2. KeptName(id) \in Titles
      BY <1>1 DEF KeptName, Titles
    <2>3. CASE Delete(id)
      <3> DEFINE s == [schedules[id] EXCEPT !.deleted = TRUE]
      <3>1. /\ s \in Schedules /\ s.name \in {schedules[id].name, KeptName(id)}
            /\ s.category = schedules[id].category
            /\ s.madeFor = schedules[id].madeFor
        BY <1>1 DEF Schedules
      <3>2. Edit(id, s)
        BY <2>3 DEF Delete
      <3> QED
        BY <3>1, <3>2
    <2>4. CASE SortByHand(id)
      <3> DEFINE s == [schedules[id] EXCEPT !.sort = HandSort, !.filters = {}]
      <3>1. /\ s \in Schedules /\ s.name \in {schedules[id].name, KeptName(id)}
            /\ s.category = schedules[id].category
            /\ s.madeFor = schedules[id].madeFor
        BY <1>1, <2>1 DEF Schedules
      <3>2. Edit(id, s)
        BY <2>4 DEF SortByHand
      <3> QED
        BY <3>1, <3>2
    <2>5. CASE RenameToKeep(id)
      <3> DEFINE s == [schedules[id] EXCEPT !.name = KeptName(id), !.sort = HandSort]
      <3>1. /\ s \in Schedules /\ s.name \in {schedules[id].name, KeptName(id)}
            /\ s.category = schedules[id].category
            /\ s.madeFor = schedules[id].madeFor
        BY <1>1, <2>1, <2>2 DEF Schedules
      <3>2. Edit(id, s)
        BY <2>5 DEF RenameToKeep
      <3> QED
        BY <3>1, <3>2
    <2> QED
      BY <2>3, <2>4, <2>5 DEF People
  <1>3. schedules' = [schedules EXCEPT ![id] = s]
    BY <1>2 DEF Edit
  <1>4. /\ schedules' \in Seq(Schedules) /\ DOMAIN schedules' = DOMAIN schedules
        /\ Len(schedules') = Len(schedules) /\ schedules'[id] = s
        /\ \A i \in DOMAIN schedules \ {id} : schedules'[i] = schedules[i]
    BY <1>1, <1>3
  <1>5. \A q \in Procs : /\ pass'[q] \in Passings /\ Kept(q)
                         /\ Busy(q) => ~pass'[q].quiet
    <2> TAKE q \in Procs
    <2> DEFINE quiet == ~Busy(q)
    <2>1. quiet \in BOOLEAN /\ (Busy(q) => ~quiet)
      OBVIOUS
    <2>2. pass[q] \in Passings /\ pass'[q] = [pass[q] EXCEPT !.quiet = quiet]
      BY <1>2 DEF Edit, TypeOK
    <2> HIDE DEF quiet
    <2>3. pass'[q] \in Passings /\ Kept(q) /\ pass'[q].quiet = quiet
      BY <2>1, <2>2, QuietIsKept DEF Kept
    <2> QED
      BY <2>1, <2>3
  <1>6. pass' \in [Procs -> Passings]
    <2>1. pass' = [q \in Procs |-> pass'[q]]
      BY <1>2 DEF Edit
    <2> QED
      BY <1>5, <2>1
  <1>7. /\ spent' \in [passes : 0 .. MaxPasses, faults : 0 .. MaxFaults,
                       edits : 0 .. MaxEdits, overlap : BOOLEAN]
        /\ spent'.edits # 0 /\ spent'.overlap = spent.overlap
    <2>1. spent.edits < MaxEdits /\ spent' = [spent EXCEPT !.edits = @ + 1]
      BY <1>2 DEF Edit
    <2> QED
      BY <2>1, Constants DEF TypeOK
  <1>8. TypeOK'
    <2>1. /\ addin' \in Addins /\ lock' \in {"free", "held"}
          /\ manifest' \in [Runs -> Seq(Rows)]
      BY <1>2 DEF Edit, TypeOK
    <2>2. \A q \in Procs :
            /\ Busy(q)' => pass'[q].run \in Runs
            /\ pass'[q].pc = "configure" =>
                 pass'[q].todo # <<>> /\ pass'[q].name # <<>>
      BY <1>5 DEF TypeOK, Kept, Busy
    <2> QED
      BY <1>4, <1>6, <1>7, <2>1, <2>2 DEF TypeOK
  <1> QED
    BY <1>1, <1>2, <1>4, <1>5, <1>7, <1>8 DEF Edit

-----------------------------------------------------------------------------
\* The recipe: a configured schedule shows what the evaluator rejects.

\* Both sides of a comparison can be stated in the finer unit.
LEMMA Scaled ==
  ASSUME NEW a \in Int, NEW b \in Int, NEW f \in Nat \ {0}, NEW op
  PROVE  Compare(op, a * f, b * f) <=> Compare(op, a, b)
  <1>1. /\ a * f \in Int /\ b * f \in Int
        /\ a >= b <=> a * f >= b * f
        /\ a = b <=> a * f = b * f
    OBVIOUS
  <1> QED
    BY <1>1 DEF Compare

\* The filter of a comparison shows what does not pass it.
LEMMA FailOpNegates ==
  ASSUME NEW a \in Int, NEW b \in Int, NEW op \in Operators
  PROVE  /\ FailOp[op] \in Operators
         /\ Compare(FailOp[op], a, b) <=> ~Compare(op, a, b)
  <1>1. op \in {">=", ">", "<=", "<", "==", "!="}
    BY DEF Operators
  <1> QED
    BY <1>1 DEF Compare, FailOp, Operators

LEMMA NumericExact ==
  ASSUME NEW v \in RuleViews, v.requirement \in NumericFamily,
         NEW x \in Int, NEW values, values[v.param] = x,
         FiltersOf(v) # {}, EvaluatedOp(v) = OpOf(v)
  PROVE  Shows(FiltersOf(v), values) <=> ~NumericPasses(v, x)
  <1> DEFINE op == OpOf(v)
             t == ThresholdOf(v)
  <1>1. /\ v.op \in Operators \cup {"none"} /\ v.threshold \in Int
        /\ Convertible(v) =>
             /\ Factor[v.param][v.unit] \in Nat \ {0}
             /\ ToStorage(v, t) \in Int
             /\ ToStorage(v, t) * Factor[v.param][v.unit] = t
    BY ValuesAssumption
  <1>2. op \in Operators /\ t \in Int
    BY <1>1 DEF OpOf, ThresholdOf, Operators
  <1>3. x # Blank
    BY ValuesAssumption
  <1>4. FiltersOf(v) = NumericFilters(v)
    BY DEF FiltersOf, NumericFamily
  <1>5. \A y \in Int : Shows({Filter(v.param, FailOp[op], y)}, values)
                         <=> ~Compare(op, x, y)
    <2> TAKE y \in Int
    <2>1. FailOp[op] \in Operators /\ (Compare(FailOp[op], x, y) <=> ~Compare(op, x, y))
      BY <1>2, FailOpNegates
    <2>2. FailOp[op] # "has_no_value"
      BY <2>1 DEF Operators
    <2>3. LET f == Filter(v.param, FailOp[op], y)
          IN  f.field = v.param /\ f.op = FailOp[op] /\ f.value = y
      BY DEF Filter
    <2> HIDE DEF op
    <2> QED
      BY <1>3, <2>1, <2>2, <2>3 DEF Shows
  <1>6. CASE v.unit = "none"
    <2>1. FiltersOf(v) = {Filter(v.param, FailOp[op], t)}
      BY <1>4, <1>6 DEF NumericFilters
    <2>2. InRuleUnit(v, x) = x
      BY <1>6 DEF InRuleUnit
    <2> HIDE DEF op, t
    <2>3. NumericPasses(v, x) <=> Compare(op, x, t)
      BY <1>3, <2>2 DEF NumericPasses, op, t
    <2> QED
      BY <1>2, <1>5, <2>1, <2>3
  <1>7. CASE v.unit # "none" /\ Convertible(v)
    <2> DEFINE f == Factor[v.param][v.unit]
               y == ToStorage(v, t)
    <2>1. FiltersOf(v) = {Filter(v.param, FailOp[op], y)}
      BY <1>4, <1>7 DEF NumericFilters
    <2>2. InRuleUnit(v, x) = x * f
      BY <1>7 DEF InRuleUnit
    <2>3. f \in Nat \ {0} /\ y \in Int /\ y * f = t
      BY <1>1, <1>7
    <2>4. NumericPasses(v, x) <=> Compare(op, x * f, y * f)
      BY <1>3, <2>2, <2>3 DEF NumericPasses
    <2> HIDE DEF op, t, f, y
    <2>5. Compare(op, x * f, y * f) <=> Compare(op, x, y)
      BY <2>3, Scaled
    <2> QED
      BY <1>5, <2>1, <2>3, <2>4, <2>5
  <1>8. CASE v.unit # "none" /\ ~Convertible(v)
    BY <1>4, <1>8 DEF NumericFilters
  <1> QED
    BY <1>6, <1>7, <1>8

\* The schedule of a rule shows what the evaluator of the rule rejects.
LEMMA RecipeExact ==
  ASSUME NEW v \in RuleViews, FiltersOf(v) # {}, EvaluatedOp(v) = OpOf(v),
         NEW e \in Tellable(v), v.param \in Schedulable[v.category]
  PROVE  /\ e \in Elements /\ CategoryOf[e] = v.category
         /\ Shows(FiltersOf(v), ValueOf[e]) <=> e \in Rejected(v)
  <1> DEFINE values == ValueOf[e]
             x == ValueOf[e][v.param]
  <1>0. /\ e \in Elements /\ CategoryOf[e] = v.category
        /\ e \in Rejected(v) <=> ~Passes(v, x, e \in Met)
        /\ Conditional(v) => e \in Met
        /\ v.requirement = "present_and_nonempty" \/ x # Blank
    BY ValuesAssumption DEF Tellable, Rejected
  <1>1. x \in Int \cup {Blank} /\ Blank \notin Int
    BY <1>0, ValuesAssumption
  <1>2. CASE v.requirement = "present_and_nonempty"
    <2>1. FiltersOf(v) = {Filter(v.param, "has_no_value", 0)}
      BY <1>2 DEF FiltersOf, NumericFamily
    <2>2. Shows(FiltersOf(v), values) <=> x = Blank
      <3>1. LET f == Filter(v.param, "has_no_value", 0)
            IN  f.field = v.param /\ f.op = "has_no_value"
        BY DEF Filter
      <3> QED
        BY <2>1, <3>1 DEF Shows
    <2> QED
      BY <1>0, <1>2, <2>2 DEF Passes
  <1>3. CASE v.requirement \in NumericFamily
    <2>1. x \in Int
      BY <1>0, <1>1, <1>3 DEF NumericFamily
    <2>2. Shows(FiltersOf(v), values) <=> ~NumericPasses(v, x)
      BY <1>3, <2>1, NumericExact
    <2>3. Passes(v, x, e \in Met) <=> NumericPasses(v, x)
      BY <1>0, <1>3 DEF Passes, NumericFamily, Conditional
    <2> QED
      BY <1>0, <2>2, <2>3
  <1>4. CASE v.requirement = "value_in_subset"
    <2>1. FiltersOf(v) = {Filter(v.param, "!=", a) : a \in v.allowed}
      BY <1>4 DEF FiltersOf, SubsetFilters, NumericFamily
    <2>2. x # Blank
      BY <1>0, <1>4
    <2>3. \A a : LET f == Filter(v.param, "!=", a)
                 IN  /\ f.field = v.param /\ f.op # "has_no_value"
                     /\ Compare(f.op, x, f.value) <=> x # a
      BY DEF Filter, Compare
    <2>4. Shows(FiltersOf(v), values) <=> \A a \in v.allowed : x # a
      BY <2>1, <2>2, <2>3 DEF Shows
    <2>5. Passes(v, x, e \in Met) <=> x \in v.allowed
      BY <1>4, <2>2 DEF Passes
    <2> QED
      BY <1>0, <2>4, <2>5
  <1>5. CASE v.requirement \notin NumericFamily
                 \cup {"present_and_nonempty", "value_in_subset"}
    BY <1>5 DEF FiltersOf
  <1> QED
    BY <1>0, <1>2, <1>3, <1>4, <1>5

\* A schedule that is cleared, or new, reproduces the rule it is configured
\* for.
LEMMA ConfiguredReproduces ==
  ASSUME NEW v \in RuleViews, NEW s \in Schedules,
         v.param \in Schedulable[s.category], NEW clear \in BOOLEAN,
         clear \/ (s.sort = <<>> /\ s.filters = {})
  PROVE  Reproduces(Configured(s, v, clear), v)
  <1> DEFINE t == Configured(s, v, clear)
  <1>1. /\ t.sort = <<SortOf(v)>> /\ t.filters = FiltersOf(v)
        /\ t.category = s.category
    <2>1. s.sort = <<>> => s.sort \o <<SortOf(v)>> = <<SortOf(v)>>
      OBVIOUS
    <2> QED
      BY <2>1 DEF Configured, Schedules
  <1> HIDE DEF t
  <1>2. Sorted(t, v)
    BY <1>1 DEF Sorted
  <1>3. ASSUME FiltersOf(v) # {}, s.category = v.category,
               EvaluatedOp(v) = OpOf(v), NEW e \in Tellable(v)
        PROVE  e \in ShownBy(t) <=> e \in Rejected(v)
    <2>1. /\ e \in Elements /\ CategoryOf[e] = v.category
          /\ Shows(FiltersOf(v), ValueOf[e]) <=> e \in Rejected(v)
      BY <1>3, RecipeExact
    <2> QED
      BY <1>1, <1>3, <2>1 DEF ShownBy
  <1> QED
    BY <1>1, <1>2, <1>3 DEF Reproduces, Filtered, t

-----------------------------------------------------------------------------
\* Type correctness, the lock and the dry runs.

LEMMA StepCases ==
  ASSUME [Next]_vars
  PROVE  \/ UNCHANGED vars
         \/ \E p \in Procs :
              \/ \E r \in Runs, dry \in BOOLEAN : Begin(p, r, dry)
              \/ Probe(p) \/ Skip(p) \/ Reconfigure(p) \/ Create(p)
              \/ Configure(p) \/ Finish(p) \/ WriteManifest(p) \/ Abort(p)
         \/ \E id \in Live : People(id)
  BY DEF Next, Step, Skip, People

LEMMA InitIsTyped ==
  ASSUME Init PROVE TypeOK
  <1>1. \A p \in Procs : pass[p] = Idle /\ ~Busy(p)
    BY IdleIsTyped DEF Init, Busy
  <1>2. <<>> \in Seq(Schedules) /\ <<>> \in Seq(Rows)
    OBVIOUS
  <1>3. pass \in [Procs -> Passings]
    BY IdleIsTyped DEF Init
  <1>4. manifest \in [Runs -> Seq(Rows)]
    BY <1>2 DEF Init
  <1>5. spent \in [passes : 0 .. MaxPasses, faults : 0 .. MaxFaults,
                   edits : 0 .. MaxEdits, overlap : BOOLEAN]
    BY Constants DEF Init
  <1> QED
    BY <1>1, <1>2, <1>3, <1>4, <1>5, IdleIsTyped DEF Init, TypeOK

LEMMA TypesPreserved ==
  ASSUME TypeOK, [Next]_vars PROVE TypeOK'
  <1>1. CASE UNCHANGED vars
    BY <1>1 DEF TypeOK, vars, Busy
  <1>2. ASSUME NEW p \in Procs,
               \/ \E r \in Runs, dry \in BOOLEAN : Begin(p, r, dry)
               \/ Probe(p) \/ Skip(p) \/ Reconfigure(p) \/ Create(p)
               \/ Configure(p) \/ Finish(p) \/ WriteManifest(p) \/ Abort(p)
        PROVE  TypeOK'
    BY <1>2, BeginFacts, ProbeFacts, SkipFacts, ReconfigureFacts, CreateFacts,
       ConfigureFacts, FinishFacts, ManifestFacts, AbortFacts
  <1>3. ASSUME NEW id \in Live, People(id) PROVE TypeOK'
    BY <1>3, EditFacts
  <1> QED
    BY <1>1, <1>2, <1>3, StepCases

\* What the addin and the manifest are told keeps its shape, over any number
\* of passes, refusals, deaths and edits (the whole of VerificationViews).
THEOREM TypeCorrect == Spec => []TypeOK
  <1>1. Init => TypeOK
    BY InitIsTyped
  <1>2. TypeOK /\ [Next]_vars => TypeOK'
    BY TypesPreserved
  <1> QED
    BY <1>1, <1>2, PTL DEF Spec

-----------------------------------------------------------------------------
\* The lock.

\* verification_views_endpoint (routes_runs.py): however a pass of the service
\* ends, and whatever the command line does meanwhile, the lock is held while
\* the pass works and at no other time.
THEOREM LockKept == Spec => []LockIsOfAPass
  <1>1. Init => LockIsOfAPass
    BY IdleIsTyped DEF Init, LockIsOfAPass
  <1>2. ASSUME TypeOK, LockIsOfAPass, [Next]_vars PROVE LockIsOfAPass'
    <2> DEFINE working == {"probe", "rule", "configure"}
    <2>0. SUFFICES ASSUME "service" \in Procs
          PROVE  (lock' = "held" <=> pass'["service"].pc \in working)
      BY DEF LockIsOfAPass
    <2>1. lock = "held" <=> pass["service"].pc \in working
      BY <2>0, <1>2 DEF LockIsOfAPass
    <2>2. CASE UNCHANGED vars
      BY <2>1, <2>2 DEF vars
    <2>3. ASSUME NEW p \in Procs, Others(p), p # "service", lock' = lock
          PROVE  lock' = "held" <=> pass'["service"].pc \in working
      BY <2>0, <2>1, <2>3 DEF Others, Kept
    <2>4. ASSUME NEW p \in Procs, lock' = lock,
                 (pass'[p].pc \in working <=> pass[p].pc \in working),
                 Others(p)
          PROVE  lock' = "held" <=> pass'["service"].pc \in working
      BY <2>1, <2>3, <2>4
    <2>5. ASSUME NEW p \in Procs, NEW r \in Runs, NEW dry \in BOOLEAN,
                 Begin(p, r, dry)
          PROVE  lock' = "held" <=> pass'["service"].pc \in working
      BY <1>2, <2>3, <2>5, BeginFacts
    <2>6. ASSUME NEW p \in Procs, Probe(p)
          PROVE  lock' = "held" <=> pass'["service"].pc \in working
      BY <1>2, <2>4, <2>6, ProbeFacts
    <2>7. ASSUME NEW p \in Procs, Skip(p)
          PROVE  lock' = "held" <=> pass'["service"].pc \in working
      BY <1>2, <2>4, <2>7, SkipFacts DEF Appends, AtRule, AtConfigure
    <2>8. ASSUME NEW p \in Procs, Reconfigure(p)
          PROVE  lock' = "held" <=> pass'["service"].pc \in working
      BY <1>2, <2>4, <2>8, ReconfigureFacts DEF Appends, AtRule, AtConfigure
    <2>9. ASSUME NEW p \in Procs, Create(p)
          PROVE  lock' = "held" <=> pass'["service"].pc \in working
      BY <1>2, <2>4, <2>9, CreateFacts DEF IsNew, AtRule
    <2>10. ASSUME NEW p \in Procs, Configure(p)
           PROVE  lock' = "held" <=> pass'["service"].pc \in working
      BY <1>2, <2>4, <2>10, ConfigureFacts DEF Appends, AtRule, AtConfigure
    <2>11. ASSUME NEW p \in Procs, Finish(p)
           PROVE  lock' = "held" <=> pass'["service"].pc \in working
      BY <1>2, <2>3, <2>11, FinishFacts
    <2>12. ASSUME NEW p \in Procs, WriteManifest(p)
           PROVE  lock' = "held" <=> pass'["service"].pc \in working
      BY <1>2, <2>4, <2>12, ManifestFacts, IdleIsTyped
    <2>13. ASSUME NEW p \in Procs, Abort(p)
           PROVE  lock' = "held" <=> pass'["service"].pc \in working
      BY <1>2, <2>3, <2>13, AbortFacts, IdleIsTyped
    <2>14. ASSUME NEW id \in Live, People(id)
           PROVE  lock' = "held" <=> pass'["service"].pc \in working
      BY <1>2, <2>0, <2>1, <2>14, EditFacts DEF Kept
    <2> QED
      BY <1>2, <2>2, <2>5, <2>6, <2>7, <2>8, <2>9, <2>10, <2>11, <2>12, <2>13,
         <2>14, StepCases
  <1> QED
    BY <1>1, <1>2, TypeCorrect, PTL DEF Spec

-----------------------------------------------------------------------------
\* Dry runs.

\* create_verification_schedules with dry_run: no call of a dry pass writes
\* to the model, also where the schedule exists and is configured again.
THEOREM DryRunsWriteNothing == Spec => DryRunWritesNothing
  <1>1. ASSUME NEW p \in Procs, pass[p].dry, Step(p)
        PROVE  UNCHANGED schedules
    BY <1>1 DEF Step, Probe, ReportUnreachable, Reconfigure, Reconfigured,
       ReconfigureUnavailable, ReconfigureGone, ReconfigureFails, Create,
       CreateCollides, CreateInvalid, CreateUnavailable, CreateFails, Configure,
       ConfigureUnavailable, ConfigureFails, Finish, WriteManifest
  <1>2. [Next]_vars =>
          [\A p \in Procs : pass[p].dry /\ pass'[p] # pass[p] /\ Step(p) =>
             UNCHANGED schedules]_vars
    BY <1>1
  <1> QED
    BY <1>2, PTL DEF Spec, DryRunWritesNothing

-----------------------------------------------------------------------------
\* What the schedules, the queues and the manifests hold.

\* The name that a schedule is made under; people give KeptName only.
OwnName(id) == <<"AutoAudit", id>>
SchedulesSound ==
  \A id \in DOMAIN schedules :
    LET s == schedules[id]
    IN  /\ s.name \in {OwnName(s.madeFor), DefaultName(id), KeptName(id)}
        /\ \E v \in RuleViews : v.id = s.madeFor /\ v.category = s.category

\* What is left to do is the end of what the trace asks for.
QueueSound ==
  \A p \in Procs :
    Busy(p) =>
      LET todo == pass[p].todo
          all == Trace[pass[p].run]
      IN  /\ Len(todo) <= Len(all)
          /\ pass[p].pc = "probe" => Len(todo) = Len(all)
          /\ \A i \in 1 .. Len(todo) : todo[i] = all[Len(all) - Len(todo) + i]

ToldSound ==
  \A p \in Procs :
    \A id \in pass[p].told :
      \/ \E i \in DOMAIN pass[p].rows : pass[p].rows[i].id = id
      \/ pass[p].pc = "configure" /\ pass[p].sid = id

OneAtATime ==
  ~spent.overlap => \A p, q \in Procs : Busy(p) /\ Busy(q) => p = q

\* Schedules that are configured stay what they were made as.
SameSchedules ==
  /\ DOMAIN schedules' = DOMAIN schedules
  /\ Len(schedules') = Len(schedules)
  /\ \A i \in DOMAIN schedules :
       /\ schedules'[i].name = schedules[i].name
       /\ schedules'[i].category = schedules[i].category
       /\ schedules'[i].madeFor = schedules[i].madeFor
       /\ schedules'[i].deleted = schedules[i].deleted

Added(s) ==
  /\ s \in Schedules
  /\ schedules' = Append(schedules, s)

LEMMA AddedFacts ==
  ASSUME TypeOK, NEW s, Added(s)
  PROVE  /\ DOMAIN schedules' = DOMAIN schedules \cup {Len(schedules) + 1}
         /\ Len(schedules) + 1 \notin DOMAIN schedules
         /\ schedules'[Len(schedules) + 1] = s
         /\ \A i \in DOMAIN schedules : schedules'[i] = schedules[i]
         /\ Len(schedules') = Len(schedules) + 1
  BY SchedulesAreTyped DEF Added

LEMMA ConfiguringKeeps ==
  ASSUME TypeOK, NEW id \in DOMAIN schedules, NEW v \in RuleViews,
         NEW clear \in BOOLEAN, NEW dry \in BOOLEAN,
         schedules' = Reconfigured(id, v, clear, dry)
  PROVE  SameSchedules
  <1>1. /\ DOMAIN schedules' = DOMAIN schedules
        /\ Len(schedules') = Len(schedules)
        /\ ~dry => schedules'[id] = Configured(schedules[id], v, clear)
        /\ \A i \in DOMAIN schedules \ {id} : schedules'[i] = schedules[i]
    BY SchedulesStay
  <1>2. /\ Configured(schedules[id], v, clear).name = schedules[id].name
        /\ Configured(schedules[id], v, clear).category = schedules[id].category
        /\ Configured(schedules[id], v, clear).madeFor = schedules[id].madeFor
        /\ Configured(schedules[id], v, clear).deleted = schedules[id].deleted
    BY SchedulesAreTyped, ConfiguredIsTyped
  <1>3. dry => schedules' = schedules
    BY DEF Reconfigured
  <1> QED
    BY <1>1, <1>2, <1>3 DEF SameSchedules

LEMMA SameIsSame ==
  ASSUME UNCHANGED schedules PROVE SameSchedules
  BY DEF SameSchedules

LEMMA SameIsLive ==
  ASSUME SameSchedules
  PROVE  Live' = Live /\ Names' = Names
  BY DEF SameSchedules, Live, Names

\* What a step makes of the schedules.
LEMMA ScheduleCases ==
  ASSUME TypeOK, [Next]_vars
  PROVE  \/ SameSchedules
         \/ \E p \in Procs :
              /\ IsNew(p) /\ Rule(p) \in RuleViews /\ Busy(p)
              /\ SameSpent /\ UNCHANGED addin
              /\ Added(New(Given(p), Rule(p)))
         \/ \E id \in Live : People(id)
  <1>1. CASE UNCHANGED vars
    BY <1>1, SameIsSame DEF vars
  <1>2. ASSUME NEW p \in Procs, Reconfigure(p) PROVE SameSchedules
    <2>1. /\ IsKnown(p) /\ SeenId(p) \in DOMAIN schedules
          /\ schedules' = Reconfigured(SeenId(p), Rule(p), TRUE, pass[p].dry)
      BY <1>2, ReconfigureFacts
    <2>2. Rule(p) \in RuleViews /\ pass[p].dry \in BOOLEAN
      BY <2>1, SeenIsTyped, RuleIsTyped DEF TypeOK, Passings
    <2> QED
      BY <2>1, <2>2, ConfiguringKeeps
  <1>3. ASSUME NEW p \in Procs, Configure(p) PROVE SameSchedules
    <2>1. /\ AtConfigure(p) /\ (~pass[p].dry => pass[p].sid \in Live)
          /\ schedules' = IF pass[p].dry THEN schedules
                          ELSE Reconfigured(pass[p].sid, Rule(p), FALSE, FALSE)
      BY <1>3, ConfigureFacts
    <2>2. Rule(p) \in RuleViews
      BY <2>1, RuleIsTyped
    <2> QED
      BY <2>1, <2>2, ConfiguringKeeps, SameIsSame, SchedulesAreTyped
  <1>4. ASSUME NEW p \in Procs, Create(p), ~SameSchedules
        PROVE  /\ IsNew(p) /\ Rule(p) \in RuleViews /\ Busy(p)
               /\ SameSpent /\ UNCHANGED addin
                /\ Added(New(Given(p), Rule(p)))
    <2>1. /\ IsNew(p) /\ SameSpent /\ UNCHANGED addin
          /\ schedules' = IF pass[p].dry THEN schedules
                          ELSE Append(schedules, New(Given(p), Rule(p)))
          /\ New(Given(p), Rule(p)) \in Schedules
      BY <1>4, CreateFacts
    <2>2. Rule(p) \in RuleViews /\ Busy(p)
      BY <2>1, RuleIsTyped DEF IsNew
    <2> QED
      BY <1>4, <2>1, <2>2, SameIsSame DEF Added
  <1>5. ASSUME NEW p \in Procs, Abort(p), ~SameSchedules
        PROVE  /\ IsNew(p) /\ Rule(p) \in RuleViews /\ Busy(p)
               /\ SameSpent /\ UNCHANGED addin
                /\ Added(New(Given(p), Rule(p)))
    <2>1. /\ Busy(p) /\ SameSpent /\ UNCHANGED addin
          /\ IsNew(p) /\ Appliable(Rule(p)) /\ Rule(p) \in RuleViews
          /\ New(Name(Rule(p)), Rule(p)) \in Schedules
          /\ schedules' = Append(schedules, New(Name(Rule(p)), Rule(p)))
      BY <1>5, AbortFacts, SameIsSame, ConfiguringKeeps
    <2> QED
      BY <2>1 DEF Added, Given
  <1>6. ASSUME NEW p \in Procs,
               \/ \E r \in Runs, dry \in BOOLEAN : Begin(p, r, dry)
               \/ Probe(p) \/ Skip(p) \/ Finish(p) \/ WriteManifest(p)
        PROVE  SameSchedules
    BY <1>6, BeginFacts, ProbeFacts, SkipFacts, FinishFacts, ManifestFacts,
       SameIsSame
  <1> QED
    BY <1>1, <1>2, <1>3, <1>4, <1>5, <1>6, StepCases

LEMMA SchedulesSoundPreserved ==
  ASSUME TypeOK, SchedulesSound, [Next]_vars PROVE SchedulesSound'
  <1>1. CASE SameSchedules
    BY <1>1 DEF SchedulesSound, SameSchedules
  <1>2. ASSUME NEW p \in Procs, Rule(p) \in RuleViews,
               Added(New(Given(p), Rule(p)))
        PROVE  SchedulesSound'
    <2>1. /\ New(Given(p), Rule(p)).name = Given(p)
          /\ New(Given(p), Rule(p)).madeFor = Rule(p).id
          /\ New(Given(p), Rule(p)).category = Rule(p).category
      BY DEF New
    <2>2. Given(p) \in {OwnName(Rule(p).id), DefaultName(Len(schedules) + 1)}
      BY DEF Given, OwnName, Name
    <2> QED
      BY <1>2, <2>1, <2>2, AddedFacts DEF SchedulesSound
  <1>3. ASSUME NEW id \in Live, People(id) PROVE SchedulesSound'
    BY <1>3, EditFacts DEF SchedulesSound
  <1> QED
    BY <1>1, <1>2, <1>3, ScheduleCases

LEMMA PassesKeepOthers ==
  ASSUME TypeOK, NEW p \in Procs,
         \/ \E r \in Runs, dry \in BOOLEAN : Begin(p, r, dry)
         \/ Probe(p) \/ Skip(p) \/ Reconfigure(p) \/ Create(p)
         \/ Configure(p) \/ Finish(p) \/ WriteManifest(p) \/ Abort(p)
  PROVE  Others(p)
  <1>1. ASSUME NEW r \in Runs, NEW dry \in BOOLEAN, Begin(p, r, dry)
        PROVE  Others(p)
    BY <1>1, BeginFacts
  <1>2. CASE Probe(p) \/ Skip(p) \/ Finish(p)
    BY <1>2, ProbeFacts, SkipFacts, FinishFacts
  <1>3. CASE Reconfigure(p) \/ Create(p) \/ Configure(p)
    BY <1>3, ReconfigureFacts, CreateFacts, ConfigureFacts
  <1>4. CASE WriteManifest(p) \/ Abort(p)
    BY <1>4, ManifestFacts, AbortFacts
  <1> QED
    BY <1>1, <1>2, <1>3, <1>4

\* What a step makes of the queue of a pass: the whole trace when it begins,
\* the tail of it when a rule is done.
LEMMA QueueCases ==
  ASSUME TypeOK, [Next]_vars, NEW q \in Procs, Busy(q)'
  PROVE  \/ /\ ~Busy(q) /\ pass'[q].pc = "probe"
            /\ pass'[q].run \in Runs /\ pass'[q].todo = Trace[pass'[q].run]
            /\ UNCHANGED schedules
         \/ /\ Busy(q) /\ pass'[q].run = pass[q].run
            /\ pass'[q].todo = pass[q].todo
            /\ pass'[q].pc = "probe" => pass[q].pc = "probe"
         \/ /\ Busy(q) /\ pass'[q].run = pass[q].run
            /\ pass'[q].pc = "rule"
            /\ AtRule(q) \/ AtConfigure(q)
            /\ pass'[q].todo = Tail(pass[q].todo)
  <1>1. CASE UNCHANGED vars
    BY <1>1 DEF vars, Busy
  <1>2. ASSUME Kept(q)
        PROVE  /\ Busy(q) /\ pass'[q].run = pass[q].run
               /\ pass'[q].todo = pass[q].todo
               /\ pass'[q].pc = "probe" => pass[q].pc = "probe"
    BY <1>2 DEF Kept, Busy
  <1>3. ASSUME NEW p \in Procs, Others(p), p # q PROVE Kept(q)
    BY <1>3 DEF Others
  <1>4. ASSUME NEW p \in Procs, NEW r \in Runs, NEW dry \in BOOLEAN,
               Begin(p, r, dry), p = q
        PROVE  /\ ~Busy(q) /\ pass'[q].pc = "probe"
               /\ pass'[q].run \in Runs /\ pass'[q].todo = Trace[pass'[q].run]
               /\ UNCHANGED schedules
    BY <1>4, BeginFacts
  <1>5. ASSUME Skip(q) \/ Reconfigure(q) \/ Configure(q)
        PROVE  /\ Busy(q) /\ pass'[q].run = pass[q].run
               /\ pass'[q].pc = "rule"
               /\ AtRule(q) \/ AtConfigure(q)
               /\ pass'[q].todo = Tail(pass[q].todo)
    BY <1>5, SkipFacts, ReconfigureFacts, ConfigureFacts, RuleIsTyped
       DEF Appends, GoesOn
  <1>6. ASSUME Probe(q) \/ Create(q) \/ Finish(q)
        PROVE  /\ Busy(q) /\ pass'[q].run = pass[q].run
               /\ pass'[q].todo = pass[q].todo
               /\ pass'[q].pc = "probe" => pass[q].pc = "probe"
    <2>1. CASE Probe(q)
      BY <2>1, ProbeFacts
    <2>2. CASE Create(q)
      BY <2>2, CreateFacts DEF GoesOn, Busy, IsNew, AtRule
    <2>3. CASE Finish(q)
      BY <2>3, FinishFacts DEF GoesOn, Busy
    <2> QED
      BY <1>6, <2>1, <2>2, <2>3
  <1>7. ~WriteManifest(q) /\ ~Abort(q)
    <2>1. pass'[q] # Idle
      BY IdleIsTyped DEF Busy
    <2>2. WriteManifest(q) => pass'[q] = Idle
      BY ManifestFacts
    <2>3. Abort(q) => pass'[q] = Idle
      BY AbortFacts
    <2> QED
      BY <2>1, <2>2, <2>3
  <1>8. ASSUME NEW p \in Procs, p # q,
               \/ \E r \in Runs, dry \in BOOLEAN : Begin(p, r, dry)
               \/ Probe(p) \/ Skip(p) \/ Reconfigure(p) \/ Create(p)
               \/ Configure(p) \/ Finish(p) \/ WriteManifest(p) \/ Abort(p)
        PROVE  Kept(q)
    BY <1>3, <1>8, PassesKeepOthers
  <1>9. ASSUME NEW id \in Live, People(id) PROVE Kept(q)
    BY <1>9, EditFacts
  <1> QED
    BY <1>1, <1>2, <1>4, <1>5, <1>6, <1>7, <1>8, <1>9, StepCases

LEMMA QueueSoundPreserved ==
  ASSUME TypeOK, QueueSound, [Next]_vars PROVE QueueSound'
  <1> SUFFICES ASSUME NEW q \in Procs, Busy(q)'
      PROVE  LET todo == pass'[q].todo
                 all == Trace[pass'[q].run]
             IN  /\ Len(todo) <= Len(all)
                 /\ pass'[q].pc = "probe" => Len(todo) = Len(all)
                 /\ \A i \in 1 .. Len(todo) :
                      todo[i] = all[Len(all) - Len(todo) + i]
    BY DEF QueueSound
  <1>1. CASE /\ pass'[q].pc = "probe"
             /\ pass'[q].run \in Runs /\ pass'[q].todo = Trace[pass'[q].run]
    <2>1. Trace[pass'[q].run] \in Seq(RuleViews)
      BY <1>1, Constants
    <2> QED
      BY <1>1, <2>1
  <1>2. CASE /\ Busy(q) /\ pass'[q].run = pass[q].run
             /\ pass'[q].todo = pass[q].todo
             /\ pass'[q].pc = "probe" => pass[q].pc = "probe"
    BY <1>2 DEF QueueSound
  <1>3. CASE /\ Busy(q) /\ pass'[q].run = pass[q].run
             /\ pass'[q].pc = "rule"
             /\ AtRule(q) \/ AtConfigure(q)
             /\ pass'[q].todo = Tail(pass[q].todo)
    <2> DEFINE todo == pass[q].todo
               all == Trace[pass[q].run]
    <2>1. todo \in Seq(RuleViews) /\ todo # <<>> /\ pass[q].run \in Runs
      BY <1>3, RuleIsTyped
    <2>2. all \in Seq(RuleViews)
      BY <2>1, Constants
    <2>3. /\ Len(todo) <= Len(all)
          /\ \A i \in 1 .. Len(todo) : todo[i] = all[Len(all) - Len(todo) + i]
      BY <1>3 DEF QueueSound
    <2> HIDE DEF todo, all
    <2>4. /\ Len(Tail(todo)) = Len(todo) - 1 /\ Len(todo) \in Nat \ {0}
          /\ \A i \in 1 .. Len(todo) - 1 : Tail(todo)[i] = todo[i + 1]
      BY <2>1
    <2>5. Len(all) \in Nat
      BY <2>2
    <2>6. /\ Len(Tail(todo)) <= Len(all)
          /\ \A i \in 1 .. Len(Tail(todo)) :
               Tail(todo)[i] = all[Len(all) - Len(Tail(todo)) + i]
      <3>1. ASSUME NEW i \in 1 .. Len(todo) - 1
            PROVE  Tail(todo)[i] = all[Len(all) - (Len(todo) - 1) + i]
        <4>1. i + 1 \in 1 .. Len(todo)
          BY <2>4
        <4>2. Len(all) - Len(todo) + (i + 1) = Len(all) - (Len(todo) - 1) + i
          BY <2>4, <2>5
        <4> QED
          BY <2>3, <2>4, <4>1, <4>2
      <3> QED
        BY <2>3, <2>4, <2>5, <3>1
    <2> QED
      BY <1>3, <2>6 DEF todo, all
  <1> QED
    BY <1>1, <1>2, <1>3, QueueCases

\* The rules that are left are different ones, and none of them is done.
Done(p) == 1 .. Len(Trace[pass[p].run]) - Len(pass[p].todo)
LEMMA QueueIsDistinct ==
  ASSUME TypeOK, QueueSound, NEW p \in Procs, AtRule(p) \/ AtConfigure(p)
  PROVE  LET todo == pass[p].todo
             all == Trace[pass[p].run]
         IN  /\ Len(todo) \in Nat \ {0} /\ Len(all) \in Nat
             /\ Len(todo) <= Len(all) /\ all \in Seq(RuleViews)
             /\ Rule(p) = all[Len(all) - Len(todo) + 1]
             /\ Len(Tail(todo)) = Len(todo) - 1
             /\ \A i \in 1 .. Len(todo) - 1 :
                  /\ Tail(todo)[i] = todo[i + 1]
                  /\ Tail(todo)[i].id # Rule(p).id
             /\ \A i \in Done(p) : /\ all[i] \in RuleViews
                                   /\ all[i].id # Rule(p).id
  <1> DEFINE todo == pass[p].todo
             all == Trace[pass[p].run]
  <1>1. /\ todo \in Seq(RuleViews) /\ todo # <<>> /\ pass[p].run \in Runs
        /\ Busy(p) /\ Rule(p) = todo[1]
    BY RuleIsTyped
  <1>2. all \in Seq(RuleViews)
    BY <1>1, Constants
  <1>3. /\ Len(todo) <= Len(all)
        /\ \A i \in 1 .. Len(todo) : todo[i] = all[Len(all) - Len(todo) + i]
    BY <1>1 DEF QueueSound
  <1>4. \A i, j \in DOMAIN all : all[i].id = all[j].id => i = j
    BY <1>1, Constants
  <1>5. Done(p) = 1 .. Len(all) - Len(todo)
    BY DEF Done
  <1> HIDE DEF todo, all
  <1>6. /\ Len(Tail(todo)) = Len(todo) - 1 /\ Len(todo) \in Nat \ {0}
        /\ \A i \in 1 .. Len(todo) - 1 : Tail(todo)[i] = todo[i + 1]
    BY <1>1
  <1>7. Len(all) \in Nat /\ DOMAIN all = 1 .. Len(all)
        /\ \A i \in DOMAIN all : all[i] \in RuleViews
    BY <1>2
  <1>8. Rule(p) = all[Len(all) - Len(todo) + 1]
    BY <1>1, <1>3, <1>6
  <1>9. ASSUME NEW i \in 1 .. Len(todo) - 1
        PROVE  Tail(todo)[i].id # Rule(p).id
    <2>1. Tail(todo)[i] = all[Len(all) - Len(todo) + (i + 1)]
      BY <1>3, <1>6
    <2>2. /\ Len(all) - Len(todo) + (i + 1) \in DOMAIN all
          /\ Len(all) - Len(todo) + 1 \in DOMAIN all
          /\ Len(all) - Len(todo) + (i + 1) # Len(all) - Len(todo) + 1
      BY <1>3, <1>6, <1>7
    <2> QED
      BY <1>4, <1>8, <2>1, <2>2
  <1>10. ASSUME NEW i \in Done(p)
         PROVE  all[i] \in RuleViews /\ all[i].id # Rule(p).id
    <2>1. /\ i \in DOMAIN all /\ Len(all) - Len(todo) + 1 \in DOMAIN all
          /\ i # Len(all) - Len(todo) + 1
      BY <1>3, <1>5, <1>6, <1>7
    <2> QED
      BY <1>4, <1>7, <1>8, <2>1
  <1> QED
    BY <1>2, <1>3, <1>6, <1>7, <1>8, <1>9, <1>10 DEF todo, all

LEMMA AppendedRow ==
  ASSUME TypeOK, NEW p \in Procs, NEW row, Appends(p, row)
  PROVE  /\ Len(pass[p].rows) \in Nat
         /\ DOMAIN pass[p].rows = 1 .. Len(pass[p].rows)
         /\ DOMAIN pass'[p].rows = 1 .. Len(pass[p].rows) + 1
         /\ Len(pass'[p].rows) = Len(pass[p].rows) + 1
         /\ \A i \in DOMAIN pass[p].rows : pass'[p].rows[i] = pass[p].rows[i]
         /\ pass'[p].rows[Len(pass[p].rows) + 1] = row
  <1>1. pass[p].rows \in Seq(Rows) /\ row \in Rows
    BY DEF TypeOK, Passings, Appends
  <1> QED
    BY <1>1 DEF Appends

LEMMA ToldSoundPreserved ==
  ASSUME TypeOK, ToldSound, [Next]_vars PROVE ToldSound'
  <1> DEFINE Named(q) ==
               \A id \in pass[q].told :
                 \/ \E i \in DOMAIN pass[q].rows : pass[q].rows[i].id = id
                 \/ pass[q].pc = "configure" /\ pass[q].sid = id
  <1>1. \A q \in Procs : Named(q)
    BY DEF ToldSound
  <1>2. SUFFICES ASSUME NEW q \in Procs PROVE Named(q)'
    BY DEF ToldSound
  <1>3. CASE UNCHANGED vars
    BY <1>1, <1>3 DEF vars
  <1>4. CASE Kept(q)
    BY <1>1, <1>4 DEF Kept
  <1>5. ASSUME NEW row, Appends(q, row), AtConfigure(q) => row.id = pass[q].sid
        PROVE  Named(q)'
    <2>1. /\ pass'[q].told = pass[q].told
          /\ AtRule(q) \/ AtConfigure(q)
          /\ DOMAIN pass'[q].rows = 1 .. Len(pass[q].rows) + 1
          /\ DOMAIN pass[q].rows = 1 .. Len(pass[q].rows)
          /\ Len(pass[q].rows) \in Nat
          /\ \A i \in DOMAIN pass[q].rows : pass'[q].rows[i] = pass[q].rows[i]
          /\ pass'[q].rows[Len(pass[q].rows) + 1] = row
      BY <1>5, AppendedRow DEF Appends
    <2>2. ASSUME NEW id \in pass[q].told
          PROVE  \E i \in DOMAIN pass'[q].rows : pass'[q].rows[i].id = id
      <3>1. CASE \E i \in DOMAIN pass[q].rows : pass[q].rows[i].id = id
        BY <2>1, <3>1
      <3>2. CASE pass[q].pc = "configure" /\ pass[q].sid = id
        BY <1>5, <2>1, <3>2 DEF AtConfigure
      <3> QED
        BY <1>1, <2>2, <3>1, <3>2
    <2> QED
      BY <2>1, <2>2
  <1>6. CASE pass'[q] = Idle \/ pass'[q].told = {}
    BY <1>6, IdleIsTyped
  <1>7. CASE \E r \in Runs, dry \in BOOLEAN : Begin(q, r, dry)
    BY <1>6, <1>7, BeginFacts
  <1>8. CASE Probe(q)
    BY <1>1, <1>8, ProbeFacts
  <1>9. CASE Skip(q)
    BY <1>5, <1>9, SkipFacts DEF Told
  <1>10. CASE Reconfigure(q)
    <2>1. ~AtConfigure(q)
      BY <1>10, ReconfigureFacts DEF IsKnown, AtRule, AtConfigure
    <2> QED
      BY <1>5, <1>10, <2>1, ReconfigureFacts
  <1>11. CASE Create(q)
    <2>1. /\ pass[q].pc = "rule"
          /\ pass'[q].pc = "configure" /\ pass'[q].rows = pass[q].rows
          /\ pass'[q].told \subseteq pass[q].told \cup {pass'[q].sid}
      BY <1>11, CreateFacts DEF IsNew, AtRule
    <2> QED
      BY <1>1, <2>1
  <1>12. CASE Configure(q)
    <2> DEFINE row == Row(Rule(q), CreatedAs(q), pass[q].sid, pass[q].name,
                          pass[q].warned \/ Rule(q).param
                                 \notin Schedulable[Rule(q).category])
    <2>1. Appends(q, row) /\ row.id = pass[q].sid
      BY <1>12, ConfigureFacts DEF Row
    <2> QED
      BY <1>5, <2>1
  <1>13. CASE Finish(q)
    BY <1>1, <1>13, FinishFacts
  <1>14. CASE WriteManifest(q) \/ Abort(q)
    BY <1>6, <1>14, ManifestFacts, AbortFacts
  <1> HIDE DEF Named
  <1>15. ASSUME NEW p \in Procs, p # q,
               \/ \E r \in Runs, dry \in BOOLEAN : Begin(p, r, dry)
               \/ Probe(p) \/ Skip(p) \/ Reconfigure(p) \/ Create(p)
               \/ Configure(p) \/ Finish(p) \/ WriteManifest(p) \/ Abort(p)
        PROVE  Kept(q)
    BY <1>15, PassesKeepOthers DEF Others
  <1>16. ASSUME NEW id \in Live, People(id) PROVE Kept(q)
    BY <1>16, EditFacts
  <1> QED
    BY <1>3, <1>4, <1>7, <1>8, <1>9, <1>10, <1>11, <1>12, <1>13, <1>14, <1>15,
       <1>16, StepCases

LEMMA OneAtATimePreserved ==
  ASSUME TypeOK, OneAtATime, [Next]_vars PROVE OneAtATime'
  <1>1. CASE UNCHANGED vars
    BY <1>1 DEF OneAtATime, vars, Busy
  <1>2. ASSUME NEW p \in Procs, Others(p), Busy(p), SameSpent
        PROVE  OneAtATime'
    BY <1>2 DEF Others, Kept, Busy, SameSpent, OneAtATime
  <1>3. ASSUME NEW p \in Procs, NEW r \in Runs, NEW dry \in BOOLEAN,
               Begin(p, r, dry)
        PROVE  OneAtATime'
    <2>1. /\ Others(p)
          /\ ~spent'.overlap => \A q \in Procs \ {p} : ~Busy(q)
      BY <1>3, BeginFacts
    <2> QED
      BY <2>1 DEF Others, Kept, Busy, OneAtATime
  <1>4. ASSUME NEW p \in Procs,
               \/ Probe(p) \/ Finish(p) \/ WriteManifest(p) \/ Abort(p)
        PROVE  OneAtATime'
    <2>1. Others(p) /\ Busy(p) /\ SameSpent
      BY <1>4, ProbeFacts, FinishFacts, ManifestFacts, AbortFacts DEF Busy
    <2> QED
      BY <1>2, <2>1
  <1>5. ASSUME NEW p \in Procs,
               Skip(p) \/ Reconfigure(p) \/ Create(p) \/ Configure(p)
        PROVE  OneAtATime'
    <2>1. Others(p) /\ SameSpent /\ (AtRule(p) \/ AtConfigure(p))
      BY <1>5, SkipFacts, ReconfigureFacts, CreateFacts, ConfigureFacts
         DEF Appends, IsNew
    <2> QED
      BY <1>2, <2>1, RuleIsTyped
  <1>6. ASSUME NEW id \in Live, People(id) PROVE OneAtATime'
    BY <1>6, EditFacts DEF OneAtATime, Kept, Busy
  <1> QED
    BY <1>1, <1>3, <1>4, <1>5, <1>6, StepCases

-----------------------------------------------------------------------------
\* What a pass saw: nobody else changed a schedule since.

\* Nobody but the pass itself has changed a schedule since it began.
Calm == spent.edits = 0 /\ ~spent.overlap
Alone(p) == pass[p].quiet \/ Calm
AtWork(p) == pass[p].pc \in {"rule", "configure"}

\* The rules that the pass has not begun with.
Pending(p) ==
  IF pass[p].pc = "configure" THEN Tail(pass[p].todo) ELSE pass[p].todo

SeenHasIds(p) == addin.lists = "ids" => \A v \in pass[p].seen : v.id # NoId
SeenIsThere(p) ==
  Alone(p) =>
    \A v \in pass[p].seen :
      v.id # NoId => v.id \in Live /\ schedules[v.id].name = v.name
NothingUnseen(p) ==
  Alone(p) /\ addin.lists # "no" =>
    \A id \in Live :
      \/ \E v \in pass[p].seen : v.name = schedules[id].name
      \/ \A i \in DOMAIN Pending(p) : Pending(p)[i].id # schedules[id].madeFor
SeenSound ==
  \A p \in Procs : AtWork(p) =>
    SeenHasIds(p) /\ SeenIsThere(p) /\ NothingUnseen(p)

LEMMA AtWorkIsTyped ==
  ASSUME TypeOK, NEW p \in Procs, AtRule(p) \/ AtConfigure(p)
  PROVE  AtWork(p)
  BY DEF AtWork, AtRule, AtConfigure

LEMMA WorkCases ==
  ASSUME TypeOK, OneAtATime, [Next]_vars, NEW q \in Procs, AtWork(q)'
  PROVE  /\ UNCHANGED addin
         /\ Alone(q)' => Alone(q)
         /\ \/ /\ Kept(q) /\ AtWork(q)
               /\ Alone(q)' => schedules' = schedules
            \/ Probe(q) \/ Skip(q) \/ Reconfigure(q) \/ Create(q) \/ Configure(q)
  <1>1. CASE UNCHANGED vars
    BY <1>1 DEF vars, Kept, Alone, Calm, AtWork
  <1>2. ASSUME NEW p \in Procs, p # q, NEW r \in Runs, NEW dry \in BOOLEAN,
               Begin(p, r, dry)
        PROVE  /\ UNCHANGED addin
               /\ Alone(q)' => Alone(q)
               /\ Kept(q) /\ AtWork(q) /\ schedules' = schedules
    BY <1>2, BeginFacts DEF Others, Kept, Alone, Calm, AtWork
  <1>3. ASSUME NEW p \in Procs, p # q, Others(p), Busy(p), SameSpent
        PROVE  /\ Alone(q)' => Alone(q) /\ schedules' = schedules
               /\ Kept(q) /\ AtWork(q)
    <2>1. Kept(q) /\ AtWork(q) /\ Busy(q)
      BY <1>3 DEF Others, Kept, AtWork, Busy
    <2>2. pass'[q].quiet => pass[q].quiet /\ schedules' = schedules
      BY <1>3, <2>1 DEF Others
    <2>3. ~Calm'
      BY <1>3, <2>1 DEF OneAtATime, Calm, SameSpent
    <2> QED
      BY <2>1, <2>2, <2>3 DEF Alone
  <1>4. ASSUME NEW p \in Procs,
               \/ Probe(p) \/ Finish(p) \/ WriteManifest(p) \/ Abort(p)
               \/ Skip(p) \/ Reconfigure(p) \/ Create(p) \/ Configure(p)
        PROVE  /\ Others(p) /\ Busy(p) /\ SameSpent /\ UNCHANGED addin
               /\ p = q => /\ ~WriteManifest(p) /\ ~Abort(p) /\ ~Finish(p)
                           /\ pass'[p].quiet => pass[p].quiet
    <2>1. CASE Skip(p) \/ Reconfigure(p) \/ Create(p) \/ Configure(p)
      <3>1. /\ Others(p) /\ SameSpent /\ GoesOn(p) /\ UNCHANGED addin
            /\ AtRule(p) \/ AtConfigure(p)
        BY <2>1, SkipFacts, ReconfigureFacts, CreateFacts, ConfigureFacts
           DEF Appends, IsNew
      <3>2. ~WriteManifest(p) /\ ~Finish(p)
        <4>1. pass'[p].pc \in {"rule", "configure"}
          BY <2>1, SkipFacts, ReconfigureFacts, CreateFacts, ConfigureFacts
             DEF Appends
        <4> QED
          BY <4>1, FinishFacts, ManifestFacts, IdleIsTyped
      <3>3. ~Abort(p)
        <4>1. pass'[p].pc \in {"rule", "configure"}
          BY <2>1, SkipFacts, ReconfigureFacts, CreateFacts, ConfigureFacts
             DEF Appends
        <4> QED
          BY <4>1, AbortFacts, IdleIsTyped
      <3> QED
        BY <3>1, <3>2, <3>3, RuleIsTyped DEF GoesOn
    <2>2. CASE Probe(p)
      <3>1. /\ Others(p) /\ Busy(p) /\ SameSpent /\ UNCHANGED addin
            /\ pass'[p].pc = "rule" /\ pass[p].pc = "probe"
            /\ pass'[p].quiet = pass[p].quiet
        BY <2>2, ProbeFacts
      <3>2. ~WriteManifest(p) /\ ~Finish(p)
        BY <3>1, FinishFacts, ManifestFacts
      <3>3. ~Abort(p)
        BY <3>1, AbortFacts, IdleIsTyped
      <3> QED
        BY <3>1, <3>2, <3>3
    <2>3. CASE Finish(p) \/ WriteManifest(p)
      <3>1. Others(p) /\ Busy(p) /\ SameSpent /\ UNCHANGED addin
        BY <2>3, FinishFacts, ManifestFacts DEF Busy
      <3>2. pass'[p].pc \in {"manifest", "idle"}
        BY <2>3, FinishFacts, ManifestFacts, IdleIsTyped
      <3> QED
        BY <3>1, <3>2 DEF AtWork
    <2>4. CASE Abort(p)
      <3>1. /\ Others(p) /\ Busy(p) /\ SameSpent /\ UNCHANGED addin
            /\ pass'[p] = Idle
        BY <2>4, AbortFacts
      <3> QED
        BY <3>1, IdleIsTyped DEF AtWork
    <2> QED
      BY <1>4, <2>1, <2>2, <2>3, <2>4
  <1>5. ASSUME NEW r \in Runs, NEW dry \in BOOLEAN, Begin(q, r, dry)
        PROVE  FALSE
    <2>1. pass'[q].pc = "probe"
      BY <1>5, BeginFacts
    <2> QED
      BY <2>1 DEF AtWork
  <1>6. ASSUME NEW id \in Live, People(id)
        PROVE  /\ UNCHANGED addin /\ ~Alone(q)'
               /\ Kept(q) /\ AtWork(q)
    <2>1. /\ Kept(q) /\ (Busy(q) => ~pass'[q].quiet) /\ UNCHANGED addin
          /\ spent'.edits # 0
      BY <1>6, EditFacts
    <2>2. AtWork(q) /\ Busy(q)
      BY <2>1 DEF Kept, AtWork, Busy
    <2> QED
      BY <2>1, <2>2 DEF Alone, Calm
  <1>7. SameSpent => (Calm' => Calm)
    BY DEF SameSpent, Calm
  <1>8. ASSUME NEW p \in Procs,
               \/ Probe(p) \/ Finish(p) \/ WriteManifest(p) \/ Abort(p)
               \/ Skip(p) \/ Reconfigure(p) \/ Create(p) \/ Configure(p)
        PROVE  /\ UNCHANGED addin
               /\ Alone(q)' => Alone(q)
               /\ \/ /\ Kept(q) /\ AtWork(q)
                     /\ Alone(q)' => schedules' = schedules
                  \/ Probe(q) \/ Skip(q) \/ Reconfigure(q) \/ Create(q)
                  \/ Configure(q)
    <2>1. CASE p = q
      BY <1>4, <1>7, <1>8, <2>1 DEF Alone
    <2>2. CASE p # q
      BY <1>3, <1>4, <1>8, <2>2
    <2> QED
      BY <2>1, <2>2
  <1> QED
    BY <1>1, <1>2, <1>5, <1>6, <1>8, StepCases

\* What a pass creates was not there.
LEMMA FreshName ==
  ASSUME TypeOK, SchedulesSound, NEW p \in Procs, IsNew(p), Alone(p),
         NothingUnseen(p), addin.lists # "no"
  PROVE  Name(Rule(p)) \notin Names
  <1> SUFFICES ASSUME NEW id \in Live, schedules[id].name = Name(Rule(p))
      PROVE  FALSE
    BY DEF Names
  <1>1. /\ AtRule(p) /\ pass[p].todo \in Seq(RuleViews) /\ pass[p].todo # <<>>
        /\ Rule(p) = pass[p].todo[1]
    BY RuleIsTyped DEF IsNew
  <1>2. Pending(p) = pass[p].todo /\ 1 \in DOMAIN Pending(p)
    BY <1>1 DEF Pending, AtRule
  <1>3. schedules[id].madeFor = Rule(p).id
    BY SchedulesAreTyped
       DEF SchedulesSound, Name, OwnName, DefaultName, KeptName
  <1>4. ~ \E v \in pass[p].seen : v.name = schedules[id].name
    BY DEF IsNew, Known
  <1> QED
    BY <1>1, <1>2, <1>3, <1>4 DEF NothingUnseen

LEMMA PendingAfterRow ==
  ASSUME TypeOK, NEW p \in Procs, AtRule(p) \/ AtConfigure(p),
         pass'[p].pc = "rule", pass'[p].todo = Tail(pass[p].todo)
  PROVE  \A i \in DOMAIN Pending(p)' :
           \E j \in DOMAIN Pending(p) : Pending(p)'[i] = Pending(p)[j]
  <1>1. pass[p].todo \in Seq(RuleViews) /\ pass[p].todo # <<>>
    BY RuleIsTyped
  <1>2. Pending(p)' = Tail(pass[p].todo)
    BY DEF Pending
  <1>3. CASE AtConfigure(p)
    BY <1>2, <1>3 DEF Pending, AtConfigure
  <1>4. CASE AtRule(p)
    <2>1. Pending(p) = pass[p].todo
      BY <1>4 DEF Pending, AtRule
    <2> QED
      BY <1>1, <1>2, <2>1
  <1> QED
    BY <1>3, <1>4

LEMMA SeenSoundPreserved ==
  ASSUME TypeOK, SchedulesSound, QueueSound, OneAtATime, SeenSound, [Next]_vars
  PROVE  SeenSound'
  <1> SUFFICES ASSUME NEW q \in Procs, AtWork(q)'
      PROVE  (SeenHasIds(q) /\ SeenIsThere(q) /\ NothingUnseen(q))'
    BY DEF SeenSound
  <1>1. UNCHANGED addin /\ (Alone(q)' => Alone(q))
    BY WorkCases
  <1>2. CASE AtWork(q) /\ Kept(q) /\ (Alone(q)' => schedules' = schedules)
    <2>1. SeenHasIds(q) /\ SeenIsThere(q) /\ NothingUnseen(q)
      BY <1>2 DEF SeenSound
    <2>2. Pending(q)' = Pending(q)
      BY <1>2 DEF Kept, Pending
    <2>3. SeenHasIds(q)'
      BY <1>1, <1>2, <2>1 DEF SeenHasIds, Kept
    <2>4. Alone(q)' => Live' = Live
      BY <1>2 DEF Live
    <2>5. SeenIsThere(q)'
      BY <1>1, <1>2, <2>1, <2>4 DEF SeenIsThere, Kept
    <2>6. NothingUnseen(q)'
      BY <1>1, <1>2, <2>1, <2>2, <2>4 DEF NothingUnseen, Kept
    <2> QED
      BY <2>3, <2>5, <2>6
  <1>3. CASE Probe(q)
    <2>1. pass'[q].seen = Listed /\ UNCHANGED schedules
      BY <1>3, ProbeFacts
    <2>2. \A id \in Live : id # NoId /\ id \in DOMAIN schedules
      BY SchedulesAreTyped
    <2>3. \A v \in Listed :
            /\ addin.lists = "ids" => v.id # NoId
            /\ v.id # NoId => v.id \in Live /\ schedules[v.id].name = v.name
      BY <2>2 DEF Listed
    <2>4. addin.lists # "no" =>
            \A id \in Live : \E v \in Listed : v.name = schedules[id].name
      <3>1. addin.lists \in {"ids", "names", "no"}
        BY ConstantsAssumption DEF TypeOK
      <3>2. ASSUME addin.lists = "ids", NEW id \in Live
            PROVE  \E v \in Listed : v.name = schedules[id].name
        <4>1. [name |-> schedules[id].name, id |-> id] \in Listed
          BY <3>2 DEF Listed
        <4> QED
          BY <4>1
      <3>3. ASSUME addin.lists = "names", NEW id \in Live
            PROVE  \E v \in Listed : v.name = schedules[id].name
        <4>1. [name |-> schedules[id].name, id |-> NoId] \in Listed
          BY <3>3 DEF Listed
        <4> QED
          BY <4>1
      <3> QED
        BY <3>1, <3>2, <3>3
    <2>5. Live' = Live
      BY <2>1 DEF Live
    <2>6. SeenHasIds(q)'
      BY <1>1, <2>1, <2>3 DEF SeenHasIds
    <2>7. SeenIsThere(q)'
      BY <2>1, <2>3, <2>5 DEF SeenIsThere
    <2>8. NothingUnseen(q)'
      BY <1>1, <2>1, <2>4, <2>5 DEF NothingUnseen
    <2> QED
      BY <2>6, <2>7, <2>8
  <1>4. ASSUME GoesOn(q), AtWork(q), SameSchedules,
               \A i \in DOMAIN Pending(q)' :
                 \E j \in DOMAIN Pending(q) : Pending(q)'[i] = Pending(q)[j]
        PROVE  (SeenHasIds(q) /\ SeenIsThere(q) /\ NothingUnseen(q))'
    <2>1. SeenHasIds(q) /\ SeenIsThere(q) /\ NothingUnseen(q)
      BY <1>4 DEF SeenSound
    <2>2. Live' = Live /\ \A id \in Live : id \in DOMAIN schedules
      BY <1>4, SameIsLive DEF Live
    <2>3. SeenHasIds(q)'
      BY <1>1, <1>4, <2>1 DEF SeenHasIds, GoesOn
    <2>4. SeenIsThere(q)'
      BY <1>1, <1>4, <2>1, <2>2 DEF SeenIsThere, GoesOn, SameSchedules
    <2>5. NothingUnseen(q)'
      BY <1>1, <1>4, <2>1, <2>2 DEF NothingUnseen, GoesOn, SameSchedules
    <2> QED
      BY <2>3, <2>4, <2>5
  <1>5. CASE Skip(q)
    <2>1. /\ GoesOn(q) /\ UNCHANGED schedules
          /\ AtRule(q) \/ AtConfigure(q)
          /\ pass'[q].pc = "rule" /\ pass'[q].todo = Tail(pass[q].todo)
      BY <1>5, SkipFacts DEF Appends
    <2> QED
      BY <1>4, <2>1, PendingAfterRow, SameIsSame, AtWorkIsTyped
  <1>6. CASE Reconfigure(q)
    <2>1. /\ GoesOn(q) /\ AtRule(q) /\ SeenId(q) \in DOMAIN schedules
          /\ Rule(q) \in RuleViews /\ pass[q].dry \in BOOLEAN
          /\ pass'[q].pc = "rule" /\ pass'[q].todo = Tail(pass[q].todo)
          /\ schedules' = Reconfigured(SeenId(q), Rule(q), TRUE, pass[q].dry)
      BY <1>6, ReconfigureFacts, RuleIsTyped
         DEF Appends, IsKnown, TypeOK, Passings
    <2>2. SameSchedules
      BY <2>1, ConfiguringKeeps
    <2> QED
      BY <1>4, <2>1, <2>2, PendingAfterRow, AtWorkIsTyped
  <1>7. CASE Configure(q)
    <2>1. /\ GoesOn(q) /\ AtConfigure(q) /\ (~pass[q].dry => pass[q].sid \in Live)
          /\ Rule(q) \in RuleViews
          /\ pass'[q].pc = "rule" /\ pass'[q].todo = Tail(pass[q].todo)
          /\ schedules' = IF pass[q].dry THEN schedules
                          ELSE Reconfigured(pass[q].sid, Rule(q), FALSE, FALSE)
      BY <1>7, ConfigureFacts, RuleIsTyped DEF Appends
    <2>2. SameSchedules
      BY <2>1, ConfiguringKeeps, SameIsSame, SchedulesAreTyped
    <2> QED
      BY <1>4, <2>1, <2>2, PendingAfterRow, AtWorkIsTyped
  <1>8. CASE Create(q)
    <2> DEFINE id == Len(schedules) + 1
               new == New(Given(q), Rule(q))
    <2>1. /\ GoesOn(q) /\ IsNew(q) /\ AtRule(q) /\ AtWork(q)
          /\ pass'[q].pc = "configure" /\ pass'[q].todo = pass[q].todo
          /\ schedules' = IF pass[q].dry THEN schedules
                          ELSE Append(schedules, new)
          /\ new \in Schedules
      BY <1>8, CreateFacts, AtWorkIsTyped DEF IsNew
    <2>2. SeenHasIds(q) /\ SeenIsThere(q) /\ NothingUnseen(q)
      BY <2>1 DEF SeenSound
    <2>3. \A i \in DOMAIN Pending(q)' :
            /\ Pending(q)'[i].id # Rule(q).id
            /\ \E j \in DOMAIN Pending(q) : Pending(q)'[i] = Pending(q)[j]
      <3>1. Pending(q)' = Tail(pass[q].todo) /\ Pending(q) = pass[q].todo
        BY <2>1 DEF Pending, AtRule
      <3>2. /\ Len(pass[q].todo) \in Nat \ {0}
            /\ Len(Tail(pass[q].todo)) = Len(pass[q].todo) - 1
            /\ \A i \in 1 .. Len(pass[q].todo) - 1 :
                 /\ Tail(pass[q].todo)[i] = pass[q].todo[i + 1]
                 /\ Tail(pass[q].todo)[i].id # Rule(q).id
        BY <2>1, QueueIsDistinct
      <3>3. pass[q].todo \in Seq(RuleViews) /\ pass[q].todo # <<>>
        BY <2>1, RuleIsTyped
      <3>4. /\ DOMAIN Pending(q)' = 1 .. Len(pass[q].todo) - 1
            /\ DOMAIN Pending(q) = 1 .. Len(pass[q].todo)
        BY <3>1, <3>2, <3>3
      <3> QED
        BY <3>1, <3>2, <3>4
    <2>4. CASE pass[q].dry
      BY <1>4, <2>1, <2>3, <2>4, SameIsSame
    <2>5. CASE ~pass[q].dry
      <3>1. /\ DOMAIN schedules' = DOMAIN schedules \cup {id}
            /\ id \notin DOMAIN schedules /\ schedules'[id] = new
            /\ \A i \in DOMAIN schedules : schedules'[i] = schedules[i]
        BY <2>1, <2>5, AddedFacts DEF Added
      <3>2. new.madeFor = Rule(q).id
        BY DEF New
      <3> HIDE DEF id, new
      <3>3. \A i \in Live' : i \in Live \/ i = id
        BY <3>1 DEF Live
      <3>4. \A i \in Live : /\ i \in Live' /\ i \in DOMAIN schedules
                            /\ schedules'[i] = schedules[i]
        BY <3>1 DEF Live
      <3>5. SeenHasIds(q)'
        BY <1>1, <2>1, <2>2 DEF SeenHasIds, GoesOn
      <3>6. SeenIsThere(q)'
        BY <1>1, <2>1, <2>2, <3>4 DEF SeenIsThere, GoesOn
      <3>7. NothingUnseen(q)'
        <4> SUFFICES ASSUME Alone(q)', addin'.lists # "no", NEW i \in Live'
            PROVE  \/ \E v \in pass'[q].seen : v.name = schedules'[i].name
                   \/ \A j \in DOMAIN Pending(q)' :
                        Pending(q)'[j].id # schedules'[i].madeFor
          BY DEF NothingUnseen
        <4>1. CASE i = id
          BY <2>3, <3>1, <3>2, <4>1
        <4>2. CASE i \in Live
          BY <1>1, <2>1, <2>2, <2>3, <3>4, <4>2 DEF NothingUnseen, GoesOn
        <4> QED
          BY <3>3, <4>1, <4>2
      <3> QED
        BY <3>5, <3>6, <3>7
    <2> QED
      BY <2>4, <2>5
  <1> QED
    BY <1>2, <1>3, <1>5, <1>6, <1>7, <1>8, WorkCases

-----------------------------------------------------------------------------
\* The schedule in hand between create and configure.

\* A schedule in hand is as the addin made it, under the rule's name where
\* Revit can take it.
InHand(p) ==
  LET rule == Rule(p)
  IN  /\ \/ pass[p].warned \/ addin.renames
         \/ Columns(rule) \subseteq Schedulable[rule.category]
      /\ ~pass[p].dry /\ Alone(p) =>
           /\ pass[p].sid \in DOMAIN schedules
           /\ schedules[pass[p].sid] = New(pass[p].name, rule)
           /\ addin.lists # "no" /\ rule.id \notin Forbidden =>
                pass[p].name = Name(rule)
HandSound == \A p \in Procs : AtConfigure(p) => InHand(p)

LEMMA HandSoundPreserved ==
  ASSUME TypeOK, SchedulesSound, OneAtATime, SeenSound, HandSound, [Next]_vars
  PROVE  HandSound'
  <1> SUFFICES ASSUME NEW q \in Procs, AtConfigure(q)' PROVE InHand(q)'
    BY DEF HandSound
  <1>1. AtWork(q)' /\ pass'[q].pc = "configure"
    BY DEF AtConfigure, AtWork
  <1>2. UNCHANGED addin /\ (Alone(q)' => Alone(q))
    BY <1>1, WorkCases
  <1>3. CASE Kept(q) /\ (Alone(q)' => schedules' = schedules)
    <2>1. AtConfigure(q)
      BY <1>1, <1>3 DEF Kept, AtConfigure
    <2>2. InHand(q)
      BY <2>1 DEF HandSound
    <2>3. Rule(q)' = Rule(q)
      BY <1>3 DEF Kept, Rule
    <2> QED
      BY <1>2, <1>3, <2>2, <2>3 DEF InHand, Kept
  <1>4. CASE Create(q)
    <2> DEFINE new == New(Given(q), Rule(q))
    <2>1. /\ IsNew(q) /\ (Appliable(Rule(q)) \/ addin.renames)
          /\ pass'[q].todo = pass[q].todo /\ pass'[q].dry = pass[q].dry
          /\ pass'[q].sid = Len(schedules) + 1 /\ pass'[q].name = Given(q)
          /\ \/ pass'[q].warned \/ addin.renames
             \/ Columns(Rule(q)) \subseteq Schedulable[Rule(q).category]
          /\ schedules' = IF pass[q].dry THEN schedules
                          ELSE Append(schedules, new)
          /\ new \in Schedules
      BY <1>4, CreateFacts DEF GoesOn
    <2>2. Rule(q)' = Rule(q)
      BY <2>1 DEF Rule
    <2>3. ASSUME ~pass[q].dry, Alone(q)'
          PROVE  /\ pass'[q].sid \in DOMAIN schedules'
                 /\ schedules'[pass'[q].sid] = new
                 /\ addin.lists # "no" /\ Rule(q).id \notin Forbidden =>
                      Given(q) = Name(Rule(q))
      <3>1. Added(new)
        BY <2>1, <2>3 DEF Added
      <3>2. /\ pass'[q].sid \in DOMAIN schedules'
            /\ schedules'[pass'[q].sid] = new
        BY <2>1, <3>1, AddedFacts
      <3>3. AtWork(q) /\ Alone(q)
        BY <1>2, <2>1, <2>3, AtWorkIsTyped DEF IsNew
      <3>4. addin.lists # "no" => Name(Rule(q)) \notin Names
        BY <2>1, <3>3, FreshName DEF SeenSound
      <3> QED
        BY <3>2, <3>4 DEF Given, Appliable
    <2> QED
      BY <1>2, <2>1, <2>2, <2>3 DEF InHand
  <1>5. CASE Probe(q) \/ Skip(q) \/ Reconfigure(q) \/ Configure(q)
    BY <1>1, <1>5, ProbeFacts, SkipFacts, ReconfigureFacts, ConfigureFacts
       DEF Appends
  <1> QED
    BY <1>1, <1>3, <1>4, <1>5, WorkCases

-----------------------------------------------------------------------------
\* One schedule per rule.

Singles ==
  addin.lists # "no" /\ Calm =>
    /\ \A id \in DOMAIN schedules :
         /\ ~schedules[id].deleted
         /\ schedules[id].madeFor \notin Forbidden =>
              schedules[id].name = OwnName(schedules[id].madeFor)
    /\ \A i, j \in DOMAIN schedules :
         schedules[i].madeFor = schedules[j].madeFor
           /\ schedules[i].madeFor \notin Forbidden => i = j

LEMMA CalmBefore ==
  ASSUME TypeOK, [Next]_vars, Calm'
  PROVE  Calm /\ UNCHANGED addin /\ ~ \E id \in Live : People(id)
  <1>1. ASSUME SameSpent PROVE Calm
    BY <1>1 DEF SameSpent, Calm
  <1>2. ASSUME UNCHANGED vars PROVE Calm /\ UNCHANGED addin
    BY <1>2 DEF vars, Calm
  <1>3. ASSUME NEW p \in Procs, NEW r \in Runs, NEW dry \in BOOLEAN,
               Begin(p, r, dry)
        PROVE  Calm /\ UNCHANGED addin
    <2>1. /\ UNCHANGED <<addin, schedules>>
          /\ spent'.edits = spent.edits
          /\ ~spent'.overlap => ~spent.overlap
      BY <1>3, BeginFacts
    <2> QED
      BY <2>1 DEF Calm
  <1>4. ASSUME NEW p \in Procs,
               \/ Probe(p) \/ Finish(p) \/ WriteManifest(p) \/ Abort(p)
               \/ Skip(p) \/ Reconfigure(p) \/ Create(p) \/ Configure(p)
        PROVE  Calm /\ UNCHANGED addin
    <2>1. CASE Probe(p) \/ Finish(p) \/ WriteManifest(p) \/ Abort(p)
      BY <1>1, <2>1, ProbeFacts, FinishFacts, ManifestFacts, AbortFacts
    <2>2. CASE Skip(p) \/ Reconfigure(p) \/ Create(p) \/ Configure(p)
      BY <1>1, <2>2, SkipFacts, ReconfigureFacts, CreateFacts, ConfigureFacts
    <2> QED
      BY <1>4, <2>1, <2>2
  <1>5. ~ \E id \in Live : People(id)
    BY EditFacts DEF Calm
  <1> QED
    BY <1>2, <1>3, <1>4, <1>5, StepCases

LEMMA SinglesPreserved ==
  ASSUME TypeOK, SchedulesSound, SeenSound, Singles, [Next]_vars
  PROVE  Singles'
  <1> SUFFICES ASSUME addin'.lists # "no", Calm'
      PROVE  /\ \A id \in DOMAIN schedules' :
                  /\ ~schedules'[id].deleted
                  /\ schedules'[id].madeFor \notin Forbidden =>
                       schedules'[id].name = OwnName(schedules'[id].madeFor)
             /\ \A i, j \in DOMAIN schedules' :
                  schedules'[i].madeFor = schedules'[j].madeFor
                    /\ schedules'[i].madeFor \notin Forbidden => i = j
    BY DEF Singles
  <1>1. Calm /\ UNCHANGED addin /\ ~ \E id \in Live : People(id)
    BY CalmBefore
  <1>2. /\ \A id \in DOMAIN schedules :
             /\ ~schedules[id].deleted
             /\ schedules[id].madeFor \notin Forbidden =>
                  schedules[id].name = OwnName(schedules[id].madeFor)
        /\ \A i, j \in DOMAIN schedules :
             schedules[i].madeFor = schedules[j].madeFor
               /\ schedules[i].madeFor \notin Forbidden => i = j
    BY <1>1 DEF Singles
  <1>3. CASE SameSchedules
    BY <1>2, <1>3 DEF SameSchedules
  <1>4. ASSUME NEW p \in Procs, IsNew(p), Rule(p) \in RuleViews,
               Added(New(Given(p), Rule(p)))
        PROVE  /\ \A id \in DOMAIN schedules' :
                    /\ ~schedules'[id].deleted
                    /\ schedules'[id].madeFor \notin Forbidden =>
                         schedules'[id].name = OwnName(schedules'[id].madeFor)
               /\ \A i, j \in DOMAIN schedules' :
                    schedules'[i].madeFor = schedules'[j].madeFor
                      /\ schedules'[i].madeFor \notin Forbidden => i = j
    <2> DEFINE new == New(Given(p), Rule(p))
               n == Len(schedules) + 1
    <2>1. new.madeFor = Rule(p).id /\ new.name = Given(p) /\ ~new.deleted
      BY DEF New
    <2>2. /\ DOMAIN schedules' = DOMAIN schedules \cup {n}
          /\ schedules'[n] = new
          /\ \A i \in DOMAIN schedules : schedules'[i] = schedules[i]
      BY <1>4, AddedFacts
    <2>3. Name(Rule(p)) \notin Names
      <3>1. AtWork(p) /\ Alone(p)
        BY <1>1, <1>4, AtWorkIsTyped DEF IsNew, Alone
      <3> QED
        BY <1>1, <1>4, <3>1, FreshName DEF SeenSound
    <2>4. Rule(p).id \notin Forbidden => Given(p) = OwnName(Rule(p).id)
      BY <2>3 DEF Given, Appliable, Name, OwnName
    <2>5. Rule(p).id \notin Forbidden =>
            \A i \in DOMAIN schedules : schedules[i].madeFor # Rule(p).id
      <3> SUFFICES ASSUME NEW i \in DOMAIN schedules,
                          schedules[i].madeFor = Rule(p).id,
                          Rule(p).id \notin Forbidden
          PROVE  FALSE
        OBVIOUS
      <3>1. i \in Live /\ schedules[i].name = Name(Rule(p))
        BY <1>2 DEF Live, Name, OwnName
      <3> QED
        BY <2>3, <3>1 DEF Names
    <2> HIDE DEF new, n
    <2> QED
      BY <1>2, <2>1, <2>2, <2>4, <2>5
  <1> QED
    BY <1>1, <1>3, <1>4, ScheduleCases

\* The inductive invariant of the passes.
ViewsInv ==
  /\ TypeOK /\ SchedulesSound /\ QueueSound /\ ToldSound
  /\ OneAtATime /\ SeenSound /\ HandSound /\ Singles

THEOREM ViewsInvariance == Spec => []ViewsInv
  <1>1. Init => ViewsInv
    <2> SUFFICES ASSUME Init PROVE ViewsInv
      OBVIOUS
    <2>1. TypeOK
      BY InitIsTyped
    <2>2. \A p \in Procs : pass[p].pc = "idle" /\ pass[p].told = {}
      BY IdleIsTyped DEF Init
    <2>3. QueueSound /\ ToldSound /\ OneAtATime
      BY <2>2 DEF QueueSound, ToldSound, OneAtATime, Busy
    <2>4. SeenSound /\ HandSound
      BY <2>2 DEF SeenSound, HandSound, AtWork, AtConfigure
    <2>5. DOMAIN schedules = {}
      BY DEF Init
    <2>6. SchedulesSound /\ Singles
      BY <2>5 DEF SchedulesSound, Singles
    <2> QED
      BY <2>1, <2>3, <2>4, <2>6 DEF ViewsInv
  <1>2. ViewsInv /\ [Next]_vars => ViewsInv'
    BY TypesPreserved, SchedulesSoundPreserved, QueueSoundPreserved,
       ToldSoundPreserved, OneAtATimePreserved, SeenSoundPreserved,
       HandSoundPreserved, SinglesPreserved DEF ViewsInv
  <1> QED
    BY <1>1, <1>2, PTL DEF Spec

\* create_verification_schedules: over any number of passes that do not
\* overlap, and crashes between creating and configuring, a rule has one
\* schedule.
THEOREM SchedulesAreSingle == Spec => []OneSchedulePerRule
  <1>1. ViewsInv => OneSchedulePerRule
    BY DEF ViewsInv, Singles, OneSchedulePerRule, Calm, Live
  <1> QED
    BY <1>1, ViewsInvariance, PTL

\* manifest_dict: the ids of everything a pass was told it made are in the
\* manifest, also of what it could not configure.
THEOREM ManifestIsComplete == Spec => ManifestNamesWhatItMade
  <1>1. ViewsInv /\ [Next]_vars =>
          [\A p \in Procs :
             pass[p].pc = "manifest" /\ pass'[p].pc = "idle" =>
               \A id \in pass[p].told :
                 \E i \in DOMAIN pass[p].rows : pass[p].rows[i].id = id]_vars
    BY DEF ViewsInv, ToldSound
  <1> QED
    BY <1>1, ViewsInvariance, PTL DEF Spec, ManifestNamesWhatItMade

-----------------------------------------------------------------------------
\* Rows that claim a configured schedule.

LEMMA RowCases ==
  ASSUME TypeOK, [Next]_vars, NEW p \in Procs, NewRow(p)
  PROVE  Skip(p) \/ Reconfigure(p) \/ Configure(p)
  <1>1. pass[p].rows \in Seq(Rows) /\ Len(pass[p].rows) \in Nat
    BY DEF TypeOK, Passings
  <1>2. ~Kept(p)
    BY <1>1 DEF Kept, NewRow
  <1>3. ~UNCHANGED vars
    BY <1>1 DEF vars, NewRow
  <1>4. \A id \in Live : ~People(id)
    BY <1>2, EditFacts
  <1>5. ASSUME pass'[p].rows = <<>> \/ pass'[p].rows = pass[p].rows
        PROVE  FALSE
    BY <1>1, <1>5 DEF NewRow
  <1>6. /\ \A r \in Runs, dry \in BOOLEAN : ~Begin(p, r, dry)
        /\ ~Probe(p) /\ ~Create(p) /\ ~Finish(p) /\ ~WriteManifest(p) /\ ~Abort(p)
    <2>1. \A r \in Runs, dry \in BOOLEAN : ~Begin(p, r, dry)
      <3> SUFFICES ASSUME NEW r \in Runs, NEW dry \in BOOLEAN, Begin(p, r, dry)
          PROVE  FALSE
        OBVIOUS
      <3>1. pass'[p].rows = <<>>
        BY BeginFacts
      <3> QED
        BY <1>5, <3>1
    <2>2. ~Probe(p) /\ ~Create(p) /\ ~Finish(p)
      BY <1>5, ProbeFacts, CreateFacts, FinishFacts
    <2>3. ~WriteManifest(p) /\ ~Abort(p)
      BY <1>5, ManifestFacts, AbortFacts, IdleIsTyped
    <2> QED
      BY <2>1, <2>2, <2>3
  <1>7. ASSUME NEW q \in Procs,
               \/ \E r \in Runs, dry \in BOOLEAN : Begin(q, r, dry)
               \/ Probe(q) \/ Skip(q) \/ Reconfigure(q) \/ Create(q)
               \/ Configure(q) \/ Finish(q) \/ WriteManifest(q) \/ Abort(q)
        PROVE  Skip(p) \/ Reconfigure(p) \/ Configure(p)
    <2>1. q = p
      BY <1>2, <1>7, PassesKeepOthers DEF Others
    <2> QED
      BY <1>6, <1>7, <2>1
  <1> QED
    BY <1>3, <1>4, <1>7, StepCases

\* What the reader is promised of a schedule by its row.
CleanRow(p, row, s) ==
  ~row.warned =>
    /\ row.status = "existing_reconfigured" =>
         ~s.deleted /\ Reproduces(s, Rule(p))
    /\ row.status = "created" /\ pass[p].quiet =>
         /\ ~s.deleted /\ Reproduces(s, Rule(p))
         /\ s.name = Name(Rule(p))
         /\ addin.renames \/ Columns(Rule(p)) \subseteq s.cols

LEMMA ReconfiguredIsClean ==
  ASSUME TypeOK, NEW p \in Procs, ~pass[p].dry, Reconfigure(p)
  PROVE  LET row == Row(Rule(p), "existing_reconfigured", SeenId(p),
                        Name(Rule(p)), Warns(SeenId(p), Rule(p)))
         IN  CleanRow(p, row, schedules'[row.id])
  <1> DEFINE id == SeenId(p)
             row == Row(Rule(p), "existing_reconfigured", id, Name(Rule(p)),
                        Warns(id, Rule(p)))
  <1>1. /\ id \in Live /\ id \in DOMAIN schedules /\ AtRule(p)
        /\ schedules' = Reconfigured(id, Rule(p), TRUE, FALSE)
    <2>1. pass[p].dry = FALSE
      BY DEF TypeOK, Passings
    <2> QED
      BY <2>1, ReconfigureFacts DEF IsKnown
  <1>2. /\ row.id = id /\ row.status = "existing_reconfigured"
        /\ row.warned = (Rule(p).param \notin Schedulable[schedules[id].category])
    BY DEF Row, Warns
  <1>3. Rule(p) \in RuleViews /\ schedules[id] \in Schedules
    BY <1>1, RuleIsTyped, SchedulesAreTyped
  <1>4. schedules'[id] = Configured(schedules[id], Rule(p), TRUE)
    BY <1>1, <1>3, SchedulesStay
  <1>5. schedules'[id].deleted = schedules[id].deleted /\ ~schedules[id].deleted
    <2>1. Configured(schedules[id], Rule(p), TRUE).deleted = schedules[id].deleted
      BY <1>3, ConfiguredIsTyped
    <2> QED
      BY <1>1, <1>4, <2>1 DEF Live
  <1>6. ~row.warned => Reproduces(schedules'[id], Rule(p))
    BY <1>2, <1>3, <1>4, ConfiguredReproduces
  <1> QED
    BY <1>2, <1>5, <1>6 DEF CleanRow

LEMMA CreatedIsClean ==
  ASSUME TypeOK, HandSound, NEW p \in Procs, ~pass[p].dry, Configure(p)
  PROVE  LET rule == Rule(p)
             row == Row(rule, CreatedAs(p), pass[p].sid, pass[p].name,
                        pass[p].warned
                          \/ rule.param \notin Schedulable[rule.category])
         IN  CleanRow(p, row, schedules'[row.id])
  <1> DEFINE rule == Rule(p)
             id == pass[p].sid
             row == Row(rule, CreatedAs(p), id, pass[p].name,
                        pass[p].warned
                          \/ rule.param \notin Schedulable[rule.category])
             s == New(pass[p].name, rule)
  <1>1. /\ id \in Live /\ AtConfigure(p)
        /\ schedules' = Reconfigured(id, rule, FALSE, FALSE)
    BY ConfigureFacts
  <1>2. /\ row.id = id /\ row.status = CreatedAs(p)
        /\ row.warned = (pass[p].warned
                           \/ rule.param \notin Schedulable[rule.category])
    BY DEF Row
  <1>3. row.status # "existing_reconfigured"
    BY <1>2 DEF CreatedAs
  <1>4. SUFFICES ASSUME ~row.warned, row.status = "created", pass[p].quiet
        PROVE  /\ ~schedules'[id].deleted /\ Reproduces(schedules'[id], rule)
               /\ schedules'[id].name = Name(rule)
               /\ addin.renames \/ Columns(rule) \subseteq schedules'[id].cols
    BY <1>2, <1>3 DEF CleanRow
  <1>5. ~pass[p].warned /\ rule.param \in Schedulable[rule.category]
    BY <1>2, <1>4 DEF TypeOK, Passings
  <1>6. pass[p].name = Name(rule)
    BY <1>2, <1>4 DEF CreatedAs
  <1>7. id \in DOMAIN schedules /\ schedules[id] = s
    BY <1>1, <1>4 DEF HandSound, InHand, Alone
  <1>8. addin.renames \/ Columns(rule) \subseteq Schedulable[rule.category]
    BY <1>1, <1>5 DEF HandSound, InHand
  <1>9. rule \in RuleViews /\ s \in Schedules
    BY <1>1, <1>7, RuleIsTyped, SchedulesAreTyped
  <1>10. schedules'[id] = Configured(s, rule, FALSE)
    <2> HIDE DEF s, rule
    <2> QED
      BY <1>1, <1>7, <1>9, SchedulesStay
  <1>11. /\ s.name = Name(rule) /\ s.category = rule.category /\ ~s.deleted
         /\ s.sort = <<>> /\ s.filters = {}
         /\ s.cols = Columns(rule) \cap Schedulable[rule.category]
    BY <1>6 DEF New
  <1>12. Reproduces(schedules'[id], rule)
    <2> HIDE DEF s, rule
    <2> QED
      BY <1>4, <1>5, <1>9, <1>10, <1>11, ConfiguredReproduces
  <1>13. ~schedules'[id].deleted /\ schedules'[id].name = Name(rule)
    <2> HIDE DEF s, rule
    <2>1. /\ Configured(s, rule, FALSE).deleted = s.deleted
          /\ Configured(s, rule, FALSE).name = s.name
      BY <1>9, ConfiguredIsTyped
    <2> QED
      BY <1>10, <1>11, <2>1
  <1>14. addin.renames \/ Columns(rule) \subseteq schedules'[id].cols
    <2>1. s.cols \subseteq Configured(s, rule, FALSE).cols
      <3> HIDE DEF s, rule
      <3> QED
        <4>1. /\ s = [s EXCEPT !.cols = s.cols]
              /\ \A c, so, f : [s EXCEPT !.cols = c, !.sort = so,
                                         !.filters = f].cols = c
          BY <1>9 DEF Schedules
        <4> QED
          BY <4>1 DEF Configured
    <2> HIDE DEF s, rule
    <2> QED
      BY <1>8, <1>10, <1>11, <2>1
  <1> QED
    BY <1>12, <1>13, <1>14

\* A row that claims a configured schedule without a warning is true, whatever
\* an earlier pass, an edited rule of the same id or a person left in it.
THEOREM CleanRowsTrue == Spec => CleanRowsAreTrue
  <1>1. ASSUME ViewsInv, [Next]_vars, NEW p \in Procs, NewRow(p), ~pass[p].dry
        PROVE  LET row == Last(pass'[p].rows)
               IN  CleanRow(p, row, schedules'[row.id])
    <2>1. TypeOK /\ HandSound
      BY <1>1 DEF ViewsInv
    <2>2. ASSUME NEW row, Appends(p, row), CleanRow(p, row, schedules'[row.id])
          PROVE  LET last == Last(pass'[p].rows)
                 IN  CleanRow(p, last, schedules'[last.id])
      <3>1. Last(pass'[p].rows) = row
        BY <2>1, <2>2, AppendedRow DEF Last
      <3> QED
        BY <2>2, <3>1
    <2>3. CASE Skip(p)
      <3>1. PICK row \in Rows : Appends(p, row) /\ Told(p, row)
        BY <2>1, <2>3, SkipFacts
      <3>2. CleanRow(p, row, schedules'[row.id])
        BY <3>1 DEF Told, CleanRow
      <3> QED
        BY <2>2, <3>1, <3>2
    <2>4. CASE Reconfigure(p)
      BY <1>1, <2>1, <2>2, <2>4, ReconfigureFacts, ReconfiguredIsClean
    <2>5. CASE Configure(p)
      BY <1>1, <2>1, <2>2, <2>5, ConfigureFacts, CreatedIsClean
    <2> QED
      BY <1>1, <2>1, <2>3, <2>4, <2>5, RowCases
  <1>2. ViewsInv /\ [Next]_vars =>
          [\A p \in Procs :
             NewRow(p) /\ ~pass[p].dry =>
               LET row == Last(pass'[p].rows)
                   s == schedules'[row.id]
               IN  ~row.warned =>
                     /\ row.status = "existing_reconfigured" =>
                          ~s.deleted /\ Reproduces(s, Rule(p))
                     /\ row.status = "created" /\ pass[p].quiet =>
                          /\ ~s.deleted /\ Reproduces(s, Rule(p))
                          /\ s.name = Name(Rule(p))
                          /\ addin.renames \/ Columns(Rule(p)) \subseteq s.cols]_vars
    BY <1>1 DEF CleanRow
  <1> QED
    BY <1>2, ViewsInvariance, PTL DEF Spec, CleanRowsAreTrue

-----------------------------------------------------------------------------
\* Passes that repair what earlier ones left.

\* The rules that a schedule can reproduce, and those that one does.
Expected(v) == v.id \notin Forbidden /\ v.param \in Schedulable[v.category]
Shown(v) ==
  \E id \in Live : schedules[id].name = Name(v) /\ Reproduces(schedules[id], v)

\* The pass has warned of the rule's schedule.
Warned(p, v) ==
  \E k \in DOMAIN pass[p].rows :
    pass[p].rows[k].rule = v.id /\ pass[p].rows[k].warned

DoneRules(p) == {Trace[pass[p].run][i] : i \in Done(p)}

Repairing == addin.creates /\ addin.configures /\ addin.lists = "ids"
DoneSound ==
  Repairing =>
    \A p \in Procs :
      AtWork(p) /\ pass[p].quiet /\ ~pass[p].dry =>
        \A v \in DoneRules(p) : Expected(v) => Shown(v) \/ Warned(p, v)

LEMMA NameTells ==
  ASSUME TypeOK, SchedulesSound, NEW id \in DOMAIN schedules, NEW v,
         schedules[id].name = Name(v)
  PROVE  schedules[id].madeFor = v.id
  BY SchedulesAreTyped DEF SchedulesSound, Name, OwnName, DefaultName, KeptName

\* A pass that is alone stays so in every step of its own.
LEMMA QuietBefore ==
  ASSUME TypeOK, [Next]_vars, NEW q \in Procs, AtWork(q)', pass'[q].quiet
  PROVE  pass[q].quiet
  <1>1. CASE UNCHANGED vars
    BY <1>1 DEF vars
  <1>2. ASSUME NEW p \in Procs, p # q, Others(p) PROVE pass[q].quiet
    BY <1>2 DEF Others
  <1>3. CASE \/ Probe(q) \/ Skip(q) \/ Reconfigure(q) \/ Create(q)
             \/ Configure(q) \/ Finish(q)
    BY <1>3, ProbeFacts, SkipFacts, ReconfigureFacts, CreateFacts,
       ConfigureFacts, FinishFacts DEF GoesOn
  <1>4. ~WriteManifest(q) /\ ~Abort(q)
    BY ManifestFacts, AbortFacts, IdleIsTyped DEF AtWork
  <1>5. ASSUME NEW r \in Runs, NEW dry \in BOOLEAN, Begin(q, r, dry)
        PROVE  FALSE
    <2>1. pass'[q].pc = "probe"
      BY <1>5, BeginFacts
    <2> QED
      BY <2>1 DEF AtWork
  <1>6. ASSUME NEW id \in Live, People(id) PROVE FALSE
    BY <1>6, EditFacts DEF AtWork, Kept, Busy
  <1>7. ASSUME NEW p \in Procs,
               \/ \E r \in Runs, dry \in BOOLEAN : Begin(p, r, dry)
               \/ Probe(p) \/ Skip(p) \/ Reconfigure(p) \/ Create(p)
               \/ Configure(p) \/ Finish(p) \/ WriteManifest(p) \/ Abort(p)
        PROVE  pass[q].quiet
    <2>1. CASE p = q
      BY <1>3, <1>4, <1>5, <1>7, <2>1
    <2>2. CASE p # q
      BY <1>2, <1>7, <2>2, PassesKeepOthers
    <2> QED
      BY <2>1, <2>2
  <1> QED
    BY <1>1, <1>6, <1>7, StepCases

\* With the row of a rule the rule is done.
LEMMA DoneGrows ==
  ASSUME TypeOK, QueueSound, NEW q \in Procs, AtRule(q) \/ AtConfigure(q),
         pass'[q].run = pass[q].run, pass'[q].todo = Tail(pass[q].todo),
         NEW v \in DoneRules(q)'
  PROVE  \/ v = Rule(q)
         \/ v \in DoneRules(q) /\ v \in RuleViews /\ v.id # Rule(q).id
  <1> DEFINE todo == pass[q].todo
             all == Trace[pass[q].run]
  <1>1. /\ Len(todo) \in Nat \ {0} /\ Len(all) \in Nat
        /\ Rule(q) = all[Len(all) - Len(todo) + 1]
        /\ Len(Tail(todo)) = Len(todo) - 1
    BY QueueIsDistinct
  <1>2. PICK i \in 1 .. Len(all) - Len(Tail(todo)) : v = all[i]
    BY DEF Done, DoneRules
  <1>3. i \in 1 .. Len(all) - Len(todo) \/ i = Len(all) - Len(todo) + 1
    <2> HIDE DEF todo, all
    <2> QED
      BY <1>1, <1>2
  <1>4. i \in Done(q) => v \in RuleViews /\ v.id # Rule(q).id
    BY <1>2, QueueIsDistinct
  <1> QED
    BY <1>1, <1>2, <1>3, <1>4 DEF Done, DoneRules

\* Configuring a schedule leaves what the schedules of other rules show.
LEMMA ShownStays ==
  ASSUME TypeOK, SchedulesSound, NEW id \in DOMAIN schedules,
         NEW v \in RuleViews, NEW clear \in BOOLEAN,
         schedules' = Reconfigured(id, v, clear, FALSE),
         schedules[id].madeFor = v.id,
         NEW w, w.id # v.id, Shown(w)
  PROVE  Shown(w)'
  <1>1. PICK i \in Live : schedules[i].name = Name(w) /\ Reproduces(schedules[i], w)
    BY DEF Shown
  <1>2. i \in DOMAIN schedules /\ i # id
    BY <1>1, NameTells, SchedulesAreTyped
  <1>3. schedules'[i] = schedules[i]
    <2>1. \A j \in DOMAIN schedules \ {id} :
            Reconfigured(id, v, clear, FALSE)[j] = schedules[j]
      BY SchedulesStay
    <2> QED
      BY <1>2, <2>1
  <1>4. i \in Live'
    BY <1>1, ConfiguringKeeps, SameIsLive
  <1> QED
    BY <1>1, <1>3, <1>4 DEF Shown

\* The schedule that is configured for a rule shows it, where it is cleared or
\* new and is of a category that has the field of the rule.
LEMMA ConfiguredIsShown ==
  ASSUME TypeOK, NEW id \in Live, NEW v \in RuleViews, NEW clear \in BOOLEAN,
         schedules' = Reconfigured(id, v, clear, FALSE),
         schedules[id].name = Name(v),
         v.param \in Schedulable[schedules[id].category],
         clear \/ (schedules[id].sort = <<>> /\ schedules[id].filters = {})
  PROVE  Shown(v)'
  <1>1. id \in DOMAIN schedules /\ schedules[id] \in Schedules
    BY SchedulesAreTyped
  <1>2. schedules'[id] = Configured(schedules[id], v, clear)
    BY <1>1, SchedulesStay
  <1>3. Configured(schedules[id], v, clear).name = Name(v)
    BY <1>1, ConfiguredIsTyped
  <1>4. Reproduces(Configured(schedules[id], v, clear), v)
    BY <1>1, ConfiguredReproduces
  <1>5. id \in Live'
    BY <1>1, ConfiguringKeeps, SameIsLive
  <1> QED
    BY <1>2, <1>3, <1>4, <1>5 DEF Shown

\* A rule that a quiet pass leaves alone is one that no schedule can show.
LEMMA SkippedIsUnexpected ==
  ASSUME TypeOK, SchedulesSound, SeenSound, Repairing, NEW q \in Procs,
         Skip(q), pass[q].quiet, pass'[q].quiet
  PROVE  ~Expected(Rule(q))
  <1>1. \/ ReportUnreachable(q) \/ ReconfigureGone(q)
        \/ CreateCollides(q) \/ CreateInvalid(q) \/ CreateUnavailable(q)
    BY SkipFacts
  <1>2. Alone(q) /\ addin.lists = "ids" /\ addin.creates
    BY DEF Alone, Repairing
  <1>3. CASE ReportUnreachable(q) \/ ReconfigureGone(q)
    <2>1. IsKnown(q) /\ (SeenId(q) = NoId \/ SeenId(q) \notin Live)
      BY <1>3 DEF ReportUnreachable, ReconfigureGone
    <2>2. PICK v \in pass[q].seen : v.name = Name(Rule(q)) /\ v.id = SeenId(q)
      BY <2>1, SeenIsTyped
    <2>3. SeenHasIds(q) /\ SeenIsThere(q)
      BY <2>1, SeenIsTyped, AtWorkIsTyped DEF SeenSound
    <2> QED
      BY <1>2, <2>1, <2>2, <2>3 DEF SeenHasIds, SeenIsThere
  <1>4. CASE CreateCollides(q)
    <2>1. IsNew(q) /\ Name(Rule(q)) \in Names
      BY <1>4 DEF CreateCollides
    <2>2. NothingUnseen(q)
      BY <2>1, AtWorkIsTyped DEF SeenSound, IsNew
    <2> QED
      BY <1>2, <2>1, <2>2, FreshName
  <1>5. CASE CreateInvalid(q)
    BY <1>5 DEF CreateInvalid, Expected
  <1>6. CASE CreateUnavailable(q)
    BY <1>2, <1>6 DEF CreateUnavailable
  <1> QED
    BY <1>1, <1>3, <1>4, <1>5, <1>6

\* Every other rule that has its schedule keeps it, and the rule at hand gets
\* one, or a warning.
Repairs(q, rule) ==
  /\ \A v \in RuleViews : v.id # rule.id /\ Shown(v) => Shown(v)'
  /\ Expected(rule) => Shown(rule)' \/ Warned(q, rule)'

\* Rows stay, and a new one that warns is a warning.
LEMMA WarnedFacts ==
  ASSUME TypeOK, NEW q \in Procs, NEW row, Appends(q, row)
  PROVE  /\ \A v : Warned(q, v) => Warned(q, v)'
         /\ \A v : row.rule = v.id /\ row.warned => Warned(q, v)'
  <1>1. pass[q].rows \in Seq(Rows)
    BY DEF TypeOK, Passings
  <1>2. pass'[q].rows = Append(pass[q].rows, row)
    BY DEF Appends
  <1>3. /\ DOMAIN pass[q].rows \subseteq DOMAIN pass'[q].rows
        /\ \A k \in DOMAIN pass[q].rows : pass'[q].rows[k] = pass[q].rows[k]
        /\ Len(pass[q].rows) + 1 \in DOMAIN pass'[q].rows
        /\ pass'[q].rows[Len(pass[q].rows) + 1] = row
    BY <1>1, <1>2
  <1> QED
    BY <1>3 DEF Warned

LEMMA ReconfigureRepairs ==
  ASSUME TypeOK, SchedulesSound, SeenSound, NEW q \in Procs,
         Reconfigure(q), pass[q].quiet, ~pass[q].dry,
         NEW rule, rule = Rule(q)
  PROVE  Repairs(q, rule)
  <1>0. rule \in RuleViews
    BY ReconfigureFacts, RuleIsTyped DEF IsKnown
  <1>1. /\ SeenId(q) \in Live /\ SeenId(q) \in DOMAIN schedules /\ IsKnown(q)
        /\ schedules' = Reconfigured(SeenId(q), rule, TRUE, FALSE)
        /\ Appends(q, Row(rule, "existing_reconfigured", SeenId(q),
                          Name(rule), Warns(SeenId(q), rule)))
    <2>1. pass[q].dry = FALSE
      BY DEF TypeOK, Passings
    <2> QED
      BY <2>1, ReconfigureFacts
  <1>2. PICK id : id = SeenId(q)
    OBVIOUS
  <1>3. schedules[id].name = Name(rule)
    <2>1. PICK v \in pass[q].seen : v.name = Name(rule) /\ v.id = id
      BY <1>1, <1>2, SeenIsTyped
    <2>2. SeenIsThere(q) /\ Alone(q)
      BY <1>1, SeenIsTyped, AtWorkIsTyped DEF SeenSound, Alone
    <2>3. id # NoId
      BY <1>1, <1>2, SchedulesAreTyped
    <2> QED
      BY <2>1, <2>2, <2>3 DEF SeenIsThere
  <1>4. schedules[id].madeFor = rule.id
    BY <1>1, <1>2, <1>3, NameTells
  <1>5. ASSUME NEW v \in RuleViews, v.id # rule.id, Shown(v) PROVE Shown(v)'
    BY <1>0, <1>1, <1>2, <1>4, <1>5, ShownStays
  <1>6. CASE rule.param \in Schedulable[schedules[id].category]
    <2>1. Shown(rule)'
      BY <1>0, <1>1, <1>2, <1>3, <1>6, ConfiguredIsShown
    <2> QED
      BY <1>5, <2>1 DEF Repairs
  <1>7. CASE rule.param \notin Schedulable[schedules[id].category]
    <2> DEFINE row == Row(rule, "existing_reconfigured", id, Name(rule),
                          Warns(id, rule))
    <2>1. row.rule = rule.id /\ row.warned
      BY <1>7 DEF Row, Warns
    <2>2. Appends(q, row)
      BY <1>1, <1>2
    <2> HIDE DEF row
    <2>3. Warned(q, rule)'
      BY <2>1, <2>2, WarnedFacts
    <2> QED
      BY <1>5, <2>3 DEF Repairs
  <1> QED
    BY <1>6, <1>7

LEMMA ConfigureRepairs ==
  ASSUME TypeOK, SchedulesSound, HandSound, NEW q \in Procs, Configure(q),
         pass[q].quiet, ~pass[q].dry, addin.lists # "no",
         NEW rule, rule = Rule(q)
  PROVE  Repairs(q, rule)
  <1>0. rule \in RuleViews
    BY ConfigureFacts, RuleIsTyped
  <1>1. PICK id : id = pass[q].sid
    OBVIOUS
  <1>2. PICK name : name = pass[q].name
    OBVIOUS
  <1>3. /\ id \in Live /\ AtConfigure(q)
        /\ schedules' = Reconfigured(id, rule, FALSE, FALSE)
    BY <1>1, ConfigureFacts
  <1>4. /\ id \in DOMAIN schedules
        /\ schedules[id] = New(name, rule)
        /\ rule.id \notin Forbidden => name = Name(rule)
    BY <1>1, <1>2, <1>3 DEF HandSound, InHand, Alone
  <1>5. /\ schedules[id].name = name /\ schedules[id].madeFor = rule.id
        /\ schedules[id].category = rule.category
        /\ schedules[id].sort = <<>> /\ schedules[id].filters = {}
    BY <1>4 DEF New
  <1>6. ASSUME NEW v \in RuleViews, v.id # rule.id, Shown(v) PROVE Shown(v)'
    BY <1>0, <1>3, <1>4, <1>5, <1>6, ShownStays
  <1>7. ASSUME Expected(rule) PROVE Shown(rule)'
    BY <1>0, <1>3, <1>4, <1>5, <1>7, ConfiguredIsShown DEF Expected
  <1> QED
    BY <1>6, <1>7 DEF Repairs

LEMMA DoneSoundPreserved ==
  ASSUME ViewsInv, DoneSound, [Next]_vars
  PROVE  DoneSound'
  <1> SUFFICES ASSUME Repairing', NEW q \in Procs,
                      AtWork(q)', pass'[q].quiet, ~pass'[q].dry
      PROVE  \A v \in DoneRules(q)' :
               Expected(v) => Shown(v)' \/ Warned(q, v)'
    BY DEF DoneSound
  <1>1. /\ TypeOK /\ SchedulesSound /\ QueueSound /\ OneAtATime /\ SeenSound
        /\ HandSound
    BY DEF ViewsInv
  <1>2. pass[q].quiet /\ Alone(q)'
    BY <1>1, QuietBefore DEF Alone
  <1>3. UNCHANGED addin /\ Repairing
    BY <1>1, WorkCases DEF Repairing
  <1>4. ASSUME AtWork(q), ~pass[q].dry
        PROVE  \A v \in DoneRules(q) : Expected(v) => Shown(v) \/ Warned(q, v)
    BY <1>2, <1>3, <1>4 DEF DoneSound
  <1>5. CASE Kept(q) /\ AtWork(q) /\ schedules' = schedules
    <2>1. \A v : Shown(v)' <=> Shown(v)
      BY <1>5 DEF Shown, Live
    <2>2. DoneRules(q)' = DoneRules(q) /\ ~pass[q].dry
      BY <1>5 DEF Done, DoneRules, Kept
    <2>3. \A v : Warned(q, v) => Warned(q, v)'
      BY <1>5 DEF Warned, Kept
    <2> QED
      BY <1>4, <1>5, <2>1, <2>2, <2>3
  <1>6. CASE Probe(q)
    <2>1. /\ pass[q].pc = "probe" /\ Busy(q) /\ pass'[q].run = pass[q].run
          /\ pass'[q].todo = pass[q].todo
      BY <1>1, <1>6, ProbeFacts
    <2>2. Len(pass[q].todo) = Len(Trace[pass[q].run])
      BY <1>1, <2>1 DEF QueueSound
    <2>3. Len(pass[q].todo) \in Nat
      BY <1>1 DEF TypeOK, Passings
    <2>4. DoneRules(q)' = {}
      BY <2>1, <2>2, <2>3 DEF Done, DoneRules
    <2> QED
      BY <2>4
  <1>7. CASE Create(q)
    <2>1. /\ AtRule(q) /\ AtWork(q) /\ pass'[q].run = pass[q].run
          /\ pass'[q].todo = pass[q].todo /\ ~pass[q].dry
          /\ Added(New(Given(q), Rule(q)))
      BY <1>1, <1>7, CreateFacts, AtWorkIsTyped DEF GoesOn, IsNew, Added
    <2>2. \A i \in Live : i \in Live' /\ schedules'[i] = schedules[i]
      BY <1>1, <2>1, AddedFacts DEF Live
    <2>3. DoneRules(q)' = DoneRules(q)
      BY <2>1 DEF Done, DoneRules
    <2>4. \A v : Shown(v) => Shown(v)'
      BY <2>2 DEF Shown
    <2>5. pass'[q].rows = pass[q].rows
      BY <1>1, <1>7, CreateFacts
    <2>6. \A v : Warned(q, v) => Warned(q, v)'
      BY <2>5 DEF Warned
    <2> QED
      BY <1>4, <2>1, <2>3, <2>4, <2>6
  <1>8. CASE Skip(q) \/ Reconfigure(q) \/ Configure(q)
    <2>1. /\ AtRule(q) \/ AtConfigure(q)
          /\ AtWork(q) /\ ~pass[q].dry /\ pass'[q].run = pass[q].run
          /\ pass'[q].todo = Tail(pass[q].todo)
      BY <1>1, <1>8, SkipFacts, ReconfigureFacts, ConfigureFacts, AtWorkIsTyped
         DEF GoesOn, Appends
    <2> DEFINE now == Rule(q)
    <2>9. PICK rule : rule = now
      OBVIOUS
    <2>2. Repairs(q, rule)
      <3>1. CASE Skip(q)
        <4>1. UNCHANGED schedules
          BY <1>1, <3>1, SkipFacts
        <4>2. ~Expected(rule)
          BY <2>9, <1>1, <1>2, <1>3, <3>1, SkippedIsUnexpected
        <4>3. \A v : Shown(v)' <=> Shown(v)
          BY <4>1 DEF Shown, Live
        <4> QED
          BY <4>2, <4>3 DEF Repairs
      <3>2. CASE Reconfigure(q)
        BY <1>1, <1>2, <2>1, <2>9, <3>2, ReconfigureRepairs
      <3>3. CASE Configure(q)
        BY <1>1, <1>2, <1>3, <2>1, <2>9, <3>3, ConfigureRepairs DEF Repairing
      <3> QED
        BY <1>8, <3>1, <3>2, <3>3
    <2>3. \A v : Warned(q, v) => Warned(q, v)'
      <3>1. \E row : Appends(q, row)
        BY <1>1, <1>8, SkipFacts, ReconfigureFacts, ConfigureFacts
      <3> QED
        BY <1>1, <3>1, WarnedFacts
    <2>4. ASSUME NEW v \in DoneRules(q)', Expected(v)
          PROVE  Shown(v)' \/ Warned(q, v)'
      <3>1. \/ v = Rule(q)
            \/ v \in DoneRules(q) /\ v \in RuleViews /\ v.id # Rule(q).id
        BY <1>1, <2>1, <2>4, DoneGrows
      <3>2. v \in DoneRules(q) => Shown(v) \/ Warned(q, v)
        BY <1>4, <2>1, <2>4
      <3>3. CASE v = rule
        BY <2>2, <2>4, <3>3 DEF Repairs
      <3>4. CASE v \in DoneRules(q) /\ v \in RuleViews /\ v.id # rule.id
        BY <2>2, <2>3, <3>2, <3>4 DEF Repairs
      <3> QED
        BY <2>9, <3>1, <3>3, <3>4
    <2> QED
      BY <2>4
  <1> QED
    BY <1>1, <1>2, <1>5, <1>6, <1>7, <1>8, WorkCases

\* A pass only comes to its manifest when no rule is left.
LEMMA AllIsDone ==
  ASSUME TypeOK, [Next]_vars, NEW p \in Procs,
         pass[p].pc = "rule", pass'[p].pc = "manifest"
  PROVE  AtWork(p) /\ Done(p) = DOMAIN Trace[pass[p].run]
  <1>1. pass[p].todo = <<>>
    <2>1. ~UNCHANGED vars /\ ~Kept(p)
      BY DEF vars, Kept
    <2>2. \A id \in Live : ~People(id)
      BY <2>1, EditFacts
    <2>3. ASSUME NEW q \in Procs,
                 \/ \E r \in Runs, dry \in BOOLEAN : Begin(q, r, dry)
                 \/ Probe(q) \/ Skip(q) \/ Reconfigure(q) \/ Create(q)
                 \/ Configure(q) \/ Finish(q) \/ WriteManifest(q) \/ Abort(q)
          PROVE  Finish(p)
      <3>1. q = p
        BY <2>1, <2>3, PassesKeepOthers DEF Others
      <3>2. \A r \in Runs, dry \in BOOLEAN : ~Begin(p, r, dry)
        BY BeginFacts
      <3>3. ~Probe(p) /\ ~Create(p) /\ ~WriteManifest(p) /\ ~Abort(p)
        BY ProbeFacts, CreateFacts, ManifestFacts, AbortFacts, IdleIsTyped
      <3>4. ~Skip(p) /\ ~Reconfigure(p) /\ ~Configure(p)
        BY SkipFacts, ReconfigureFacts, ConfigureFacts DEF Appends
      <3> QED
        BY <2>3, <3>1, <3>2, <3>3, <3>4
    <2>4. Finish(p)
      BY <2>1, <2>2, <2>3, StepCases
    <2> QED
      BY <2>4, FinishFacts
  <1>2. Trace[pass[p].run] \in Seq(RuleViews)
    BY Constants DEF TypeOK, Busy
  <1> QED
    BY <1>1, <1>2 DEF Done, AtWork

\* create_verification_schedules: whatever refusals, deaths and edits came
\* before, a pass that met none of them leaves a schedule for every rule that
\* one can show, under its name and configured for it.
THEOREM QuietPassesRepair == Spec => QuietPassRepairs
  <1>1. Init => DoneSound
    BY IdleIsTyped DEF Init, DoneSound, AtWork
  <1>2. ViewsInv /\ DoneSound /\ [Next]_vars => DoneSound'
    BY DoneSoundPreserved
  <1>3. ASSUME ViewsInv, DoneSound, [Next]_vars, NEW p \in Procs,
               pass[p].pc = "rule", pass'[p].pc = "manifest",
               pass[p].quiet, ~pass[p].dry, Repairing,
               NEW i \in DOMAIN Trace[pass[p].run],
               Expected(Trace[pass[p].run][i])
        PROVE  \/ Shown(Trace[pass[p].run][i])
               \/ Warned(p, Trace[pass[p].run][i])
    <2>1. AtWork(p) /\ Trace[pass[p].run][i] \in DoneRules(p)
      BY <1>3, AllIsDone DEF ViewsInv, DoneRules
    <2> QED
      BY <1>3, <2>1 DEF DoneSound
  <1>4. ViewsInv /\ DoneSound /\ [Next]_vars =>
          [\A p \in Procs :
             pass[p].pc = "rule" /\ pass'[p].pc = "manifest"
               /\ pass[p].quiet /\ ~pass[p].dry
               /\ addin.creates /\ addin.configures /\ addin.lists = "ids" =>
             \A i \in DOMAIN Trace[pass[p].run] :
               LET rule == Trace[pass[p].run][i]
               IN  rule.id \notin Forbidden
                     /\ rule.param \in Schedulable[rule.category] =>
                   \/ \E id \in Live : /\ schedules[id].name = Name(rule)
                                       /\ Reproduces(schedules[id], rule)
                   \/ \E k \in DOMAIN pass[p].rows :
                        pass[p].rows[k].rule = rule.id /\ pass[p].rows[k].warned]_vars
    BY <1>3 DEF Repairing, Expected, Shown, Warned
  <1> QED
    BY <1>1, <1>2, <1>4, ViewsInvariance, PTL DEF Spec, QuietPassRepairs

=============================================================================
