-------------------------- MODULE AuditReads_proofs --------------------------
(***************************************************************************)
(* Theorems about the readers of an audit: about ElementQuery, for any     *)
(* model, ruleset, number of elements and concurrent reads, edits and      *)
(* failures; about GeometryQuery, for any geometry rules, links, solids    *)
(* and spaces; and about the two together (orchestrator.run_revit): an     *)
(* audit's reads are a behaviour of each half, so what is proved of the    *)
(* halves holds of the whole.                                              *)
(*                                                                         *)
(* The element readers meet in two places: the cache, whose entries are    *)
(* values of this pass (PastSound), and the futures, of which there is one *)
(* per thing (OneReadPerThing).  TruthOf says what a hydration has read by *)
(* the time it is at a stage, unless a read it needs has failed; RowSound  *)
(* keeps that for the elements it ends up as, and FetchSound that no spec  *)
(* and no listed element is passed over.                                   *)
(*                                                                         *)
(* The geometry tasks share nothing but the caches of the spatial filter,  *)
(* whose gaps are all in unseen (SightSound), and every rule belongs to    *)
(* one batch (OneBatch), so what holds of one task is not disturbed by     *)
(* another (OthersStay).  TaskSound says of the rules of a batch what is   *)
(* settled about each of them at the place where its task is.              *)
(***************************************************************************)
EXTENDS AuditReads, FiniteNumbers

-----------------------------------------------------------------------------
\* The element half: the inductive invariant.

Outcomes == {"skipped", "exempt", "compliant", "manual_review",
             "missing_data", "non_compliant"}

\* ElementsTypeOK without what follows from the other parts.
Shape ==
  /\ model \in [Things -> Values]
  /\ phase \in Phases
  /\ bulk \in BOOLEAN
  /\ listing \in [Positions -> SUBSET Elements]
  /\ stage \in [Elements -> Stages]
  /\ mode \in [Elements -> {"ready", "waiting", "queued", "calling"}]
  /\ got \in [Elements -> [instance : Readings, type : Readings,
                           host : Readings]]
  /\ cache \in [Things -> Readings]
  /\ elements \in SUBSET Rows
  /\ past \in [Things -> SUBSET Values]
  /\ unheard \subseteq Things

Place ==
  /\ at \in {0} \cup Specs
  /\ phase \in {"listing", "hydrating"} => at \in Specs
  /\ phase \in {"enriching", "covering", "checking", "checked"} =>
       \A i \in Specs : i <= at
  /\ phase = "idle" => at = 0

PastSound ==
  /\ \A t \in Things : model[t] \in past[t]
  /\ \A t \in Things : cache[t] # Unread => cache[t] \in past[t]

\* Where a hydration can be.
PlaceOf(e) ==
  /\ stage[e] = "type" => TypeOf[e] # NoThing
  /\ stage[e] \in {"host", "hostType"} => FollowHost(at) /\ HostOf[e] # NoThing
  /\ stage[e] = "hostType" => TypeOf[HostOf[e]] # NoThing

\* What is read of a thing: a value it had, or nothing when it is not there.
Told(t, v) == IF t = NoThing THEN v = Unread ELSE v \in past[t]

TruthOf(e) ==
  \/ Hampered(e, at)
  \/ /\ stage[e] \notin {"dropped", "error"}
     /\ stage[e] \in {"none", "instance"} => got[e] = Nothing
     /\ stage[e] \notin {"none", "instance"} => got[e].instance \in past[e]
     /\ stage[e] = "type" => got[e].type = Unread
     /\ stage[e] \in {"host", "hostType", "done"} =>
          Told(TypeOf[e], got[e].type)
     /\ stage[e] \in {"type", "host", "hostType"} => got[e].host = Unread
     /\ stage[e] = "done" => Told(HostType(e, at), got[e].host)

TasksSound ==
  /\ \A e \in Elements : PlaceOf(e) /\ TruthOf(e)
  /\ phase = "hydrating" =>
       \A e \in Elements : stage[e] # "none" <=> e \in listing[at]
  /\ phase \notin {"hydrating", "failed"} =>
       \A e \in Elements : stage[e] = "none" /\ got[e] = Nothing

RowSound(x) ==
  /\ x.id \in listing[x.spec]
  /\ \/ Hampered(x.id, x.spec)
     \/ /\ x.instance \in past[x.id]
        /\ Told(TypeOf[x.id], x.type)
        /\ Told(HostType(x.id, x.spec), x.host)

RowsSound == \A x \in elements : RowSound(x)

Listed(i) == i < at \/ (i = at /\ phase # "listing")
Read_(i) == i < at \/ (i = at /\ phase \notin {"listing", "hydrating"})

\* An element is in the state once for each spec that is through.
RowsOnce ==
  /\ \A x \in elements : Read_(x.spec)
  /\ \A x, y \in elements : x.id = y.id /\ x.spec = y.spec => x = y

FetchSound ==
  phase # "failed" =>
    /\ RowsOnce
    /\ \A i \in Specs :
         Listed(i) => listing[i] = Of(i) \/ Cardinality(listing[i]) = Cap
    /\ \A i \in Specs : Read_(i) =>
         \A e \in listing[i] :
           Hampered(e, i) \/ \E x \in elements : x.id = e /\ x.spec = i
    /\ \A i \in Specs : listing[i] \subseteq Of(i)
    /\ \A i \in Specs : ~Listed(i) => listing[i] = {}

Judgement ==
  {[element |-> p[1], rule |-> p[2],
    outcome |-> Outcome(p[2], Own(p[1]), Other(p[1]), Shared(p[2], p[1]))] :
     p \in {q \in InScope \X Rules : Applies(q[2], q[1])}}

CheckSound ==
  /\ "empty" \in DOMAIN coverage
  /\ phase \in {"checking", "checked"} /\ Specs # {} =>
       coverage.empty = {Label(i) : i \in Specs} \ {LabelOf(x) : x \in elements}
  /\ phase = "checked" => verdicts = Judgement

IInv ==
  /\ Shape
  /\ Place
  /\ PastSound
  /\ TasksSound
  /\ OneReadPerThing
  /\ RowsSound
  /\ FetchSound
  /\ CheckSound

-----------------------------------------------------------------------------
\* Lemmas.

\* The first of some specs is one of them.
LEMMA FirstIsLeast ==
  ASSUME NEW S \in SUBSET Specs, S # {}
  PROVE  First(S) \in S /\ \A j \in S : First(S) <= j
  <1>1. Targets \in Seq(DOMAIN Entry)
    BY ReadsAssumption
  <1>2. Len(Targets) \in Nat /\ DOMAIN Targets = 1 .. Len(Targets)
    BY <1>1
  <1>3. S \in SUBSET (1 .. Len(Targets))
    BY <1>2 DEF Specs, Positions
  <1>4. \E i \in S : \A j \in S : i <= j
    BY <1>2, <1>3, LeastExists
  <1> QED
    BY <1>4 DEF First

LEMMA SpecsAreNumbers == Specs \subseteq Nat \ {0} /\ Specs \subseteq Positions
  <1>1. Targets \in Seq(DOMAIN Entry)
    BY ReadsAssumption
  <1>2. Len(Targets) \in Nat /\ DOMAIN Targets = 1 .. Len(Targets)
    BY <1>1
  <1> QED
    BY <1>2 DEF Specs, Positions

\* A display name is of one category.
LEMMA OneLabel ==
  ASSUME NEW i \in Specs, NEW j \in Specs, Label(i) = Label(j)
  PROVE  Entry[Targets[i]] = Entry[Targets[j]]
  <1>1. ASSUME NEW k \in Specs
        PROVE  Entry[Targets[k]] \in DOMAIN Display
    <2>1. k \in DOMAIN Targets /\ Targets \in Seq(DOMAIN Entry)
      BY ReadsAssumption DEF Specs, Positions
    <2>2. Targets[k] \in DOMAIN Entry
      BY <2>1
    <2>3. Entry[Targets[k]] # NoCategory
      BY DEF Specs, Dropped
    <2> QED
      BY <2>2, <2>3, ReadsAssumption
  <1> QED
    BY <1>1, ReadsAssumption DEF Label

\* What a hydration reads is a thing next to its element.
LEMMA WantedIsNear ==
  ASSUME Shape, NEW e \in Elements, PlaceOf(e)
  PROVE  /\ Wanted(e) \in Things \cup {NoThing}
         /\ Wanted(e) # NoThing =>
              Wanted(e) \in {e, TypeOf[e], HostOf[e], HostType(e, at)}
  <1>1. /\ TypeOf[e] \in Things \cup {NoThing}
        /\ HostOf[e] \in Elements \cup {NoThing}
        /\ \A x \in Elements : TypeOf[x] \in Things \cup {NoThing}
    BY ReadsAssumption DEF Things
  <1>2. stage[e] \in Stages
    BY DEF Shape
  <1>3. e \in Things
    BY DEF Things
  <1>a. CASE stage[e] = "instance"
    BY <1>a, <1>3 DEF Wanted
  <1>b. CASE stage[e] = "type"
    BY <1>b, <1>1 DEF Wanted
  <1>c. CASE stage[e] = "host"
    BY <1>c, <1>1 DEF Wanted, Things
  <1>d. CASE stage[e] = "hostType"
    <2>1. /\ Wanted(e) = TypeOf[HostOf[e]]
          /\ FollowHost(at) /\ HostOf[e] # NoThing
      BY <1>d DEF Wanted, PlaceOf
    <2>2. HostType(e, at) = TypeOf[HostOf[e]]
      BY <2>1 DEF HostType
    <2> QED
      BY <2>1, <2>2, <1>1
  <1>e. CASE stage[e] \in {"none", "done", "dropped", "error"}
    BY <1>e DEF Wanted
  <1> QED
    BY <1>2, <1>a, <1>b, <1>c, <1>d, <1>e DEF Stages

\* The judge always says something.
LEMMA OutcomeShape ==
  ASSUME NEW rule, NEW own, NEW other, NEW shared
  PROVE  Outcome(rule, own, other, shared) \in Outcomes
  <1>1. Bucket(rule, own, other) \in Outcomes
    BY DEF Bucket, Outcomes
  <1>2. Judged(rule, own, other, shared) \in Outcomes
    <2>1. CASE Exempt(rule, other)
      BY <1>1, <2>1 DEF Judged, Outcomes
    <2>2. CASE ~Exempt(rule, other) /\ Unresolved(rule, other)
      BY <1>1, <2>2 DEF Judged, Outcomes
    <2>3. CASE ~Exempt(rule, other) /\ ~Unresolved(rule, other)
      BY <1>1, <2>3 DEF Judged, Outcomes
    <2> QED
      BY <2>1, <2>2, <2>3
  <1> QED
    BY <1>2 DEF Outcome, Outcomes

\* A read that hydrations need and that failed hampers them.
LEMMA FailedReadHampers ==
  ASSUME Shape, NEW e \in Elements, PlaceOf(e), e \in Reading,
         Wanted(e) \in unheard', at' = at
  PROVE  Hampered(e, at)'
  <1>1. Wanted(e) # NoThing
    BY DEF Reading
  <1>2. Wanted(e) \in {e, TypeOf[e], HostOf[e], HostType(e, at)}
    BY <1>1, WantedIsNear
  <1> QED
    BY <1>2 DEF Hampered

LEMMA HamperedStays ==
  ASSUME NEW e, NEW i, unheard \subseteq unheard', Hampered(e, i)
  PROVE  unheard' \cap {e, TypeOf[e], HostOf[e], HostType(e, i)} # {}
  BY DEF Hampered

\* What one hydration has learnt, by the stage it is at.
LEMMA LearnTruth ==
  ASSUME Shape, NEW e \in Elements, PlaceOf(e), TruthOf(e), e \in Reading,
         NEW v \in Readings, at' = at, past' = past,
         unheard \subseteq unheard',
         stage'[e] = StageAfter(e, v), got'[e] = Noted(e, v),
         v = Unread => Wanted(e) \in unheard',
         v # Unread => v \in past[Wanted(e)]
  PROVE  /\ stage'[e] \in Stages \ {"none"}
         /\ got'[e] \in [instance : Readings, type : Readings,
                          host : Readings]
         /\ PlaceOf(e)' /\ TruthOf(e)'
  <1>1. stage[e] \in {"instance", "type", "host", "hostType"}
    BY DEF Reading, Wanted, Shape, Stages
  <1>2. got[e] \in [instance : Readings, type : Readings, host : Readings]
    BY DEF Shape
  <1>3. got'[e] \in [instance : Readings, type : Readings, host : Readings]
    BY <1>1, <1>2 DEF Noted
  <1>4. StageAfter(e, v) \in Stages \ {"none"}
    BY <1>1 DEF StageAfter, AfterType, Stages
  <1>5. PlaceOf(e)'
    BY <1>1 DEF PlaceOf, StageAfter, AfterType
  <1>6. TruthOf(e)'
    <2>1. CASE v = Unread
      <3>1. Hampered(e, at)'
        BY <2>1, FailedReadHampers
      <3> QED
        BY <3>1 DEF TruthOf
    <2>2. CASE Hampered(e, at)
      BY <2>2 DEF TruthOf, Hampered
    <2>3. CASE v # Unread /\ ~Hampered(e, at)
      <3>1. v \in past[Wanted(e)]
        BY <2>3
      <3>2. CASE stage[e] = "instance"
        <4>1. Wanted(e) = e /\ got[e] = Nothing
          BY <3>2, <2>3 DEF Wanted, TruthOf
        <4>2. /\ got'[e].instance = v /\ got'[e].type = Unread
              /\ got'[e].host = Unread
          BY <3>2, <4>1 DEF Noted, Nothing
        <4>3. CASE TypeOf[e] # NoThing
          <5>1. stage'[e] = "type"
            BY <3>2, <4>3, <2>3 DEF StageAfter
          <5> QED
            BY <5>1, <4>1, <4>2, <3>1 DEF TruthOf
        <4>4. CASE TypeOf[e] = NoThing /\ FollowHost(at) /\ HostOf[e] # NoThing
          <5>1. stage'[e] = "host"
            BY <3>2, <4>4, <2>3 DEF StageAfter, AfterType
          <5> QED
            BY <5>1, <4>1, <4>2, <4>4, <3>1 DEF TruthOf, Told
        <4>5. CASE /\ TypeOf[e] = NoThing
                   /\ ~(FollowHost(at) /\ HostOf[e] # NoThing)
          <5>1. stage'[e] = "done"
            BY <3>2, <4>5, <2>3 DEF StageAfter, AfterType
          <5>2. HostType(e, at) = NoThing
            BY <4>5 DEF HostType
          <5> QED
            BY <5>1, <5>2, <4>1, <4>2, <4>5, <3>1 DEF TruthOf, Told
        <4> QED
          BY <4>3, <4>4, <4>5
      <3>3. CASE stage[e] = "type"
        <4>1. /\ Wanted(e) = TypeOf[e] /\ TypeOf[e] # NoThing
              /\ got[e].instance \in past[e] /\ got[e].host = Unread
          BY <3>3, <2>3 DEF Wanted, TruthOf, PlaceOf
        <4>2. /\ got'[e].instance = got[e].instance /\ got'[e].type = v
              /\ got'[e].host = Unread
          BY <3>3, <4>1, <1>2 DEF Noted
        <4>3. CASE FollowHost(at) /\ HostOf[e] # NoThing
          <5>1. stage'[e] = "host"
            BY <3>3, <4>3 DEF StageAfter, AfterType
          <5> QED
            BY <5>1, <4>1, <4>2, <3>1 DEF TruthOf, Told
        <4>4. CASE ~(FollowHost(at) /\ HostOf[e] # NoThing)
          <5>1. stage'[e] = "done"
            BY <3>3, <4>4 DEF StageAfter, AfterType
          <5>2. HostType(e, at) = NoThing
            BY <4>4 DEF HostType
          <5> QED
            BY <5>1, <5>2, <4>1, <4>2, <3>1 DEF TruthOf, Told
        <4> QED
          BY <4>3, <4>4
      <3>4. CASE stage[e] = "host"
        <4>1. /\ FollowHost(at) /\ HostOf[e] # NoThing
              /\ got[e].instance \in past[e] /\ got[e].host = Unread
              /\ Told(TypeOf[e], got[e].type)
          BY <3>4, <2>3 DEF TruthOf, PlaceOf
        <4>2. got'[e] = got[e]
          BY <3>4 DEF Noted
        <4>3. CASE TypeOf[HostOf[e]] # NoThing
          <5>1. stage'[e] = "hostType"
            BY <3>4, <4>3, <2>3 DEF StageAfter
          <5> QED
            BY <5>1, <4>1, <4>2 DEF TruthOf, Told
        <4>4. CASE TypeOf[HostOf[e]] = NoThing
          <5>1. stage'[e] = "done"
            BY <3>4, <4>4 DEF StageAfter
          <5>2. HostType(e, at) = NoThing
            BY <4>1, <4>4 DEF HostType
          <5> QED
            BY <5>1, <5>2, <4>1, <4>2 DEF TruthOf, Told
        <4> QED
          BY <4>3, <4>4
      <3>5. CASE stage[e] = "hostType"
        <4>1. /\ FollowHost(at) /\ HostOf[e] # NoThing
              /\ TypeOf[HostOf[e]] # NoThing
              /\ got[e].instance \in past[e]
              /\ Told(TypeOf[e], got[e].type)
              /\ Wanted(e) = TypeOf[HostOf[e]]
          BY <3>5, <2>3 DEF TruthOf, PlaceOf, Wanted
        <4>2. /\ got'[e].instance = got[e].instance
              /\ got'[e].type = got[e].type /\ got'[e].host = v
          BY <3>5, <1>2 DEF Noted
        <4>3. stage'[e] = "done"
          BY <3>5 DEF StageAfter
        <4>4. HostType(e, at) = TypeOf[HostOf[e]]
          BY <4>1 DEF HostType
        <4> QED
          BY <4>1, <4>2, <4>3, <4>4, <3>1 DEF TruthOf, Told
      <3> QED
        BY <1>1, <3>2, <3>3, <3>4, <3>5
    <2> QED
      BY <2>1, <2>2, <2>3
  <1> QED
    BY <1>3, <1>4, <1>5, <1>6

LEMMA CallsCounted ==
  ASSUME NEW S \in SUBSET Elements, NEW T \in SUBSET S
  PROVE  /\ IsFiniteSet(S) /\ Cardinality(S) \in Nat
         /\ IsFiniteSet(T) /\ Cardinality(T) <= Cardinality(S)
         /\ \A e \in Elements : Cardinality(S \cup {e}) <= Cardinality(S) + 1
  <1>1. IsFiniteSet(Elements)
    BY ReadsAssumption
  <1>2. IsFiniteSet(S)
    BY <1>1, FS_Subset
  <1>3. IsFiniteSet(T) /\ Cardinality(T) <= Cardinality(S)
    BY <1>2, FS_Subset
  <1>4. Cardinality(S) \in Nat
    BY <1>2, FS_CardinalityType
  <1>5. ASSUME NEW e \in Elements
        PROVE  Cardinality(S \cup {e}) <= Cardinality(S) + 1
    BY <1>2, <1>4, FS_AddElement
  <1> QED
    BY <1>2, <1>3, <1>4, <1>5

\* Fewer readers, and nothing new in the cache for those that are left.
LEMMA FewerReaders ==
  ASSUME Shape, OneReadPerThing, NEW E \in SUBSET Elements,
         \A e \in E : mode'[e] \notin {"queued", "calling"},
         \A e \in Elements \ E : stage'[e] = stage[e] /\ mode'[e] = mode[e],
         \A e \in Leaders \ E : cache'[Wanted(e)] = cache[Wanted(e)]
  PROVE  OneReadPerThing'
  <1>1. \A e \in Elements \ E : Wanted(e)' = Wanted(e)
    BY DEF Wanted
  <1>2. \A e \in Leaders' : e \in Leaders \ E /\ Wanted(e)' = Wanted(e)
    BY <1>1 DEF Leaders, Reading
  <1>3. \A e \in Calls' : e \in Calls
    BY <1>1 DEF Calls, Reading
  <1>4. Calls \in SUBSET Elements /\ Calls' \in SUBSET Calls
    BY <1>3 DEF Calls, Reading
  <1>5. Cardinality(Calls') <= Cardinality(Calls)
        /\ Cardinality(Calls) \in Nat /\ Cardinality(Calls') \in Nat
    BY <1>4, CallsCounted
  <1>6. Cardinality(Calls') <= Concurrency
    BY <1>5, ReadsAssumption DEF OneReadPerThing
  <1>7. \A e, f \in Leaders' : Wanted(e)' = Wanted(f)' => e = f
    BY <1>2 DEF OneReadPerThing
  <1>8. \A e \in Leaders' : cache'[Wanted(e)'] = Unread
    BY <1>2 DEF OneReadPerThing
  <1> QED
    BY <1>6, <1>7, <1>8 DEF OneReadPerThing

\* All readers are the same, and so is what they find in the cache.
LEMMA NoReaders ==
  ASSUME \A e \in Elements : mode'[e] \notin {"queued", "calling"}
  PROVE  OneReadPerThing'
  <1>1. Leaders' = {} /\ Calls' = {}
    BY DEF Leaders, Calls, Reading
  <1>2. Cardinality(Calls') = 0
    BY <1>1, FS_EmptySet
  <1> QED
    BY <1>1, <1>2, ReadsAssumption DEF OneReadPerThing

\* Rows stay true while things only gain values and failures.
LEMMA RowsStay ==
  ASSUME Shape, RowsSound,
         \A i \in Specs : listing[i] \subseteq listing'[i],
         \A t \in Things : past[t] \subseteq past'[t],
         unheard \subseteq unheard'
  PROVE  \A x \in elements : RowSound(x)'
  <1> SUFFICES ASSUME NEW x \in elements PROVE RowSound(x)'
    OBVIOUS
  <1>1. RowSound(x) /\ x.id \in Elements /\ x.spec \in Specs
    BY DEF RowsSound, Shape, Rows
  <1>2. /\ TypeOf[x.id] \in Things \cup {NoThing}
        /\ HostType(x.id, x.spec) \in Things \cup {NoThing}
    BY <1>1, ReadsAssumption DEF HostType, Things
  <1>3. x.id \in Things
    BY <1>1 DEF Things
  <1>4. \A r, t : t \in Things \cup {NoThing} /\ Told(t, r) => Told(t, r)'
    BY DEF Told
  <1>5. Hampered(x.id, x.spec) => Hampered(x.id, x.spec)'
    BY DEF Hampered
  <1> QED
    BY <1>1, <1>2, <1>3, <1>4, <1>5 DEF RowSound

\* What every step of a hydration leaves alone.
HydrateKeeps ==
  /\ phase = "hydrating"
  /\ UNCHANGED <<model, phase, at, bulk, listing, elements, coverage,
                 verdicts, past>>

LEMMA HydrateStays ==
  ASSUME IInv, HydrateKeeps, unheard \subseteq unheard'
  PROVE  Place' /\ RowsSound' /\ FetchSound' /\ CheckSound'
  <1> USE DEF HydrateKeeps
  <1>1. Place'
    BY DEF IInv, Place
  <1>2. RowsSound'
    BY RowsStay DEF IInv, RowsSound
  <1>3. FetchSound'
    <2>1. \A i, e : Hampered(e, i) => Hampered(e, i)'
      BY DEF Hampered
    <2>2. \A i : (Listed(i)' <=> Listed(i)) /\ (Read_(i)' <=> Read_(i))
      BY DEF Listed, Read_
    <2> QED
      BY <2>1, <2>2 DEF IInv, FetchSound, RowsOnce
  <1>4. CheckSound'
    BY DEF IInv, CheckSound
  <1> QED
    BY <1>1, <1>2, <1>3, <1>4

\* Hydrations that learn what thing t is.
LEMMA LearnSound ==
  ASSUME IInv, HydrateKeeps, NEW E \in SUBSET Elements, NEW t \in Things,
         NEW v \in Readings, Learn(E, v),
         \A e \in E : e \in Reading /\ Wanted(e) = t,
         unheard \subseteq unheard', unheard' \subseteq Things,
         v = Unread => t \in unheard',
         v # Unread => v \in past[t],
         cache' \in [Things -> Readings],
         \A u \in Things \ {t} : cache'[u] = cache[u],
         cache'[t] # cache[t] => /\ cache'[t] \in past[t]
                                 /\ \A e \in Leaders : Wanted(e) = t => e \in E
  PROVE  IInv'
  <1> USE DEF HydrateKeeps
  <1>1. /\ \A e \in E : /\ stage'[e] = StageAfter(e, v) /\ mode'[e] = "ready"
                        /\ got'[e] = Noted(e, v)
        /\ \A e \in Elements \ E : /\ stage'[e] = stage[e]
                                   /\ mode'[e] = mode[e] /\ got'[e] = got[e]
        /\ DOMAIN stage' = Elements /\ DOMAIN mode' = Elements
        /\ DOMAIN got' = Elements
    BY DEF Learn
  <1>2. ASSUME NEW e \in E
        PROVE  /\ stage'[e] \in Stages \ {"none"}
               /\ got'[e] \in [instance : Readings, type : Readings,
                                host : Readings]
               /\ PlaceOf(e)' /\ TruthOf(e)'
    <2>1. /\ PlaceOf(e) /\ TruthOf(e) /\ e \in Reading /\ Wanted(e) = t
          /\ e \in Elements /\ Shape
      BY DEF IInv, TasksSound
    <2> QED
      BY <1>1, <2>1, LearnTruth
  <1>3. ASSUME NEW e \in Elements \ E PROVE PlaceOf(e)' /\ TruthOf(e)'
    <2>1. PlaceOf(e) /\ TruthOf(e)
      BY DEF IInv, TasksSound
    <2>2. Hampered(e, at) => Hampered(e, at)'
      BY DEF Hampered
    <2>3. PlaceOf(e)'
      BY <1>1, <2>1 DEF PlaceOf
    <2>4. TruthOf(e)'
      BY <1>1, <2>1, <2>2 DEF TruthOf, Told
    <2> QED
      BY <2>3, <2>4
  <1>4. Shape'
    <2>1. stage' \in [Elements -> Stages]
      BY <1>1, <1>2 DEF IInv, Shape, Learn
    <2>2. mode' \in [Elements -> {"ready", "waiting", "queued", "calling"}]
      BY <1>1 DEF IInv, Shape, Learn
    <2>3. got' \in [Elements -> [instance : Readings, type : Readings,
                                 host : Readings]]
      BY <1>1, <1>2 DEF IInv, Shape, Learn
    <2> QED
      BY <2>1, <2>2, <2>3 DEF IInv, Shape
  <1>5. PastSound'
    BY DEF IInv, PastSound
  <1>6. TasksSound'
    <2>1. \A e \in E : stage[e] # "none"
      BY DEF Reading, Wanted
    <2>2. \A e \in Elements : stage'[e] # "none" <=> stage[e] # "none"
      BY <1>1, <1>2, <2>1
    <2>3. \A e \in Elements : stage[e] # "none" <=> e \in listing[at]
      BY DEF IInv, TasksSound
    <2> QED
      BY <1>2, <1>3, <2>2, <2>3 DEF TasksSound
  <1>7. OneReadPerThing'
    <2>1. \A e \in Leaders \ E : Wanted(e) \in Things
      BY WantedIsNear DEF Leaders, Reading, IInv, TasksSound
    <2>2. \A e \in Leaders \ E : cache'[Wanted(e)] = cache[Wanted(e)]
      BY <2>1
    <2> QED
      BY <1>1, <2>2, FewerReaders DEF IInv
  <1> QED
    BY <1>4, <1>5, <1>6, <1>7, HydrateStays DEF IInv

-----------------------------------------------------------------------------
\* The hydrations.

\* The reading of a thing is a reading of a thing that is there.
LEMMA WantedIsThing ==
  ASSUME IInv, NEW e \in Reading
  PROVE  Wanted(e) \in Things /\ e \in Elements
  BY WantedIsNear DEF IInv, TasksSound, Reading

LEMMA ReadCachedSound ==
  ASSUME IInv, NEW e \in Elements, ReadCached(e)
  PROVE  IInv'
  <1>1. /\ HydrateKeeps /\ e \in Reading
        /\ cache[Wanted(e)] # Unread
        /\ Learn({e}, cache[Wanted(e)])
        /\ unheard' = unheard /\ cache' = cache
    BY DEF ReadCached, HydrateKeeps, history
  <1>2. Wanted(e) \in Things
    BY <1>1, WantedIsThing
  <1>3. cache[Wanted(e)] \in Readings /\ cache[Wanted(e)] \in past[Wanted(e)]
        /\ cache \in [Things -> Readings] /\ unheard \subseteq Things
    BY <1>1, <1>2 DEF IInv, Shape, PastSound
  <1> QED
    BY <1>1, <1>2, <1>3, LearnSound

LEMMA AnswerSound ==
  ASSUME IInv, NEW e \in Elements, Answer(e)
  PROVE  IInv'
  <1>1. /\ HydrateKeeps /\ e \in Calls
        /\ Learn(Cohort(e), model[Wanted(e)])
        /\ unheard' = unheard
        /\ cache' = [cache EXCEPT ![Wanted(e)] = model[Wanted(e)]]
    BY DEF Answer, HydrateKeeps, history
  <1>2. e \in Reading /\ e \in Leaders
    BY <1>1 DEF Calls, Leaders
  <1>3. Wanted(e) \in Things
    BY <1>2, WantedIsThing
  <1>4. /\ Cohort(e) \subseteq Elements
        /\ \A x \in Cohort(e) : x \in Reading /\ Wanted(x) = Wanted(e)
        /\ e \in Cohort(e)
    BY <1>2 DEF Cohort, Followers, Reading
  <1>5. /\ model[Wanted(e)] \in Values
        /\ model[Wanted(e)] \in past[Wanted(e)]
        /\ cache \in [Things -> Readings] /\ unheard \subseteq Things
    BY <1>3 DEF IInv, Shape, PastSound
  <1>6. model[Wanted(e)] \in Readings /\ model[Wanted(e)] # Unread
    BY <1>5, ReadsAssumption DEF Readings
  <1>7. /\ cache' \in [Things -> Readings]
        /\ cache'[Wanted(e)] = model[Wanted(e)]
        /\ \A u \in Things \ {Wanted(e)} : cache'[u] = cache[u]
    BY <1>1, <1>3, <1>5, <1>6
  <1>8. \A x \in Leaders : Wanted(x) = Wanted(e) => x \in Cohort(e)
    BY <1>2, <1>4 DEF IInv, OneReadPerThing
  <1> QED
    BY <1>1, <1>3, <1>4, <1>5, <1>6, <1>7, <1>8, LearnSound

LEMMA AnswerRefusedSound ==
  ASSUME IInv, NEW e \in Elements, AnswerRefused(e)
  PROVE  IInv'
  <1>1. /\ HydrateKeeps /\ e \in Calls
        /\ Learn(Cohort(e), Unread)
        /\ unheard' = unheard \cup {Wanted(e)} /\ cache' = cache
    BY DEF AnswerRefused, HydrateKeeps
  <1>2. e \in Reading
    BY <1>1 DEF Calls
  <1>3. Wanted(e) \in Things
    BY <1>2, WantedIsThing
  <1>4. /\ Cohort(e) \subseteq Elements
        /\ \A x \in Cohort(e) : x \in Reading /\ Wanted(x) = Wanted(e)
    BY <1>2 DEF Cohort, Followers, Reading
  <1>5. /\ cache \in [Things -> Readings] /\ unheard \subseteq Things
        /\ Unread \in Readings
    BY DEF IInv, Shape, Readings
  <1> QED
    BY <1>1, <1>3, <1>4, <1>5, LearnSound

LEMMA AnswerRaisesSound ==
  ASSUME IInv, NEW e \in Elements, AnswerRaises(e)
  PROVE  IInv'
  <1> DEFINE E == Cohort(e)
  <1>1. /\ HydrateKeeps /\ e \in Calls
        /\ unheard' = unheard \cup {Wanted(e)} /\ cache' = cache
        /\ got' = got
    BY DEF AnswerRaises, HydrateKeeps
  <1>2. e \in Reading
    BY <1>1 DEF Calls
  <1>3. Wanted(e) \in Things
    BY <1>2, WantedIsThing
  <1>4. /\ E \subseteq Elements /\ e \in E
        /\ \A x \in E : x \in Reading /\ Wanted(x) = Wanted(e)
    BY <1>2 DEF Cohort, Followers, Reading
  <1>5. /\ stage'[e] = "error"
        /\ \A x \in E \ {e} : stage'[x] = StageAfter(x, Unread)
        /\ \A x \in E : mode'[x] = "ready"
        /\ \A x \in Elements \ E : stage'[x] = stage[x] /\ mode'[x] = mode[x]
        /\ DOMAIN stage' = Elements /\ DOMAIN mode' = Elements
    BY <1>4 DEF AnswerRaises
  <1>6. \A x \in E : /\ PlaceOf(x) /\ Shape /\ Wanted(x) \in unheard'
                     /\ at' = at
    BY <1>1, <1>4 DEF IInv, TasksSound, HydrateKeeps
  <1>7. \A x \in E : Hampered(x, at)'
    BY <1>4, <1>6, FailedReadHampers
  <1>8. ASSUME NEW x \in E
        PROVE  /\ stage'[x] \in Stages \ {"none"}
               /\ PlaceOf(x)' /\ TruthOf(x)'
    <2>1. TruthOf(x)'
      BY <1>7 DEF TruthOf
    <2>2. CASE x = e
      BY <2>1, <2>2, <1>5 DEF PlaceOf, Stages
    <2>3. CASE x # e
      <3>1. stage[x] \in {"instance", "type", "host", "hostType"}
        BY <1>4 DEF Reading, Wanted, IInv, Shape, Stages
      <3>2. stage'[x] = StageAfter(x, Unread)
        BY <1>5, <2>3
      <3>3. StageAfter(x, Unread) \in Stages \ {"none"}
        BY <3>1 DEF StageAfter, AfterType, Stages
      <3>4. PlaceOf(x)'
        BY <3>1, <3>2, <1>6 DEF PlaceOf, StageAfter, AfterType
      <3> QED
        BY <2>1, <3>2, <3>3, <3>4
    <2> QED
      BY <2>2, <2>3
  <1>9. ASSUME NEW x \in Elements \ E PROVE PlaceOf(x)' /\ TruthOf(x)'
    <2>1. PlaceOf(x) /\ TruthOf(x)
      BY DEF IInv, TasksSound
    <2>2. Hampered(x, at) => Hampered(x, at)'
      BY <1>1 DEF Hampered, HydrateKeeps
    <2>3. PlaceOf(x)'
      BY <1>1, <1>5, <2>1 DEF PlaceOf, HydrateKeeps
    <2>4. TruthOf(x)'
      BY <1>1, <1>5, <2>1, <2>2 DEF TruthOf, Told, HydrateKeeps
    <2> QED
      BY <2>3, <2>4
  <1>10. Shape'
    <2>1. stage' \in [Elements -> Stages]
      <3>1. stage' = [x \in Elements |-> stage'[x]]
        BY DEF AnswerRaises
      <3>2. \A x \in Elements : stage'[x] \in Stages
        BY <1>5, <1>8 DEF IInv, Shape
      <3> QED
        BY <3>1, <3>2
    <2>2. mode' \in [Elements -> {"ready", "waiting", "queued", "calling"}]
      BY DEF AnswerRaises, IInv, Shape
    <2> QED
      BY <1>1, <1>3, <2>1, <2>2 DEF IInv, Shape, HydrateKeeps
  <1>11. PastSound'
    BY <1>1 DEF IInv, PastSound, HydrateKeeps
  <1>12. TasksSound'
    <2>1. \A x \in E : stage[x] # "none"
      BY <1>4 DEF Reading, Wanted
    <2>2. \A x \in Elements : stage'[x] # "none" <=> stage[x] # "none"
      BY <1>5, <1>8, <2>1
    <2>3. \A x \in Elements : stage[x] # "none" <=> x \in listing[at]
      BY <1>1 DEF IInv, TasksSound, HydrateKeeps
    <2> QED
      BY <1>1, <1>8, <1>9, <2>2, <2>3 DEF TasksSound, HydrateKeeps
  <1>13. OneReadPerThing'
    <2> HIDE DEF E
    <2> QED
      BY <1>1, <1>4, <1>5, FewerReaders DEF IInv
  <1> QED
    BY <1>1, <1>10, <1>11, <1>12, <1>13, HydrateStays DEF IInv

\* A hydration that only moves in the queue for a read.
LEMMA QueueSound ==
  ASSUME IInv, HydrateKeeps, NEW e \in Reading,
         NEW m \in {"waiting", "queued", "calling"},
         mode' = [mode EXCEPT ![e] = m],
         UNCHANGED <<stage, got, cache, unheard>>,
         OneReadPerThing'
  PROVE  IInv'
  <1> USE DEF HydrateKeeps
  <1>1. Shape'
    BY DEF IInv, Shape
  <1>2. PastSound'
    BY DEF IInv, PastSound
  <1>3. TasksSound'
    <2>1. \A x \in Elements : (PlaceOf(x) => PlaceOf(x)')
                           /\ (TruthOf(x) => TruthOf(x)')
      BY DEF PlaceOf, TruthOf, Hampered, Told
    <2> QED
      BY <2>1 DEF IInv, TasksSound
  <1> QED
    BY <1>1, <1>2, <1>3, HydrateStays DEF IInv

LEMMA JoinSound ==
  ASSUME IInv, NEW e \in Elements, Join(e)
  PROVE  IInv'
  <1>1. /\ HydrateKeeps /\ e \in Reading
        /\ mode' = [mode EXCEPT ![e] = "waiting"]
        /\ UNCHANGED <<stage, got, cache, unheard>>
    BY DEF Join, HydrateKeeps, history
  <1>2. mode'[e] = "waiting"
        /\ \A x \in Elements \ {e} : mode'[x] = mode[x]
    BY <1>1 DEF IInv, Shape
  <1>3. OneReadPerThing'
    <2> DEFINE E == {e}
    <2>1. /\ E \in SUBSET Elements
          /\ \A x \in E : mode'[x] \notin {"queued", "calling"}
          /\ \A x \in Elements \ E : stage'[x] = stage[x] /\ mode'[x] = mode[x]
          /\ \A x \in Leaders \ E : cache'[Wanted(x)] = cache[Wanted(x)]
      BY <1>1, <1>2
    <2> HIDE DEF E
    <2> QED
      BY <2>1, FewerReaders DEF IInv
  <1> QED
    BY <1>1, <1>3, QueueSound

LEMMA LeadSound ==
  ASSUME IInv, NEW e \in Elements, Lead(e)
  PROVE  IInv'
  <1>1. /\ HydrateKeeps /\ e \in Reading
        /\ mode' = [mode EXCEPT ![e] = "queued"]
        /\ cache[Wanted(e)] = Unread /\ ~InFlight(Wanted(e))
        /\ UNCHANGED <<stage, got, cache, unheard>>
    BY DEF Lead, HydrateKeeps, history
  <1>2. mode'[e] = "queued"
        /\ \A x \in Elements \ {e} : mode'[x] = mode[x]
    BY <1>1 DEF IInv, Shape
  <1>3. \A x : Wanted(x)' = Wanted(x)
    BY <1>1 DEF Wanted
  <1>4. Leaders' \subseteq Leaders \cup {e} /\ Calls' \subseteq Calls
    BY <1>2, <1>3 DEF Leaders, Calls, Reading
  <1>5. Cardinality(Calls') <= Concurrency
    <2>1. Calls \in SUBSET Elements /\ Calls' \in SUBSET Calls
      BY <1>4 DEF Calls, Reading
    <2>2. /\ Cardinality(Calls') <= Cardinality(Calls)
          /\ Cardinality(Calls) \in Nat /\ Cardinality(Calls') \in Nat
      BY <2>1, CallsCounted
    <2> QED
      BY <2>2, ReadsAssumption DEF IInv, OneReadPerThing
  <1>6. \A x, y \in Leaders' : Wanted(x)' = Wanted(y)' => x = y
    BY <1>1, <1>3, <1>4 DEF IInv, OneReadPerThing, InFlight
  <1>7. \A x \in Leaders' : cache'[Wanted(x)'] = Unread
    BY <1>1, <1>3, <1>4 DEF IInv, OneReadPerThing
  <1>8. OneReadPerThing'
    BY <1>5, <1>6, <1>7 DEF OneReadPerThing
  <1> QED
    BY <1>1, <1>8, QueueSound

LEMMA AcquireSound ==
  ASSUME IInv, NEW e \in Elements, Acquire(e)
  PROVE  IInv'
  <1>1. /\ HydrateKeeps /\ e \in Reading
        /\ mode' = [mode EXCEPT ![e] = "calling"]
        /\ mode[e] = "queued" /\ Cardinality(Calls) < Concurrency
        /\ UNCHANGED <<stage, got, cache, unheard>>
    BY DEF Acquire, HydrateKeeps, history
  <1>2. mode'[e] = "calling"
        /\ \A x \in Elements \ {e} : mode'[x] = mode[x]
    BY <1>1 DEF IInv, Shape
  <1>3. \A x : Wanted(x)' = Wanted(x)
    BY <1>1 DEF Wanted
  <1>4. Leaders' = Leaders /\ Calls' = Calls \cup {e}
    BY <1>1, <1>2, <1>3 DEF Leaders, Calls, Reading
  <1>5. Cardinality(Calls') <= Concurrency
    <2>1. Calls \in SUBSET Elements /\ {} \in SUBSET Calls
      BY DEF Calls, Reading
    <2>2. /\ Cardinality(Calls') <= Cardinality(Calls) + 1
          /\ Cardinality(Calls) \in Nat
      BY <1>4, <2>1, CallsCounted
    <2>3. Calls' \in SUBSET Elements
      BY <1>4, <2>1
    <2>4. Cardinality(Calls') \in Nat
      <3> DEFINE S == Calls'
      <3>1. S \in SUBSET Elements /\ {} \in SUBSET S
        BY <2>3
      <3> HIDE DEF S
      <3>2. Cardinality(S) \in Nat
        BY <3>1, CallsCounted
      <3> QED
        BY <3>2 DEF S
    <2> QED
      BY <1>1, <2>2, <2>4, ReadsAssumption
  <1>6. \A x, y \in Leaders' : Wanted(x)' = Wanted(y)' => x = y
    BY <1>3, <1>4 DEF IInv, OneReadPerThing
  <1>7. \A x \in Leaders' : cache'[Wanted(x)'] = Unread
    BY <1>1, <1>3, <1>4 DEF IInv, OneReadPerThing
  <1>8. OneReadPerThing'
    BY <1>5, <1>6, <1>7 DEF OneReadPerThing
  <1> QED
    BY <1>1, <1>8, QueueSound

-----------------------------------------------------------------------------
\* The steps between the hydrations.

\* Hydrations that have not begun are where they should be.
LEMMA FreshTasks ==
  ASSUME NEW e \in Elements, stage'[e] \in {"none", "instance"},
         got'[e] = Nothing
  PROVE  PlaceOf(e)' /\ TruthOf(e)'
  BY DEF PlaceOf, TruthOf

LEMMA NoTasksShape ==
  ASSUME NoTasks
  PROVE  /\ stage' \in [Elements -> Stages]
         /\ mode' \in [Elements -> {"ready", "waiting", "queued", "calling"}]
         /\ got' \in [Elements -> [instance : Readings, type : Readings,
                                   host : Readings]]
         /\ \A e \in Elements : /\ stage'[e] = "none" /\ mode'[e] = "ready"
                                /\ got'[e] = Nothing
         /\ OneReadPerThing'
  <1>1. Nothing \in [instance : Readings, type : Readings, host : Readings]
    BY DEF Nothing, Readings
  <1>2. \A e \in Elements : /\ stage'[e] = "none" /\ mode'[e] = "ready"
                            /\ got'[e] = Nothing
    BY DEF NoTasks
  <1>3. OneReadPerThing'
    BY <1>2, NoReaders
  <1> QED
    BY <1>1, <1>2, <1>3 DEF NoTasks, Stages

LEMMA StartPassSound ==
  ASSUME IInv, StartPass
  PROVE  IInv'
  <1>1. /\ phase \in {"idle", "checked"}
        /\ cache' = [t \in Things |-> Unread]
        /\ listing' = NoListing /\ elements' = {} /\ unheard' = {}
        /\ past' = [t \in Things |-> {model[t]}]
        /\ NoTasks
        /\ IF Specs = {} THEN phase' = "checking" /\ at' = 0
           ELSE phase' = "listing" /\ at' = First(Specs)
        /\ UNCHANGED <<model, bulk, coverage>>
    BY DEF StartPass
  <1>2. Specs # {} => First(Specs) \in Specs
                      /\ \A j \in Specs : First(Specs) <= j
    BY FirstIsLeast
  <1>3. Shape'
    <2>1. /\ listing' \in [Positions -> SUBSET Elements]
          /\ phase' \in Phases /\ bulk' \in BOOLEAN
      BY <1>1 DEF NoListing, Phases, IInv, Shape
    <2>2. /\ cache' \in [Things -> Readings]
          /\ past' \in [Things -> SUBSET Values]
          /\ model' \in [Things -> Values]
      BY <1>1 DEF Readings, IInv, Shape
    <2> QED
      BY <1>1, <2>1, <2>2, NoTasksShape DEF Shape
  <1>4. Place'
    BY <1>1, <1>2 DEF Place
  <1>5. PastSound'
    BY <1>1 DEF PastSound, IInv, Shape
  <1>6. TasksSound'
    <2>1. \A e \in Elements : stage'[e] = "none" /\ got'[e] = Nothing
      BY <1>1, NoTasksShape
    <2>2. \A e \in Elements : PlaceOf(e)' /\ TruthOf(e)'
      BY <2>1, FreshTasks
    <2> QED
      BY <1>1, <2>1, <2>2 DEF TasksSound
  <1>7. OneReadPerThing'
    BY <1>1, NoTasksShape
  <1>8. RowsSound'
    BY <1>1 DEF RowsSound
  <1>9. FetchSound'
    <2>1. \A i \in Specs : ~Listed(i)' /\ ~Read_(i)'
      <3>1. CASE Specs = {}
        BY <3>1
      <3>2. CASE Specs # {}
        <4>1. /\ at' \in Specs /\ phase' = "listing"
              /\ \A j \in Specs : at' <= j
          BY <1>1, <1>2, <3>2
        <4>2. \A j \in Specs : j \in Nat
          BY SpecsAreNumbers
        <4> QED
          BY <4>1, <4>2 DEF Listed, Read_
      <3> QED
        BY <3>1, <3>2
    <2>2. \A i \in Specs : listing'[i] = {}
      BY <1>1, SpecsAreNumbers DEF NoListing
    <2>3. RowsOnce'
      BY <1>1 DEF RowsOnce
    <2> QED
      BY <2>1, <2>2, <2>3 DEF FetchSound
  <1>10. CheckSound'
    BY <1>1 DEF IInv, CheckSound
  <1> QED
    BY <1>3, <1>4, <1>5, <1>6, <1>7, <1>8, <1>9, <1>10 DEF IInv

\* The next spec is the next one, and there is none after the last.
LEMMA ProceedPlace ==
  ASSUME Place, at \in Specs, Proceed(at)
  PROVE  /\ Place' /\ at' \in Specs
         /\ phase' \in {"listing", "enriching"}
         /\ \A i \in Specs : (Listed(i)' => i <= at) /\ (Read_(i)' => i <= at)
         /\ \A i \in Specs : i <= at => Listed(i)' /\ Read_(i)'
  <1>1. \A j \in Specs : j \in Nat
    BY SpecsAreNumbers
  <1>4. at \in Nat
    BY <1>1
  <1>2. CASE Later(at) # {}
    <2>1. /\ First(Later(at)) \in Later(at)
          /\ \A j \in Later(at) : First(Later(at)) <= j
      BY <1>2, FirstIsLeast DEF Later
    <2>2. phase' = "listing" /\ at' = First(Later(at))
      BY <1>2 DEF Proceed
    <2>3. at' \in Specs /\ \A j \in Specs : j > at => at' <= j
      BY <2>1, <2>2 DEF Later
    <2>4. \A i \in Specs : i < at' => i <= at
      BY <1>1, <2>3
    <2>5. \A i \in Specs : i <= at => i < at'
      <3>1. at' \in Nat /\ at < at'
        BY <1>1, <1>4, <2>1, <2>2 DEF Later
      <3> QED
        BY <1>1, <1>4, <3>1
    <2> QED
      BY <1>1, <2>2, <2>3, <2>4, <2>5 DEF Place, Listed, Read_
  <1>3. CASE Later(at) = {}
    <2>1. phase' = "enriching" /\ at' = at
      BY <1>3 DEF Proceed
    <2>2. \A i \in Specs : i <= at
      BY <1>1, <1>3 DEF Later
    <2>3. \A i \in Specs : i <= at => i < at \/ i = at
      BY <1>1, <1>4
    <2> QED
      BY <1>1, <2>1, <2>2, <2>3 DEF Place, Listed, Read_
  <1> QED
    BY <1>2, <1>3

\* A page is cut off at the cap.
LEMMA PageIsFair ==
  ASSUME NEW page \in Pages
  PROVE  /\ page \subseteq Of(at)
         /\ page = Of(at) \/ Cardinality(page) = Cap
  <1>1. Members = Of(at)
    BY DEF Members, Of
  <1> QED
    BY <1>1 DEF Pages

\* So one that is not cut off is complete.
LEMMA ListedFairly ==
  ASSUME NEW i, NEW page \in SUBSET Of(i),
         page = Of(i) \/ Cardinality(page) = Cap
  PROVE  /\ page = {} => Of(i) = {}
         /\ Cardinality(Of(i)) <= Cap => page = Of(i)
  <1>1. IsFiniteSet(Of(i))
    <2>1. Of(i) \subseteq Elements
      BY DEF Of
    <2> QED
      BY <2>1, FS_Subset, ReadsAssumption
  <1>2. /\ Cardinality(page) <= Cardinality(Of(i))
        /\ Cardinality(page) = Cardinality(Of(i)) => page = Of(i)
    BY <1>1, FS_Subset
  <1>3. Cardinality(Of(i)) \in Nat /\ Cap \in Nat \ {0}
    BY <1>1, FS_CardinalityType, ReadsAssumption
  <1>4. Cardinality({}) = 0
    BY FS_EmptySet
  <1> QED
    BY <1>2, <1>3, <1>4

\* What has been listed and read after a spec is through.
LEMMA SpecFetched ==
  ASSUME IInv, at \in Specs, phase \in {"listing", "hydrating"},
         Proceed(at), unheard \subseteq unheard', elements \subseteq elements',
         \A i \in Specs : i # at => listing'[i] = listing[i],
         listing'[at] \subseteq Of(at),
         listing'[at] = Of(at) \/ Cardinality(listing'[at]) = Cap,
         \A e \in listing'[at] : Hampered(e, at)
                              \/ \E x \in elements' : x.id = e /\ x.spec = at,
         \A x \in elements' \ elements : x.spec = at,
         \A x, y \in elements' \ elements : x.id = y.id => x = y
  PROVE  FetchSound'
  <1>1. \A i \in Specs : i \in Nat
    BY SpecsAreNumbers
  <1>2. \A i \in Specs : (Listed(i)' => i <= at) /\ (Read_(i)' => i <= at)
    BY ProceedPlace DEF IInv
  <1>3. \A i \in Specs : i < at => Listed(i) /\ Read_(i)
    BY DEF Listed, Read_
  <1>a. at \in Nat
    BY <1>1
  <1>4. FetchSound /\ phase # "failed"
    BY DEF IInv
  <1>5. \A e, i : Hampered(e, i) => Hampered(e, i)'
    BY DEF Hampered
  <1>6. ASSUME NEW i \in Specs, Listed(i)'
        PROVE  listing'[i] = Of(i) \/ Cardinality(listing'[i]) = Cap
    <2>a. i <= at
      BY <1>2, <1>6 DEF Listed
    <2>b. i \in Nat
      BY <1>1
    <2>c. i = at \/ i < at
      BY <1>a, <2>a, <2>b
    <2>1. i = at \/ (i < at /\ Listed(i))
      BY <1>3, <2>c
    <2> QED
      BY <2>1, <1>4 DEF FetchSound, RowsOnce
  <1>7. ASSUME NEW i \in Specs, Read_(i)', NEW e \in listing'[i]
        PROVE  Hampered(e, i)' \/ \E x \in elements' : x.id = e /\ x.spec = i
    <2>a. i <= at
      BY <1>2, <1>7 DEF Read_
    <2>b. i \in Nat
      BY <1>1
    <2>c. i = at \/ (i < at /\ i # at)
      BY <1>a, <2>a, <2>b
    <2>1. i = at \/ (i # at /\ Read_(i))
      BY <1>3, <2>c
    <2>2. CASE i = at
      BY <2>2, <1>5, <1>7
    <2>3. CASE i # at /\ Read_(i)
      BY <2>3, <1>4, <1>5, <1>7 DEF FetchSound, RowsOnce
    <2> QED
      BY <2>1, <2>2, <2>3
  <1>8. \A i \in Specs : listing'[i] \subseteq Of(i)
    <2>1. \A i \in Specs : listing[i] \subseteq Of(i)
      BY <1>4 DEF FetchSound
    <2>2. \A i \in Specs : i = at \/ listing'[i] = listing[i]
      OBVIOUS
    <2> QED
      BY <2>1, <2>2
  <1>9. ASSUME NEW i \in Specs, ~Listed(i)'
        PROVE  listing'[i] = {}
    <2>a. \A j \in Specs : j <= at => Listed(j)'
      BY ProceedPlace DEF IInv
    <2>1. ~(i <= at)
      BY <1>9, <2>a
    <2>b. i \in Nat
      BY <1>1
    <2>c. i # at /\ ~(i < at)
      BY <1>a, <2>1, <2>b
    <2>2. i # at /\ ~Listed(i)
      BY <2>c DEF Listed
    <2> QED
      BY <2>2, <1>4 DEF FetchSound, RowsOnce
  <1>10. RowsOnce'
    <2>1. ~Read_(at)
      BY <1>a DEF Read_
    <2>2. RowsOnce
      BY <1>4 DEF FetchSound
    <2>3. \A x \in elements : x.spec \in Specs
      BY DEF IInv, Shape, Rows
    <2>4. \A i \in Specs : i <= at => Read_(i)'
      BY ProceedPlace DEF IInv
    <2>5. \A x \in elements : x.spec # at /\ Read_(x.spec)'
      <3> SUFFICES ASSUME NEW x \in elements
                   PROVE  x.spec # at /\ Read_(x.spec)'
        OBVIOUS
      <3>1. Read_(x.spec) /\ x.spec \in Specs /\ x.spec \in Nat
        BY <1>1, <2>2, <2>3 DEF RowsOnce
      <3>2. x.spec <= at
        BY <1>a, <3>1 DEF Read_
      <3> QED
        BY <2>1, <2>4, <3>1, <3>2
    <2>6. \A i \in Specs : i = at => Read_(i)'
      BY <1>a, <2>4
    <2>7. \A x \in elements' :
            x \in elements \/ (x \notin elements /\ x.spec = at)
      OBVIOUS
    <2>8. \A x \in elements' : Read_(x.spec)'
      BY <2>5, <2>6, <2>7
    <2>9. ASSUME NEW x \in elements', NEW y \in elements',
                 x.id = y.id, x.spec = y.spec
          PROVE  x = y
      <3>1. CASE x \in elements
        <4>1. y \in elements
          BY <2>5, <2>7, <2>9, <3>1
        <4> QED
          BY <2>2, <2>9, <3>1, <4>1 DEF RowsOnce
      <3>2. CASE x \notin elements
        <4>1. y \notin elements
          BY <2>5, <2>7, <2>9, <3>2
        <4> QED
          BY <2>9, <3>2, <4>1
      <3> QED
        BY <3>1, <3>2
    <2> QED
      BY <2>8, <2>9 DEF RowsOnce
  <1> QED
    BY <1>6, <1>7, <1>8, <1>9, <1>10 DEF FetchSound, Of

\* A spec that is being listed has no page yet.
LEMMA NotYetListed ==
  ASSUME IInv, phase = "listing"
  PROVE  /\ at \in Specs /\ at \in Positions
         /\ listing[at] = {}
         /\ \A e \in Elements : stage[e] = "none" /\ got[e] = Nothing
  <1>1. at \in Specs /\ at \in Positions
    BY SpecsAreNumbers DEF IInv, Place
  <1>2. ~(at < at)
    BY <1>1, SpecsAreNumbers
  <1>3. ~Listed(at)
    BY <1>2 DEF Listed
  <1> QED
    BY <1>1, <1>3 DEF IInv, FetchSound, RowsOnce, TasksSound

LEMMA ListSound ==
  ASSUME IInv, List
  PROVE  IInv'
  <1>1. PICK page \in Pages :
          /\ listing' = [listing EXCEPT ![at] = page]
          /\ cache' = [t \in Things |-> IF Primes(at) /\ t \in page
                                        THEN model[t] ELSE cache[t]]
          /\ IF page = {} THEN Proceed(at) /\ UNCHANGED task
             ELSE phase' = "hydrating" /\ at' = at /\ Begin(page)
    BY DEF List
  <1>2. /\ phase = "listing"
        /\ UNCHANGED <<model, bulk, elements, coverage, verdicts, past,
                       unheard>>
    BY DEF List, history
  <1>3. /\ at \in Specs /\ at \in Positions /\ listing[at] = {}
        /\ \A e \in Elements : stage[e] = "none" /\ got[e] = Nothing
    BY <1>2, NotYetListed
  <1>4. /\ page \subseteq Of(at) /\ page \subseteq Elements
        /\ page = Of(at) \/ Cardinality(page) = Cap
    BY <1>3, PageIsFair DEF Of
  <1>5. /\ listing' \in [Positions -> SUBSET Elements]
        /\ listing'[at] = page
        /\ \A i \in Specs : i # at => listing'[i] = listing[i]
        /\ \A i \in Specs : listing[i] \subseteq listing'[i]
    BY <1>1, <1>3, <1>4, SpecsAreNumbers DEF IInv, Shape
  <1>6. cache' \in [Things -> Readings]
        /\ \A t \in Things : cache'[t] # Unread => cache'[t] \in past[t]
    BY <1>1 DEF IInv, Shape, PastSound, Readings
  <1>7. PastSound'
    BY <1>2, <1>6 DEF IInv, PastSound
  <1>8. RowsSound'
    BY <1>2, <1>5, RowsStay DEF IInv, RowsSound
  <1>9. CASE page = {}
    <2>1. Proceed(at) /\ UNCHANGED <<stage, mode, got>>
      BY <1>1, <1>9 DEF task
    <2>2. Place' /\ at' \in Specs /\ phase' \in {"listing", "enriching"}
      BY <1>3, <2>1, ProceedPlace DEF IInv
    <2>3. Shape'
      BY <1>2, <1>5, <1>6, <2>1, <2>2 DEF IInv, Shape, Phases
    <2>4. TasksSound'
      <3>1. \A e \in Elements : stage'[e] = "none" /\ got'[e] = Nothing
        BY <1>3, <2>1
      <3>2. \A e \in Elements : PlaceOf(e)' /\ TruthOf(e)'
        BY <3>1, FreshTasks
      <3> QED
        BY <2>2, <3>1, <3>2 DEF TasksSound
    <2>5. OneReadPerThing'
      <3>1. \A e \in Elements : Wanted(e)' = NoThing
        BY <1>3, <2>1 DEF Wanted
      <3>2. Leaders' = {} /\ Calls' = {}
        BY <3>1 DEF Leaders, Calls, Reading
      <3>3. Cardinality(Calls') = 0
        BY <3>2, FS_EmptySet
      <3> QED
        BY <3>2, <3>3, ReadsAssumption DEF OneReadPerThing
    <2>6. FetchSound'
      BY <1>2, <1>3, <1>4, <1>5, <1>9, <2>1, SpecFetched
    <2>7. CheckSound'
      BY <1>2, <2>2 DEF IInv, CheckSound
    <2> QED
      BY <1>7, <1>8, <2>2, <2>3, <2>4, <2>5, <2>6, <2>7 DEF IInv
  <1>10. CASE page # {}
    <2>1. phase' = "hydrating" /\ at' = at /\ Begin(page)
      BY <1>1, <1>10
    <2>2. Nothing \in [instance : Readings, type : Readings, host : Readings]
      BY DEF Nothing, Readings
    <2>3. Shape'
      <3>1. /\ stage' \in [Elements -> Stages]
            /\ mode' \in [Elements -> {"ready", "waiting", "queued",
                                      "calling"}]
            /\ got' \in [Elements -> [instance : Readings, type : Readings,
                                      host : Readings]]
        BY <2>1, <2>2 DEF Begin, Stages
      <3> QED
        BY <1>2, <1>5, <1>6, <2>1, <3>1 DEF IInv, Shape, Phases
    <2>4. Place'
      BY <1>3, <2>1 DEF Place
    <2>5. TasksSound'
      <3>1. \A e \in Elements : /\ stage'[e] \in {"none", "instance"}
                                /\ stage'[e] # "none" <=> e \in page
                                /\ got'[e] = Nothing
        BY <2>1 DEF Begin
      <3>2. \A e \in Elements : PlaceOf(e)' /\ TruthOf(e)'
        BY <3>1, FreshTasks
      <3> QED
        BY <1>5, <2>1, <3>1, <3>2 DEF TasksSound
    <2>6. OneReadPerThing'
      <3>1. \A e \in Elements : mode'[e] = "ready"
        BY <2>1 DEF Begin
      <3> QED
        BY <3>1, NoReaders
    <2>7. FetchSound'
      <3>1. \A i \in Specs : /\ Read_(i)' <=> Read_(i)
                             /\ Listed(i)' <=> (Listed(i) \/ i = at)
                             /\ Read_(i) => i # at
        BY <1>2, <1>3, <2>1, SpecsAreNumbers DEF Read_, Listed
      <3>2. FetchSound /\ phase # "failed"
        BY <1>2 DEF IInv
      <3>3. \A e, i : Hampered(e, i)' <=> Hampered(e, i)
        BY <1>2 DEF Hampered
      <3> QED
        <4>1. RowsOnce'
          <5>1. \A x \in elements : x.spec \in Specs
            BY DEF IInv, Shape, Rows
          <5> QED
            BY <1>2, <3>1, <3>2, <5>1 DEF FetchSound, RowsOnce
        <4>2. \A i \in Specs : listing'[i] \subseteq Of(i)
          <5>1. \A i \in Specs : listing[i] \subseteq Of(i)
            BY <3>2 DEF FetchSound
          <5>2. \A i \in Specs : i = at \/ listing'[i] = listing[i]
            BY <1>5
          <5> QED
            BY <1>4, <1>5, <5>1, <5>2
        <4>3. \A i \in Specs : Listed(i)' =>
                listing'[i] = Of(i) \/ Cardinality(listing'[i]) = Cap
          <5> SUFFICES ASSUME NEW i \in Specs, Listed(i)'
                       PROVE  listing'[i] = Of(i)
                              \/ Cardinality(listing'[i]) = Cap
            OBVIOUS
          <5>1. CASE i = at
            BY <1>4, <1>5, <5>1
          <5>2. CASE i # at
            BY <1>5, <3>1, <3>2, <5>2 DEF FetchSound
          <5> QED
            BY <5>1, <5>2
        <4>4. \A i \in Specs : ~Listed(i)' => listing'[i] = {}
          BY <1>5, <3>1, <3>2 DEF FetchSound
        <4>5. \A i \in Specs : Read_(i)' => \A e \in listing'[i] :
                Hampered(e, i)' \/ \E x \in elements' : x.id = e /\ x.spec = i
          BY <1>2, <1>5, <3>1, <3>2, <3>3 DEF FetchSound
        <4> QED
          BY <4>1, <4>2, <4>3, <4>4, <4>5 DEF FetchSound
    <2>8. CheckSound'
      BY <1>2, <2>1 DEF IInv, CheckSound
    <2> QED
      BY <1>7, <1>8, <2>3, <2>4, <2>5, <2>6, <2>7, <2>8 DEF IInv
  <1> QED
    BY <1>9, <1>10

\* A new place of the pass at which no hydration is under way.
LEMMA IdleTasks ==
  ASSUME IInv, phase \notin {"hydrating", "failed"},
         phase' \notin {"hydrating"}, UNCHANGED <<stage, mode, got>>
  PROVE  TasksSound' /\ OneReadPerThing'
  <1>1. \A e \in Elements : stage'[e] = "none" /\ got'[e] = Nothing
    BY DEF IInv, TasksSound
  <1>2. \A e \in Elements : PlaceOf(e)' /\ TruthOf(e)'
    BY <1>1, FreshTasks
  <1>3. TasksSound'
    BY <1>1, <1>2 DEF TasksSound
  <1>4. \A e \in Elements : Wanted(e)' = NoThing
    BY <1>1 DEF Wanted
  <1>5. Leaders' = {} /\ Calls' = {}
    BY <1>4 DEF Leaders, Calls, Reading
  <1>6. Cardinality(Calls') = 0
    BY <1>5, FS_EmptySet
  <1> QED
    BY <1>3, <1>5, <1>6, ReadsAssumption DEF OneReadPerThing

LEMMA ListSheetsSound ==
  ASSUME IInv, ListSheets
  PROVE  IInv'
  <1>1. PICK page \in Pages :
          /\ listing' = [listing EXCEPT ![at] = page]
          /\ elements' = elements \cup
               {[id |-> e, spec |-> at, instance |-> model[e],
                 type |-> Unread, host |-> Unread] : e \in page}
    BY DEF ListSheets
  <1>2. /\ phase = "listing" /\ Proceed(at) /\ Entry[Targets[at]] \in Sheets
        /\ UNCHANGED <<model, bulk, cache, past, unheard, stage, mode, got,
                       coverage>>
    BY DEF ListSheets, history, task
  <1>3. /\ at \in Specs /\ at \in Positions /\ listing[at] = {}
    BY <1>2, NotYetListed
  <1>4. /\ page \subseteq Of(at) /\ page \subseteq Elements
        /\ page = Of(at) \/ Cardinality(page) = Cap
    BY <1>3, PageIsFair DEF Of
  <1>5. /\ listing' \in [Positions -> SUBSET Elements]
        /\ listing'[at] = page
        /\ \A i \in Specs : i # at => listing'[i] = listing[i]
        /\ \A i \in Specs : listing[i] \subseteq listing'[i]
    BY <1>1, <1>3, <1>4, SpecsAreNumbers DEF IInv, Shape
  <1>6. Place' /\ at' \in Specs /\ phase' \in {"listing", "enriching"}
    BY <1>2, <1>3, ProceedPlace DEF IInv
  <1>7. ASSUME NEW x \in elements' \ elements
        PROVE  /\ x \in Rows /\ RowSound(x)'
               /\ x.spec = at /\ x.id \in page
    <2>1. PICK e \in page : x = [id |-> e, spec |-> at, instance |-> model[e],
                                 type |-> Unread, host |-> Unread]
      BY <1>1
    <2>2. /\ x.id = e /\ x.spec = at
      BY <2>1
    <2>3. model[e] \in Readings /\ Unread \in Readings
      BY <1>4 DEF IInv, Shape, Readings, Things
    <2>4. x \in Rows
      BY <1>3, <1>4, <2>1, <2>3 DEF Rows
    <2>5. /\ x.instance \in past'[e]
          /\ x.type = Unread /\ x.host = Unread
      BY <1>2, <1>4, <2>1 DEF IInv, PastSound, Things
    <2>6. TypeOf[e] = NoThing /\ HostType(e, at) = NoThing
      <3>1. e \in Elements /\ Category[e] \in Sheets
        BY <1>2, <1>4 DEF Of
      <3>2. TypeOf[e] = NoThing /\ HostOf[e] = NoThing
        BY <3>1, ReadsAssumption
      <3> QED
        BY <3>2 DEF HostType
    <2> QED
      BY <1>5, <2>2, <2>4, <2>5, <2>6 DEF RowSound, Told
  <1>8. Shape'
    <2>1. elements' \in SUBSET Rows
      BY <1>7 DEF IInv, Shape
    <2> QED
      BY <1>2, <1>5, <1>6, <2>1 DEF IInv, Shape, Phases
  <1>9. PastSound'
    BY <1>2 DEF IInv, PastSound
  <1>10. TasksSound' /\ OneReadPerThing'
    BY <1>2, <1>6, IdleTasks
  <1>11. RowsSound'
    <2>1. \A x \in elements : RowSound(x)'
      BY <1>2, <1>5, RowsStay DEF IInv
    <2> QED
      BY <1>7, <2>1 DEF RowsSound
  <1>12. FetchSound'
    <2>1. \A e \in page : \E x \in elements' : x.id = e /\ x.spec = at
      <3> TAKE e \in page
      <3> DEFINE x == [id |-> e, spec |-> at, instance |-> model[e],
                       type |-> Unread, host |-> Unread]
      <3>1. x \in elements' /\ x.id = e /\ x.spec = at
        BY <1>1
      <3> QED
        BY <3>1
    <2>2. elements \subseteq elements'
      BY <1>1
    <2>3. \A x, y \in elements' \ elements : x.id = y.id => x = y
      BY <1>1
    <2> QED
      BY <1>2, <1>3, <1>4, <1>5, <1>7, <2>1, <2>2, <2>3, SpecFetched
  <1>13. CheckSound'
    BY <1>2, <1>6 DEF IInv, CheckSound
  <1> QED
    BY <1>6, <1>8, <1>9, <1>10, <1>11, <1>12, <1>13 DEF IInv

\* A failed run keeps what it had.
LEMMA FailSound ==
  ASSUME IInv, phase' = "failed",
         UNCHANGED <<model, at, bulk, listing, stage, mode, got, cache,
                     elements, coverage, past, unheard>>
  PROVE  IInv'
  <1>1. Shape'
    BY DEF IInv, Shape, Phases
  <1>2. Place'
    BY DEF IInv, Place
  <1>3. PastSound'
    BY DEF IInv, PastSound
  <1>4. TasksSound'
    <2>1. \A x \in Elements : /\ PlaceOf(x) => PlaceOf(x)'
                              /\ TruthOf(x) => TruthOf(x)'
      BY DEF PlaceOf, TruthOf, Hampered, Told
    <2> QED
      BY <2>1 DEF IInv, TasksSound
  <1>5. OneReadPerThing'
    <2>1. \A x : Wanted(x)' = Wanted(x)
      BY DEF Wanted
    <2>2. Leaders' = Leaders /\ Calls' = Calls
      BY <2>1 DEF Leaders, Calls, Reading
    <2> QED
      BY <2>1, <2>2 DEF IInv, OneReadPerThing
  <1>6. RowsSound'
    BY RowsStay DEF IInv, RowsSound
  <1>7. FetchSound' /\ CheckSound'
    BY DEF IInv, FetchSound, RowsOnce, CheckSound
  <1> QED
    BY <1>1, <1>2, <1>3, <1>4, <1>5, <1>6, <1>7 DEF IInv

LEMMA GatherSound ==
  ASSUME IInv, Gather
  PROVE  IInv'
  <1>1. /\ phase = "hydrating" /\ Proceed(at) /\ NoTasks
        /\ listing[at] = In("done") \cup In("dropped") \cup In("error")
        /\ elements' = elements \cup
             {[id |-> e, spec |-> at, instance |-> got[e].instance,
               type |-> got[e].type, host |-> got[e].host] : e \in In("done")}
        /\ UNCHANGED <<model, bulk, listing, cache, coverage, past, unheard>>
    BY DEF Gather, Gathered, history
  <1>2. at \in Specs /\ at \in Positions
    BY <1>1, SpecsAreNumbers DEF IInv, Place
  <1>3. Place' /\ at' \in Specs /\ phase' \in {"listing", "enriching"}
    BY <1>1, <1>2, ProceedPlace DEF IInv
  <1>4. listing[at] \subseteq Elements
    BY <1>2 DEF IInv, Shape
  <1>5. ASSUME NEW x \in elements' \ elements
        PROVE  x \in Rows /\ RowSound(x)'
    <2>1. PICK e \in In("done") :
            x = [id |-> e, spec |-> at, instance |-> got[e].instance,
                 type |-> got[e].type, host |-> got[e].host]
      BY <1>1
    <2>2. e \in Elements /\ e \in listing[at] /\ stage[e] = "done"
      BY <1>4 DEF In
    <2>3. got[e] \in [instance : Readings, type : Readings, host : Readings]
      BY <2>2 DEF IInv, Shape
    <2>4. x \in Rows
      BY <1>2, <2>1, <2>2, <2>3 DEF Rows
    <2>5. TruthOf(e)
      BY <2>2 DEF IInv, TasksSound
    <2>6. /\ x.id = e /\ x.spec = at /\ x.instance = got[e].instance
          /\ x.type = got[e].type /\ x.host = got[e].host
      BY <2>1
    <2>7. \/ Hampered(x.id, x.spec)
          \/ /\ x.instance \in past[x.id]
             /\ Told(TypeOf[x.id], x.type)
             /\ Told(HostType(x.id, x.spec), x.host)
      BY <2>2, <2>5, <2>6 DEF TruthOf
    <2>8. RowSound(x)'
      BY <1>1, <2>2, <2>6, <2>7 DEF RowSound, Hampered, Told
    <2> QED
      BY <2>4, <2>8
  <1>6. Shape'
    <2>1. elements' \in SUBSET Rows
      BY <1>5 DEF IInv, Shape
    <2> QED
      BY <1>1, <1>3, <2>1, NoTasksShape DEF IInv, Shape, Phases
  <1>7. PastSound'
    BY <1>1 DEF IInv, PastSound
  <1>8. TasksSound' /\ OneReadPerThing'
    <2>1. \A e \in Elements : stage'[e] = "none" /\ got'[e] = Nothing
      BY <1>1, NoTasksShape
    <2>2. \A e \in Elements : PlaceOf(e)' /\ TruthOf(e)'
      BY <2>1, FreshTasks
    <2> QED
      BY <1>1, <1>3, <2>1, <2>2, NoTasksShape DEF TasksSound
  <1>9. RowsSound'
    <2>1. \A x \in elements : RowSound(x)'
      BY <1>1, RowsStay DEF IInv
    <2> QED
      BY <1>5, <2>1 DEF RowsSound
  <1>10. FetchSound'
    <2>1. ASSUME NEW e \in listing[at]
          PROVE  Hampered(e, at)
                 \/ \E x \in elements' : x.id = e /\ x.spec = at
      <3>1. CASE e \in In("done")
        <4> DEFINE x == [id |-> e, spec |-> at, instance |-> got[e].instance,
                         type |-> got[e].type, host |-> got[e].host]
        <4>1. x \in elements' /\ x.id = e /\ x.spec = at
          BY <1>1, <3>1
        <4> QED
          BY <4>1
      <3>2. CASE e \notin In("done")
        <4>1. stage[e] \in {"dropped", "error"} /\ e \in Elements
          BY <1>1, <1>4, <3>2 DEF In
        <4>2. TruthOf(e)
          BY <4>1 DEF IInv, TasksSound
        <4> QED
          BY <4>1, <4>2 DEF TruthOf
      <3> QED
        BY <3>1, <3>2
    <2>2. FetchSound /\ Listed(at)
      BY <1>1 DEF IInv, Listed
    <2>3. /\ listing[at] \subseteq Of(at)
          /\ listing[at] = Of(at) \/ Cardinality(listing[at]) = Cap
      BY <1>1, <1>2, <2>2 DEF FetchSound, RowsOnce
    <2>4. elements \subseteq elements'
      BY <1>1
    <2>5. /\ \A x \in elements' \ elements : x.spec = at
          /\ \A x, y \in elements' \ elements : x.id = y.id => x = y
      BY <1>1
    <2> QED
      BY <1>1, <1>2, <2>1, <2>3, <2>4, <2>5, SpecFetched
  <1>11. CheckSound'
    BY <1>1, <1>3 DEF IInv, CheckSound
  <1> QED
    BY <1>3, <1>6, <1>7, <1>8, <1>9, <1>10, <1>11 DEF IInv

\* A step from one end of the pass to the next, where nothing is read.
LEMMA QuietSound ==
  ASSUME IInv, phase \in {"enriching", "covering", "checking"},
         phase' \in {"covering", "checking", "checked"},
         UNCHANGED <<model, at, bulk, listing, stage, mode, got, cache,
                     elements, past, unheard>>,
         CheckSound'
  PROVE  IInv'
  <1>1. Shape'
    BY DEF IInv, Shape, Phases
  <1>2. Place'
    BY DEF IInv, Place
  <1>3. PastSound'
    BY DEF IInv, PastSound
  <1>4. TasksSound' /\ OneReadPerThing'
    BY IdleTasks
  <1>5. RowsSound'
    BY RowsStay DEF IInv, RowsSound
  <1>6. FetchSound'
    <2>1. \A i : (Listed(i)' <=> Listed(i)) /\ (Read_(i)' <=> Read_(i))
      BY DEF Listed, Read_
    <2>2. \A e, i : Hampered(e, i)' <=> Hampered(e, i)
      BY DEF Hampered
    <2> QED
      BY <2>1, <2>2 DEF IInv, FetchSound, RowsOnce
  <1> QED
    BY <1>1, <1>2, <1>3, <1>4, <1>5, <1>6 DEF IInv

LEMMA JudgementStays ==
  ASSUME elements' = elements
  PROVE  Judgement' = Judgement
  BY DEF Judgement, InScope, Shared, Siblings

LEMMA EnrichSound ==
  ASSUME IInv, Enrich
  PROVE  IInv'
  <1>1. /\ phase = "enriching" /\ phase' = "covering"
        /\ UNCHANGED <<model, at, bulk, listing, stage, mode, got, cache,
                       elements, past, unheard>>
    BY DEF Enrich, task, history
  <1>2. "empty" \in DOMAIN coverage'
    BY DEF Enrich, IInv, CheckSound
  <1>3. CheckSound'
    BY <1>1, <1>2 DEF CheckSound
  <1> QED
    BY <1>1, <1>3, QuietSound

LEMMA CoverSound ==
  ASSUME IInv, Cover
  PROVE  IInv'
  <1>1. /\ phase = "covering" /\ phase' = "checking"
        /\ coverage' = [coverage EXCEPT !.empty =
             {Label(i) : i \in Specs} \ {LabelOf(x) : x \in elements}]
        /\ UNCHANGED <<model, at, bulk, listing, stage, mode, got, cache,
                       elements, past, unheard>>
    BY DEF Cover, task, history
  <1>2. "empty" \in DOMAIN coverage
    BY DEF IInv, CheckSound
  <1>3. CheckSound'
    BY <1>1, <1>2 DEF CheckSound, LabelOf
  <1> QED
    BY <1>1, <1>3, QuietSound

LEMMA CheckStepSound ==
  ASSUME IInv, Check
  PROVE  IInv'
  <1>1. /\ phase = "checking" /\ phase' = "checked"
        /\ verdicts' = Judgement
        /\ UNCHANGED <<model, at, bulk, listing, stage, mode, got, cache,
                       elements, coverage, past, unheard>>
    BY DEF Check, Judgement, task, history
  <1>2. Judgement' = Judgement
    BY <1>1, JudgementStays
  <1>3. CheckSound'
    BY <1>1, <1>2 DEF IInv, CheckSound, LabelOf
  <1> QED
    BY <1>1, <1>3, QuietSound

LEMMA ListFailsSound ==
  ASSUME IInv, ListFails
  PROVE  IInv'
  BY FailSound DEF ListFails, task, history

LEMMA GatherFailsSound ==
  ASSUME IInv, GatherFails
  PROVE  IInv'
  BY FailSound DEF GatherFails, task, history

\* An edit adds to what a thing has been.
LEMMA EditSound ==
  ASSUME IInv, NEW t \in Things, NEW v \in Edits, Edit(t, v)
  PROVE  IInv'
  <1>1. /\ model' = [model EXCEPT ![t] = v]
        /\ past' = [past EXCEPT ![t] = @ \cup {v}]
        /\ v \in Values /\ phase # "failed"
        /\ UNCHANGED <<phase, at, bulk, listing, stage, mode, got, cache,
                       elements, coverage, verdicts, unheard>>
    BY ReadsAssumption DEF Edit, task
  <1>2. \A u \in Things : past[u] \subseteq past'[u]
    BY <1>1 DEF IInv, Shape
  <1>3. Shape'
    BY <1>1 DEF IInv, Shape
  <1>4. Place'
    BY <1>1 DEF IInv, Place
  <1>5. PastSound'
    BY <1>1 DEF IInv, Shape, PastSound
  <1>6. TasksSound'
    <2>1. ASSUME NEW e \in Elements
          PROVE  PlaceOf(e)' /\ TruthOf(e)'
      <3>1. PlaceOf(e) /\ TruthOf(e)
        BY DEF IInv, TasksSound
      <3>2. /\ TypeOf[e] \in Things \cup {NoThing}
            /\ HostType(e, at) \in Things \cup {NoThing}
            /\ e \in Things
        BY ReadsAssumption DEF HostType, Things
      <3>3. \A r, u : u \in Things \cup {NoThing} /\ Told(u, r) => Told(u, r)'
        BY <1>2 DEF Told
      <3>4. Told(TypeOf[e], got[e].type) => Told(TypeOf[e], got[e].type)'
        BY <1>1, <1>2, <3>2 DEF Told
      <3>5. Told(HostType(e, at), got[e].host)
              => Told(HostType(e, at), got[e].host)'
        BY <1>1, <1>2, <3>2 DEF Told, HostType
      <3>6. Hampered(e, at)' <=> Hampered(e, at)
        BY <1>1 DEF Hampered
      <3>7. past[e] \subseteq past'[e]
        BY <1>2, <3>2
      <3>8. TruthOf(e)'
        BY <1>1, <3>1, <3>4, <3>5, <3>6, <3>7 DEF TruthOf
      <3>9. PlaceOf(e)'
        BY <1>1, <3>1 DEF PlaceOf
      <3> QED
        BY <3>8, <3>9
    <2> QED
      BY <1>1, <2>1 DEF IInv, TasksSound
  <1>7. OneReadPerThing'
    <2>1. \A x : Wanted(x)' = Wanted(x)
      BY <1>1 DEF Wanted
    <2>2. Leaders' = Leaders /\ Calls' = Calls
      BY <1>1, <2>1 DEF Leaders, Calls, Reading
    <2> QED
      BY <1>1, <2>1, <2>2 DEF IInv, OneReadPerThing
  <1>8. RowsSound'
    BY <1>1, <1>2, RowsStay DEF IInv, RowsSound
  <1>9. FetchSound'
    <2>1. \A i : (Listed(i)' <=> Listed(i)) /\ (Read_(i)' <=> Read_(i))
      BY <1>1 DEF Listed, Read_
    <2>2. \A e, i : Hampered(e, i)' <=> Hampered(e, i)
      BY <1>1 DEF Hampered
    <2> QED
      BY <1>1, <2>1, <2>2 DEF IInv, FetchSound, RowsOnce
  <1>10. CheckSound'
    <2>1. Judgement' = Judgement
      BY <1>1, JudgementStays
    <2> QED
      BY <1>1, <2>1 DEF IInv, CheckSound, LabelOf
  <1> QED
    BY <1>3, <1>4, <1>5, <1>6, <1>7, <1>8, <1>9, <1>10 DEF IInv

LEMMA StutterSound ==
  ASSUME IInv, UNCHANGED elementVars
  PROVE  IInv'
  <1>1. UNCHANGED <<model, phase, at, bulk, listing, stage, mode, got, cache,
                    elements, coverage, verdicts, past, unheard>>
    BY DEF elementVars, task, history
  <1>2. Shape' /\ Place' /\ PastSound'
    BY <1>1 DEF IInv, Shape, Place, PastSound
  <1>3. TasksSound'
    <2>1. \A x \in Elements : (PlaceOf(x) => PlaceOf(x)')
                           /\ (TruthOf(x) => TruthOf(x)')
      BY <1>1 DEF PlaceOf, TruthOf, Hampered, Told
    <2> QED
      BY <1>1, <2>1 DEF IInv, TasksSound
  <1>4. OneReadPerThing'
    <2>1. \A x : Wanted(x)' = Wanted(x)
      BY <1>1 DEF Wanted
    <2>2. Leaders' = Leaders /\ Calls' = Calls
      BY <1>1, <2>1 DEF Leaders, Calls, Reading
    <2> QED
      BY <1>1, <2>1, <2>2 DEF IInv, OneReadPerThing
  <1>5. RowsSound'
    BY <1>1, RowsStay DEF IInv, RowsSound
  <1>6. FetchSound'
    <2>1. \A i : (Listed(i)' <=> Listed(i)) /\ (Read_(i)' <=> Read_(i))
      BY <1>1 DEF Listed, Read_
    <2>2. \A e, i : Hampered(e, i)' <=> Hampered(e, i)
      BY <1>1 DEF Hampered
    <2> QED
      BY <1>1, <2>1, <2>2 DEF IInv, FetchSound, RowsOnce
  <1>7. CheckSound'
    <2>1. Judgement' = Judgement
      BY <1>1, JudgementStays
    <2> QED
      BY <1>1, <2>1 DEF IInv, CheckSound, LabelOf
  <1> QED
    BY <1>2, <1>3, <1>4, <1>5, <1>6, <1>7 DEF IInv

LEMMA InitSound ==
  ASSUME InitElements
  PROVE  IInv
  <1>1. \A e \in Elements : stage[e] = "none" /\ got[e] = Nothing
                         /\ mode[e] = "ready"
    BY DEF InitElements
  <1>2. Shape
    <2>1. Nothing \in [instance : Readings, type : Readings, host : Readings]
      BY DEF Nothing, Readings
    <2>2. model \in [Things -> Values] /\ bulk \in BOOLEAN
      BY ReadsAssumption DEF InitElements
    <2>3. past \in [Things -> SUBSET Values]
      BY <2>2 DEF InitElements
    <2>4. listing \in [Positions -> SUBSET Elements]
      BY DEF InitElements, NoListing
    <2> QED
      BY <2>1, <2>2, <2>3, <2>4
      DEF InitElements, Shape, Phases, Stages, Readings
  <1>3. Place
    BY DEF InitElements, Place
  <1>4. PastSound
    BY DEF InitElements, PastSound
  <1>5. TasksSound
    <2>1. \A e \in Elements : PlaceOf(e) /\ TruthOf(e)
      BY <1>1 DEF PlaceOf, TruthOf
    <2> QED
      BY <1>1, <2>1 DEF TasksSound, InitElements
  <1>6. OneReadPerThing
    <2>1. Leaders = {} /\ Calls = {}
      BY <1>1 DEF Leaders, Calls, Reading
    <2>2. Cardinality(Calls) = 0
      BY <2>1, FS_EmptySet
    <2> QED
      BY <2>1, <2>2, ReadsAssumption DEF OneReadPerThing
  <1>7. RowsSound
    BY DEF InitElements, RowsSound
  <1>8. FetchSound
    <2>1. \A i \in Specs : ~Listed(i) /\ ~Read_(i) /\ listing[i] = {}
      BY SpecsAreNumbers DEF InitElements, Listed, Read_, NoListing
    <2>2. RowsOnce
      BY DEF InitElements, RowsOnce
    <2> QED
      BY <2>1, <2>2 DEF FetchSound
  <1>9. CheckSound
    BY DEF InitElements, CheckSound, Clean
  <1> QED
    BY <1>2, <1>3, <1>4, <1>5, <1>6, <1>7, <1>8, <1>9 DEF IInv

LEMMA Step ==
  ASSUME IInv, [NextElements]_elementVars
  PROVE  IInv'
  <1>1. CASE StartPass
    BY <1>1, StartPassSound
  <1>2. CASE Read
    <2>1. CASE List
      BY <2>1, ListSound
    <2>2. CASE ListSheets
      BY <2>2, ListSheetsSound
    <2>3. CASE ListFails
      BY <2>3, ListFailsSound
    <2>4. CASE \E e \in Elements : Hydrate(e)
      <3>1. PICK e \in Elements : Hydrate(e)
        BY <2>4
      <3> QED
        BY <3>1, ReadCachedSound, JoinSound, LeadSound, AcquireSound,
           AnswerSound, AnswerRefusedSound, AnswerRaisesSound DEF Hydrate
    <2>5. CASE Gather
      BY <2>5, GatherSound
    <2>6. CASE GatherFails
      BY <2>6, GatherFailsSound
    <2>7. CASE Enrich
      BY <2>7, EnrichSound
    <2>8. CASE Cover
      BY <2>8, CoverSound
    <2>9. CASE Check
      BY <2>9, CheckStepSound
    <2> QED
      BY <1>2, <2>1, <2>2, <2>3, <2>4, <2>5, <2>6, <2>7, <2>8, <2>9 DEF Read
  <1>3. CASE \E t \in Things, v \in Edits : Edit(t, v)
    BY <1>3, EditSound
  <1>4. CASE UNCHANGED elementVars
    BY <1>4, StutterSound
  <1> QED
    BY <1>1, <1>2, <1>3, <1>4 DEF NextElements

-----------------------------------------------------------------------------
\* The theorems.

\* What the parts of IInv say holds throughout an audit: the caches hold
\* values of this pass, every hydration has read what its stage says, and
\* what was listed and read is still there when QC judges it
\* (RevitQueryAgent.run and QCAgent.run).
THEOREM ReadsInvariance == ElementsSpec => []IInv
  <1>1. InitElements => IInv
    BY InitSound
  <1>2. IInv /\ [NextElements]_elementVars => IInv'
    BY Step
  <1> QED
    BY <1>1, <1>2, PTL DEF ElementsSpec

\* The state keeps the shape that ElementsTypeOK says, the verdicts of an
\* earlier pass included, and no hydration asks for a thing that is not there.
THEOREM ElementsTypeCorrect == ElementsSpec => []ElementsTypeOK
  <1> DEFINE V == verdicts \subseteq [element : Rows, rule : Rules,
                                     outcome : Outcomes]
  <1>1. InitElements => V
    BY DEF InitElements
  <1>2. ASSUME IInv, V, [NextElements]_elementVars
        PROVE  V'
    <2>1. verdicts' = verdicts \/ Check
      BY <1>2 DEF NextElements, StartPass, Read, List, ListSheets, ListFails,
         Hydrate, ReadCached, Join, Lead, Acquire, Answer, AnswerRefused,
         AnswerRaises, Gather, GatherFails, Enrich, Cover, Edit, elementVars
    <2>2. CASE verdicts' = verdicts
      BY <1>2, <2>2
    <2>3. CASE Check
      <3>1. verdicts' = Judgement
        BY <2>3 DEF Check, Judgement
      <3>2. InScope \subseteq Rows
        BY <1>2 DEF IInv, Shape, InScope
      <3>3. Judgement \subseteq [element : Rows, rule : Rules,
                                outcome : Outcomes]
        BY <3>2, OutcomeShape DEF Judgement
      <3> QED
        BY <3>1, <3>3
    <2> QED
      BY <2>1, <2>2, <2>3
  <1>3. ASSUME IInv, V
        PROVE  ElementsTypeOK
    <2>1. \A e \in Elements : Wanted(e) \in Things \cup {NoThing}
      BY <1>3, WantedIsNear DEF IInv, TasksSound
    <2> QED
      BY <1>3, <2>1 DEF IInv, Shape, Place, ElementsTypeOK, Outcomes
  <1> HIDE DEF V
  <1> QED
    BY <1>1, <1>2, <1>3, ReadsInvariance, PTL DEF ElementsSpec

\* However many hydrations run, a thing is read by one of them at a time and
\* never while it is cached, and the semaphore bounds the calls under way
\* (_get_instance, _get_type).
THEOREM SingleReads == ElementsSpec => []OneReadPerThing
  <1>1. IInv => OneReadPerThing
    BY DEF IInv
  <1> QED
    BY <1>1, ReadsInvariance, PTL

\* When a pass is over every spec has been read.
LEMMA CheckedAll ==
  ASSUME IInv, phase = "checked", NEW i \in Specs
  PROVE  Listed(i) /\ Read_(i)
  <1>1. i <= at /\ at \in Nat /\ i \in Nat
    BY SpecsAreNumbers DEF IInv, Place
  <1>2. i < at \/ i = at
    BY <1>1
  <1> QED
    BY <1>2 DEF Listed, Read_

\* What a judgement of a sound row rests on are values that the element, its
\* type and its host's type had during the pass.
LEMMA RowIsPast ==
  ASSUME Shape, NEW x \in elements, RowSound(x),
         ~Hampered(x.id, x.spec)
  PROVE  Own(x) \in PastOwn(x.id) /\ Other(x) \in Past(HostType(x.id, x.spec))
  <1>1. x.id \in Elements /\ x.spec \in Specs
    BY DEF Shape, Rows
  <1>2. /\ x.instance \in past[x.id]
        /\ Told(TypeOf[x.id], x.type)
        /\ Told(HostType(x.id, x.spec), x.host)
    BY DEF RowSound
  <1>3. /\ x.id \in Things /\ x.id # NoThing /\ Unread \notin Values
        /\ TypeOf[x.id] \in Things \cup {NoThing}
        /\ \A e \in Elements : TypeOf[e] \in Things \cup {NoThing}
        /\ HostOf[x.id] \in Elements \cup {NoThing}
    BY <1>1, ReadsAssumption DEF Things
  <1>4. HostType(x.id, x.spec) \in Things \cup {NoThing}
    BY <1>3 DEF HostType
  <1>5. \A t \in Things : past[t] \subseteq Values
    BY DEF Shape
  <1>6. "none" \in Values
    BY DEF Values
  <1>7. \A t \in Things \cup {NoThing} :
          \A v : Told(t, v) => Plain(v) \in Past(t)
    BY <1>3, <1>5 DEF Told, Plain, Past
  <1>8. \A v : Plain(Plain(v)) = Plain(v)
    BY <1>3, <1>6 DEF Plain
  <1>9. x.instance \in Past(x.id)
    BY <1>2, <1>3 DEF Past
  <1>10. Own(x) = Merged(x.instance, Plain(x.type))
    BY <1>8 DEF Own, Merged
  <1>11. Plain(x.type) \in Past(TypeOf[x.id])
    BY <1>2, <1>3, <1>7
  <1>12. Own(x) \in PastOwn(x.id)
    BY <1>9, <1>10, <1>11 DEF PastOwn
  <1>13. Other(x) \in Past(HostType(x.id, x.spec))
    BY <1>2, <1>4, <1>7 DEF Other
  <1> QED
    BY <1>12, <1>13

\* Another element of those that a rule is applied to is judged by what it
\* had during the pass.
LEMMA PeerIsPast ==
  ASSUME IInv, phase = "checked", NEW r, NEW y \in InScope, Applies(r, y),
         ~Hampered(y.id, y.spec)
  PROVE  /\ y.spec \in Stamped(r) /\ y.id \in Of(y.spec)
         /\ Own(y) \in PastOwn(y.id)
  <1>1. y \in elements /\ LabelOf(y) \in {Targets[i] : i \in Positions}
    BY DEF InScope
  <1>2. y.spec \in Specs /\ y.id \in listing[y.spec]
    BY <1>1 DEF IInv, Shape, Rows, RowsSound, RowSound
  <1>3. y.spec \in Stamped(r)
    BY <1>1, <1>2 DEF Stamped, LabelOf, Applies
  <1>4. y.id \in Of(y.spec)
    BY <1>2 DEF IInv, FetchSound
  <1> QED
    BY <1>1, <1>3, <1>4, RowIsPast DEF IInv, RowsSound

\* What is made of the rows that share a value is what the model says, when no
\* category is meant by two targets.
LEMMA SharedIsTwin ==
  ASSUME IInv, phase = "checked",
         \A i, j \in Specs : Entry[Targets[i]] = Entry[Targets[j]] => i = j,
         NEW r, NEW x \in InScope, Applies(r, x),
         ~Hampered(x.id, x.spec)
  PROVE  \E twin \in Twins(r, x.id, Own(x)) :
           Outcome(r, Own(x), Other(x), Shared(r, x)) =
             Outcome(r, Own(x), Other(x), twin)
  <1> DEFINE own == Own(x)
             Beyond(p) == \E i \in Stamped(r) :
                            p \in Of(i) /\ Cardinality(Of(i)) > Cap
  <1>1. Shared(r, x) \in BOOLEAN
    BY DEF Shared
  <1>2. CASE \E i \in Stamped(r) : \E p \in Of(i) \ {x.id} : Hampered(p, i)
    <2>1. Shared(r, x) \in Twins(r, x.id, own)
      BY <1>1, <1>2 DEF Twins
    <2> QED
      BY <2>1
  <1>3. CASE /\ \A i \in Stamped(r) : \A p \in Of(i) \ {x.id} : ~Hampered(p, i)
             /\ Scope(r, own) # "match"
    <2>1. \A a, b : Outcome(r, own, Other(x), a) = Outcome(r, own, Other(x), b)
                    \/ Scope(r, own) \notin {"no_match", "unknown"}
      <3>1. CASE Scope(r, own) = "no_match"
        BY <3>1 DEF Outcome
      <3>2. CASE Scope(r, own) = "unknown"
        BY <3>2 DEF Outcome
      <3> QED
        BY <3>1, <3>2
    <2>2. Scope(r, own) \in {"no_match", "unknown"}
      BY <1>3 DEF Scope
    <2>3. CASE \E p \in Peers(r, x.id) : own \in PastOwn(p)
      <3>1. TRUE \in Twins(r, x.id, own)
        BY <2>3 DEF Twins
      <3> QED
        BY <2>1, <2>2, <3>1
    <2>4. CASE ~\E p \in Peers(r, x.id) : own \in PastOwn(p)
      <3>1. \A p \in Peers(r, x.id) : PastOwn(p) # {own}
        BY <2>4
      <3>2. FALSE \in Twins(r, x.id, own)
        BY <3>1 DEF Twins
      <3> QED
        BY <2>1, <2>2, <3>2
    <2> QED
      BY <2>3, <2>4
  <1>4. CASE /\ \A i \in Stamped(r) : \A p \in Of(i) \ {x.id} : ~Hampered(p, i)
             /\ Scope(r, own) = "match"
             /\ Shared(r, x)
    <2>1. PICK y \in Siblings(r) \ {x} : Own(y) = own
      BY <1>4 DEF Shared
    <2>2. /\ y \in InScope /\ Applies(r, y) /\ y \in elements /\ x \in elements
          /\ y.spec \in Specs /\ x.spec \in Specs
          /\ y.id \in Of(y.spec) /\ x.id \in Of(x.spec) /\ y.spec \in Stamped(r)
      <3>1. y \in InScope /\ Applies(r, y) /\ y \in elements /\ x \in elements
        BY <2>1 DEF Siblings, InScope
      <3>2. /\ y.spec \in Specs /\ y.id \in listing[y.spec]
            /\ x.spec \in Specs /\ x.id \in listing[x.spec]
        BY <3>1 DEF IInv, Shape, Rows, RowsSound, RowSound
      <3>3. y.id \in Of(y.spec) /\ x.id \in Of(x.spec)
        BY <3>2 DEF IInv, FetchSound
      <3>4. y.spec \in Stamped(r)
        BY <3>1, <3>2 DEF Stamped, LabelOf, Applies, InScope
      <3> QED
        BY <3>1, <3>2, <3>3, <3>4
    <2>3. y.id # x.id
      <3>1. SUFFICES ASSUME y.id = x.id PROVE FALSE
        OBVIOUS
      <3>2. y.spec = x.spec
        BY <2>2, <3>1 DEF Of
      <3>3. y = x
        BY <2>2, <3>1, <3>2 DEF IInv, FetchSound, RowsOnce
      <3> QED
        BY <2>1, <3>3
    <2>4. ~Hampered(y.id, y.spec)
      BY <1>4, <2>2, <2>3
    <2>5. own \in PastOwn(y.id)
      BY <2>1, <2>2, <2>4, PeerIsPast
    <2>6. y.id \in Peers(r, x.id)
      BY <2>2, <2>3 DEF Peers
    <2>7. TRUE \in Twins(r, x.id, own)
      BY <2>5, <2>6 DEF Twins
    <2> QED
      BY <1>1, <1>4, <2>7
  <1>5. CASE /\ \A i \in Stamped(r) : \A p \in Of(i) \ {x.id} : ~Hampered(p, i)
             /\ Scope(r, own) = "match"
             /\ ~Shared(r, x)
    <2>1. ASSUME NEW p \in Peers(r, x.id), PastOwn(p) = {own}, ~Beyond(p)
          PROVE  FALSE
      <3>1. PICK i \in Stamped(r) : p \in Of(i)
        BY <2>1 DEF Peers
      <3>2. p # x.id /\ ~Hampered(p, i) /\ i \in Specs
        BY <1>5, <2>1, <3>1 DEF Peers, Stamped
      <3>3. listing[i] = Of(i)
        <4>1. Cardinality(Of(i)) <= Cap
          <5>1. Of(i) \subseteq Elements
            BY DEF Of
          <5>2. Cardinality(Of(i)) \in Nat /\ Cap \in Nat
            BY <5>1, FS_Subset, FS_CardinalityType, ReadsAssumption
          <5>3. ~(Cardinality(Of(i)) > Cap)
            BY <2>1, <3>1
          <5> QED
            BY <5>2, <5>3
        <4>2. Listed(i)
          BY <3>2, CheckedAll
        <4>3. /\ listing[i] \in SUBSET Of(i)
              /\ listing[i] = Of(i) \/ Cardinality(listing[i]) = Cap
          BY <3>2, <4>2 DEF IInv, FetchSound
        <4> QED
          BY <4>1, <4>3, ListedFairly
      <3>4. PICK y \in elements : y.id = p /\ y.spec = i
        <4>1. Read_(i)
          BY <3>2, CheckedAll
        <4> QED
          BY <3>1, <3>2, <3>3, <4>1 DEF IInv, FetchSound
      <3>5. y \in InScope /\ Applies(r, y)
        BY <3>1, <3>4 DEF Stamped, InScope, LabelOf, Applies
      <3>6. Own(y) \in PastOwn(p)
        BY <3>2, <3>4, <3>5, PeerIsPast
      <3>7. y \in Siblings(r) \ {x}
        BY <1>5, <2>1, <3>2, <3>4, <3>5, <3>6 DEF Siblings
      <3> QED
        BY <1>5, <2>1, <3>6, <3>7 DEF Shared
    <2>2. FALSE \in Twins(r, x.id, own)
      <3>1. \A p \in Peers(r, x.id) : PastOwn(p) # {own} \/ Beyond(p)
        BY <2>1
      <3> QED
        BY <3>1 DEF Twins
    <2>3. Shared(r, x) = FALSE
      BY <1>1, <1>5
    <2> QED
      BY <2>2, <2>3
  <1> QED
    BY <1>2, <1>3, <1>4, <1>5

\* Nothing of an earlier pass, of another element or of another type gets
\* into a verdict: it is one that the model deserved during the pass, unless
\* a read that it rests on failed (the caches of revit_query.py and
\* QCAgent.run); and a value is unique, or not, among the elements of the
\* model.  This needs that no category is meant by two targets: with two
\* spellings of one, every element is its own twin (CountsOnce).
THEOREM VerdictsTrue ==
  ASSUME \A i, j \in Specs : Entry[Targets[i]] = Entry[Targets[j]] => i = j
  PROVE  ElementsSpec => []VerdictsAreTrue
  <1>1. ASSUME IInv
        PROVE  VerdictsAreTrue
    <2>1. SUFFICES ASSUME phase = "checked", NEW v \in verdicts,
                          ~Hampered(v.element.id, v.element.spec)
                   PROVE  \E own \in PastOwn(v.element.id),
                             other \in Past(HostType(v.element.id,
                                                    v.element.spec)) :
                            \E twin \in Twins(v.rule, v.element.id, own) :
                              v.outcome = Outcome(v.rule, own, other, twin)
      BY DEF VerdictsAreTrue
    <2>2. v \in Judgement
      BY <1>1, <2>1 DEF IInv, CheckSound
    <2>3. PICK p \in InScope \X Rules :
            /\ Applies(p[2], p[1])
            /\ v = [element |-> p[1], rule |-> p[2],
                    outcome |-> Outcome(p[2], Own(p[1]), Other(p[1]),
                                        Shared(p[2], p[1]))]
      BY <2>2 DEF Judgement
    <2>4. /\ v.element = p[1] /\ v.rule = p[2]
          /\ v.element \in InScope /\ v.element \in elements
          /\ Applies(v.rule, v.element)
          /\ v.outcome = Outcome(v.rule, Own(v.element), Other(v.element),
                                 Shared(v.rule, v.element))
      BY <2>3 DEF InScope
    <2>5. \E twin \in Twins(v.rule, v.element.id, Own(v.element)) :
            v.outcome = Outcome(v.rule, Own(v.element), Other(v.element), twin)
      BY <1>1, <2>1, <2>4, SharedIsTwin
    <2>6. /\ Own(v.element) \in PastOwn(v.element.id)
          /\ Other(v.element) \in
               Past(HostType(v.element.id, v.element.spec))
      BY <1>1, <2>1, <2>4, RowIsPast DEF IInv, RowsSound
    <2> QED
      BY <2>5, <2>6
  <1> QED
    BY <1>1, ReadsInvariance, PTL

\* Every target the catalog knows is named as empty or was listed, and every
\* element of the model in it is judged by every rule of the target, unless a
\* read for it failed, or its listing stopped at the cap, or the target is
\* spelled otherwise than in the catalog (_coverage_with_empties and
\* QCAgent.run; FilterStillWorks shows what becomes of such a target).
THEOREM NothingIsLost == ElementsSpec => []NothingLost
  <1>1. ASSUME IInv
        PROVE  NothingLost
    <2>1. SUFFICES ASSUME phase = "checked", NEW i \in Specs
                   PROVE  /\ Label(i) \in coverage.empty \/ listing[i] # {}
                          /\ Label(i) = Targets[i] =>
                               \A e \in Of(i), r \in RulesOf(i) :
                                 \/ Hampered(e, i)
                                 \/ /\ e \notin listing[i]
                                    /\ Cardinality(listing[i]) = Cap
                                 \/ \E v \in verdicts :
                                      /\ v.element.id = e
                                      /\ v.element.spec = i /\ v.rule = r
      BY DEF NothingLost
    <2>2. Listed(i) /\ Read_(i)
      BY <1>1, <2>1, CheckedAll
    <2>a. /\ listing[i] \in SUBSET Of(i)
          /\ listing[i] = Of(i) \/ Cardinality(listing[i]) = Cap
      BY <1>1, <2>1, <2>2 DEF IInv, FetchSound
    <2>3. ASSUME Label(i) \notin coverage.empty
          PROVE  listing[i] # {}
      <3>1. PICK x \in elements : LabelOf(x) = Label(i)
        BY <1>1, <2>1, <2>3 DEF IInv, CheckSound
      <3>2. x.spec \in Specs /\ x.id \in listing[x.spec]
        BY <1>1 DEF IInv, Shape, Rows, RowsSound, RowSound
      <3>3. Display[Entry[Targets[x.spec]]] = Display[Entry[Targets[i]]]
        BY <3>1 DEF LabelOf, Label
      <3>4. Of(x.spec) # {}
        BY <1>1, <2>1, <3>2 DEF IInv, FetchSound
      <3>5. Of(i) = Of(x.spec)
        BY <2>1, <3>2, <3>3, OneLabel DEF Of, Label
      <3> QED
        BY <2>a, <3>4, <3>5, ListedFairly
    <2>4. ASSUME Label(i) = Targets[i], NEW e \in Of(i), NEW r \in RulesOf(i),
                 ~Hampered(e, i),
                 ~(e \notin listing[i] /\ Cardinality(listing[i]) = Cap)
          PROVE  \E v \in verdicts :
                   v.element.id = e /\ v.element.spec = i /\ v.rule = r
      <3>0. e \in listing[i]
        BY <2>a, <2>4
      <3>1. PICK x \in elements : x.id = e /\ x.spec = i
        BY <1>1, <2>1, <2>2, <2>4, <3>0 DEF IInv, FetchSound
      <3>2. LabelOf(x) = Targets[i] /\ i \in Positions
        BY <2>4, <3>1, SpecsAreNumbers DEF LabelOf
      <3>3. x \in InScope /\ Applies(r, x) /\ r \in Rules
        BY <3>2 DEF InScope, Applies, RulesOf
      <3> DEFINE p == <<x, r>>
                 v == [element |-> x, rule |-> r,
                       outcome |-> Outcome(r, Own(x), Other(x),
                                           Shared(r, x))]
      <3>4. /\ p \in {q \in InScope \X Rules : Applies(q[2], q[1])}
            /\ p[1] = x /\ p[2] = r
        BY <3>3
      <3>5. v \in Judgement
        BY <3>4 DEF Judgement
      <3>6. v \in verdicts
        BY <1>1, <2>1, <3>5 DEF IInv, CheckSound
      <3>7. v.element.id = e /\ v.element.spec = i /\ v.rule = r
        BY <3>1
      <3> QED
        BY <3>6, <3>7
    <2> QED
      BY <2>3, <2>4
  <1> QED
    BY <1>1, ReadsInvariance, PTL

-----------------------------------------------------------------------------
\* The geometry half: the inductive invariant.

\* What is reported of a rule violates it.
TrueTo(r) ==
  Kind[r] = "min" \/ r \notin truncated => FindingsOf(r) \subseteq Violators(r)

Filtered(r) ==
  ~(Spaces \subseteq unseen) => \A s \in FindingsOf(r) : InFilter(r, s)

\* What violates a rule is reported, or still to be looked at.
Accounted(r, left) ==
  r \notin truncated \cup torn =>
    \A s \in Violators(r) :
      \/ s \in FindingsOf(r) \/ s \in left
      \/ ~InFilter(r, s)
      \/ <<r, s>> \in unloaded
      \/ {s, SpaceOf[s]} \cap unseen # {}

Settled(r, left) ==
  r \in executed /\ TrueTo(r) /\ Filtered(r) /\ Accounted(r, left)

Untouched(r) == r \notin executed /\ FindingsOf(r) = {}

Busy == {"rules", "spaces", "loading", "clashes", "looking"}
InFilterOf == {"spaces", "loading", "clashes", "looking"}

\* What a task still has to look at for the rule r.
LeftOf(b, r) ==
  IF doing[b].place \in InFilterOf /\ r = doing[b].rule THEN doing[b].left
  ELSE {}

\* The answer that a task holds is complete for what was loaded, or on record
\* as cut off.
Answered(b, answer) ==
  \E loaded \in SUBSET Solids :
    /\ b \X (Solids \ loaded) \subseteq unloaded
    /\ \/ answer = Close(b, loaded)
       \/ answer \subseteq Close(b, loaded) /\ b \subseteq truncated

TaskSound(b) ==
  /\ doing[b].place = "ask" =>
       \A r \in b : Untouched(r) /\ r \notin failed
  /\ doing[b].place \in Busy =>
       /\ doing[b].todo \subseteq b /\ b \cap failed = {}
       /\ Answered(b, doing[b].answer)
       /\ \A r \in doing[b].todo : Untouched(r)
       /\ \A r \in b \ doing[b].todo : Settled(r, LeftOf(b, r))
  /\ doing[b].place \in InFilterOf =>
       /\ doing[b].rule \in b \ doing[b].todo
       /\ Filter[doing[b].rule] # Everywhere
       /\ Kind[doing[b].rule] = "min" \/ doing[b].rule \notin truncated =>
            doing[b].left \subseteq Violators(doing[b].rule)
  /\ doing[b].place \in {"clashes", "looking"} => boxes # NotLoaded
  /\ doing[b].place = "looking" => doing[b].solid \in doing[b].left
  /\ doing[b].place = "over" =>
       \A r \in b : \/ Untouched(r) /\ r \in failed
                    \/ Settled(r, {}) /\ r \notin failed

BatchesSound ==
  IF geoPhase = "idle"
  THEN /\ batches = {} /\ executed = {} /\ failed = {} /\ findings = {}
       /\ truncated = {}
  ELSE /\ batches = Batches(Dispatched \ Blocked(unresolved))
       /\ Needed \ Loaded \subseteq unresolved
       /\ \A r \in Blocked(unresolved) : Untouched(r) /\ r \in failed

SightSound ==
  /\ boxes # NotLoaded => Spaces \ boxes \subseteq unseen
  /\ \A s \in Solids : centroid[s] = "none" => s \in unseen

GInv ==
  /\ GeometryTypeOK
  /\ BatchesSound
  /\ SightSound
  /\ \A b \in batches : TaskSound(b)
  /\ geoPhase = "done" => \A b \in batches : doing[b].place = "over"

-----------------------------------------------------------------------------
\* Lemmas about the batches.

LEMMA BatchShape ==
  ASSUME NEW rules \in SUBSET Dispatched, NEW b \in Batches(rules)
  PROVE  /\ b # {} /\ b \subseteq rules
         /\ \A r, q \in b :
              /\ Question(r) = Question(q) /\ Link[r] = Link[q]
              /\ Axis(r) = Axis(q) /\ Kind[r] = Kind[q]
              /\ Kind[r] = "max" => r = q
              /\ Axis(r) = "bbox" => Threshold[r] = Threshold[q]
  <1>1. CASE \E q \in {x \in rules : Kind[x] = "min"} :
               b = {r \in rules : Kind[r] = "min" /\ Key(r) = Key(q)}
    <2>1. PICK q \in rules : /\ Kind[q] = "min"
                             /\ b = {r \in rules : /\ Kind[r] = "min"
                                                   /\ Key(r) = Key(q)}
      BY <1>1
    <2>2. ASSUME NEW r \in b
          PROVE  /\ Question(r) = Question(q) /\ Link[r] = Link[q]
                 /\ Axis(r) = Axis(q) /\ Kind[r] = "min"
                 /\ Axis(r) = "bbox" => Threshold[r] = Threshold[q]
      <3>1. Key(r) = Key(q) /\ Kind[r] = "min"
        BY <2>1, <2>2
      <3>2. Question(r) = Question(q)
        BY <3>1 DEF Key
      <3>3. Link[r] = Link[q] /\ Direction[r] = Direction[q]
        BY <3>2 DEF Question
      <3>4. Axis(r) = Axis(q)
        BY <3>3 DEF Axis
      <3>5. Axis(r) = "bbox" => Threshold[r] = Threshold[q]
        BY <3>1, <3>4 DEF Key
      <3> QED
        BY <3>1, <3>2, <3>3, <3>4, <3>5
    <2>3. q \in b /\ b \subseteq rules
      BY <2>1
    <2> QED
      BY <2>2, <2>3
  <1>2. CASE \E q \in {x \in rules : Kind[x] = "max"} : b = {q}
    BY <1>2
  <1> QED
    BY <1>1, <1>2 DEF Batches

\* A rule is in one batch.
LEMMA OneBatch ==
  ASSUME NEW rules \in SUBSET Dispatched
  PROVE  /\ \A r \in rules : \E b \in Batches(rules) : r \in b
         /\ \A b, c \in Batches(rules) : b \cap c # {} => b = c
  <1> DEFINE Same(q) == {r \in rules : Kind[r] = "min" /\ Key(r) = Key(q)}
  <1>1. \A b : b \in Batches(rules) <=>
          \/ \E q \in rules : Kind[q] = "min" /\ b = Same(q)
          \/ \E q \in rules : Kind[q] = "max" /\ b = {q}
    BY DEF Batches
  <1>2. ASSUME NEW r \in rules
        PROVE  \E b \in Batches(rules) : r \in b
    <2>1. CASE Kind[r] = "min"
      <3>1. Same(r) \in Batches(rules)
        BY <1>1, <1>2, <2>1
      <3>2. r \in Same(r)
        BY <1>2, <2>1
      <3> QED
        BY <3>1, <3>2
    <2>2. CASE Kind[r] = "max"
      <3>1. {r} \in Batches(rules)
        BY <1>1, <1>2, <2>2
      <3> QED
        BY <3>1
    <2>3. r \in Dispatched
      BY <1>2
    <2> QED
      BY <2>1, <2>2, <2>3 DEF Dispatched
  <1>3. ASSUME NEW b \in Batches(rules), NEW c \in Batches(rules),
               NEW r \in b, r \in c
        PROVE  b = c
    <2>1. CASE Kind[r] = "min"
      <3>1. b = Same(r)
        BY <1>1, <1>3, <2>1
      <3>2. c = Same(r)
        BY <1>1, <1>3, <2>1
      <3> QED
        BY <3>1, <3>2
    <2>2. CASE Kind[r] = "max"
      <3>1. /\ b = {r} \/ \E q \in rules : Kind[q] = "min" /\ b = Same(q)
            /\ c = {r} \/ \E q \in rules : Kind[q] = "min" /\ c = Same(q)
        BY <1>1, <1>3
      <3>2. \A q : r \notin Same(q)
        BY <2>2
      <3> QED
        BY <1>3, <3>1, <3>2
    <2>3. r \in Dispatched
      <3>1. b \subseteq rules
        BY <1>3, BatchShape
      <3> QED
        BY <1>3, <3>1
    <2> QED
      BY <2>1, <2>2, <2>3 DEF Dispatched
  <1> QED
    BY <1>2, <1>3

\* A batch asks about as much as any of its rules needs.
LEMMA AskedForAll ==
  ASSUME NEW rules \in SUBSET Dispatched, NEW b \in Batches(rules), NEW r \in b
  PROVE  /\ AskedFor(b) \in Nat /\ Threshold[r] \in Nat
         /\ \A s : Far(OneOf(b), s) = Far(r, s)
         /\ Kind[r] = "max" => AskedFor(b) = Probe(Threshold[r])
         /\ Kind[r] = "min" => Threshold[r] <= AskedFor(b)
         /\ Kind[r] = "min" /\ Axis(r) = "bbox" => AskedFor(b) = Threshold[r]
  <1>1. OneOf(b) \in b
    BY DEF OneOf
  <1>2. /\ b \subseteq GeoRules /\ Threshold \in [GeoRules -> Nat]
        /\ IsFiniteSet(GeoRules)
    BY BatchShape, GeometryAssumption DEF Dispatched
  <1>3. \A s : Far(OneOf(b), s) = Far(r, s)
    BY <1>1, BatchShape DEF Far
  <1>4. Kind[OneOf(b)] = Kind[r] /\ (Kind[r] = "max" => OneOf(b) = r)
    BY <1>1, BatchShape
  <1>5. \E q \in b : \A x \in b : Threshold[x] <= Threshold[q]
    <2> DEFINE T == {Threshold[x] : x \in b}
    <2>1. IsFiniteSet(b)
      BY <1>2, FS_Subset
    <2>2. IsFiniteSet(T)
      <3> DEFINE f == [x \in b |-> Threshold[x]]
      <3>1. f \in Surjection(b, T)
        BY DEF Surjection
      <3> QED
        BY <2>1, <3>1, FS_Surjection
    <2>3. T \subseteq Nat /\ T # {}
      BY <1>1, <1>2
    <2> HIDE DEF T
    <2>4. PICK j \in T : \A k \in T : k <= j
      BY <2>2, <2>3, GreatestExists
    <2> QED
      BY <2>4 DEF T
  <1>6. CASE Kind[r] = "max"
    BY <1>2, <1>3, <1>4, <1>6, GeometryAssumption DEF AskedFor, Probe
  <1>7. CASE Kind[r] # "max"
    <2> DEFINE g == CHOOSE q \in b : \A x \in b : Threshold[x] <= Threshold[q]
    <2>1. g \in b /\ \A x \in b : Threshold[x] <= Threshold[g]
      BY <1>5
    <2>2. AskedFor(b) = Threshold[g]
      BY <1>4, <1>7 DEF AskedFor
    <2>3. Axis(r) = "bbox" => Threshold[g] = Threshold[r]
      BY <2>1, BatchShape
    <2> HIDE DEF g
    <2> QED
      BY <1>2, <1>3, <1>7, <2>1, <2>2, <2>3
  <1> QED
    BY <1>6, <1>7

LEMMA CloseMeans ==
  ASSUME NEW b, NEW loaded, NEW s, NEW d
  PROVE  <<s, d>> \in Close(b, loaded) <=>
           s \in loaded /\ d \in Far(OneOf(b), s) /\ d < AskedFor(b)
  BY DEF Close

\* The rules that are asked about are about models that are there.
LEMMA FarNumbers ==
  ASSUME NEW missing, Needed \ Loaded \subseteq missing,
         NEW r \in Dispatched \ Blocked(missing), NEW s \in Solids
  PROVE  Far(r, s) \subseteq Nat
  <1>1. Link[r] \in {Host} \cup Supplied \cup Loaded /\ r \in GeoRules
    BY DEF Blocked, Needed, Dispatched
  <1> QED
    BY <1>1, GeometryAssumption DEF Far

\* A batch's answer tells of each of its rules what violates it.
LEMMA FoundSound ==
  ASSUME NEW missing, Needed \ Loaded \subseteq missing,
         NEW b \in Batches(Dispatched \ Blocked(missing)), NEW r \in b,
         NEW loaded \in SUBSET Solids, NEW answer \in SUBSET Close(b, loaded)
  PROVE  /\ Kind[r] = "min" \/ answer = Close(b, loaded) =>
              Violating(r, answer) \subseteq Violators(r)
         /\ answer = Close(b, loaded) =>
              Violators(r) \cap loaded \subseteq Violating(r, answer)
  <1> DEFINE rules == Dispatched \ Blocked(missing)
  <1>1. rules \in SUBSET Dispatched /\ b \in Batches(rules)
    OBVIOUS
  <1>2. r \in rules /\ Kind[r] \in {"min", "max"} /\ Axis(r) \in {"Z", "bbox"}
    BY <1>1, BatchShape DEF Dispatched, Axis
  <1>3. \A s \in Solids : Far(r, s) \subseteq Nat
    BY <1>2, FarNumbers
  <1>4. /\ AskedFor(b) \in Nat /\ Threshold[r] \in Nat
        /\ Kind[r] = "max" => AskedFor(b) = Probe(Threshold[r])
        /\ Kind[r] = "min" => Threshold[r] <= AskedFor(b)
        /\ Kind[r] = "min" /\ Axis(r) = "bbox" => AskedFor(b) = Threshold[r]
    BY <1>1, AskedForAll
  <1>5. \A s, d : <<s, d>> \in Close(b, loaded) <=>
                    s \in loaded /\ d \in Far(r, s) /\ d < AskedFor(b)
    <2>1. \A s : Far(OneOf(b), s) = Far(r, s)
      BY <1>1, AskedForAll
    <2> HIDE DEF rules
    <2> QED
      BY <2>1, CloseMeans
  <1> DEFINE Measured(s) == {d \in Far(r, s) : <<s, d>> \in answer}
  <1>6. \A s : s \in Violating(r, answer) <=>
          /\ s \in Solids /\ Measured(s) # {}
          /\ Kind[r] = "max" => \A d \in Measured(s) : d > Threshold[r]
          /\ Kind[r] = "min" /\ Axis(r) = "Z" =>
               \E d \in Measured(s) : d < Threshold[r]
    BY DEF Violating
  <1>7. \A s \in Solids : \A d \in Measured(s) :
          s \in loaded /\ d \in Far(r, s) /\ d \in Nat /\ d < AskedFor(b)
    BY <1>3, <1>5
  <1>8. answer = Close(b, loaded) => \A s \in loaded : \A d \in Far(r, s) :
          d < AskedFor(b) => d \in Measured(s)
    BY <1>5
  <1> HIDE DEF rules, Measured
  <1>9. CASE Kind[r] = "min"
    <2>1. \A s : s \in Violators(r) <=>
            s \in Solids /\ \E d \in Far(r, s) : d < Threshold[r]
      BY <1>9 DEF Violators
    <2>2. ASSUME NEW s \in Violating(r, answer)
          PROVE  s \in Violators(r)
      <3>1. CASE Axis(r) = "Z"
        BY <1>6, <1>7, <1>9, <2>1, <2>2, <3>1
      <3>2. CASE Axis(r) = "bbox"
        BY <1>4, <1>6, <1>7, <1>9, <2>1, <2>2, <3>2
      <3> QED
        BY <1>2, <3>1, <3>2
    <2>3. ASSUME answer = Close(b, loaded), NEW s \in Violators(r) \cap loaded
          PROVE  s \in Violating(r, answer)
      <3>1. PICK d \in Far(r, s) : d < Threshold[r] /\ s \in Solids
        BY <2>1, <2>3
      <3>2. d \in Nat
        BY <1>3, <3>1
      <3>3. d < AskedFor(b)
        BY <1>4, <1>9, <3>1, <3>2
      <3>4. d \in Measured(s)
        BY <1>8, <2>3, <3>1, <3>3
      <3> QED
        BY <1>6, <1>9, <3>1, <3>4
    <2> QED
      BY <2>2, <2>3
  <1>10. CASE Kind[r] = "max"
    <2>1. \A s : s \in Violators(r) <=>
            /\ s \in Solids
            /\ \E d \in Far(r, s) : d < AskedFor(b)
            /\ \A d \in Far(r, s) : d > Threshold[r]
      BY <1>4, <1>10 DEF Violators
    <2>2. ASSUME answer = Close(b, loaded), NEW s \in Violating(r, answer)
          PROVE  s \in Violators(r)
      <3>1. PICK d \in Measured(s) : d > Threshold[r] /\ s \in Solids
        BY <1>6, <1>10, <2>2
      <3>2. /\ s \in loaded
            /\ d \in Far(r, s) /\ d \in Nat /\ d < AskedFor(b)
        BY <1>7, <3>1
      <3>3. ASSUME NEW x \in Far(r, s)
            PROVE  x > Threshold[r]
        <4>1. x \in Nat
          BY <1>3, <3>1, <3>3
        <4>2. CASE x < AskedFor(b)
          <5>1. x \in Measured(s)
            BY <1>8, <2>2, <3>2, <3>3, <4>2
          <5>2. \A y \in Measured(s) : y > Threshold[r]
            BY <1>6, <1>10, <2>2
          <5> QED
            BY <5>1, <5>2
        <4>3. CASE ~(x < AskedFor(b))
          BY <1>4, <3>1, <3>2, <4>1, <4>3
        <4> QED
          BY <4>2, <4>3
      <3> QED
        BY <2>1, <3>1, <3>2, <3>3
    <2>3. ASSUME answer = Close(b, loaded), NEW s \in Violators(r) \cap loaded
          PROVE  s \in Violating(r, answer)
      <3>1. PICK d \in Far(r, s) : d < AskedFor(b) /\ s \in Solids
        BY <2>1, <2>3
      <3>2. d \in Measured(s)
        BY <1>8, <2>3, <3>1
      <3>3. \A x \in Measured(s) : x > Threshold[r]
        BY <1>7, <2>1, <2>3, <3>1
      <3> QED
        BY <1>6, <1>10, <3>1, <3>2, <3>3
    <2> QED
      BY <1>10, <2>2, <2>3
  <1> QED
    BY <1>2, <1>9, <1>10

-----------------------------------------------------------------------------
\* Lemmas about the tasks.

\* What a step of the task of b changes: only what its own rules are told.
StepOf(b) ==
  /\ geoPhase = "running" /\ b \in batches
  /\ UNCHANGED <<geoPhase, unresolved, batches>>
  /\ doing' \in [batches -> Tasks]
  /\ \A c \in batches : c # b => doing'[c] = doing[c]
  /\ executed \subseteq executed' /\ executed' \subseteq executed \cup b
  /\ failed \subseteq failed' /\ failed' \subseteq failed \cup b
  /\ truncated \subseteq truncated' /\ truncated' \subseteq truncated \cup b
  /\ findings \subseteq findings'
  /\ findings' \subseteq findings \cup (b \X Solids)
  /\ unseen \subseteq unseen'
  /\ unseen' \subseteq Spaces \cup Solids
  /\ unloaded \subseteq unloaded'
  /\ unloaded' \subseteq unloaded \cup (b \X Solids)
  /\ torn \subseteq torn' /\ torn' \subseteq torn \cup b
  /\ boxes # NotLoaded => boxes' # NotLoaded

\* What is settled about a rule stays so when more could not be seen, and as
\* long as nothing is reported of it.
LEMMA SettledStays ==
  ASSUME NEW r, NEW left, Settled(r, left),
         FindingsOf(r)' = FindingsOf(r), r \in executed',
         truncated \subseteq truncated', unseen \subseteq unseen',
         unloaded \subseteq unloaded', torn \subseteq torn'
  PROVE  Settled(r, left)'
  <1>1. TrueTo(r)'
    <2>1. Violators(r)' = Violators(r)
      BY DEF Violators, Far
    <2> QED
      BY <2>1 DEF Settled, TrueTo
  <1>2. Filtered(r)'
    BY DEF Settled, Filtered, InFilter
  <1>3. Accounted(r, left)'
    <2>1. Violators(r)' = Violators(r)
      BY DEF Violators, Far
    <2> QED
      BY <2>1 DEF Settled, Accounted, InFilter
  <1> QED
    BY <1>1, <1>2, <1>3 DEF Settled

LEMMA AnsweredStays ==
  ASSUME NEW b, NEW answer, Answered(b, answer),
         truncated \subseteq truncated', unloaded \subseteq unloaded'
  PROVE  Answered(b, answer)'
  <1>1. \A loaded : Close(b, loaded)' = Close(b, loaded)
    BY DEF Close, Far, AskedFor, OneOf
  <1> QED
    BY <1>1 DEF Answered

LEMMA UntouchedStays ==
  ASSUME NEW b, NEW r, r \notin b, StepOf(b)
  PROVE  /\ FindingsOf(r)' = FindingsOf(r)
         /\ (r \in executed)' <=> r \in executed
         /\ (r \in failed)' <=> r \in failed
         /\ Untouched(r) => Untouched(r)'
  <1>1. \A s : <<r, s>> \in findings' <=> <<r, s>> \in findings
    BY DEF StepOf
  <1>2. FindingsOf(r)' = FindingsOf(r)
    BY <1>1 DEF FindingsOf
  <1> QED
    BY <1>2 DEF StepOf, Untouched

\* What b does leaves the other tasks as they are.
LEMMA OthersStay ==
  ASSUME GInv, NEW b, StepOf(b), NEW c \in batches, c # b
  PROVE  TaskSound(c)'
  <1>1. /\ doing'[c] = doing[c] /\ TaskSound(c)
        /\ boxes # NotLoaded => boxes' # NotLoaded
    BY DEF StepOf, GInv
  <1>2. b \cap c = {}
    <2>1. batches = Batches(Dispatched \ Blocked(unresolved))
      BY DEF GInv, BatchesSound, StepOf
    <2>2. Dispatched \ Blocked(unresolved) \in SUBSET Dispatched
      OBVIOUS
    <2>3. b \in batches
      BY DEF StepOf
    <2> QED
      BY <2>1, <2>2, <2>3, OneBatch
  <1>3. \A r \in c : /\ FindingsOf(r)' = FindingsOf(r)
                     /\ (r \in executed)' <=> r \in executed
                     /\ (r \in failed)' <=> r \in failed
                     /\ Untouched(r) => Untouched(r)'
    BY <1>2, UntouchedStays
  <1>4. \A r \in c : \A left : Settled(r, left) => Settled(r, left)'
    <2>1. ASSUME NEW r \in c, NEW left, Settled(r, left)
          PROVE  Settled(r, left)'
      <3>1. r \in executed' /\ FindingsOf(r)' = FindingsOf(r)
        BY <1>3, <2>1 DEF Settled
      <3>2. /\ truncated \subseteq truncated' /\ unseen \subseteq unseen'
            /\ unloaded \subseteq unloaded' /\ torn \subseteq torn'
        BY DEF StepOf
      <3> QED
        BY <2>1, <3>1, <3>2, SettledStays
    <2> QED
      BY <2>1
  <1>5. \A r \in c : LeftOf(c, r)' = LeftOf(c, r)
    BY <1>1 DEF LeftOf
  <1>6. \A r : Violators(r)' = Violators(r)
    BY DEF Violators, Far
  <1>7. /\ truncated \subseteq truncated'
        /\ \A answer : Answered(c, answer) => Answered(c, answer)'
    BY AnsweredStays DEF StepOf
  <1>8. doing[c].place = "ask" =>
          \A r \in c : Untouched(r)' /\ r \notin failed'
    BY <1>1, <1>3 DEF TaskSound
  <1>9. doing[c].place \in Busy =>
       /\ doing[c].todo \subseteq c /\ c \cap failed' = {}
       /\ \A answer : answer = doing[c].answer => Answered(c, answer)'
       /\ \A r \in doing[c].todo : Untouched(r)'
       /\ \A r \in c \ doing[c].todo : Settled(r, LeftOf(c, r))'
    <2>1. \A r \in c : Settled(r, LeftOf(c, r)) => Settled(r, LeftOf(c, r))'
      <3>1. ASSUME NEW r \in c, NEW left, left = LeftOf(c, r),
                   Settled(r, left)
            PROVE  Settled(r, LeftOf(c, r))'
        <4>1. Settled(r, left)'
          BY <1>4, <3>1
        <4>2. LeftOf(c, r)' = left
          BY <1>5, <3>1
        <4> QED
          BY <4>1, <4>2 DEF Settled, Accounted
      <3> QED
        BY <3>1
    <2> QED
      BY <1>1, <1>3, <1>7, <2>1 DEF TaskSound
  <1>10. doing[c].place = "over" =>
           \A r \in c : \/ Untouched(r)' /\ r \in failed'
                        \/ Settled(r, {})' /\ r \notin failed'
    BY <1>1, <1>3, <1>4 DEF TaskSound
  <1>11. doing[c].place \in Busy => Answered(c, doing[c].answer)'
    BY <1>1, <1>9
  <1> QED
    BY <1>1, <1>6, <1>7, <1>8, <1>9, <1>10, <1>11 DEF TaskSound

\* A step of one task keeps the invariant when it keeps that task sound.
LEMMA TaskStepSound ==
  ASSUME GInv, NEW b \in batches, StepOf(b), TaskSound(b)', SightSound',
         boxes' \in (SUBSET Spaces) \cup {NotLoaded},
         centroid' \in [Solids -> {"unknown", "known", "none"}],
         geoFaults' \in Nat
  PROVE  GInv'
  <1>1. /\ batches = Batches(Dispatched \ Blocked(unresolved))
        /\ Needed \ Loaded \subseteq unresolved
        /\ \A r \in Blocked(unresolved) : Untouched(r) /\ r \in failed
        /\ geoPhase = "running"
    BY DEF GInv, BatchesSound, StepOf
  <1>2. b \subseteq Dispatched \ Blocked(unresolved)
    <2>1. Dispatched \ Blocked(unresolved) \in SUBSET Dispatched
      OBVIOUS
    <2> QED
      BY <1>1, <2>1, BatchShape
  <1>3. GeometryTypeOK'
    BY <1>2 DEF GInv, GeometryTypeOK, StepOf
  <1>4. BatchesSound'
    <2>1. \A r \in Blocked(unresolved) : Untouched(r)' /\ r \in failed'
      BY <1>1, <1>2, UntouchedStays
    <2>2. Blocked(unresolved)' = Blocked(unresolved)
      BY DEF StepOf, Blocked
    <2> QED
      BY <1>1, <2>1, <2>2 DEF BatchesSound, StepOf
  <1>5. \A c \in batches' : TaskSound(c)'
    <2>1. batches' = batches
      BY DEF StepOf
    <2>2. \A c \in batches : c # b => TaskSound(c)'
      BY OthersStay
    <2> QED
      BY <2>1, <2>2
  <1> QED
    BY <1>1, <1>3, <1>4, <1>5 DEF GInv, StepOf

\* The batch of a task that is under way.
LEMMA BatchFacts ==
  ASSUME GInv, NEW b \in batches, geoPhase = "running"
  PROVE  /\ b \in Batches(Dispatched \ Blocked(unresolved))
         /\ Needed \ Loaded \subseteq unresolved
         /\ b # {} /\ b \subseteq Dispatched /\ b \subseteq GeoRules
         /\ \A r, q \in b : Kind[r] = Kind[q]
         /\ doing[b] \in Tasks /\ TaskSound(b)
         /\ \A loaded \in SUBSET Solids :
              Close(b, loaded) \subseteq Solids \X Nat
  <1> DEFINE rules == Dispatched \ Blocked(unresolved)
  <1>1. /\ batches = Batches(rules) /\ Needed \ Loaded \subseteq unresolved
        /\ rules \in SUBSET Dispatched
    BY DEF GInv, BatchesSound
  <1>2. /\ b # {} /\ b \subseteq rules
        /\ \A r, q \in b : Kind[r] = Kind[q]
    BY <1>1, BatchShape
  <1>3. doing[b] \in Tasks /\ TaskSound(b)
    BY DEF GInv, GeometryTypeOK
  <1>4. ASSUME NEW loaded \in SUBSET Solids
        PROVE  Close(b, loaded) \subseteq Solids \X Nat
    <2>1. PICK r \in b : r \in rules
      BY <1>2
    <2>2. \A s : Far(OneOf(b), s) = Far(r, s)
      BY <1>1, <2>1, AskedForAll
    <2>3. \A s \in Solids : Far(r, s) \subseteq Nat
      BY <1>1, <2>1, FarNumbers
    <2>4. \A s, d : <<s, d>> \in Close(b, loaded) => s \in Solids /\ d \in Nat
      BY <2>2, <2>3, CloseMeans
    <2>5. \A x \in Close(b, loaded) : \E s, d : x = <<s, d>>
      BY DEF Close
    <2> QED
      BY <2>4, <2>5
  <1> QED
    BY <1>1, <1>2, <1>3, <1>4 DEF Dispatched

LEMMA SightStays ==
  ASSUME SightSound, UNCHANGED <<boxes, centroid>>, unseen \subseteq unseen'
  PROVE  SightSound'
  BY DEF SightSound

\* The update of one task.
LEMMA BecomeMeans ==
  ASSUME GInv, NEW b \in batches, NEW t \in Tasks,
         doing' = [doing EXCEPT ![b] = t]
  PROVE  /\ doing' \in [batches -> Tasks]
         /\ doing'[b] = t
         /\ \A c \in batches : c # b => doing'[c] = doing[c]
  BY DEF GInv, GeometryTypeOK

LEMMA AskSound ==
  ASSUME GInv, NEW b \in batches, Ask(b)
  PROVE  GInv'
  <1>1. geoPhase = "running" /\ doing[b].place = "ask"
    BY DEF Ask, Now
  <1>2. PICK loaded \in Loads(Solids) : \E a \in Answers(b, loaded) :
          /\ doing' = [doing EXCEPT ![b] =
               [doing[b] EXCEPT !.place = "rules", !.answer = a, !.todo = b]]
          /\ truncated' = IF Cardinality(a) >= MaxClashes
                          THEN truncated \cup b ELSE truncated
          /\ unloaded' = unloaded \cup (b \X (Solids \ loaded))
    BY DEF Ask, Become
  <1>a. PICK a \in Answers(b, loaded) :
          /\ doing' = [doing EXCEPT ![b] =
               [doing[b] EXCEPT !.place = "rules", !.answer = a, !.todo = b]]
          /\ truncated' = IF Cardinality(a) >= MaxClashes
                          THEN truncated \cup b ELSE truncated
          /\ unloaded' = unloaded \cup (b \X (Solids \ loaded))
    BY <1>2
  <1>b. loaded \in SUBSET Solids
    BY DEF Loads
  <1>3. /\ b # {} /\ b \subseteq GeoRules /\ doing[b] \in Tasks
        /\ TaskSound(b) /\ Close(b, loaded) \subseteq Solids \X Nat
    BY <1>1, <1>b, BatchFacts
  <1>4. /\ a \subseteq Close(b, loaded)
        /\ a = Close(b, loaded) \/ truncated' = truncated \cup b
    <2>1. CASE Cardinality(Close(b, loaded)) <= MaxClashes
      BY <2>1 DEF Answers
    <2>2. CASE ~(Cardinality(Close(b, loaded)) <= MaxClashes)
      <3>1. Cardinality(a) = MaxClashes /\ a \subseteq Close(b, loaded)
        BY <2>2 DEF Answers
      <3>2. Cardinality(a) >= MaxClashes
        BY <3>1, GeometryAssumption
      <3> QED
        BY <1>a, <3>1, <3>2
    <2> QED
      BY <2>1, <2>2
  <1> DEFINE t == [doing[b] EXCEPT !.place = "rules", !.answer = a, !.todo = b]
  <1>5. /\ t \in Tasks /\ t.place = "rules" /\ t.answer = a /\ t.todo = b
    BY <1>3, <1>4 DEF Tasks
  <1>6. t \in Tasks /\ doing' = [doing EXCEPT ![b] = t]
    BY <1>a, <1>5
  <1> HIDE DEF t
  <1>7. /\ doing' \in [batches -> Tasks] /\ doing'[b] = t
        /\ \A c \in batches : c # b => doing'[c] = doing[c]
    BY <1>6, BecomeMeans
  <1>8. StepOf(b)
    <2>1. UNCHANGED <<geoPhase, unresolved, batches, executed, failed,
                      findings, unseen, boxes>>
      BY DEF Ask
    <2>2. truncated \subseteq truncated' /\ truncated' \subseteq truncated \cup b
      BY <1>a
    <2>4. /\ unloaded \subseteq unloaded' /\ torn' = torn
          /\ unloaded' \subseteq unloaded \cup (b \X Solids)
      BY <1>a, <1>b DEF Ask
    <2>3. unseen \subseteq Spaces \cup Solids
      BY DEF GInv, GeometryTypeOK
    <2> QED
      BY <1>1, <1>7, <2>1, <2>2, <2>3, <2>4 DEF StepOf
  <1>9. TaskSound(b)'
    <2>1. \A r \in b : Untouched(r)' /\ r \notin failed'
      BY <1>1, <1>3 DEF TaskSound, Ask, Untouched, FindingsOf
    <2>2. Close(b, loaded)' = Close(b, loaded)
      BY DEF Close, Far, AskedFor, OneOf
    <2>3. Answered(b, a)'
      <3>1. b \subseteq truncated' \/ a = Close(b, loaded)
        BY <1>4
      <3>2. b \X (Solids \ loaded) \subseteq unloaded'
        BY <1>a
      <3> QED
        BY <1>4, <1>b, <2>2, <3>1, <3>2 DEF Answered
    <2> QED
      BY <1>5, <1>7, <2>1, <2>3
      DEF TaskSound, Busy, InFilterOf
  <1> QED
    BY <1>8, <1>9, SightStays, TaskStepSound
    DEF Ask, GInv, GeometryTypeOK

LEMMA AskFailsSound ==
  ASSUME GInv, NEW b \in batches, AskFails(b)
  PROVE  GInv'
  <1>1. geoPhase = "running" /\ doing[b].place = "ask"
    BY DEF AskFails, Now
  <1>2. doing[b] \in Tasks /\ TaskSound(b)
    BY <1>1, BatchFacts
  <1> DEFINE t == [doing[b] EXCEPT !.place = "over"]
  <1>3. t \in Tasks /\ t.place = "over" /\ doing' = [doing EXCEPT ![b] = t]
    BY <1>2 DEF Tasks, AskFails, Become
  <1> HIDE DEF t
  <1>4. /\ doing' \in [batches -> Tasks] /\ doing'[b] = t
        /\ \A c \in batches : c # b => doing'[c] = doing[c]
    BY <1>3, BecomeMeans
  <1>5. StepOf(b)
    <2>1. /\ UNCHANGED <<geoPhase, unresolved, batches, executed, truncated,
                         findings, unseen, unloaded, torn, boxes>>
          /\ failed' = failed \cup b
      BY DEF AskFails, missed
    <2>2. unseen \subseteq Spaces \cup Solids
      BY DEF GInv, GeometryTypeOK
    <2> QED
      BY <1>1, <1>4, <2>1, <2>2 DEF StepOf
  <1>6. TaskSound(b)'
    <2>1. \A r \in b : Untouched(r)' /\ r \in failed'
      BY <1>1, <1>2 DEF TaskSound, AskFails, Untouched, FindingsOf
    <2> QED
      BY <1>3, <1>4, <2>1 DEF TaskSound, Busy, InFilterOf
  <1>7. geoFaults' \in Nat
    BY DEF AskFails, GeoFault, GInv, GeometryTypeOK
  <1> QED
    BY <1>5, <1>6, <1>7, SightStays, TaskStepSound
    DEF AskFails, GInv, GeometryTypeOK, missed

\* What is settled while a task looks at the spaces of one rule.
LEMMA FilterFacts ==
  ASSUME GInv, NEW b \in batches, geoPhase = "running",
         doing[b].place \in InFilterOf
  PROVE  /\ doing[b] \in Tasks /\ doing[b].rule \in b \ doing[b].todo
         /\ doing[b].rule \in Dispatched
         /\ doing[b].left \subseteq Solids
         /\ doing[b].todo \subseteq b /\ b \subseteq Dispatched
         /\ b \cap failed = {}
         /\ Filter[doing[b].rule] # Everywhere
         /\ Filter[doing[b].rule] \subseteq Spaces
         /\ Kind[doing[b].rule] = "min" \/ doing[b].rule \notin truncated =>
              doing[b].left \subseteq Violators(doing[b].rule)
         /\ Settled(doing[b].rule, doing[b].left)
         /\ Answered(b, doing[b].answer)
         /\ \A q \in doing[b].todo : Untouched(q)
         /\ \A q \in b \ doing[b].todo :
              q # doing[b].rule => Settled(q, {})
  <1>1. /\ doing[b] \in Tasks /\ TaskSound(b) /\ b \subseteq Dispatched
        /\ b \subseteq GeoRules
    BY BatchFacts
  <1>2. doing[b].place \in Busy
    BY DEF Busy, InFilterOf
  <1>3. /\ doing[b].rule \in b \ doing[b].todo
        /\ Filter[doing[b].rule] # Everywhere
        /\ doing[b].todo \subseteq b /\ b \cap failed = {}
        /\ Kind[doing[b].rule] = "min" \/ doing[b].rule \notin truncated =>
             doing[b].left \subseteq Violators(doing[b].rule)
        /\ \A q \in b \ doing[b].todo : Settled(q, LeftOf(b, q))
        /\ \A q \in doing[b].todo : Untouched(q)
        /\ Answered(b, doing[b].answer)
    BY <1>1, <1>2 DEF TaskSound
  <1>4. LeftOf(b, doing[b].rule) = doing[b].left
    BY DEF LeftOf
  <1>5. \A q : q # doing[b].rule => LeftOf(b, q) = {}
    BY DEF LeftOf
  <1>6. Settled(doing[b].rule, doing[b].left)
    BY <1>3, <1>4
  <1>7. \A q \in b \ doing[b].todo : q # doing[b].rule => Settled(q, {})
    BY <1>3, <1>5
  <1>8. Filter[doing[b].rule] \subseteq Spaces
    BY <1>1, <1>3, GeometryAssumption
  <1>9. doing[b].left \subseteq Solids
    BY <1>1 DEF Tasks
  <1> QED
    BY <1>1, <1>3, <1>6, <1>7, <1>8, <1>9

\* A step of the spatial filter is about its rule only.
LEMMA FilterStepSound ==
  ASSUME GInv, NEW b \in batches, geoPhase = "running",
         doing[b].place \in InFilterOf,
         NEW r, r = doing[b].rule,
         NEW t \in Tasks, doing' = [doing EXCEPT ![b] = t],
         t.todo = doing[b].todo, t.answer = doing[b].answer,
         t.place \in InFilterOf \/ t.place = After(t.todo),
         t.place \in InFilterOf => t.rule = r /\ t.left \subseteq doing[b].left,
         t.place \in {"clashes", "looking"} => boxes' # NotLoaded,
         t.place = "looking" => t.solid \in t.left,
         UNCHANGED <<geoPhase, unresolved, coverageVars, batches,
                     unloaded, torn>>,
         findings \subseteq findings',
         findings' \subseteq findings \cup ({r} \X Solids),
         unseen \subseteq unseen', unseen' \subseteq Spaces \cup Solids,
         boxes # NotLoaded => boxes' # NotLoaded,
         boxes' \in (SUBSET Spaces) \cup {NotLoaded},
         centroid' \in [Solids -> {"unknown", "known", "none"}],
         geoFaults' \in Nat, SightSound',
         NEW L, L = (IF t.place \in InFilterOf THEN t.left ELSE {}),
         Settled(r, L)'
  PROVE  GInv'
  <1>1. /\ UNCHANGED <<executed, failed, truncated>>
        /\ doing' \in [batches -> Tasks] /\ doing'[b] = t
        /\ \A c \in batches : c # b => doing'[c] = doing[c]
    BY BecomeMeans DEF coverageVars
  <1>2. /\ r \in b \ t.todo /\ t.todo \subseteq b
        /\ b \cap failed = {} /\ Filter[r] # Everywhere
        /\ Kind[r] = "min" \/ r \notin truncated =>
             doing[b].left \subseteq Violators(r)
        /\ Answered(b, t.answer)
        /\ \A q \in t.todo : Untouched(q)
        /\ \A q \in b \ t.todo : q # r => Settled(q, {})
    BY FilterFacts
  <1>3. StepOf(b)
    BY <1>1, <1>2 DEF StepOf
  <1>4. \A q : q # r => FindingsOf(q)' = FindingsOf(q)
    BY DEF FindingsOf
  <1>5. \A q \in t.todo : Untouched(q)'
    BY <1>1, <1>2, <1>4 DEF Untouched
  <1>6. \A q \in b \ t.todo : q # r => Settled(q, {})'
    <2>1. ASSUME NEW q \in b \ t.todo, q # r
          PROVE  Settled(q, {})'
      <3>1. Settled(q, {}) /\ FindingsOf(q)' = FindingsOf(q)
        BY <1>2, <1>4, <2>1
      <3>2. q \in executed'
        BY <1>1, <3>1 DEF Settled
      <3> QED
        BY <1>1, <3>1, <3>2, SettledStays
    <2> QED
      BY <2>1
  <1>7. \A q \in b \ t.todo : Settled(q, LeftOf(b, q))'
    <2>1. ASSUME NEW q \in b \ t.todo
          PROVE  Settled(q, LeftOf(b, q))'
      <3>1. CASE q = r /\ t.place \in InFilterOf
        <4>1. LeftOf(b, q)' = L
          BY <1>1, <3>1 DEF LeftOf
        <4> QED
          BY <3>1, <4>1 DEF Settled, Accounted
      <3>2. CASE q = r /\ t.place \notin InFilterOf
        <4>1. LeftOf(b, q)' = L
          BY <1>1, <3>2 DEF LeftOf
        <4> QED
          BY <3>2, <4>1 DEF Settled, Accounted
      <3>3. CASE q # r
        <4>1. LeftOf(b, q)' = {}
          BY <1>1, <3>3 DEF LeftOf
        <4>2. Settled(q, {})'
          BY <1>6, <2>1, <3>3
        <4> QED
          BY <4>1, <4>2 DEF Settled, Accounted
      <3> QED
        BY <3>1, <3>2, <3>3
    <2> QED
      BY <2>1
  <1>8. /\ Answered(b, t.answer)'
        /\ Violators(r)' = Violators(r)
    BY <1>1, <1>2, AnsweredStays DEF Far, Violators
  <1>9. t.place = "over" => \A q \in b : Settled(q, {})' /\ q \notin failed'
    <2>1. SUFFICES ASSUME t.place = "over", NEW q \in b
                   PROVE  Settled(q, {})'
      BY <1>1, <1>2
    <2>2. t.todo = {} /\ L = {}
      BY <2>1 DEF After, InFilterOf
    <2>3. CASE q = r
      BY <2>2, <2>3 DEF Settled, Accounted
    <2>4. CASE q # r
      BY <1>6, <2>1, <2>2, <2>4
    <2> QED
      BY <2>3, <2>4
  <1>10. TaskSound(b)'
    <2>1. t.place # "ask"
      BY DEF InFilterOf, After
    <2>2. t.place \in Busy =>
            /\ t.todo \subseteq b /\ b \cap failed' = {}
            /\ Answered(b, t.answer)'
            /\ \A q \in t.todo : Untouched(q)'
            /\ \A q \in b \ t.todo : Settled(q, LeftOf(b, q))'
      BY <1>1, <1>2, <1>5, <1>7, <1>8
    <2>3. t.place \in InFilterOf =>
            /\ t.rule \in b \ t.todo /\ Filter[t.rule] # Everywhere
            /\ Kind[t.rule] = "min" \/ t.rule \notin truncated' =>
                 t.left \subseteq Violators(t.rule)
      BY <1>1, <1>2
    <2>4. t.place \in InFilterOf => Violators(t.rule)' = Violators(t.rule)
      BY <1>8
    <2> QED
      BY <1>1, <1>9, <2>1, <2>2, <2>3, <2>4 DEF TaskSound
  <1> QED
    BY <1>3, <1>10, TaskStepSound

\* A report adds findings of one rule to those there are.
LEMMA ReportMeans ==
  ASSUME NEW r, NEW S \in SUBSET Solids,
         findings' = findings \cup {<<r, s>> : s \in S}
  PROVE  /\ FindingsOf(r)' = FindingsOf(r) \cup S
         /\ findings \subseteq findings'
         /\ findings' \subseteq findings \cup ({r} \X Solids)
  BY DEF FindingsOf

\* A step that only moves a task from place to place.
LEMMA MoveSound ==
  ASSUME GInv, NEW b \in batches, geoPhase = "running",
         doing[b].place \in InFilterOf,
         NEW t \in Tasks, doing' = [doing EXCEPT ![b] = t],
         t.todo = doing[b].todo, t.answer = doing[b].answer,
         t.place \in InFilterOf, t.rule = doing[b].rule,
         t.left = doing[b].left,
         t.place \in {"clashes", "looking"} => boxes' # NotLoaded,
         t.place = "looking" => t.solid \in t.left,
         UNCHANGED <<geoPhase, unresolved, coverageVars, batches, findings,
                     centroid, unloaded, torn>>,
         unseen \subseteq unseen', unseen' \subseteq Spaces \cup Solids,
         boxes' \in (SUBSET Spaces) \cup {NotLoaded},
         boxes # NotLoaded => boxes' # NotLoaded,
         geoFaults' \in Nat, SightSound'
  PROVE  GInv'
  <1>1. PICK r : r = doing[b].rule
    OBVIOUS
  <1>2. PICK L : L = t.left
    OBVIOUS
  <1>3. Settled(r, L) /\ r = doing[b].rule
    BY <1>1, <1>2, FilterFacts
  <1>4. Settled(r, L)'
    <2>1. FindingsOf(r)' = FindingsOf(r) /\ r \in executed'
      BY <1>3 DEF FindingsOf, Settled, coverageVars
    <2> QED
      BY <1>3, <2>1, SettledStays DEF coverageVars
  <1>5. centroid' \in [Solids -> {"unknown", "known", "none"}]
    BY DEF GInv, GeometryTypeOK
  <1>6. /\ findings \subseteq findings'
        /\ findings' \subseteq findings \cup ({r} \X Solids)
    OBVIOUS
  <1>7. L = (IF t.place \in InFilterOf THEN t.left ELSE {})
    BY <1>2
  <1>8. t.place \in InFilterOf => t.rule = r /\ t.left \subseteq doing[b].left
    BY <1>1
  <1> QED
    BY <1>1, <1>4, <1>5, <1>6, <1>7, <1>8, FilterStepSound

\* Using some boxes: nothing is filtered when there are none.
LEMMA UseBoxesSound ==
  ASSUME GInv, NEW b \in batches, geoPhase = "running",
         doing[b].place \in {"spaces", "loading"},
         NEW S \in SUBSET Spaces, UseBoxes(b, S), Spaces \ S \subseteq unseen',
         boxes' \in SUBSET Spaces, NotLoaded \notin SUBSET Spaces,
         UNCHANGED <<geoPhase, unresolved, coverageVars, batches, centroid,
                     unloaded, torn>>,
         unseen \subseteq unseen', unseen' \subseteq Spaces \cup Solids,
         geoFaults' \in Nat, SightSound'
  PROVE  GInv'
  <1>1. doing[b].place \in InFilterOf
    BY DEF InFilterOf
  <1>2. boxes' # NotLoaded
    OBVIOUS
  <1>3. CASE S # {}
    <2>1. /\ doing' = [doing EXCEPT ![b] = [doing[b] EXCEPT !.place = "clashes"]]
          /\ UNCHANGED findings
      BY <1>3 DEF UseBoxes, Become
    <2>2. doing[b] \in Tasks
      BY <1>1, FilterFacts
    <2>3. PICK t \in Tasks : t = [doing[b] EXCEPT !.place = "clashes"]
      BY <2>2 DEF Tasks
    <2>4. /\ t.todo = doing[b].todo /\ t.answer = doing[b].answer
          /\ t.rule = doing[b].rule /\ t.left = doing[b].left
          /\ t.place = "clashes" /\ t.place \in InFilterOf
      BY <2>2, <2>3 DEF Tasks, InFilterOf
    <2>5. doing' = [doing EXCEPT ![b] = t]
      BY <2>1, <2>3
    <2> QED
      BY <1>1, <1>2, <2>1, <2>4, <2>5, MoveSound
  <1>4. CASE S = {}
    <2>1. /\ doing' = [doing EXCEPT ![b] =
               [doing[b] EXCEPT !.left = {}, !.place = After(doing[b].todo)]]
          /\ findings' = findings \cup
               {<<doing[b].rule, s>> : s \in doing[b].left}
      BY <1>4 DEF UseBoxes, Become, Report
    <2>2. doing[b] \in Tasks /\ doing[b].left \subseteq Solids
      BY <1>1, FilterFacts
    <2>3. PICK t \in Tasks :
            t = [doing[b] EXCEPT !.left = {}, !.place = After(doing[b].todo)]
      BY <2>2 DEF Tasks, After
    <2>4. /\ t.todo = doing[b].todo /\ t.answer = doing[b].answer
          /\ t.place = After(t.todo) /\ t.place \notin InFilterOf
          /\ t.place \notin {"clashes", "looking"}
      BY <2>2, <2>3 DEF Tasks, InFilterOf, After
    <2>5. doing' = [doing EXCEPT ![b] = t]
      BY <2>1, <2>3
    <2>6. PICK r : r = doing[b].rule
      OBVIOUS
    <2>7. /\ Kind[r] = "min" \/ r \notin truncated =>
               doing[b].left \subseteq Violators(r)
          /\ Settled(r, doing[b].left)
      BY <1>1, <2>6, FilterFacts
    <2>8. /\ FindingsOf(r)' = FindingsOf(r) \cup doing[b].left
          /\ findings \subseteq findings'
          /\ findings' \subseteq findings \cup ({r} \X Solids)
      BY <2>1, <2>2, <2>6, ReportMeans
    <2>9. Violators(r)' = Violators(r)
      BY DEF Violators, Far
    <2>10. Settled(r, {})'
      <3>1. TrueTo(r)'
        BY <2>7, <2>8, <2>9 DEF Settled, TrueTo, coverageVars
      <3>2. Filtered(r)'
        BY <1>4 DEF Filtered
      <3>3. Accounted(r, {})'
        BY <2>7, <2>8, <2>9 DEF Settled, Accounted, InFilter, coverageVars
      <3> QED
        BY <2>7, <3>1, <3>2, <3>3 DEF Settled, coverageVars
    <2>11. centroid' \in [Solids -> {"unknown", "known", "none"}]
      BY DEF GInv, GeometryTypeOK
    <2>12. {} = (IF t.place \in InFilterOf THEN t.left ELSE {})
      BY <2>4
    <2>13. boxes' \in (SUBSET Spaces) \cup {NotLoaded}
      OBVIOUS
    <2>14. t.place = "looking" => t.solid \in t.left
      BY <2>4
    <2>15. t.place \in InFilterOf =>
             t.rule = r /\ t.left \subseteq doing[b].left
      BY <2>4
    <2> QED
      BY <1>1, <1>2, <2>4, <2>5, <2>6, <2>8, <2>10, <2>11, <2>12, <2>13,
         <2>14, <2>15, FilterStepSound
  <1> QED
    BY <1>3, <1>4

LEMMA BoxesAreSets ==
  ASSUME GInv
  PROVE  /\ NotLoaded \notin SUBSET Spaces
         /\ unseen \subseteq Spaces \cup Solids /\ geoFaults \in Nat
         /\ boxes # NotLoaded =>
              boxes \in SUBSET Spaces /\ Spaces \ boxes \subseteq unseen
  <1>1. \A S \in SUBSET Spaces : NotLoaded # S
    BY GeometryAssumption
  <1>2. NotLoaded \notin SUBSET Spaces
    BY <1>1
  <1> QED
    BY <1>2 DEF GInv, GeometryTypeOK, SightSound

LEMMA BoxesCachedSound ==
  ASSUME GInv, NEW b \in batches, BoxesCached(b)
  PROVE  GInv'
  <1>1. /\ geoPhase = "running" /\ doing[b].place = "spaces"
        /\ boxes # NotLoaded /\ UseBoxes(b, boxes)
        /\ UNCHANGED <<geoPhase, unresolved, coverageVars, batches, boxes,
                       centroid, unseen, unloaded, torn, geoFaults>>
    BY DEF BoxesCached, Now, missed
  <1>2. SightSound'
    BY <1>1, SightStays DEF GInv
  <1>3. PICK S \in SUBSET Spaces : S = boxes
    BY <1>1, BoxesAreSets
  <1>4. UseBoxes(b, S) /\ Spaces \ S \subseteq unseen'
    BY <1>1, <1>3, BoxesAreSets
  <1> QED
    BY <1>1, <1>2, <1>4, BoxesAreSets, UseBoxesSound

LEMMA BoxesLoadedSound ==
  ASSUME GInv, NEW b \in batches, BoxesLoaded(b)
  PROVE  GInv'
  <1>1. /\ geoPhase = "running" /\ doing[b].place = "loading"
        /\ UNCHANGED <<geoPhase, unresolved, coverageVars, batches, centroid,
                       unloaded, torn, geoFaults>>
    BY DEF BoxesLoaded, Now
  <1>a. PICK S \in Loads(Spaces) :
          /\ boxes' = S /\ UseBoxes(b, S)
          /\ unseen' = unseen \cup (Spaces \ S)
    BY DEF BoxesLoaded
  <1>b. S \in SUBSET Spaces
    BY DEF Loads
  <1>2. SightSound'
    BY <1>1, <1>a DEF GInv, SightSound
  <1>3. /\ Spaces \ S \subseteq unseen' /\ unseen \subseteq unseen'
        /\ unseen' \subseteq Spaces \cup Solids
    BY <1>a, BoxesAreSets
  <1> QED
    BY <1>1, <1>2, <1>3, <1>a, <1>b, BoxesAreSets, UseBoxesSound

LEMMA BoxesFailSound ==
  ASSUME GInv, NEW b \in batches, BoxesFail(b)
  PROVE  GInv'
  <1>1. PICK S \in SUBSET Spaces :
          /\ boxes' = S
          /\ unseen' = unseen \cup (Spaces \ S)
          /\ UseBoxes(b, S)
    <2>1. PICK listed \in Loads(Spaces) :
            \E lost \in {listed} \cup {{p} : p \in listed} :
              /\ boxes' = listed \ lost
              /\ unseen' = unseen \cup (Spaces \ (listed \ lost))
              /\ UseBoxes(b, listed \ lost)
      BY DEF BoxesFail
    <2>2. PICK lost \in {listed} \cup {{p} : p \in listed} :
            /\ boxes' = listed \ lost
            /\ unseen' = unseen \cup (Spaces \ (listed \ lost))
            /\ UseBoxes(b, listed \ lost)
      BY <2>1
    <2>3. listed \ lost \in SUBSET Spaces
      BY DEF Loads
    <2> QED
      BY <2>2, <2>3
  <1>2. /\ geoPhase = "running" /\ doing[b].place = "loading"
        /\ geoFaults' \in Nat
        /\ UNCHANGED <<geoPhase, unresolved, coverageVars, batches, centroid,
                     unloaded, torn>>
    BY BoxesAreSets DEF BoxesFail, Now, GeoFault
  <1>4. SightSound'
    BY <1>1, <1>2 DEF GInv, SightSound
  <1>5. /\ Spaces \ S \subseteq unseen'
        /\ unseen \subseteq unseen' /\ unseen' \subseteq Spaces \cup Solids
    BY <1>1, BoxesAreSets
  <1> QED
    BY <1>1, <1>2, <1>4, <1>5, BoxesAreSets, UseBoxesSound

LEMMA LoadBoxesSound ==
  ASSUME GInv, NEW b \in batches, LoadBoxes(b)
  PROVE  GInv'
  <1>1. /\ geoPhase = "running" /\ doing[b].place = "spaces"
        /\ doing' = [doing EXCEPT ![b] = [doing[b] EXCEPT !.place = "loading"]]
        /\ UNCHANGED <<geoPhase, unresolved, coverageVars, batches, boxes,
                       centroid, findings, unseen, unloaded, torn, geoFaults>>
    BY DEF LoadBoxes, Now, Become, missed
  <1>2. doing[b].place \in InFilterOf
    BY <1>1 DEF InFilterOf
  <1>3. doing[b] \in Tasks
    BY <1>1, <1>2, FilterFacts
  <1>4. PICK t \in Tasks : t = [doing[b] EXCEPT !.place = "loading"]
    BY <1>3 DEF Tasks
  <1>5. /\ t.todo = doing[b].todo /\ t.answer = doing[b].answer
        /\ t.rule = doing[b].rule /\ t.left = doing[b].left
        /\ t.place = "loading" /\ t.place \in InFilterOf
    BY <1>3, <1>4 DEF Tasks, InFilterOf
  <1>6. doing' = [doing EXCEPT ![b] = t]
    BY <1>1, <1>4
  <1>7. SightSound'
    BY <1>1, SightStays DEF GInv
  <1>8. boxes' \in (SUBSET Spaces) \cup {NotLoaded}
    BY <1>1 DEF GInv, GeometryTypeOK
  <1> QED
    BY <1>1, <1>2, <1>5, <1>6, <1>7, <1>8, BoxesAreSets, MoveSound

LEMMA LookSound ==
  ASSUME GInv, NEW b \in batches, Look(b)
  PROVE  GInv'
  <1>1. PICK s \in doing[b].left :
          doing' = [doing EXCEPT ![b] =
                     [doing[b] EXCEPT !.place = "looking", !.solid = s]]
    BY DEF Look, Become
  <1>2. /\ geoPhase = "running" /\ doing[b].place = "clashes"
        /\ UNCHANGED <<geoPhase, unresolved, coverageVars, batches, boxes,
                       centroid, findings, unseen, unloaded, torn, geoFaults>>
    BY DEF Look, Now, missed
  <1>3. doing[b].place \in InFilterOf
    BY <1>2 DEF InFilterOf
  <1>4. doing[b] \in Tasks /\ s \in Solids
    BY <1>1, <1>2, <1>3, FilterFacts
  <1>5. PICK t \in Tasks : t = [doing[b] EXCEPT !.place = "looking", !.solid = s]
    BY <1>4 DEF Tasks
  <1>6. /\ t.todo = doing[b].todo /\ t.answer = doing[b].answer
        /\ t.rule = doing[b].rule /\ t.left = doing[b].left
        /\ t.place = "looking" /\ t.place \in InFilterOf
        /\ t.solid \in t.left
    BY <1>1, <1>4, <1>5 DEF Tasks, InFilterOf
  <1>7. doing' = [doing EXCEPT ![b] = t]
    BY <1>1, <1>5
  <1>8. SightSound'
    BY <1>2, SightStays DEF GInv
  <1>9. boxes' \in (SUBSET Spaces) \cup {NotLoaded} /\ boxes' # NotLoaded
    BY <1>2 DEF GInv, GeometryTypeOK, TaskSound
  <1> QED
    BY <1>2, <1>3, <1>6, <1>7, <1>8, <1>9, BoxesAreSets, MoveSound

\* A solid is decided on.
LEMMA DecideSound ==
  ASSUME GInv, NEW b \in batches, geoPhase = "running",
         doing[b].place \in {"clashes", "looking"},
         NEW s \in doing[b].left, NEW where, Decide(b, s, where),
         where # "known" => s \in unseen',
         UNCHANGED <<geoPhase, unresolved, coverageVars, batches, boxes,
                     unloaded, torn>>,
         unseen \subseteq unseen', unseen' \subseteq Spaces \cup Solids,
         centroid' \in [Solids -> {"unknown", "known", "none"}],
         geoFaults' \in Nat, SightSound'
  PROVE  GInv'
  <1>1. doing[b].place \in InFilterOf
    BY DEF InFilterOf
  <1>2. PICK r : r = doing[b].rule
    OBVIOUS
  <1>3. PICK left \in SUBSET Solids : left = doing[b].left
    BY <1>1, FilterFacts
  <1>4. /\ doing[b] \in Tasks /\ r \in b \ doing[b].todo
        /\ Filter[r] # Everywhere /\ Filter[r] \subseteq Spaces
        /\ Kind[r] = "min" \/ r \notin truncated => left \subseteq Violators(r)
        /\ Settled(r, left)
        /\ s \in left
    BY <1>1, <1>2, <1>3, FilterFacts
  <1>5. PICK t \in Tasks :
          t = [doing[b] EXCEPT !.place = "clashes", !.left = @ \ {s},
                               !.solid = Outside]
    BY <1>4 DEF Tasks
  <1>6. /\ t.todo = doing[b].todo /\ t.answer = doing[b].answer
        /\ t.rule = r /\ t.left = left \ {s}
        /\ t.place = "clashes" /\ t.place \in InFilterOf
    BY <1>2, <1>3, <1>4, <1>5 DEF Tasks, InFilterOf
  <1>7. doing' = [doing EXCEPT ![b] = t]
    BY <1>5 DEF Decide, Become
  <1>8. boxes # NotLoaded
    BY DEF GInv, TaskSound
  <1>9. Violators(r)' = Violators(r)
    BY DEF Violators, Far
  <1> DEFINE S == IF Inside(r, s, where) THEN {s} ELSE {}
  <1>10. findings' = findings \cup {<<r, x>> : x \in S}
    BY <1>2 DEF Decide, Report
  <1>11. /\ FindingsOf(r)' = FindingsOf(r) \cup S
         /\ findings \subseteq findings'
         /\ findings' \subseteq findings \cup ({r} \X Solids)
    <2>1. S \in SUBSET Solids
      BY <1>3, <1>4
    <2> HIDE DEF S
    <2> QED
      BY <1>10, <2>1, ReportMeans
  <1>12. s \in FindingsOf(r)' \/ ~InFilter(r, s)
         \/ {s, SpaceOf[s]} \cap unseen' # {}
    <2>1. CASE Inside(r, s, where)
      BY <1>11, <2>1
    <2>2. CASE where # "known"
      BY <2>2
    <2>3. CASE SpaceOf[s] \notin boxes \cap Filter[r]
      BY <1>4, <1>8, <2>3, BoxesAreSets DEF InFilter
    <2> QED
      BY <2>1, <2>2, <2>3 DEF Inside
  <1>13. \A x \in S : InFilter(r, x)
    BY DEF Inside, InFilter
  <1> HIDE DEF S
  <1>14. Settled(r, left \ {s})'
    <2>1. TrueTo(r)'
      <3>1. S \subseteq left
        BY <1>4 DEF S
      <3> QED
        BY <1>4, <1>9, <1>11, <3>1 DEF Settled, TrueTo, coverageVars
    <2>2. Filtered(r)'
      BY <1>4, <1>11, <1>13 DEF Settled, Filtered, InFilter
    <2>3. Accounted(r, left \ {s})'
      BY <1>4, <1>9, <1>11, <1>12 DEF Settled, Accounted, InFilter, coverageVars
    <2>4. r \in executed'
      BY <1>4 DEF Settled, coverageVars
    <2> QED
      BY <2>1, <2>2, <2>3, <2>4 DEF Settled
  <1>15. PICK L : L = left \ {s}
    OBVIOUS
  <1>16. Settled(r, L)'
    BY <1>14, <1>15
  <1>17. L = (IF t.place \in InFilterOf THEN t.left ELSE {})
    BY <1>6, <1>15
  <1>18. boxes' \in (SUBSET Spaces) \cup {NotLoaded} /\ boxes' # NotLoaded
    BY <1>8, BoxesAreSets
  <1>19. t.place \in InFilterOf => t.rule = r /\ t.left \subseteq doing[b].left
    BY <1>3, <1>6
  <1>20. t.place # "looking"
    BY <1>6
  <1> QED
    BY <1>1, <1>2, <1>6, <1>7, <1>11, <1>16, <1>17, <1>18, <1>19, <1>20,
       FilterStepSound

LEMMA LookCachedSound ==
  ASSUME GInv, NEW b \in batches, LookCached(b)
  PROVE  GInv'
  <1>1. PICK s \in doing[b].left :
          centroid[s] # "unknown" /\ Decide(b, s, centroid[s])
    BY DEF LookCached
  <1>2. /\ geoPhase = "running" /\ doing[b].place = "clashes"
        /\ UNCHANGED <<geoPhase, unresolved, coverageVars, batches, boxes,
                       centroid, unseen, unloaded, torn, geoFaults>>
    BY DEF LookCached, Now, missed
  <1>3. doing[b].left \subseteq Solids
    BY <1>2, FilterFacts DEF InFilterOf
  <1>4. centroid[s] # "known" => s \in unseen
    BY <1>1, <1>3 DEF GInv, GeometryTypeOK, SightSound
  <1>5. SightSound'
    BY <1>2, SightStays DEF GInv
  <1>6. centroid' \in [Solids -> {"unknown", "known", "none"}]
    BY <1>2 DEF GInv, GeometryTypeOK
  <1>7. PICK where : where = centroid[s]
    OBVIOUS
  <1>8. Decide(b, s, where)
    BY <1>1, <1>7
  <1> QED
    BY <1>2, <1>4, <1>5, <1>6, <1>7, <1>8, BoxesAreSets, DecideSound

LEMMA LookEndsSound ==
  ASSUME GInv, NEW b \in batches, NEW where \in {"known", "none"},
         LookEnds(b, where), UNCHANGED <<unloaded, torn>>,
         where = "none" => doing[b].solid \in unseen',
         unseen \subseteq unseen', unseen' \subseteq Spaces \cup Solids,
         geoFaults' \in Nat
  PROVE  GInv'
  <1>1. /\ geoPhase = "running" /\ doing[b].place = "looking"
        /\ centroid' = [centroid EXCEPT ![doing[b].solid] = where]
        /\ Decide(b, doing[b].solid, where)
        /\ UNCHANGED <<geoPhase, unresolved, coverageVars, batches, boxes,
                     unloaded, torn>>
    BY DEF LookEnds, Now
  <1>2. doing[b].left \subseteq Solids /\ doing[b].solid \in doing[b].left
    BY <1>1, FilterFacts DEF InFilterOf, GInv, TaskSound
  <1>3. PICK s \in doing[b].left : s = doing[b].solid
    BY <1>2
  <1>4. centroid \in [Solids -> {"unknown", "known", "none"}]
    BY DEF GInv, GeometryTypeOK
  <1>5. centroid' \in [Solids -> {"unknown", "known", "none"}]
    BY <1>1, <1>4
  <1>6. SightSound'
    <2>1. \A x \in Solids : centroid'[x] = "none" => x \in unseen'
      BY <1>1, <1>2, <1>4 DEF GInv, SightSound
    <2> QED
      BY <1>1, <2>1 DEF GInv, SightSound
  <1>7. Decide(b, s, where) /\ (where # "known" => s \in unseen')
    BY <1>1, <1>3
  <1> QED
    BY <1>1, <1>5, <1>6, <1>7, DecideSound

LEMMA SeenSound ==
  ASSUME GInv, NEW b \in batches, Seen(b)
  PROVE  GInv'
  BY BoxesAreSets, LookEndsSound DEF Seen, missed

LEMMA SeenNotSound ==
  ASSUME GInv, NEW b \in batches, SeenNot(b)
  PROVE  GInv'
  <1>1. /\ LookEnds(b, "none") /\ geoFaults' \in Nat
        /\ unseen' = unseen \cup {doing[b].solid}
        /\ UNCHANGED <<unloaded, torn>>
    BY BoxesAreSets DEF SeenNot, GeoFault
  <1>2. geoPhase = "running" /\ doing[b].place = "looking"
    BY <1>1 DEF LookEnds, Now
  <1>3. doing[b].left \subseteq Solids /\ doing[b].solid \in doing[b].left
    BY <1>2, FilterFacts DEF InFilterOf, GInv, TaskSound
  <1>4. unseen' \subseteq Spaces \cup Solids
    BY <1>1, <1>3, BoxesAreSets
  <1> QED
    BY <1>1, <1>4, LookEndsSound

LEMMA EndRuleSound ==
  ASSUME GInv, NEW b \in batches, EndRule(b)
  PROVE  GInv'
  <1>1. /\ geoPhase = "running" /\ doing[b].place = "clashes"
        /\ doing[b].left = {}
        /\ doing' = [doing EXCEPT ![b] =
             [doing[b] EXCEPT !.place = After(doing[b].todo)]]
        /\ UNCHANGED <<geoPhase, unresolved, coverageVars, batches, boxes,
                       centroid, findings, unseen, unloaded, torn, geoFaults>>
    BY DEF EndRule, Now, Become, missed
  <1>2. doing[b].place \in InFilterOf
    BY <1>1 DEF InFilterOf
  <1>3. PICK r : r = doing[b].rule
    OBVIOUS
  <1>4. doing[b] \in Tasks /\ Settled(r, {})
    <2>1. doing[b] \in Tasks /\ Settled(r, doing[b].left)
      BY <1>1, <1>2, <1>3, FilterFacts
    <2> QED
      BY <1>1, <2>1
  <1>5. PICK t \in Tasks : t = [doing[b] EXCEPT !.place = After(doing[b].todo)]
    BY <1>4 DEF Tasks, After
  <1>6. /\ t.todo = doing[b].todo /\ t.answer = doing[b].answer
        /\ t.place = After(t.todo) /\ t.place \notin InFilterOf
    BY <1>4, <1>5 DEF Tasks, InFilterOf, After
  <1>7. doing' = [doing EXCEPT ![b] = t]
    BY <1>1, <1>5
  <1>8. Settled(r, {})'
    <2>1. FindingsOf(r)' = FindingsOf(r) /\ r \in executed'
      BY <1>1, <1>4 DEF FindingsOf, Settled, coverageVars
    <2>2. UNCHANGED <<truncated, unseen, unloaded, torn>>
      BY <1>1 DEF coverageVars
    <2> QED
      BY <1>4, <2>1, <2>2, SettledStays
  <1>9. SightSound'
    BY <1>1, SightStays DEF GInv
  <1>10. /\ boxes' \in (SUBSET Spaces) \cup {NotLoaded}
         /\ centroid' \in [Solids -> {"unknown", "known", "none"}]
    BY <1>1 DEF GInv, GeometryTypeOK
  <1>11. {} = (IF t.place \in InFilterOf THEN t.left ELSE {})
    BY <1>6
  <1>12. t.place \notin {"clashes", "looking"}
    BY <1>6 DEF InFilterOf
  <1>13. /\ findings \subseteq findings'
         /\ findings' \subseteq findings \cup ({r} \X Solids)
    BY <1>1
  <1>14. /\ t.place = "looking" => t.solid \in t.left
         /\ t.place \in InFilterOf =>
              t.rule = r /\ t.left \subseteq doing[b].left
    BY <1>6, <1>12
  <1> QED
    BY <1>1, <1>2, <1>3, <1>6, <1>7, <1>8, <1>9, <1>10, <1>11, <1>12, <1>13,
       <1>14, BoxesAreSets, FilterStepSound

LEMMA NextRuleSound ==
  ASSUME GInv, NEW b \in batches, NextRule(b)
  PROVE  GInv'
  <1>1. /\ geoPhase = "running" /\ doing[b].place = "rules"
        /\ UNCHANGED <<geoPhase, unresolved, failed, truncated, batches, boxes,
                       centroid, unseen, unloaded, torn, geoFaults>>
    BY DEF NextRule, Now, missed
  <1>2. /\ doing[b] \in Tasks /\ TaskSound(b) /\ b \subseteq Dispatched
        /\ b \subseteq GeoRules
        /\ b \in Batches(Dispatched \ Blocked(unresolved))
        /\ Needed \ Loaded \subseteq unresolved
    BY <1>1, BatchFacts
  <1>3. PICK todo, answer : todo = doing[b].todo /\ answer = doing[b].answer
    OBVIOUS
  <1>4. /\ todo \subseteq b /\ b \cap failed = {}
        /\ Answered(b, answer)
        /\ \A q \in todo : Untouched(q)
        /\ \A q \in b \ todo : Settled(q, {})
    BY <1>1, <1>2, <1>3 DEF TaskSound, Busy, LeftOf, InFilterOf
  <1>5. PICK r \in todo :
       /\ executed' = executed \cup {r}
       /\ IF Filter[r] = Everywhere
          THEN /\ Report(r, Violating(r, answer))
               /\ Become(b, [doing[b] EXCEPT !.todo = todo \ {r},
                                             !.place = After(todo \ {r})])
          ELSE /\ Become(b, [doing[b] EXCEPT !.todo = todo \ {r}, !.rule = r,
                               !.place = "spaces",
                               !.left = Violating(r, answer)])
               /\ UNCHANGED findings
    BY <1>3 DEF NextRule
  <1>a. PICK loaded \in SUBSET Solids :
          /\ b \X (Solids \ loaded) \subseteq unloaded
          /\ \/ answer = Close(b, loaded)
             \/ answer \subseteq Close(b, loaded) /\ b \subseteq truncated
    BY <1>4 DEF Answered
  <1>6. /\ r \in b /\ FindingsOf(r) = {}
        /\ r \notin truncated => answer = Close(b, loaded)
        /\ answer \in SUBSET Close(b, loaded)
    BY <1>4, <1>5, <1>a DEF Untouched
  <1>7. PICK found : found = Violating(r, answer)
    OBVIOUS
  <1>8. /\ found \subseteq Solids
        /\ Kind[r] = "min" \/ r \notin truncated => found \subseteq Violators(r)
        /\ r \notin truncated =>
             \A s \in Violators(r) : s \in found \/ <<r, s>> \in unloaded
    <2>1. found \subseteq Solids
      BY <1>7 DEF Violating
    <2>2. /\ Kind[r] = "min" \/ answer = Close(b, loaded) =>
               found \subseteq Violators(r)
          /\ answer = Close(b, loaded) => Violators(r) \cap loaded \subseteq found
      BY <1>2, <1>6, <1>7, FoundSound
    <2>3. \A s \in Violators(r) : s \in loaded \/ <<r, s>> \in unloaded
      <3>1. \A s \in Violators(r) : s \in Solids
        BY DEF Violators
      <3> QED
        BY <1>6, <1>a, <3>1
    <2> QED
      BY <1>6, <2>1, <2>2, <2>3
  <1>9. \A q : Violators(q)' = Violators(q)
    BY DEF Violators, Far
  <1>10. Answered(b, answer)'
    BY <1>1, <1>4, AnsweredStays
  <1>11. ASSUME NEW t \in Tasks, doing' = [doing EXCEPT ![b] = t],
                t.todo = todo \ {r}, t.answer = answer,
                findings \subseteq findings',
                findings' \subseteq findings \cup ({r} \X Solids),
                \/ /\ t.place = After(t.todo) /\ Settled(r, {})'
                \/ /\ t.place = "spaces" /\ t.rule = r /\ t.left = found
                   /\ Filter[r] # Everywhere /\ Settled(r, found)'
         PROVE  GInv'
    <2>1. /\ doing' \in [batches -> Tasks] /\ doing'[b] = t
          /\ \A c \in batches : c # b => doing'[c] = doing[c]
      BY <1>11, BecomeMeans
    <2>2. StepOf(b)
      <3>1. executed \subseteq executed' /\ executed' \subseteq executed \cup b
        BY <1>5, <1>6
      <3> QED
        BY <1>1, <1>6, <1>11, <2>1, <3>1, BoxesAreSets DEF StepOf
    <2>3. \A q : q # r => FindingsOf(q)' = FindingsOf(q)
      BY <1>11 DEF FindingsOf
    <2>4. \A q \in t.todo : Untouched(q)'
      BY <1>4, <1>5, <1>11, <2>3 DEF Untouched
    <2>5. \A q \in b \ todo : Settled(q, {})'
      <3>1. ASSUME NEW q \in b \ todo
            PROVE  Settled(q, {})'
        <4>1. Settled(q, {}) /\ q # r
          BY <1>4, <1>5, <3>1
        <4>2. FindingsOf(q)' = FindingsOf(q) /\ q \in executed'
          BY <1>5, <2>3, <4>1 DEF Settled
        <4> QED
          BY <1>1, <4>1, <4>2, SettledStays
      <3> QED
        BY <3>1
    <2>6. CASE t.place = After(t.todo) /\ Settled(r, {})'
      <3>1. t.place \in {"over", "rules"} /\ (t.place = "over" => t.todo = {})
        BY <2>6 DEF After
      <3>2. \A q \in b \ t.todo : Settled(q, {})'
        BY <1>11, <2>5, <2>6
      <3>3. \A q : LeftOf(b, q)' = {}
        BY <2>1, <3>1 DEF LeftOf, InFilterOf
      <3>4. \A q \in b \ t.todo : Settled(q, LeftOf(b, q))'
        BY <3>2, <3>3 DEF Settled, Accounted
      <3>5. t.place = "over" => \A q \in b : Settled(q, {})' /\ q \notin failed'
        BY <1>1, <1>4, <3>1, <3>2
      <3>6. TaskSound(b)'
        BY <1>1, <1>4, <1>6, <1>10, <1>11, <2>1, <2>4, <3>1, <3>4, <3>5
        DEF TaskSound, InFilterOf
      <3> QED
        BY <1>1, <2>2, <3>6, SightStays, TaskStepSound
        DEF GInv, GeometryTypeOK
    <2>7. CASE /\ t.place = "spaces" /\ t.rule = r /\ t.left = found
               /\ Filter[r] # Everywhere /\ Settled(r, found)'
      <3>1. \A q : LeftOf(b, q)' = IF q = r THEN found ELSE {}
        BY <2>1, <2>7 DEF LeftOf, InFilterOf
      <3>2. \A q \in b \ t.todo : Settled(q, LeftOf(b, q))'
        <4>1. ASSUME NEW q \in b \ t.todo, q # r
              PROVE  Settled(q, LeftOf(b, q))'
          BY <1>11, <2>5, <3>1, <4>1 DEF Settled, Accounted
        <4>2. Settled(r, LeftOf(b, r))'
          BY <2>7, <3>1 DEF Settled, Accounted
        <4> QED
          BY <4>1, <4>2
      <3>3. Kind[r] = "min" \/ r \notin truncated' =>
              found \subseteq Violators(r)'
        BY <1>1, <1>8, <1>9
      <3>4. TaskSound(b)'
        <4>1. t.place \notin {"ask", "over", "clashes", "looking"}
          BY <2>7
        <4>2. r \in b \ t.todo
          BY <1>6, <1>11
        <4> QED
          BY <1>1, <1>4, <1>6, <1>10, <1>11, <2>1, <2>4, <2>7, <3>2, <3>3,
             <4>1, <4>2 DEF TaskSound
      <3> QED
        BY <1>1, <2>2, <3>4, SightStays, TaskStepSound
        DEF GInv, GeometryTypeOK
    <2> QED
      BY <1>11, <2>6, <2>7
  <1>12. CASE Filter[r] = Everywhere
    <2>1. /\ findings' = findings \cup {<<r, s>> : s \in found}
          /\ doing' = [doing EXCEPT ![b] =
               [doing[b] EXCEPT !.todo = todo \ {r},
                                !.place = After(todo \ {r})]]
      BY <1>5, <1>7, <1>12 DEF Report, Become
    <2>2. PICK t \in Tasks :
            t = [doing[b] EXCEPT !.todo = todo \ {r},
                                 !.place = After(todo \ {r})]
      BY <1>2, <1>3 DEF Tasks, After
    <2>3. t.todo = todo \ {r} /\ t.answer = answer /\ t.place = After(t.todo)
      BY <1>2, <1>3, <2>2 DEF Tasks
    <2>4. /\ FindingsOf(r)' = found
          /\ findings \subseteq findings'
          /\ findings' \subseteq findings \cup ({r} \X Solids)
      <3>1. found \in SUBSET Solids
        BY <1>8
      <3>2. FindingsOf(r) = {}
        BY <1>6
      <3>3. /\ FindingsOf(r)' = FindingsOf(r) \cup found
            /\ findings \subseteq findings'
            /\ findings' \subseteq findings \cup ({r} \X Solids)
        BY <2>1, <3>1, ReportMeans
      <3> QED
        BY <3>2, <3>3
    <2>5. Settled(r, {})'
      <3>1. TrueTo(r)'
        BY <1>1, <1>8, <1>9, <2>4 DEF TrueTo
      <3>2. Filtered(r)'
        BY <1>12 DEF Filtered, InFilter
      <3>3. Accounted(r, {})'
        BY <1>1, <1>8, <1>9, <2>4 DEF Accounted
      <3>4. r \in executed'
        BY <1>5
      <3> QED
        BY <3>1, <3>2, <3>3, <3>4 DEF Settled
    <2> QED
      BY <1>11, <2>1, <2>2, <2>3, <2>4, <2>5
  <1>13. CASE Filter[r] # Everywhere
    <2>1. /\ findings' = findings
          /\ doing' = [doing EXCEPT ![b] =
               [doing[b] EXCEPT !.todo = todo \ {r}, !.rule = r,
                                !.place = "spaces", !.left = found]]
      BY <1>5, <1>7, <1>13 DEF Become
    <2>2. PICK t \in Tasks :
            t = [doing[b] EXCEPT !.todo = todo \ {r}, !.rule = r,
                                 !.place = "spaces", !.left = found]
      BY <1>2, <1>3, <1>6, <1>8 DEF Tasks
    <2>3. /\ t.todo = todo \ {r} /\ t.answer = answer /\ t.place = "spaces"
          /\ t.rule = r /\ t.left = found
      BY <1>2, <1>3, <2>2 DEF Tasks
    <2>4. FindingsOf(r)' = {}
      BY <1>6, <2>1 DEF FindingsOf
    <2>5. Settled(r, found)'
      <3>1. TrueTo(r)'
        BY <2>4 DEF TrueTo
      <3>2. Filtered(r)'
        BY <2>4 DEF Filtered
      <3>3. Accounted(r, found)'
        BY <1>1, <1>8, <1>9 DEF Accounted
      <3>4. r \in executed'
        BY <1>5
      <3> QED
        BY <3>1, <3>2, <3>3, <3>4 DEF Settled
    <2>6. /\ findings \subseteq findings'
          /\ findings' \subseteq findings \cup ({r} \X Solids)
      BY <2>1
    <2> QED
      BY <1>11, <1>13, <2>1, <2>2, <2>3, <2>5, <2>6
  <1> QED
    BY <1>12, <1>13

LEMMA TaskRaisesSound ==
  ASSUME GInv, NEW b \in batches, TaskRaises(b)
  PROVE  GInv'
  <1>1. /\ geoPhase = "running" /\ doing[b].place = "rules"
        /\ doing[b].todo = b /\ geoFaults' \in Nat
        /\ doing' = [doing EXCEPT ![b] = [doing[b] EXCEPT !.place = "over"]]
        /\ UNCHANGED <<geoPhase, unresolved, truncated, batches, boxes,
                       centroid, findings, unseen, unloaded>>
    BY BoxesAreSets DEF TaskRaises, Now, Become, GeoFault
  <1>2. PICK r \in b : /\ executed' = executed \cup {r}
                      /\ failed' = failed \cup (b \ {r})
                      /\ torn' = torn \cup {r}
    BY DEF TaskRaises
  <1>3. doing[b] \in Tasks /\ TaskSound(b)
    BY <1>1, BatchFacts
  <1>4. b \cap failed = {} /\ \A q \in b : Untouched(q)
    BY <1>1, <1>3 DEF TaskSound, Busy
  <1>5. PICK t \in Tasks : t = [doing[b] EXCEPT !.place = "over"]
    BY <1>3 DEF Tasks
  <1>6. t.place = "over"
    BY <1>3, <1>5 DEF Tasks
  <1>7. /\ doing' \in [batches -> Tasks] /\ doing'[b] = t
        /\ \A c \in batches : c # b => doing'[c] = doing[c]
    BY <1>1, <1>5, BecomeMeans
  <1>8. StepOf(b)
    BY <1>1, <1>2, <1>7, BoxesAreSets DEF StepOf
  <1>9. \A q : FindingsOf(q)' = FindingsOf(q)
    BY <1>1 DEF FindingsOf
  <1>10. \A q \in b : q # r => Untouched(q)' /\ q \in failed'
    BY <1>2, <1>4, <1>9 DEF Untouched
  <1>11. Settled(r, {})' /\ r \notin failed'
    <2>1. FindingsOf(r)' = {}
      BY <1>4, <1>9 DEF Untouched
    <2>2. TrueTo(r)' /\ Filtered(r)'
      BY <2>1 DEF TrueTo, Filtered
    <2>3. Accounted(r, {})'
      BY <1>2 DEF Accounted
    <2> QED
      BY <1>2, <1>4, <2>2, <2>3 DEF Settled
  <1>12. TaskSound(b)'
    BY <1>6, <1>7, <1>10, <1>11 DEF TaskSound, Busy, InFilterOf
  <1> QED
    BY <1>1, <1>8, <1>12, SightStays, TaskStepSound DEF GInv, GeometryTypeOK

LEMMA DispatchSound ==
  ASSUME GInv, NEW missing, Needed \ Loaded \subseteq missing,
         missing \subseteq Needed, Dispatch(missing), geoFaults' \in Nat
  PROVE  GInv'
  <1> DEFINE rules == Dispatched \ Blocked(missing)
  <1>1. /\ geoPhase = "idle" /\ geoPhase' = "running"
        /\ unresolved' = missing /\ failed' = Blocked(missing)
        /\ batches' = Batches(rules)
        /\ doing' = [b \in Batches(rules) |-> Waiting]
        /\ UNCHANGED <<executed, truncated, boxes, centroid, findings, unseen,
                       unloaded, torn>>
    BY DEF Dispatch, missed
  <1>2. executed = {} /\ findings = {} /\ truncated = {}
    BY <1>1 DEF GInv, BatchesSound
  <1>3. rules \in SUBSET Dispatched /\ Blocked(missing) \subseteq Dispatched
    BY DEF Blocked
  <1> HIDE DEF rules
  <1>4. \A b \in Batches(rules) : b \subseteq rules
    BY <1>3, BatchShape
  <1>5. Waiting \in Tasks /\ Waiting.place = "ask"
    BY DEF Waiting, Tasks
  <1>6. \A r : Untouched(r)'
    BY <1>1, <1>2 DEF Untouched, FindingsOf
  <1>7. GeometryTypeOK'
    BY <1>1, <1>2, <1>3, <1>4, <1>5 DEF GInv, GeometryTypeOK
  <1>8. BatchesSound'
    <2>1. batches' = Batches(Dispatched \ Blocked(missing))
      BY <1>1 DEF rules
    <2>2. Blocked(unresolved)' = Blocked(missing)
      BY <1>1 DEF Blocked
    <2> QED
      BY <1>1, <1>6, <2>1, <2>2 DEF BatchesSound
  <1>9. \A b \in batches' : TaskSound(b)'
    <2>1. ASSUME NEW b \in batches'
          PROVE  TaskSound(b)'
      <3>1. doing'[b].place = "ask"
        BY <1>1, <1>5, <2>1
      <3>2. \A r \in b : r \notin failed'
        BY <1>1, <1>4, <2>1 DEF rules
      <3> QED
        BY <1>6, <3>1, <3>2 DEF TaskSound, Busy, InFilterOf
    <2> QED
      BY <2>1
  <1>10. SightSound'
    BY <1>1 DEF GInv, SightSound
  <1> QED
    BY <1>1, <1>7, <1>8, <1>9, <1>10 DEF GInv

-----------------------------------------------------------------------------
LEMMA GeometryInitSound ==
  ASSUME InitGeometry
  PROVE  GInv
  <1>1. geoPhase = "idle" /\ batches = {} /\ boxes = NotLoaded
    BY DEF InitGeometry
  <1>2. GeometryTypeOK
    BY DEF InitGeometry, GeometryTypeOK
  <1>3. BatchesSound
    BY DEF InitGeometry, BatchesSound
  <1>4. SightSound
    BY DEF InitGeometry, SightSound
  <1> QED
    BY <1>1, <1>2, <1>3, <1>4 DEF GInv

\* What only the end of the run, or nothing, changes.
LEMMA GeometryRestsSound ==
  ASSUME GInv,
         UNCHANGED <<unresolved, executed, failed, truncated, batches, doing,
                     boxes, centroid, findings, unseen, unloaded, torn, geoFaults>>,
         \/ geoPhase' = geoPhase
         \/ /\ geoPhase = "running" /\ geoPhase' = "done"
            /\ \A b \in batches : doing[b].place = "over"
  PROVE  GInv'
  <1>1. GeometryTypeOK'
    BY DEF GInv, GeometryTypeOK
  <1>2. BatchesSound'
    BY DEF GInv, BatchesSound, Blocked, Untouched, FindingsOf
  <1>3. SightSound'
    BY DEF GInv, SightSound
  <1>4. \A b \in batches' : TaskSound(b)'
    <2>1. ASSUME NEW b \in batches'
          PROVE  TaskSound(b)'
      <3>1. TaskSound(b)
        BY <2>1 DEF GInv
      <3>2. \A r : Untouched(r)' <=> Untouched(r)
        BY DEF Untouched, FindingsOf
      <3>3. \A r : Violators(r)' = Violators(r)
        BY DEF Violators, Far
      <3>4. \A r, left : Settled(r, left)' <=> Settled(r, left)
        BY <3>3 DEF Settled, TrueTo, Filtered, Accounted, FindingsOf, InFilter
      <3>5. \A r \in b : Settled(r, LeftOf(b, r))' <=> Settled(r, LeftOf(b, r))
        BY <3>3 DEF Settled, TrueTo, Filtered, Accounted, FindingsOf, InFilter,
           LeftOf
      <3>6. \A answer : Answered(b, answer)' <=> Answered(b, answer)
        BY DEF Answered, Close, Far, AskedFor, OneOf
      <3> QED
        BY <3>1, <3>2, <3>3, <3>4, <3>5, <3>6 DEF TaskSound
    <2> QED
      BY <2>1
  <1> QED
    BY <1>1, <1>2, <1>3, <1>4 DEF GInv

LEMMA GeometryStep ==
  ASSUME GInv, [NextGeometry]_geometryVars
  PROVE  GInv'
  <1>1. CASE FindLinks
    <2>1. geoFaults' \in Nat /\ Dispatch(Needed \ Loaded)
      BY <1>1, BoxesAreSets DEF FindLinks
    <2> QED
      BY <2>1, DispatchSound
  <1>2. CASE FindLinksFails
    <2>1. geoFaults' \in Nat /\ Dispatch(Needed)
      BY <1>2, BoxesAreSets DEF FindLinksFails, GeoFault
    <2> QED
      BY <2>1, DispatchSound
  <1>3. CASE \E b \in batches : Task(b)
    <2>1. PICK b \in batches : Task(b)
      BY <1>3
    <2> QED
      BY <2>1, AskSound, AskFailsSound, NextRuleSound, BoxesCachedSound,
         LoadBoxesSound, BoxesLoadedSound, BoxesFailSound, LookCachedSound,
         LookSound, SeenSound, SeenNotSound, EndRuleSound, TaskRaisesSound
      DEF Task
  <1>4. CASE EndGeometry
    BY <1>4, GeometryRestsSound DEF EndGeometry, coverageVars, missed
  <1>5. CASE UNCHANGED geometryVars
    BY <1>5, GeometryRestsSound DEF geometryVars, coverageVars, missed
  <1> QED
    BY <1>1, <1>2, <1>3, <1>4, <1>5 DEF NextGeometry

-----------------------------------------------------------------------------
\* The theorems.

\* Whatever the tasks do in parallel, each of them settles its own rules, and
\* the gaps in the caches they share are on record
\* (GeometricQueryAgent.run with its batches).
THEOREM GeometryInvariance == GeometrySpec => []GInv
  <1>1. InitGeometry => GInv
    BY GeometryInitSound
  <1>2. GInv /\ [NextGeometry]_geometryVars => GInv'
    BY GeometryStep
  <1> QED
    BY <1>1, <1>2, PTL DEF GeometrySpec

\* The state of the geometry agent keeps its shape.
THEOREM GeometryTypeCorrect == GeometrySpec => []GeometryTypeOK
  <1>1. GInv => GeometryTypeOK
    BY DEF GInv
  <1> QED
    BY <1>1, GeometryInvariance, PTL

\* The coverage partitions the rules, what is reported of a rule violates that
\* very rule in the model it names, and what violates it is reported unless
\* the answer was cut off or the filter could not see it (_run_min_batch,
\* _run_max_rule, _apply_spatial_filter).
THEOREM GeometryHonest == GeometrySpec => []GeometryIsHonest
  <1>1. ASSUME GInv
        PROVE  GeometryIsHonest
    <2>1. SUFFICES ASSUME geoPhase = "done"
                   PROVE  GeometryIsHonest
      BY DEF GeometryIsHonest
    <2> DEFINE rules == Dispatched \ Blocked(unresolved)
    <2>2. /\ batches = Batches(rules)
          /\ \A r \in Blocked(unresolved) : Untouched(r) /\ r \in failed
          /\ \A b \in batches : doing[b].place = "over" /\ TaskSound(b)
          /\ executed \subseteq Dispatched /\ failed \subseteq Dispatched
      BY <1>1, <2>1 DEF GInv, BatchesSound, GeometryTypeOK
    <2>3. ASSUME NEW r \in rules
          PROVE  \/ Untouched(r) /\ r \in failed
                 \/ Settled(r, {}) /\ r \notin failed
      <3>1. rules \in SUBSET Dispatched
        OBVIOUS
      <3>2. PICK b \in Batches(rules) : r \in b
        BY <2>3, <3>1, OneBatch
      <3> QED
        BY <2>2, <3>2 DEF TaskSound
    <2>4. \A r \in Dispatched : \/ Untouched(r) /\ r \in failed
                                \/ /\ Settled(r, {}) /\ r \notin failed
                                  /\ Link[r] \notin unresolved
      BY <2>2, <2>3 DEF Blocked
    <2> HIDE DEF rules
    <2>5. executed \cap failed = {} /\ executed \cup failed = Dispatched
      BY <2>2, <2>4 DEF Settled, Untouched
    <2>6. \A r \in failed : FindingsOf(r) = {}
      BY <2>2, <2>4 DEF Untouched
    <2>7. ASSUME NEW r \in executed
          PROVE  /\ Link[r] \notin unresolved
                 /\ Kind[r] = "min" \/ r \notin truncated =>
                      FindingsOf(r) \subseteq Violators(r)
                 /\ ~(Spaces \subseteq unseen) =>
                      \A s \in FindingsOf(r) : InFilter(r, s)
                 /\ r \notin truncated \cup torn =>
                      \A s \in Violators(r) :
                        \/ s \in FindingsOf(r)
                        \/ ~InFilter(r, s)
                        \/ <<r, s>> \in unloaded
                        \/ {s, SpaceOf[s]} \cap unseen # {}
      <3>1. Settled(r, {}) /\ Link[r] \notin unresolved
        BY <2>2, <2>4, <2>7 DEF Untouched
      <3> QED
        BY <3>1 DEF Settled, TrueTo, Filtered, Accounted
    <2> QED
      BY <2>5, <2>6, <2>7 DEF GeometryIsHonest
  <1> QED
    BY <1>1, GeometryInvariance, PTL
-----------------------------------------------------------------------------
\* Whatever the ruleset holds, the steps of an audit's reads are steps of the
\* element reader or of the geometry reader, and leave the other alone.
THEOREM HalvesImplemented == Spec => ElementsSpec /\ GeometrySpec
  <1>1. Init => InitElements /\ InitGeometry
    BY DEF Init
  <1>2. [Next]_vars => [NextElements]_elementVars
    BY DEF Next, GeometryHalf, ParameterHalf, vars
  <1>3. [Next]_vars => [NextGeometry]_geometryVars
    BY DEF Next, GeometryHalf, ParameterHalf, vars
  <1> QED
    BY <1>1, <1>2, <1>3, PTL DEF Spec, ElementsSpec, GeometrySpec
=============================================================================
