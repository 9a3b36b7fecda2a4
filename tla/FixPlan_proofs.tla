--------------------------- MODULE FixPlan_proofs ---------------------------
(***************************************************************************)
(* Theorems about FixPlan, for any model, ruleset, language model and      *)
(* budget, and any number of passes.                                       *)
(*                                                                         *)
(* What is proposed is right when it is proposed and nobody edits the      *)
(* model during a pass, so most parts of the invariant say what the memo,  *)
(* the reservations and the chosen findings have to carry for that (Bound, *)
(* Reserved, Chosen).  That executed fixes are in the model needs the      *)
(* places of the steps (StepsSound) and, from the commit to the log, which *)
(* slots the pass may have written (Touched).  That the numbers of two     *)
(* passes agree needs no induction over the findings: both followed the    *)
(* recursion of _next_available, and have no finding to differ at first    *)
(* (PlansAgree).                                                           *)
(***************************************************************************)
EXTENDS FixPlan, FiniteNumbers

-----------------------------------------------------------------------------
\* The inductive invariant.

\* Findings wait to be prepared only while the pass works, those of a pass
\* that begins have no fixes, and a finding is not prepared twice.
Waiting ==
  /\ pc # "work" => left = {}
  /\ pc = "collect" => DOMAIN fixes = {}
  /\ left \cap DOMAIN fixes = {}

\* Nobody edits the model until the pass writes.
Unwritten ==
  pc \in {"collect", "work"} =>
    /\ model = seen
    /\ \A i \in DOMAIN fixes : ~fixes[i].executed

\* What is remembered answers a question about the value it is kept for.
MemoBound ==
  \A k \in DOMAIN memo :
    memo[k].value # Null => Norm[memo[k].about] = Norm[k[2]]

SameWrite(i, j) == Pairs[i][1] = Pairs[j][1] /\ Slot(i) = Slot(j)

\* No finding of the group asks for more than v.
Strictest(i, v) ==
  IsRating(Group(found, i)) =>
    \A j \in found :
      Pairs[j][1] = Pairs[i][1] /\ Slot(j) = Slot(i)
        /\ Suggestion(j) \in DOMAIN Minutes
      => v \in DOMAIN Minutes /\ Minutes[Suggestion(j)] <= Minutes[v]

LeftStrictest == \A i \in left : Slot(i) # Null => Strictest(i, Suggestion(i))

\* One finding for a rule and a slot.
OnePerWrite ==
  /\ \A i \in DOMAIN fixes : Slot(i) # Null
  /\ \A i, j \in left \cup DOMAIN fixes :
       SameWrite(i, j) /\ Slot(i) # Null => i = j

\* What was proposed is reserved, and so is what the elements bear.
NumbersReserved ==
  /\ \A i \in Renumbered : /\ NumberKey(Pairs[i][1]) \in DOMAIN taken
                           /\ fixes[i].value \in taken[NumberKey(Pairs[i][1])]
  /\ \A r \in Rules :
       NumberKey(r) \in DOMAIN taken =>
         \A e \in Compared(r) \ lost :
           seen[<<e, Rule[r].param>>] # Null =>
             seen[<<e, Rule[r].param>>] \in taken[NumberKey(r)]

\* A finding's own step is where primary says, comments go elsewhere.
StepsSound ==
  /\ \A k \in DOMAIN steps :
       \/ /\ steps[k].kind = "value" /\ steps[k].check \in DOMAIN primary
          /\ primary[steps[k].check] = k
          /\ steps[k].slot = Slot(steps[k].check)
          /\ steps[k].value = fixes[steps[k].check].value
       \/ steps[k].kind = "comment" /\ steps[k].slot[2] = "Comments"
  /\ \A i \in DOMAIN primary :
       /\ primary[i] \in DOMAIN steps
       /\ steps[primary[i]].kind = "value" /\ steps[primary[i]].check = i

ExecutedLanded == \A i \in DOMAIN fixes : fixes[i].executed => <<pass, i>> \in landed

Touched == {Slot(i) : i \in DOMAIN primary}

\* The value of an executed fix is in the model, unless another fix of the
\* pass has the same slot.
ExecutedHolds ==
  pc \in {"each", "log"} =>
    \A i \in DOMAIN primary :
      fixes[i].executed =>
        \/ model[Slot(i)] = fixes[i].value
        \/ \E j \in DOMAIN primary : j # i /\ Slot(j) = Slot(i)

\* The log is about passes that are over and slots that are no comments.
LogPast ==
  \A w \in log : /\ w.pass \in Nat /\ w.pass <= pass
                 /\ pc # "start" => w.pass < pass
                 /\ w.slot \in Slots /\ w.slot[2] # "Comments"

\* What was logged holds, or can be seen not to.
LogHolds ==
  \A w \in log : \/ model[w.slot] = w.new
                 \/ w.slot \in Interactions \cup unsure
                 \/ pc \in {"each", "log"} /\ w.slot \in Touched

IInv == /\ TypeOK /\ Waiting /\ Unwritten /\ MemoBound /\ AnswersItsQuestion
        /\ LeftStrictest /\ StrictestWins /\ OnePerWrite /\ NumbersReserved
        /\ FreshNumbers /\ StepsSound /\ ExecutedLanded /\ ExecutedHolds
        /\ LogPast /\ LogHolds

-----------------------------------------------------------------------------
\* Lemmas about findings, groups and numbers.

LEMMA CheckTypes ==
  ASSUME NEW i \in Checks
  PROVE  /\ i \in 1 .. Len(Pairs) /\ Len(Pairs) \in Nat
         /\ Pairs[i][1] \in Rules /\ ElementAt(i) \in Loaded
         /\ ElementAt(i) \in Elements /\ RuleAt(i) \in RuleShape
         /\ Suggestion(i) \in Value
         /\ Fits[Pairs[i][1]][ElementAt(i)] \subseteq Values
         /\ Answers[Pairs[i][1]][ElementAt(i)] \subseteq Value
  <1>1. Pairs \in Seq(Rules \X Loaded) /\ Loaded \subseteq Elements
    BY ConstantsAssumption
  <1>2. Pairs[i] \in Rules \X Loaded /\ i \in 1 .. Len(Pairs) /\ Len(Pairs) \in Nat
    BY <1>1 DEF Checks
  <1>3. Pairs[i][1] \in Rules /\ ElementAt(i) \in Loaded /\ ElementAt(i) \in Elements
    BY <1>1, <1>2 DEF ElementAt
  <1>4. RuleAt(i) \in RuleShape
    BY <1>3, ConstantsAssumption DEF RuleAt
  <1>5. Suggestion(i) \in Value
    <2>1. Suggested \in [Rules -> [Elements -> Value]]
      BY ConstantsAssumption
    <2>2. Suggested[Pairs[i][1]] \in [Elements -> Value]
      BY <1>3, <2>1
    <2> QED
      BY <1>3, <2>2 DEF Suggestion
  <1>6. /\ Fits[Pairs[i][1]][ElementAt(i)] \subseteq Values
        /\ Answers[Pairs[i][1]][ElementAt(i)] \subseteq Value
    <2>1. /\ Fits \in [Rules -> [Elements -> SUBSET Values]]
          /\ Answers \in [Rules -> [Elements -> SUBSET Value]]
      BY ConstantsAssumption
    <2>2. /\ Fits[Pairs[i][1]] \in [Elements -> SUBSET Values]
          /\ Answers[Pairs[i][1]] \in [Elements -> SUBSET Value]
      BY <1>3, <2>1
    <2> QED
      BY <1>3, <2>2
  <1> QED
    BY <1>2, <1>3, <1>4, <1>5, <1>6

LEMMA HomeTypes ==
  ASSUME NEW i \in Checks
  PROVE  /\ Owner[i] \in Owners \cup {Null}
         /\ Param[i] \in Params \cup {"Name"}
         /\ Owner[i] # Null =>
              Home[i] \in Slots /\ Home[i] = <<Owner[i], Param[i]>>
  <1>1. /\ ElementAt(i) \in Elements /\ RuleAt(i) \in RuleShape
        /\ TypeOf \in [Elements -> Types \cup {Null}]
        /\ FamilyOf \in [Elements -> Families \cup {Null}]
    BY CheckTypes, ConstantsAssumption
  <1>2. RuleAt(i).param \in Params
    BY <1>1 DEF RuleShape
  <1>3. Owner[i] \in Owners \cup {Null}
    BY <1>1 DEF Owner, Owners
  <1>4. Param[i] \in Params \cup {"Name"}
    BY <1>2 DEF Param
  <1>5. Home[i] = <<Owner[i], Param[i]>>
    BY DEF Home
  <1> QED
    BY <1>3, <1>4, <1>5 DEF Slots

LEMMA CurrentType ==
  ASSUME seen \in [Slots -> Value], NEW i \in Checks
  PROVE  Current(i) \in Value
  BY HomeTypes DEF Current, Value

\* A write goes to an element, type or family, and to no comment.
LEMMA SlotType ==
  ASSUME \A n \in DOMAIN families : families[n] \in Families, NEW i \in Checks,
         Slot(i) # Null
  PROVE  /\ Slot(i) \in Slots /\ Slot(i)[1] \in Owners
         /\ Slot(i)[2] # "Comments"
         /\ <<Slot(i)[1], "Comments">> \in Slots
         /\ Slot(i) = <<Slot(i)[1], Slot(i)[2]>>
  <1>1. "Comments" \notin Params
    BY ConstantsAssumption
  <1>2. Slot(i) \in Owners \X (Params \cup {"Name"})
    <2>1. CASE Target[i] # "family" /\ Owner[i] # Null
      <3>1. Slot(i) = Home[i]
        BY <2>1 DEF Slot
      <3>2. Home[i] = <<Owner[i], Param[i]>> /\ Owner[i] \in Owners
            /\ Param[i] \in Params \cup {"Name"}
        BY <2>1, HomeTypes
      <3> QED
        BY <3>1, <3>2
    <2>2. CASE Target[i] = "family"
      <3>1. Slot(i) = <<families[Current(i)], "Name">> /\ Current(i) \in DOMAIN families
        BY <2>2 DEF Slot
      <3> QED
        BY <3>1 DEF Owners
    <2> QED
      BY <2>1, <2>2 DEF Slot
  <1> QED
    BY <1>1, <1>2 DEF Slots

LEMMA FirstMember ==
  ASSUME NEW S, S \subseteq Checks, S # {}
  PROVE  First(S) \in S /\ \A j \in S : Rank(First(S)) <= Rank(j)
  <1> DEFINE n == Len(Pairs) + Len(Pairs)
             T == {Rank(i) : i \in S}
  <1>1. \A i \in S : Rank(i) \in 1 .. n
    <2> TAKE i \in S
    <2>1. i \in 1 .. Len(Pairs) /\ Len(Pairs) \in Nat
      BY CheckTypes
    <2> QED
      BY <2>1 DEF Rank
  <1>2. n \in Nat
    <2>1. PICK i \in S : TRUE
      OBVIOUS
    <2> QED
      BY <2>1, CheckTypes
  <1>3. T \in SUBSET (1 .. n) /\ T # {}
    BY <1>1
  <1>4. \E t \in T : \A u \in T : t <= u
    <2> HIDE DEF T, n
    <2> QED
      BY <1>2, <1>3, LeastExists
  <1>5. \E i \in S : \A j \in S : Rank(i) <= Rank(j)
    BY <1>4
  <1> QED
    BY <1>5 DEF First

\* The finding that stands for a group is one of it; if the group is about a
\* rating, none of the group asks for more.
LEMMA ChosenStrictest ==
  ASSUME NEW G, G \subseteq Checks, G # {}
  PROVE  /\ Chosen(G) \in G
         /\ IsRating(G) => \A j \in Rateable(G) :
              /\ Suggestion(Chosen(G)) \in DOMAIN Minutes
              /\ Minutes[Suggestion(j)] <= Minutes[Suggestion(Chosen(G))]
  <1> DEFINE R == Rateable(G)
             B == {j \in R : \A k \in R :
                     Minutes[Suggestion(k)] <= Minutes[Suggestion(j)]}
             T == {Minutes[Suggestion(j)] : j \in R}
             f == [j \in R |-> Minutes[Suggestion(j)]]
  <1>1. R \subseteq G /\ \A j \in R : Suggestion(j) \in DOMAIN Minutes
    BY DEF Rateable
  <1>2. \A j \in R : Minutes[Suggestion(j)] \in Nat
    BY <1>1, ConstantsAssumption
  <1>3. First(G) \in G
    BY FirstMember
  <1>4. CASE Agreed(G) \/ ~IsRating(G) \/ R = {}
    <2>1. Chosen(G) = First(G)
      BY <1>4 DEF Chosen
    <2>2. CASE Agreed(G)
      <3>1. \A j \in R : Suggestion(j) = Suggestion(First(G))
        BY <1>1, <1>3, <2>2 DEF Agreed
      <3> QED
        BY <1>1, <1>2, <1>3, <2>1, <3>1
    <2> QED
      BY <1>3, <1>4, <2>1, <2>2
  <1>5. CASE ~(Agreed(G) \/ ~IsRating(G) \/ R = {})
    <2>1. Chosen(G) = First(B)
      BY <1>5 DEF Chosen
    <2>2. IsFiniteSet(R)
      <3>1. Len(Pairs) \in Nat /\ R \in SUBSET (1 .. Len(Pairs))
        BY <1>1, CheckTypes
      <3>2. IsFiniteSet(1 .. Len(Pairs))
        BY <3>1, FS_Interval
      <3> QED
        BY <3>1, <3>2, FS_Subset
    <2>3. f \in Surjection(R, T)
      BY DEF Surjection
    <2>4. IsFiniteSet(T)
      <3> HIDE DEF f, T, R
      <3> QED
        BY <2>2, <2>3, FS_Surjection
    <2>5. T \subseteq Nat /\ T # {}
      BY <1>2, <1>5
    <2>6. \E t \in T : \A u \in T : u <= t
      <3> HIDE DEF T
      <3> QED
        BY <2>4, <2>5, GreatestExists
    <2>7. B # {}
      BY <2>6
    <2>8. First(B) \in B
      BY <1>1, <2>7, FirstMember
    <2> QED
      BY <1>1, <2>1, <2>8
  <1> QED
    BY <1>4, <1>5

\* _next_available returns no value that is in use.
LEMMA NextIsFree ==
  ASSUME NEW base \in Values, NEW used
  PROVE  /\ NextAvailable(base, used) \in Value
         /\ NextAvailable(base, used) # Null => NextAvailable(base, used) \notin used
  <1> DEFINE free == {k \in DOMAIN Suffixed[base] : Suffixed[base][k] \notin used}
  <1>1. Suffixed[base] \in Seq(Values)
    BY ConstantsAssumption
  <1>2. CASE free = {}
    BY <1>2 DEF NextAvailable, Value
  <1>3. CASE free # {}
    <2>1. Len(Suffixed[base]) \in Nat /\ free \in SUBSET (1 .. Len(Suffixed[base]))
      BY <1>1
    <2>2. \E k \in free : \A l \in free : k <= l
      <3> HIDE DEF free
      <3> QED
        BY <1>3, <2>1, LeastExists
    <2>3. PICK k \in free : NextAvailable(base, used) = Suffixed[base][k]
      BY <1>3, <2>2 DEF NextAvailable
    <2>4. Suffixed[base][k] \in Values
      BY <1>1, <2>3
    <2> QED
      BY <2>3, <2>4 DEF Value
  <1> QED
    BY <1>2, <1>3

\* Executed only marks fixes.
LEMMA ExecutedFacts ==
  ASSUME FixesTyped, NEW S
  PROVE  /\ DOMAIN Executed(S) = DOMAIN fixes
         /\ \A i \in DOMAIN fixes :
              /\ Executed(S)[i] \in Fix
              /\ Executed(S)[i].value = fixes[i].value
              /\ Executed(S)[i].about = fixes[i].about
              /\ Executed(S)[i].executed => fixes[i].executed \/ i \in S
  <1>1. DOMAIN Executed(S) = DOMAIN fixes
    BY DEF Executed
  <1>2. ASSUME NEW i \in DOMAIN fixes
        PROVE  /\ Executed(S)[i] \in Fix
               /\ Executed(S)[i].value = fixes[i].value
               /\ Executed(S)[i].about = fixes[i].about
               /\ Executed(S)[i].executed => fixes[i].executed \/ i \in S
    <2>1. fixes[i] \in Fix
      BY DEF FixesTyped
    <2>2. Executed(S)[i] =
            [fixes[i] EXCEPT !.executed = fixes[i].executed \/ i \in S]
      BY DEF Executed
    <2>3. (fixes[i].executed \/ i \in S) \in BOOLEAN
      OBVIOUS
    <2> QED
      BY <2>1, <2>2, <2>3 DEF Fix
  <1> QED
    BY <1>1, <1>2

-----------------------------------------------------------------------------
\* What is said of findings does not change while a pass is being prepared and
\* written: the parts of the invariant are about fixes, steps and what is left.

RightAnswer(i, fix) ==
  Asks(Pairs[i][1]) =>
    Accepts(i, fix.value) /\ Norm[fix.about] = Norm[Current(i)]
OneFor(S, T) ==
  /\ \A i \in T : Slot(i) # Null
  /\ \A i, j \in S \cup T : SameWrite(i, j) /\ Slot(i) # Null => i = j
OwnSteps(fx, st, pr) ==
  /\ \A k \in DOMAIN st :
       \/ /\ st[k].kind = "value" /\ st[k].check \in DOMAIN pr
          /\ pr[st[k].check] = k /\ st[k].slot = Slot(st[k].check)
          /\ st[k].value = fx[st[k].check].value
       \/ st[k].kind = "comment" /\ st[k].slot[2] = "Comments"
  /\ \A i \in DOMAIN pr :
       pr[i] \in DOMAIN st /\ st[pr[i]].kind = "value" /\ st[pr[i]].check = i
HoldsIn(m, fx, pr) ==
  \A i \in DOMAIN pr :
    fx[i].executed => \/ m[Slot(i)] = fx[i].value
                      \/ \E j \in DOMAIN pr : j # i /\ Slot(j) = Slot(i)
SlotsOf(T) == {Slot(i) : i \in T}

LEMMA FrameSlots ==
  ASSUME seen' = seen, families' = families
  PROVE  /\ \A i : Current(i)' = Current(i)
         /\ \A i : Slot(i)' = Slot(i)
  <1>1. \A i : Current(i)' = Current(i)
    BY DEF Current
  <1> QED
    BY <1>1 DEF Slot

LEMMA FrameStrictest ==
  ASSUME seen' = seen, families' = families, found' = found, NEW i, NEW v
  PROVE  /\ Group(found, i)' = Group(found, i)
         /\ Strictest(i, v)' <=> Strictest(i, v)
  <1>1. \A j : Slot(j)' = Slot(j)
    BY FrameSlots
  <1>2. Group(found, i)' = Group(found, i)
    BY <1>1 DEF Group
  <1>3. IsRating(Group(found, i))' <=> IsRating(Group(found, i))
    BY <1>2 DEF IsRating
  <1> QED
    BY <1>1, <1>2, <1>3 DEF Strictest

LEMMA Frame ==
  ASSUME seen' = seen, families' = families, found' = found
  PROVE  /\ (\A i \in DOMAIN fixes' : RightAnswer(i, fixes'[i])) => AnswersItsQuestion'
         /\ (\A i \in left' : Slot(i) # Null => Strictest(i, Suggestion(i)))
              => LeftStrictest'
         /\ (\A i \in DOMAIN fixes' :
               RuleAt(i).strategy = "inferred" => Strictest(i, fixes'[i].value))
              => StrictestWins'
         /\ OneFor(left', DOMAIN fixes') => OnePerWrite'
         /\ OwnSteps(fixes', steps', primary') => StepsSound'
         /\ HoldsIn(model', fixes', primary') => ExecutedHolds'
         /\ Touched' = SlotsOf(DOMAIN primary')
  <1>1. \A i : Slot(i)' = Slot(i) /\ Current(i)' = Current(i)
    BY FrameSlots
  <1>2. ASSUME \A i \in DOMAIN fixes' : RightAnswer(i, fixes'[i])
        PROVE  AnswersItsQuestion'
    <2> SUFFICES ASSUME NEW i \in DOMAIN fixes', Asks(Pairs[i][1])
                 PROVE  /\ fixes'[i].value \in Fits[Pairs[i][1]][ElementAt(i)]
                        /\ RuleAt(i).unique => fixes'[i].value \notin Siblings(i)'
                        /\ Norm[fixes'[i].about] = Norm[Current(i)']
      BY DEF AnswersItsQuestion, Accepts
    <2>1. Accepts(i, fixes'[i].value) /\ Norm[fixes'[i].about] = Norm[Current(i)]
      BY <1>2 DEF RightAnswer
    <2>2. Siblings(i)' = Siblings(i)
      BY DEF Siblings
    <2> QED
      BY <1>1, <2>1, <2>2 DEF Accepts
  <1>3. ASSUME \A i \in left' : Slot(i) # Null => Strictest(i, Suggestion(i))
        PROVE  LeftStrictest'
    <2> SUFFICES ASSUME NEW i \in left', Slot(i)' # Null
                 PROVE  Strictest(i, Suggestion(i))'
      BY DEF LeftStrictest
    <2>1. Suggestion(i)' = Suggestion(i)
      BY DEF Suggestion, ElementAt
    <2>2. Strictest(i, Suggestion(i))
      BY <1>1, <1>3
    <2> QED
      BY <2>1, <2>2, FrameStrictest
  <1>4. ASSUME \A i \in DOMAIN fixes' :
                 RuleAt(i).strategy = "inferred" => Strictest(i, fixes'[i].value)
        PROVE  StrictestWins'
    <2> SUFFICES ASSUME NEW i \in DOMAIN fixes', RuleAt(i).strategy = "inferred",
                        IsRating(Group(found, i))', NEW j \in found',
                        Pairs[j][1] = Pairs[i][1], Slot(j)' = Slot(i)',
                        Suggestion(j) \in DOMAIN Minutes
                 PROVE  /\ fixes'[i].value \in DOMAIN Minutes
                        /\ Minutes[Suggestion(j)] <= Minutes[fixes'[i].value]
      BY DEF StrictestWins
    <2>1. Group(found, i)' = Group(found, i)
      BY FrameStrictest
    <2>2. IsRating(Group(found, i))
      BY <2>1 DEF IsRating
    <2>3. Strictest(i, fixes'[i].value) /\ j \in found /\ Slot(j) = Slot(i)
      BY <1>1, <1>4
    <2> QED
      BY <2>2, <2>3 DEF Strictest
  <1>5. OneFor(left', DOMAIN fixes') => OnePerWrite'
    BY <1>1 DEF OneFor, OnePerWrite, SameWrite
  <1>6. ASSUME OwnSteps(fixes', steps', primary')
        PROVE  StepsSound'
    BY <1>6 DEF OwnSteps, StepsSound, Slot, Current
  <1>7. HoldsIn(model', fixes', primary') => ExecutedHolds'
    BY <1>1 DEF HoldsIn, ExecutedHolds
  <1>8. Touched' = SlotsOf(DOMAIN primary')
    BY <1>1 DEF Touched, SlotsOf
  <1> QED
    BY <1>2, <1>3, <1>4, <1>5, <1>6, <1>7, <1>8

-----------------------------------------------------------------------------
\* A finding is prepared.

\* What all parts of the invariant but those on memo and numbers need.
Planned == /\ WorldTyped' /\ FixesTyped' /\ left' \subseteq found'
           /\ Waiting' /\ Unwritten' /\ AnswersItsQuestion' /\ LeftStrictest'
           /\ StrictestWins' /\ OnePerWrite' /\ StepsSound' /\ ExecutedLanded'
           /\ ExecutedHolds' /\ LogPast' /\ LogHolds'

\* Either the finding goes to Path A, or it gets a fix, and steps if the gate
\* lets it.
NewFix(i, v, about) ==
  [value |-> v, about |-> about, executed |-> FALSE,
   decision |-> Decision(Pairs[i][1])]

LEMMA EnqueueSound ==
  ASSUME IInv, pc = "work", NEW i \in left, NEW v \in Values, NEW about \in Value,
         Slot(i) # Null, fixes' = With(fixes, i, NewFix(i, v, about)), Enqueue(i, v)
  PROVE  /\ steps' \in Seq([check : Checks, kind : {"value", "comment"},
                            slot : Slots, value : Values])
         /\ DOMAIN primary' \subseteq DOMAIN fixes'
         /\ OwnSteps(fixes', steps', primary')
  <1> DEFINE Steps == [check : Checks, kind : {"value", "comment"},
                       slot : Slots, value : Values]
             first == Step(i, "value", Slot(i)[2], v)
             second == Step(i, "comment", "Comments", v)
             n == Len(steps)
  <1>1. /\ i \in Checks /\ i \notin DOMAIN fixes /\ i \notin DOMAIN primary
        /\ steps \in Seq(Steps) /\ DOMAIN primary \subseteq DOMAIN fixes
        /\ n \in Nat /\ DOMAIN steps = 1 .. n
    <2>1. TypeOK /\ Waiting
      BY DEF IInv
    <2> QED
      BY <2>1 DEF TypeOK, PlanTyped, FixesTyped, Waiting
  <1>2. /\ first.check = i /\ first.kind = "value" /\ first.slot = Slot(i)
        /\ first.value = v /\ first \in Steps
        /\ second.kind = "comment" /\ second.slot[2] = "Comments"
        /\ second \in Steps
    <2>1. \A m \in DOMAIN families : families[m] \in Families
      BY DEF IInv, TypeOK, WorldTyped
    <2>2. /\ Slot(i) \in Slots /\ <<Slot(i)[1], "Comments">> \in Slots
          /\ Slot(i) = <<Slot(i)[1], Slot(i)[2]>>
      BY <1>1, <2>1, SlotType
    <2> QED
      BY <1>1, <2>2 DEF Step
  <1>3. OwnSteps(fixes, steps, primary)
    BY DEF IInv, StepsSound, OwnSteps
  <1>4. /\ DOMAIN fixes' = DOMAIN fixes \cup {i}
        /\ fixes'[i].value = v
        /\ \A j \in DOMAIN primary : j # i /\ fixes'[j] = fixes[j]
    <2>1. NewFix(i, v, about).value = v
      BY DEF NewFix
    <2>2. /\ DOMAIN With(fixes, i, NewFix(i, v, about)) = DOMAIN fixes \cup {i}
          /\ With(fixes, i, NewFix(i, v, about))[i] = NewFix(i, v, about)
          /\ \A j \in DOMAIN fixes :
               j # i => With(fixes, i, NewFix(i, v, about))[j] = fixes[j]
      BY DEF With
    <2> QED
      BY <1>1, <2>1, <2>2
  <1>5. CASE ~(Decision(Pairs[i][1]) = "auto" /\ ~DryRunOnly)
    <2>1. steps' = steps /\ primary' = primary
      BY <1>5 DEF Enqueue
    <2> QED
      BY <1>1, <1>3, <1>4, <2>1 DEF OwnSteps
  <1>6. CASE Decision(Pairs[i][1]) = "auto" /\ ~DryRunOnly
    <2> DEFINE longer == steps \o <<first>>
    <2>1. /\ primary' = With(primary, i, n + 1)
          /\ steps' = longer \o IF RuleAt(i).comment THEN <<second>> ELSE <<>>
      BY <1>6 DEF Enqueue, PrimaryStep
    <2>2. /\ DOMAIN primary' = DOMAIN primary \cup {i} /\ primary'[i] = n + 1
          /\ \A j \in DOMAIN primary : primary'[j] = primary[j]
      <3>1. /\ DOMAIN With(primary, i, n + 1) = DOMAIN primary \cup {i}
            /\ With(primary, i, n + 1)[i] = n + 1
            /\ \A j \in DOMAIN primary :
                 j # i => With(primary, i, n + 1)[j] = primary[j]
        BY DEF With
      <3> QED
        BY <1>4, <2>1, <3>1
    <2> HIDE DEF first, second, Steps
    <2>3. /\ longer \in Seq(Steps) /\ Len(longer) = n + 1
          /\ longer[n + 1] = first /\ \A k \in DOMAIN steps : longer[k] = steps[k]
      BY <1>1, <1>2
    <2> HIDE DEF longer
    <2>4. /\ steps' \in Seq(Steps) /\ n + 1 \in DOMAIN steps'
          /\ \A k \in DOMAIN steps : k \in DOMAIN steps' /\ steps'[k] = steps[k]
          /\ steps'[n + 1] = first
          /\ \A k \in DOMAIN steps' \ (DOMAIN steps \cup {n + 1}) : steps'[k] = second
      <3>1. CASE steps' = longer \o <<>>
        BY <1>1, <2>3, <3>1
      <3>2. CASE steps' = longer \o <<second>>
        BY <1>1, <1>2, <2>3, <3>2
      <3> QED
        BY <2>1, <3>1, <3>2
    <2>5. n + 1 \notin DOMAIN steps
      BY <1>1
    <2>6. OwnSteps(fixes', steps', primary')
      <3>1. ASSUME NEW k \in DOMAIN steps'
            PROVE  \/ /\ steps'[k].kind = "value"
                      /\ steps'[k].check \in DOMAIN primary'
                      /\ primary'[steps'[k].check] = k
                      /\ steps'[k].slot = Slot(steps'[k].check)
                      /\ steps'[k].value = fixes'[steps'[k].check].value
                   \/ steps'[k].kind = "comment" /\ steps'[k].slot[2] = "Comments"
        <4>1. CASE k \in DOMAIN steps
          <5>1. steps'[k] = steps[k]
            BY <2>4, <4>1
          <5> QED
            BY <1>3, <1>4, <2>2, <4>1, <5>1 DEF OwnSteps
        <4>2. CASE k = n + 1
          BY <1>2, <1>4, <2>2, <2>4, <4>2
        <4>3. CASE k \notin DOMAIN steps \cup {n + 1}
          BY <1>2, <2>4, <4>3
        <4> QED
          BY <4>1, <4>2, <4>3
      <3>2. ASSUME NEW j \in DOMAIN primary'
            PROVE  /\ primary'[j] \in DOMAIN steps'
                   /\ steps'[primary'[j]].kind = "value"
                   /\ steps'[primary'[j]].check = j
        BY <1>2, <1>3, <2>2, <2>4 DEF OwnSteps
      <3> QED
        BY <3>1, <3>2 DEF OwnSteps
    <2>7. DOMAIN primary' \subseteq DOMAIN fixes'
      BY <1>1, <1>4, <2>2
    <2> QED
      BY <2>4, <2>6, <2>7 DEF Steps
  <1> QED
    BY <1>5, <1>6

\* A value that answers the finding's question, and is QC's where QC decides,
\* keeps everything in order.
LEMMA PrepareSound ==
  ASSUME IInv, pc = "work", NEW i \in left, NEW v \in Value, NEW about \in Value,
         Slot(i) # Null, Prepare(i, v, about),
         Asks(Pairs[i][1]) /\ v # Null =>
           Accepts(i, v) /\ Norm[about] = Norm[Current(i)],
         RuleAt(i).strategy = "inferred" => v = Suggestion(i),
         UNCHANGED <<pc, found, passVars, worldVars>>
  PROVE  Planned
  <1>1. /\ TypeOK /\ Waiting /\ Unwritten /\ AnswersItsQuestion /\ LeftStrictest
        /\ StrictestWins /\ OnePerWrite /\ StepsSound /\ ExecutedLanded
        /\ ExecutedHolds /\ LogPast /\ LogHolds
    BY DEF IInv
  <1>2. /\ pc' = pc /\ found' = found /\ seen' = seen /\ families' = families
        /\ pass' = pass /\ active' = active /\ model' = model /\ log' = log
        /\ landed' = landed /\ unsure' = unsure /\ at' = at
    BY DEF passVars, worldVars
  <1>3. /\ i \in Checks /\ i \notin DOMAIN fixes /\ left' = left \ {i}
        /\ left \subseteq found /\ found \subseteq Checks
    BY <1>1 DEF TypeOK, PlanTyped, Waiting, Prepare
  <1>4. WorldTyped' /\ LogPast' /\ LogHolds'
    <2>1. WorldTyped'
      BY <1>1, <1>2 DEF TypeOK, WorldTyped
    <2>2. LogPast'
      BY <1>1, <1>2 DEF LogPast
    <2>3. LogHolds'
      BY <1>1, <1>2 DEF LogHolds, Interactions
    <2> QED
      BY <2>1, <2>2, <2>3
  <1>5. LeftStrictest'
    BY <1>1, <1>2, <1>3, Frame DEF LeftStrictest
  <1>6. ExecutedHolds'
    BY <1>2 DEF ExecutedHolds
  <1>7. CASE /\ unfixable' = unfixable \cup {i}
             /\ UNCHANGED <<fixes, steps, primary>>
    <2>1. FixesTyped'
      BY <1>1, <1>3, <1>7 DEF TypeOK, FixesTyped
    <2>2. Waiting' /\ Unwritten' /\ ExecutedLanded'
      BY <1>1, <1>2, <1>3, <1>7 DEF Waiting, Unwritten, ExecutedLanded
    <2>3. AnswersItsQuestion'
      BY <1>1, <1>2, <1>7, Frame DEF AnswersItsQuestion, RightAnswer
    <2>4. StrictestWins'
      BY <1>1, <1>2, <1>7, Frame DEF StrictestWins, Strictest
    <2>5. OnePerWrite'
      BY <1>1, <1>2, <1>3, <1>7, Frame DEF OnePerWrite, OneFor
    <2>6. StepsSound'
      BY <1>1, <1>2, <1>7, Frame DEF StepsSound, OwnSteps
    <2> QED
      BY <1>2, <1>3, <1>4, <1>5, <1>6, <2>1, <2>2, <2>3, <2>4, <2>5, <2>6
      DEF Planned
  <1>8. CASE /\ v # Null /\ fixes' = With(fixes, i, NewFix(i, v, about))
             /\ Enqueue(i, v) /\ unfixable' = unfixable
    <2>1. v \in Values
      BY <1>8 DEF Value
    <2>2. NewFix(i, v, about) \in Fix /\ NewFix(i, v, about).executed = FALSE
          /\ NewFix(i, v, about).value = v /\ NewFix(i, v, about).about = about
      <3>1. Decision(Pairs[i][1]) \in Decisions
        <4>1. RuleAt(i) \in RuleShape
          BY <1>3, CheckTypes
        <4>2. Rule[Pairs[i][1]].policy \in Decisions
          BY <4>1 DEF RuleAt, RuleShape
        <4>3. Gate(Pairs[i][1]) \in Decisions
          BY <4>2 DEF Gate, Decisions
        <4> QED
          BY <4>3 DEF Decision, Decisions
      <3> QED
        BY <2>1, <3>1 DEF NewFix, Fix
    <2>3. /\ DOMAIN fixes' = DOMAIN fixes \cup {i}
          /\ fixes'[i] = NewFix(i, v, about)
          /\ \A j \in DOMAIN fixes : j # i /\ fixes'[j] = fixes[j]
      BY <1>3, <1>8 DEF With
    <2>4. /\ steps' \in Seq([check : Checks, kind : {"value", "comment"},
                             slot : Slots, value : Values])
          /\ DOMAIN primary' \subseteq DOMAIN fixes'
          /\ OwnSteps(fixes', steps', primary')
      BY <1>8, <2>1, EnqueueSound
    <2>5. FixesTyped'
      BY <1>1, <1>3, <1>8, <2>2, <2>3, <2>4 DEF TypeOK, FixesTyped
    <2>6. Waiting' /\ Unwritten' /\ ExecutedLanded'
      BY <1>1, <1>2, <1>3, <2>2, <2>3 DEF Waiting, Unwritten, ExecutedLanded
    <2>7. AnswersItsQuestion'
      <3>1. RightAnswer(i, fixes'[i])
        BY <2>2, <2>3, <1>8 DEF RightAnswer
      <3>2. \A j \in DOMAIN fixes : RightAnswer(j, fixes'[j])
        BY <1>1, <2>3 DEF AnswersItsQuestion, RightAnswer
      <3> QED
        BY <1>2, <2>3, <3>1, <3>2, Frame
    <2>8. StrictestWins'
      <3>1. RuleAt(i).strategy = "inferred" => Strictest(i, fixes'[i].value)
        BY <1>1, <2>2, <2>3 DEF LeftStrictest
      <3>2. \A j \in DOMAIN fixes :
              RuleAt(j).strategy = "inferred" => Strictest(j, fixes'[j].value)
        BY <1>1, <2>3 DEF StrictestWins, Strictest
      <3> QED
        BY <1>2, <2>3, <3>1, <3>2, Frame
    <2>9. OnePerWrite'
      <3>1. OneFor(left, DOMAIN fixes)
        BY <1>1 DEF OnePerWrite, OneFor
      <3>2. OneFor(left', DOMAIN fixes')
        BY <1>3, <2>3, <3>1 DEF OneFor
      <3> QED
        BY <1>2, <3>2, Frame
    <2>10. StepsSound'
      BY <1>2, <2>4, Frame
    <2> QED
      BY <1>2, <1>3, <1>4, <1>5, <1>6, <2>5, <2>6, <2>7, <2>8, <2>9, <2>10
      DEF Planned
  <1> QED
    BY <1>7, <1>8 DEF Prepare, NewFix

LEMMA NumbersKept ==
  ASSUME NumbersReserved, FreshNumbers, seen' = seen, taken' = taken, lost' = lost,
         \A j \in DOMAIN fixes' :
           RuleAt(j).strategy = "next_available" =>
             j \in DOMAIN fixes /\ fixes'[j].value = fixes[j].value
  PROVE  NumbersReserved' /\ FreshNumbers'
  <1>1. \A j \in Renumbered' : j \in Renumbered /\ fixes'[j].value = fixes[j].value
    BY DEF Renumbered
  <1>2. NumbersReserved'
    BY <1>1 DEF NumbersReserved
  <1>3. FreshNumbers'
    <2> SUFFICES ASSUME NEW i \in Renumbered' PROVE FreshFor(i)'
      BY DEF FreshNumbers
    <2>1. FreshFor(i)
      BY <1>1 DEF FreshNumbers
    <2> QED
      BY <1>1, <2>1 DEF FreshFor
  <1> QED
    BY <1>2, <1>3

\* Where the value of a finding does not come from the numbers, memo and
\* numbers are all that is left to look at.
LEMMA PreparedInv ==
  ASSUME IInv, Planned, found' = found, seen' = seen,
         NEW i \in left, RuleAt(i).strategy # "next_available",
         NEW v, NEW about, Prepare(i, v, about),
         toWarm' \subseteq Rules, calls' \in Nat, calls' <= Budget,
         taken' = taken, lost' = lost, MemoBound',
         \A k \in DOMAIN memo' : memo'[k] \in [value : Value, about : Value]
  PROVE  IInv'
  <1>1. TypeOK /\ NumbersReserved /\ FreshNumbers
    BY DEF IInv
  <1>2. PlanTyped'
    BY <1>1 DEF TypeOK, PlanTyped, Planned
  <1>3. \A j \in DOMAIN fixes' :
          RuleAt(j).strategy = "next_available" =>
            j \in DOMAIN fixes /\ fixes'[j].value = fixes[j].value
    BY DEF Prepare, With
  <1>4. NumbersReserved' /\ FreshNumbers'
    BY <1>1, <1>3, NumbersKept
  <1> QED
    BY <1>2, <1>4 DEF IInv, Planned, TypeOK

LEMMA UnresolvedInv ==
  ASSUME IInv, NEW i \in Checks, Unresolved(i)
  PROVE  IInv'
  <1>1. /\ TypeOK /\ Waiting /\ Unwritten /\ MemoBound /\ AnswersItsQuestion
        /\ LeftStrictest /\ StrictestWins /\ OnePerWrite /\ NumbersReserved
        /\ FreshNumbers /\ StepsSound /\ ExecutedLanded /\ ExecutedHolds
        /\ LogPast /\ LogHolds
    BY DEF IInv
  <1>2. /\ left' = left \ {i} /\ unfixable' = unfixable \cup {i}
        /\ UNCHANGED <<pc, found, toWarm, memo, taken, lost, calls, fixes, steps,
                       primary, pass, seen, families, active, model, log, landed,
                       unsure, at>>
    BY DEF Unresolved, passVars, worldVars
  <1>3. TypeOK'
    BY <1>1, <1>2 DEF TypeOK, WorldTyped, PlanTyped, FixesTyped
  <1>4. Waiting' /\ Unwritten' /\ MemoBound' /\ ExecutedLanded' /\ LogPast'
    BY <1>1, <1>2 DEF Waiting, Unwritten, MemoBound, ExecutedLanded, LogPast
  <1>5. NumbersReserved' /\ FreshNumbers'
    BY <1>1, <1>2, NumbersKept
  <1>6. AnswersItsQuestion' /\ LeftStrictest' /\ StrictestWins' /\ OnePerWrite'
    <2>1. \A j \in DOMAIN fixes' : RightAnswer(j, fixes'[j])
      BY <1>1, <1>2 DEF AnswersItsQuestion, RightAnswer
    <2>2. \A j \in left' : Slot(j) # Null => Strictest(j, Suggestion(j))
      BY <1>1, <1>2 DEF LeftStrictest
    <2>3. \A j \in DOMAIN fixes' :
            RuleAt(j).strategy = "inferred" => Strictest(j, fixes'[j].value)
      BY <1>1, <1>2 DEF StrictestWins, Strictest
    <2>4. OneFor(left', DOMAIN fixes')
      BY <1>1, <1>2 DEF OnePerWrite, OneFor
    <2> QED
      BY <1>2, <2>1, <2>2, <2>3, <2>4, Frame
  <1>7. StepsSound' /\ ExecutedHolds'
    <2>1. OwnSteps(fixes', steps', primary')
      BY <1>1, <1>2 DEF StepsSound, OwnSteps
    <2>2. ExecutedHolds'
      BY <1>2, <1>1 DEF ExecutedHolds, Unresolved, Turn
    <2> QED
      BY <1>2, <2>1, <2>2, Frame
  <1>8. LogHolds'
    BY <1>1, <1>2 DEF LogHolds, Interactions, Unresolved, Turn
  <1> QED
    BY <1>3, <1>4, <1>5, <1>6, <1>7, <1>8 DEF IInv

LEMMA ComputeInv ==
  ASSUME IInv, NEW i \in Checks, Compute(i)
  PROVE  IInv'
  <1>1. PICK v, about :
          /\ Prepare(i, v, about) /\ about = Null
          /\ \/ RuleAt(i).strategy = "fixed" /\ v = RuleAt(i).literal
             \/ RuleAt(i).strategy = "inferred" /\ v = Suggestion(i)
    BY DEF Compute, Computable
  <1>2. /\ pc = "work" /\ i \in left /\ Slot(i) # Null
        /\ UNCHANGED <<pc, found, passVars, worldVars>>
        /\ UNCHANGED <<toWarm, memo, taken, lost, calls>>
        /\ seen' = seen
    BY DEF Compute, Computable, Turn, passVars
  <1>3. v \in Value /\ about \in Value
    <2>1. RuleAt(i) \in RuleShape /\ Suggestion(i) \in Value
      BY CheckTypes
    <2>2. RuleAt(i).literal \in Value
      BY <2>1 DEF RuleShape, Value
    <2> QED
      BY <1>1, <2>1, <2>2 DEF Value
  <1>4. ~Asks(Pairs[i][1])
    BY <1>1 DEF Asks, RuleAt
  <1>5. Planned
    BY <1>1, <1>2, <1>3, <1>4, PrepareSound
  <1>6. MemoBound' /\ PlanTyped
    BY <1>2 DEF IInv, TypeOK, MemoBound
  <1> QED
    BY <1>1, <1>2, <1>5, <1>6, PreparedInv DEF PlanTyped

LEMMA RecallInv ==
  ASSUME IInv, NEW i \in Checks, Recall(i)
  PROVE  IInv'
  <1> DEFINE v == memo[Key(i)].value
             about == memo[Key(i)].about
  <1>1. /\ pc = "work" /\ i \in left /\ Slot(i) # Null
        /\ RuleAt(i).strategy = "llm_propose"
        /\ Key(i) \in DOMAIN memo /\ (v = Null \/ Accepts(i, v))
        /\ Prepare(i, v, about)
        /\ UNCHANGED <<pc, found, passVars, worldVars>>
        /\ UNCHANGED <<toWarm, memo, taken, lost, calls>>
        /\ seen' = seen
    BY DEF Recall, Computable, Turn, Remembered, HoldsFor, passVars
  <1>2. TypeOK /\ MemoBound /\ PlanTyped
    BY DEF IInv, TypeOK
  <1>3. v \in Value /\ about \in Value
    BY <1>1, <1>2 DEF PlanTyped
  <1>4. Key(i)[2] = Current(i)
    BY DEF Key
  <1>5. v # Null => Accepts(i, v) /\ Norm[about] = Norm[Current(i)]
    BY <1>1, <1>2, <1>4 DEF MemoBound
  <1> HIDE DEF v, about
  <1>6. Planned
    BY <1>1, <1>3, <1>5, PrepareSound
  <1>7. MemoBound'
    BY <1>1, <1>2 DEF MemoBound
  <1> QED
    BY <1>1, <1>2, <1>6, <1>7, PreparedInv DEF PlanTyped

LEMMA AskInv ==
  ASSUME IInv, NEW i \in Checks, Ask(i)
  PROVE  IInv'
  <1>1. /\ pc = "work" /\ i \in left /\ Slot(i) # Null
        /\ RuleAt(i).strategy = "llm_propose"
        /\ UNCHANGED <<pc, found, passVars, worldVars>>
        /\ UNCHANGED <<toWarm, taken, lost>>
        /\ seen' = seen
        /\ calls' = IF calls < Budget THEN calls + 1 ELSE calls
    BY DEF Ask, Computable, Turn, passVars
  <1>2. TypeOK /\ MemoBound /\ PlanTyped /\ WorldTyped
    BY DEF IInv, TypeOK
  <1>3. PICK says \in Answers[Pairs[i][1]][ElementAt(i)] \cup {Null} :
          LET v == IF calls < Budget /\ Accepts(i, says) THEN says ELSE Null
          IN  /\ Prepare(i, v, Current(i))
              /\ memo' = IF RuleAt(i).unique
                         THEN memo
                         ELSE IF Key(i) \in poisoned'
                         THEN [k \in DOMAIN memo \ {Key(i)} |-> memo[k]]
                         ELSE With(memo, Key(i),
                                   [value |-> v, about |-> Current(i)])
    BY DEF Ask
  <1> DEFINE v == IF calls < Budget /\ Accepts(i, says) THEN says ELSE Null
  <1>4. v \in Value /\ Current(i) \in Value /\ (v # Null => Accepts(i, v))
    <2>1. Answers[Pairs[i][1]][ElementAt(i)] \subseteq Value
      BY CheckTypes
    <2>2. Current(i) \in Value
      BY <1>2, CurrentType DEF WorldTyped
    <2> QED
      BY <2>1, <2>2 DEF Value
  <1>5. Prepare(i, v, Current(i))
    BY <1>3
  <1>6. \/ memo' = memo
        \/ memo' = [k \in DOMAIN memo \ {Key(i)} |-> memo[k]]
        \/ memo' = With(memo, Key(i), [value |-> v, about |-> Current(i)])
    BY <1>3
  <1>7. Key(i)[2] = Current(i)
    BY DEF Key
  <1> HIDE DEF v
  <1>8. \A k \in DOMAIN memo' :
          \/ k \in DOMAIN memo /\ memo'[k] = memo[k]
          \/ k = Key(i) /\ memo'[k] = [value |-> v, about |-> Current(i)]
    BY <1>6 DEF With
  <1>9. /\ MemoBound'
        /\ \A k \in DOMAIN memo' : memo'[k] \in [value : Value, about : Value]
    BY <1>2, <1>4, <1>7, <1>8 DEF MemoBound, PlanTyped
  <1>10. Planned
    BY <1>1, <1>4, <1>5, PrepareSound
  <1>11. calls' \in Nat /\ calls' <= Budget
    <2>1. Budget \in Nat
      BY ConstantsAssumption
    <2>2. calls \in Nat /\ calls <= Budget
      BY <1>2 DEF PlanTyped
    <2> QED
      BY <1>1, <2>1, <2>2
  <1>12. toWarm' \subseteq Rules
    BY <1>1, <1>2 DEF PlanTyped
  <1> QED
    BY <1>1, <1>5, <1>9, <1>10, <1>11, <1>12, PreparedInv

-----------------------------------------------------------------------------
\* A number is chosen: it differs from all that is reserved, and what elements
\* bear is reserved from the first number on.

\* What elements bear is among the values in use.
LEMMA BorneInUse ==
  ASSUME IInv, pc = "work", NEW r \in Rules, NEW unread,
         NEW e \in Compared(r) \ unread, seen[<<e, Rule[r].param>>] # Null
  PROVE  seen[<<e, Rule[r].param>>] \in InUse(r, unread)
  <1>1. model = seen
    BY DEF IInv, Unwritten
  <1> QED
    BY <1>1 DEF InUse

LEMMA InUseType ==
  ASSUME WorldTyped, NEW r \in Rules, NEW unread
  PROVE  InUse(r, unread) \subseteq Values
  <1>1. Rule[r].param \in Params
    <2>1. Rule \in [Rules -> RuleShape]
      BY ConstantsAssumption
    <2> QED
      BY <2>1 DEF RuleShape
  <1>2. \A e \in Elements : /\ <<e, Rule[r].param>> \in Slots
                            /\ model[<<e, Rule[r].param>>] \in Value
                            /\ seen[<<e, Rule[r].param>>] \in Value
    BY <1>1 DEF WorldTyped, Slots, Owners
  <1>3. Loaded \subseteq Elements
    BY ConstantsAssumption
  <1>4. Compared(r) \subseteq Elements
    BY <1>3 DEF Compared
  <1> QED
    BY <1>2, <1>4 DEF InUse, Value

LEMMA NumbersExtended ==
  ASSUME IInv, pc = "work", NEW i \in left, i \in Checks,
         NEW r, r = Pairs[i][1], NEW unread \in SUBSET Elements,
         Rule[r].strategy = "next_available",
         NEW used, NEW v \in Value, v # Null => v \notin used,
         NEW key, key = NumberKey(r),
         used = (IF key \in DOMAIN taken THEN taken[key] ELSE InUse(r, unread)),
         key \in DOMAIN taken => unread = {},
         lost' = lost \cup unread, taken' = With(taken, key, Reserved(used, v)),
         seen' = seen,
         \/ fixes' = fixes
         \/ v # Null /\ fixes' = With(fixes, i, NewFix(i, v, Null))
  PROVE  NumbersReserved' /\ FreshNumbers'
  <1>1. NumbersReserved /\ FreshNumbers /\ i \notin DOMAIN fixes /\ r \in Rules
    BY CheckTypes DEF IInv, Waiting
  <1>2. /\ DOMAIN taken' = DOMAIN taken \cup {key}
        /\ taken'[key] = used \cup ({v} \ {Null})
        /\ \A k \in DOMAIN taken : k # key => taken'[k] = taken[k]
    BY DEF With, Reserved
  <1>3. \A k \in DOMAIN taken : taken[k] \subseteq taken'[k]
    BY <1>2
  <1>4. \A j \in Renumbered' :
          \/ j \in Renumbered /\ j # i /\ fixes'[j].value = fixes[j].value
          \/ j = i /\ fixes'[j].value = v /\ v # Null
    <2>1. NewFix(i, v, Null).value = v
      BY DEF NewFix
    <2>2. CASE fixes' = fixes
      BY <1>1, <2>2 DEF Renumbered
    <2>3. CASE v # Null /\ fixes' = With(fixes, i, NewFix(i, v, Null))
      <3>1. DOMAIN fixes' = DOMAIN fixes \cup {i} /\ fixes'[i] = NewFix(i, v, Null)
            /\ \A j \in DOMAIN fixes : j # i /\ fixes'[j] = fixes[j]
        BY <1>1, <2>3 DEF With
      <3> QED
        BY <2>1, <2>3, <3>1 DEF Renumbered
    <2> QED
      BY <2>2, <2>3
  <1>5. ASSUME NEW q \in Rules, NumberKey(q) = key, NEW e \in Compared(q) \ lost',
               seen[<<e, Rule[q].param>>] # Null
        PROVE  seen[<<e, Rule[q].param>>] \in used
    <2>1. Rule[q].param = Rule[r].param /\ Compared(q) = Compared(r)
      <3>1. Rule[q].category = Rule[r].category /\ Rule[q].param = Rule[r].param
        BY <1>5 DEF NumberKey
      <3>2. FromRooms(q) = FromRooms(r)
        BY <3>1 DEF FromRooms
      <3> QED
        BY <3>1, <3>2 DEF Compared
    <2>2. CASE key \in DOMAIN taken
      BY <1>1, <1>5, <2>2 DEF NumbersReserved
    <2>3. CASE key \notin DOMAIN taken
      <3>1. e \in Compared(r) \ unread
        BY <1>5, <2>1
      <3> QED
        BY <1>1, <1>5, <2>1, <2>3, <3>1, BorneInUse
    <2> QED
      BY <2>2, <2>3
  <1>6. NumbersReserved'
    <2>1. ASSUME NEW j \in Renumbered'
          PROVE  /\ NumberKey(Pairs[j][1]) \in DOMAIN taken'
                 /\ fixes'[j].value \in taken'[NumberKey(Pairs[j][1])]
      BY <1>1, <1>2, <1>3, <1>4 DEF NumbersReserved
    <2>2. ASSUME NEW q \in Rules, NumberKey(q) \in DOMAIN taken',
                 NEW e \in Compared(q) \ lost', seen[<<e, Rule[q].param>>] # Null
          PROVE  seen[<<e, Rule[q].param>>] \in taken'[NumberKey(q)]
      <3>1. CASE NumberKey(q) = key
        BY <1>2, <1>5, <2>2, <3>1
      <3>2. CASE NumberKey(q) # key
        <4>1. e \notin lost /\ NumberKey(q) \in DOMAIN taken
          BY <1>2, <2>2, <3>2
        <4> QED
          BY <1>1, <1>3, <2>2, <4>1 DEF NumbersReserved
      <3> QED
        BY <3>1, <3>2
    <2> QED
      BY <2>1, <2>2 DEF NumbersReserved, NumberKey
  <1>7. FreshNumbers'
    <2> SUFFICES ASSUME NEW j \in Renumbered' PROVE FreshFor(j)'
      BY DEF FreshNumbers
    <2>1. ASSUME NEW k \in Renumbered' \ {j},
                 NumberKey(Pairs[k][1]) = NumberKey(Pairs[j][1])
          PROVE  fixes'[k].value # fixes'[j].value
      <3>1. CASE j # i /\ k # i
        <4>1. j \in Renumbered /\ k \in Renumbered \ {j}
              /\ fixes'[j].value = fixes[j].value /\ fixes'[k].value = fixes[k].value
          BY <1>4, <2>1, <3>1
        <4>2. FreshFor(j)
          BY <1>1, <4>1 DEF FreshNumbers
        <4> QED
          BY <2>1, <4>1, <4>2 DEF FreshFor
      <3>2. \A m \in Renumbered : NumberKey(Pairs[m][1]) = key =>
              fixes[m].value \in used
        BY <1>1 DEF NumbersReserved
      <3>3. CASE j = i /\ k # i
        BY <1>4, <2>1, <3>2, <3>3
      <3>4. CASE k = i /\ j # i
        BY <1>4, <2>1, <3>2, <3>4
      <3> QED
        BY <2>1, <3>1, <3>3, <3>4
    <2>2. ASSUME NEW e \in Compared(Pairs[j][1]) \ lost'
          PROVE  seen[<<e, Param[j]>>] # fixes'[j].value
      <3>1. CASE j # i
        <4>1. j \in Renumbered /\ fixes'[j].value = fixes[j].value /\ e \notin lost
          BY <1>4, <2>2, <3>1
        <4>2. FreshFor(j)
          BY <1>1, <4>1 DEF FreshNumbers
        <4> QED
          BY <2>2, <4>1, <4>2 DEF FreshFor
      <3>2. CASE j = i
        <4>1. fixes'[j].value = v /\ v # Null /\ v \notin used
          BY <1>4, <3>2
        <4>2. Param[i] = Rule[r].param
          <5>1. Rule[r].target = "instance" /\ Rule[r].param # "Type Name"
            BY <1>1, ConstantsAssumption
          <5> QED
            BY <5>1 DEF Param, Target, RuleAt
        <4> QED
          BY <1>1, <1>5, <2>2, <3>2, <4>1, <4>2
      <3> QED
        BY <3>1, <3>2
    <2> QED
      BY <2>1, <2>2 DEF FreshFor
  <1> QED
    BY <1>6, <1>7

LEMMA RenumberInv ==
  ASSUME IInv, NEW i \in Checks, Renumber(i)
  PROVE  IInv'
  <1> DEFINE r == Pairs[i][1]
             base == IF Current(i) = Null THEN Suggestion(i) ELSE Current(i)
             key == NumberKey(r)
  <1>1. /\ pc = "work" /\ i \in left /\ Slot(i) # Null
        /\ RuleAt(i).strategy = "next_available" /\ base # Null
        /\ UNCHANGED <<pc, found, passVars, worldVars>>
        /\ UNCHANGED <<toWarm, memo, calls>>
        /\ seen' = seen
    BY DEF Renumber, Computable, Turn, passVars
  <1>2. PICK unread \in SUBSET Unreadable(r) :
          LET used == IF key \in DOMAIN taken THEN taken[key] ELSE InUse(r, unread)
              v == NextAvailable(base, used)
          IN  /\ key \in DOMAIN taken => unread = {}
              /\ lost' = lost \cup unread
              /\ taken' = With(taken, key, Reserved(used, v))
              /\ Prepare(i, v, Null)
    BY DEF Renumber
  <1> DEFINE used == IF key \in DOMAIN taken THEN taken[key] ELSE InUse(r, unread)
             v == NextAvailable(base, used)
  <1>3. /\ TypeOK /\ WorldTyped /\ PlanTyped /\ MemoBound /\ r \in Rules
        /\ unread \subseteq Elements
    BY CheckTypes DEF IInv, TypeOK, Unreadable
  <1>4. base \in Values
    <2>1. Current(i) \in Value
      BY <1>3, CurrentType DEF WorldTyped
    <2>2. Suggestion(i) \in Value
      BY CheckTypes
    <2> QED
      BY <1>1, <2>1, <2>2 DEF Value
  <1>5. /\ key \in DOMAIN taken => unread = {}
        /\ lost' = lost \cup unread
        /\ taken' = With(taken, key, Reserved(used, v)) /\ Prepare(i, v, Null)
    BY <1>2
  <1>6. v \in Value /\ (v # Null => v \notin used) /\ used \subseteq Values
    <2>1. used \subseteq Values
      BY <1>3, InUseType DEF PlanTyped
    <2> HIDE DEF base, used
    <2> QED
      BY <1>4, <2>1, NextIsFree
  <1> HIDE DEF v, base, used
  <1>7. Planned
    <2>1. ~Asks(r) /\ RuleAt(i).strategy # "inferred" /\ Null \in Value
      BY <1>1 DEF Asks, RuleAt, Value
    <2> QED
      BY <1>1, <1>5, <1>6, <2>1, PrepareSound
  <1>8. NumbersReserved' /\ FreshNumbers'
    <2>1. \/ fixes' = fixes
          \/ v # Null /\ fixes' = With(fixes, i, NewFix(i, v, Null))
      BY <1>5 DEF Prepare, NewFix
    <2>2. Rule[r].strategy = "next_available"
      BY <1>1 DEF RuleAt
    <2> QED
      BY <1>1, <1>3, <1>5, <1>6, <2>1, <2>2, NumbersExtended DEF used
  <1>9. PlanTyped'
    <2>1. Reserved(used, v) \subseteq Values
      BY <1>6 DEF Reserved, Value
    <2>2. \A k \in DOMAIN taken' : taken'[k] \subseteq Values
      <3>1. \A k \in DOMAIN taken' :
              \/ k \in DOMAIN taken /\ taken'[k] = taken[k]
              \/ taken'[k] = Reserved(used, v)
        BY <1>5 DEF With
      <3> QED
        BY <1>3, <2>1, <3>1 DEF PlanTyped
    <2>3. left' \subseteq found'
      BY <1>7 DEF Planned
    <2> QED
      BY <1>1, <1>3, <1>5, <2>2, <2>3 DEF PlanTyped
  <1>10. MemoBound'
    BY <1>1, <1>3 DEF MemoBound
  <1> QED
    BY <1>7, <1>8, <1>9, <1>10 DEF IInv, Planned, TypeOK

-----------------------------------------------------------------------------
\* A batch is asked for; a pass begins and collects its findings.

LEMMA MemoStep ==
  ASSUME IInv, UNCHANGED <<pc, found, left, taken, lost, fixVars, passVars, worldVars>>,
         PlanTyped', MemoBound'
  PROVE  IInv'
  <1>1. /\ TypeOK /\ Waiting /\ Unwritten /\ AnswersItsQuestion
        /\ LeftStrictest /\ StrictestWins /\ OnePerWrite /\ NumbersReserved
        /\ FreshNumbers /\ StepsSound /\ ExecutedLanded /\ ExecutedHolds
        /\ LogPast /\ LogHolds
    BY DEF IInv
  <1>2. UNCHANGED <<pc, found, left, taken, lost, fixes, unfixable, steps, primary,
                    pass, seen, families, active, model, log, landed, unsure, at>>
    BY DEF fixVars, passVars, worldVars
  <1>3. TypeOK'
    BY <1>1, <1>2 DEF TypeOK, WorldTyped, FixesTyped
  <1>4. Waiting' /\ Unwritten' /\ ExecutedLanded' /\ LogPast'
    BY <1>1, <1>2 DEF Waiting, Unwritten, ExecutedLanded, LogPast
  <1>5. NumbersReserved' /\ FreshNumbers'
    BY <1>1, <1>2, NumbersKept
  <1>6. AnswersItsQuestion' /\ LeftStrictest' /\ StrictestWins' /\ OnePerWrite'
    <2>1. \A j \in DOMAIN fixes' : RightAnswer(j, fixes'[j])
      BY <1>1, <1>2 DEF AnswersItsQuestion, RightAnswer
    <2>2. \A j \in left' : Slot(j) # Null => Strictest(j, Suggestion(j))
      BY <1>1, <1>2 DEF LeftStrictest
    <2>3. \A j \in DOMAIN fixes' :
            RuleAt(j).strategy = "inferred" => Strictest(j, fixes'[j].value)
      BY <1>1, <1>2 DEF StrictestWins, Strictest
    <2>4. OneFor(left', DOMAIN fixes')
      BY <1>1, <1>2 DEF OnePerWrite, OneFor
    <2> QED
      BY <1>2, <2>1, <2>2, <2>3, <2>4, Frame
  <1>7. StepsSound' /\ ExecutedHolds'
    <2>1. OwnSteps(fixes', steps', primary')
      BY <1>1, <1>2 DEF StepsSound, OwnSteps
    <2>2. pc \in {"each", "log"} => HoldsIn(model', fixes', primary')
      BY <1>1, <1>2 DEF ExecutedHolds, HoldsIn
    <2>3. pc \notin {"each", "log"} => ExecutedHolds'
      BY <1>2 DEF ExecutedHolds
    <2> QED
      BY <1>2, <2>1, <2>2, <2>3, Frame
  <1>8. LogHolds'
    <2>1. Touched' = Touched
      BY <1>2, Frame DEF Touched, SlotsOf
    <2> QED
      BY <1>1, <1>2, <2>1 DEF LogHolds, Interactions
  <1> QED
    BY <1>3, <1>4, <1>5, <1>6, <1>7, <1>8 DEF IInv

LEMMA CallsCounted ==
  ASSUME PlanTyped, calls' = IF calls < Budget THEN calls + 1 ELSE calls
  PROVE  calls' \in Nat /\ calls' <= Budget
  <1>1. Budget \in Nat
    BY ConstantsAssumption
  <1>2. calls \in Nat /\ calls <= Budget
    BY DEF PlanTyped
  <1> QED
    BY <1>1, <1>2

LEMMA WarmBatchInv ==
  ASSUME IInv, NEW r \in Rules, WarmBatch(r)
  PROVE  IInv'
  <1> DEFINE Q == Questions(r, left)
  <1>1. /\ UNCHANGED <<pc, found, left, taken, lost, fixVars, passVars, worldVars>>
        /\ toWarm' = toWarm \ {r} /\ calls < Budget /\ calls' = calls + 1
        /\ seen' = seen
    BY DEF WarmBatch, passVars
  <1>2. PICK from \in [Q -> Q \cup {0}],
             says \in {f \in [Q -> UNION {Answers[r][ElementAt(i)] : i \in Q}] :
                         \A i \in Q : f[i] \in Answers[r][ElementAt(i)]} :
          LET kept == {i \in Q : /\ from[i] # 0 /\ says[from[i]] # Null
                                 /\ Bound(i, from[i])
                                 /\ Accepts(i, says[from[i]])}
          IN  memo' = [k \in DOMAIN memo \cup {Key(i) : i \in kept} |->
                         IF k \in DOMAIN memo THEN memo[k]
                         ELSE LET i == CHOOSE i \in kept : Key(i) = k
                              IN  [value |-> says[from[i]],
                                   about |-> Current(from[i])]]
    BY DEF WarmBatch
  <1> DEFINE kept == {i \in Q : /\ from[i] # 0 /\ says[from[i]] # Null
                                /\ Bound(i, from[i])
                                /\ Accepts(i, says[from[i]])}
             answer(i) == [value |-> says[from[i]], about |-> Current(from[i])]
  <1>3. /\ DOMAIN memo' = DOMAIN memo \cup {Key(i) : i \in kept}
        /\ \A k \in DOMAIN memo : memo'[k] = memo[k]
        /\ \A k \in DOMAIN memo' \ DOMAIN memo :
             memo'[k] = answer(CHOOSE i \in kept : Key(i) = k)
    BY <1>2
  <1>4. \A k \in DOMAIN memo' :
          \/ k \in DOMAIN memo /\ memo'[k] = memo[k]
          \/ \E i \in kept : Key(i) = k /\ memo'[k] = answer(i)
    <2> HIDE DEF answer, kept
    <2> QED
      BY <1>3
  <1>5. TypeOK /\ PlanTyped /\ WorldTyped /\ MemoBound
    BY DEF IInv, TypeOK
  <1>6. Q \subseteq Checks /\ \A i \in Q : Pairs[i][1] = r
    BY <1>5 DEF Questions, PlanTyped
  <1>7. ASSUME NEW i \in kept
        PROVE  /\ answer(i) \in [value : Value, about : Value]
               /\ Norm[answer(i).about] = Norm[Key(i)[2]]
    <2>1. from[i] \in Q /\ i \in Q
      BY <1>2
    <2>2. from[i] \in Checks /\ Pairs[from[i]][1] = r
      BY <1>6, <2>1
    <2>3. says[from[i]] \in Answers[r][ElementAt(from[i])]
      BY <1>2, <2>1
    <2>4. says[from[i]] \in Value
      BY <2>2, <2>3, CheckTypes
    <2>5. Current(from[i]) \in Value
      BY <1>5, <2>2, CurrentType DEF WorldTyped
    <2>6. Norm[Current(from[i])] = Norm[Current(i)]
      BY DEF Bound
    <2>7. Key(i)[2] = Current(i)
      BY DEF Key
    <2> QED
      BY <2>4, <2>5, <2>6, <2>7
  <1> HIDE DEF answer, kept
  <1>8. MemoBound'
    BY <1>4, <1>5, <1>7 DEF MemoBound
  <1>9. PlanTyped'
    <2>1. calls' \in Nat /\ calls' <= Budget
      BY <1>1, <1>5, CallsCounted
    <2>2. \A k \in DOMAIN memo' : memo'[k] \in [value : Value, about : Value]
      BY <1>4, <1>5, <1>7 DEF PlanTyped
    <2> QED
      BY <1>1, <1>5, <2>1, <2>2 DEF PlanTyped
  <1> QED
    BY <1>1, <1>8, <1>9, MemoStep

LEMMA WarmFailsInv ==
  ASSUME IInv, NEW r \in Rules, WarmFails(r)
  PROVE  IInv'
  <1>1. /\ UNCHANGED <<pc, found, left, memo, taken, lost, fixVars, passVars, worldVars>>
        /\ toWarm' = toWarm \ {r}
        /\ calls' = IF calls < Budget THEN calls + 1 ELSE calls
    BY DEF WarmFails
  <1>2. PlanTyped /\ MemoBound
    BY DEF IInv, TypeOK
  <1>3. calls' \in Nat /\ calls' <= Budget
    BY <1>1, <1>2, CallsCounted
  <1>4. PlanTyped' /\ MemoBound'
    BY <1>1, <1>2, <1>3 DEF PlanTyped, MemoBound
  <1> QED
    BY <1>1, <1>4, MemoStep

LEMMA StartPassInv ==
  ASSUME IInv, StartPass
  PROVE  IInv'
  <1>1. TypeOK /\ WorldTyped /\ PlanTyped /\ FixesTyped /\ Waiting /\ LogPast /\ LogHolds
    BY DEF IInv, TypeOK
  <1>2. /\ pc = "start" /\ pc' = "collect" /\ pass < MaxPasses /\ pass' = pass + 1
        /\ seen' = model /\ model' = model /\ EnsureFamilies
        /\ log' = log /\ unsure' = unsure /\ landed' = landed /\ at' = at
        /\ active' = active /\ found' = found /\ left' = left /\ toWarm' = toWarm
        /\ calls' = calls /\ memo' = Nothing /\ lost' = {} /\ taken' = Nothing
        /\ fixes' = Nothing /\ unfixable' = {} /\ steps' = <<>> /\ primary' = Nothing
    BY DEF StartPass, Forget, worldVars
  <1>3. DOMAIN Nothing = {}
    BY DEF Nothing
  <1>4. left' = {} /\ DOMAIN fixes' = {} /\ DOMAIN primary' = {} /\ DOMAIN memo' = {}
        /\ DOMAIN taken' = {} /\ DOMAIN steps' = {}
    BY <1>1, <1>2, <1>3 DEF Waiting
  <1>5. WorldTyped'
    <2>1. \A n \in DOMAIN families' : families'[n] \in Families
      BY <1>1, <1>2 DEF EnsureFamilies, FamilyMaps, WorldTyped
    <2>2. pass' \in Nat /\ pass' <= MaxPasses
      <3>1. MaxPasses \in Nat
        BY ConstantsAssumption
      <3>2. pass \in Nat
        BY <1>1 DEF WorldTyped
      <3> QED
        BY <1>2, <3>1, <3>2
    <2> QED
      BY <1>1, <1>2, <2>1, <2>2 DEF WorldTyped, Phases
  <1>6. TypeOK'
    BY <1>1, <1>2, <1>4, <1>5 DEF TypeOK, PlanTyped, FixesTyped
  <1>7. Waiting' /\ Unwritten' /\ MemoBound' /\ AnswersItsQuestion' /\ LeftStrictest'
        /\ StrictestWins' /\ ExecutedLanded' /\ StepsSound' /\ ExecutedHolds'
    BY <1>2, <1>4 DEF Waiting, Unwritten, MemoBound, AnswersItsQuestion,
       LeftStrictest, StrictestWins, ExecutedLanded, StepsSound, ExecutedHolds
  <1>8. OnePerWrite'
    BY <1>4 DEF OnePerWrite
  <1>9. NumbersReserved' /\ FreshNumbers'
    BY <1>4 DEF NumbersReserved, FreshNumbers, Renumbered
  <1>10. LogPast'
    <2>1. pass \in Nat
      BY <1>1 DEF WorldTyped
    <2> QED
      BY <1>1, <1>2, <2>1 DEF LogPast
  <1>11. LogHolds'
    BY <1>1, <1>2 DEF LogHolds, Interactions
  <1> QED
    BY <1>6, <1>7, <1>8, <1>9, <1>10, <1>11 DEF IInv

LEMMA CollectInv ==
  ASSUME IInv, Collect
  PROVE  IInv'
  <1>1. /\ TypeOK /\ WorldTyped /\ PlanTyped /\ FixesTyped /\ Waiting /\ Unwritten
        /\ MemoBound /\ NumbersReserved /\ FreshNumbers /\ StepsSound
        /\ ExecutedLanded /\ LogPast /\ LogHolds
    BY DEF IInv, TypeOK
  <1>2. /\ pc = "collect" /\ pc' = "work" /\ found' = PathB
        /\ left' = {Chosen(Group(found', i)) : i \in found'} /\ toWarm' \subseteq active
        /\ UNCHANGED <<memo, taken, lost, calls, fixes, unfixable, steps, primary,
                       pass, seen, families, active, model, log, landed, unsure, at>>
    BY DEF Collect, fixVars, passVars, worldVars
  <1>3. found' \subseteq Checks /\ DOMAIN fixes' = {} /\ DOMAIN primary' = {}
    BY <1>1, <1>2 DEF PathB, Waiting, FixesTyped
  <1>4. \A i : Slot(i)' = Slot(i)
    BY <1>2, FrameSlots
  <1>5. ASSUME NEW j \in left'
        PROVE  j \in found' /\ j = Chosen(Group(found', j))
    <2>1. PICK i \in found' : j = Chosen(Group(found', i))
      BY <1>2
    <2>2. i \in Group(found', i) /\ Group(found', i) \subseteq found'
      BY <1>3 DEF Group
    <2>3. j \in Group(found', i)
      BY <1>3, <2>1, <2>2, ChosenStrictest
    <2>4. Group(found', j) = Group(found', i)
      BY <2>3 DEF Group
    <2> QED
      BY <2>1, <2>2, <2>3, <2>4
  <1>6. \A i : Group(found, i)' = Group(found', i)
    BY <1>4 DEF Group
  <1>7. TypeOK'
    BY <1>1, <1>2, <1>3, <1>5 DEF TypeOK, WorldTyped, PlanTyped, FixesTyped, Phases
  <1>8. Waiting' /\ Unwritten' /\ MemoBound' /\ ExecutedLanded' /\ LogPast'
        /\ ExecutedHolds' /\ AnswersItsQuestion' /\ StrictestWins'
    BY <1>1, <1>2, <1>3 DEF Waiting, Unwritten, MemoBound, ExecutedLanded, LogPast,
       ExecutedHolds, AnswersItsQuestion, StrictestWins
  <1>9. NumbersReserved' /\ FreshNumbers'
    BY <1>1, <1>2, NumbersKept
  <1>10. LeftStrictest'
    <2> SUFFICES ASSUME NEW i \in left', Slot(i)' # Null,
                        IsRating(Group(found, i))', NEW j \in found',
                        Pairs[j][1] = Pairs[i][1], Slot(j)' = Slot(i)',
                        Suggestion(j) \in DOMAIN Minutes
                 PROVE  /\ Suggestion(i) \in DOMAIN Minutes
                        /\ Minutes[Suggestion(j)] <= Minutes[Suggestion(i)]
      BY DEF LeftStrictest, Strictest, Suggestion, ElementAt
    <2> DEFINE G == Group(found', i)
    <2>1. i \in found' /\ i = Chosen(G)
      BY <1>5
    <2>2. G \subseteq Checks /\ i \in G /\ j \in G
      BY <1>3, <1>4, <2>1 DEF Group
    <2>3. IsRating(G)
      BY <1>6 DEF IsRating
    <2>4. j \in Rateable(G)
      BY <2>2 DEF Rateable
    <2> QED
      BY <2>1, <2>2, <2>3, <2>4, ChosenStrictest
  <1>11. OnePerWrite'
    <2>1. ASSUME NEW i \in left', NEW j \in left', Pairs[i][1] = Pairs[j][1],
                 Slot(i) = Slot(j), Slot(i) # Null
          PROVE  i = j
      <3>1. Group(found', i) = Group(found', j)
        BY <2>1 DEF Group
      <3> QED
        BY <1>5, <3>1
    <2> QED
      BY <1>3, <1>4, <2>1 DEF OnePerWrite, SameWrite
  <1>12. StepsSound'
    <2>1. OwnSteps(fixes', steps', primary')
      BY <1>1, <1>2 DEF StepsSound, OwnSteps
    <2> QED
      BY <1>2, <2>1 DEF OwnSteps, StepsSound, Slot, Current
  <1>13. LogHolds'
    BY <1>1, <1>2 DEF LogHolds, Interactions
  <1> QED
    BY <1>7, <1>8, <1>9, <1>10, <1>11, <1>12, <1>13 DEF IInv

-----------------------------------------------------------------------------
\* The steps are written.

\* What a commit leaves in a slot: the value of a step that landed there, or
\* what was there before.
LEMMA LandingFacts ==
  ASSUME IInv, NEW L \in SUBSET DOMAIN steps, Landing(L)
  PROVE  /\ model' \in [Slots -> Value]
         /\ \A s \in Slots :
              \/ model'[s] = model[s] /\ s \notin {steps[k].slot : k \in L}
              \/ \E k \in L : steps[k].slot = s /\ model'[s] = steps[k].value
  <1>1. /\ steps \in Seq([check : Checks, kind : {"value", "comment"},
                          slot : Slots, value : Values])
        /\ model \in [Slots -> Value]
    BY DEF IInv, TypeOK, FixesTyped, WorldTyped
  <1>2. /\ Len(steps) \in Nat /\ L \in SUBSET (1 .. Len(steps))
        /\ \A k \in L : steps[k].value \in Value /\ steps[k].slot \in Slots
    <2> DEFINE Steps == [check : Checks, kind : {"value", "comment"},
                         slot : Slots, value : Values]
    <2>1. \A t \in Steps : t.value \in Values /\ t.slot \in Slots
      OBVIOUS
    <2>2. steps \in Seq(Steps)
      BY <1>1
    <2> HIDE DEF Steps
    <2>3. /\ Len(steps) \in Nat /\ DOMAIN steps = 1 .. Len(steps)
          /\ \A k \in DOMAIN steps : steps[k] \in Steps
      BY <2>2
    <2> QED
      BY <2>1, <2>3 DEF Value
  <1>3. ASSUME NEW s \in Slots
        PROVE  \/ model'[s] = model[s] /\ s \notin {steps[k].slot : k \in L}
               \/ \E k \in L : steps[k].slot = s /\ model'[s] = steps[k].value
    <2>1. CASE s \notin {steps[k].slot : k \in L}
      BY <2>1 DEF Landing
    <2>2. CASE s \in {steps[k].slot : k \in L}
      <3> DEFINE W == WritesOf(L, s)
      <3>1. W # {} /\ W \subseteq L
        BY <2>2 DEF WritesOf
      <3>2. \E k \in W : \A l \in W : l <= k
        <4>1. IsFiniteSet(1 .. Len(steps))
          BY <1>2, FS_Interval
        <4>2. W \subseteq 1 .. Len(steps)
          BY <1>2, <3>1
        <4>3. IsFiniteSet(W) /\ W \subseteq Nat
          BY <1>2, <4>1, <4>2, FS_Subset
        <4> HIDE DEF W
        <4> QED
          BY <3>1, <4>3, GreatestExists
      <3>3. PICK k \in W : model'[s] = steps[k].value
        BY <2>2, <3>2 DEF Landing
      <3>4. k \in L /\ steps[k].slot = s
        BY <3>3 DEF WritesOf
      <3> QED
        BY <3>3, <3>4
    <2> QED
      BY <2>1, <2>2
  <1>4. model' \in [Slots -> Value]
    <2>1. \A s \in Slots : model'[s] \in Value
      BY <1>1, <1>2, <1>3
    <2>2. DOMAIN model' = Slots /\ model' = [s \in Slots |-> model'[s]]
      BY DEF Landing
    <2> QED
      BY <2>1, <2>2
  <1> QED
    BY <1>3, <1>4

\* Slots that the pass has no value for keep theirs, comments apart.
LEMMA UntouchedStay ==
  ASSUME IInv, NEW L \in SUBSET DOMAIN steps, Landing(L),
         NEW s \in Slots, s \notin Touched, s[2] # "Comments"
  PROVE  model'[s] = model[s]
  <1>1. \A k \in L : steps[k].slot # s
    BY DEF IInv, StepsSound, Touched
  <1> QED
    BY <1>1, LandingFacts

LEMMA NowHolds ==
  ASSUME IInv, pc \in {"work", "each", "log"}
  PROVE  HoldsIn(model, fixes, primary)
  <1>1. DOMAIN primary \subseteq DOMAIN fixes
    BY DEF IInv, TypeOK, FixesTyped
  <1> QED
    BY <1>1 DEF IInv, Unwritten, ExecutedHolds, HoldsIn

\* A finding whose own step landed has its value in the model.
LEMMA LandingHolds ==
  ASSUME IInv, pc \in {"work", "each"}, NEW L \in SUBSET DOMAIN steps, Landing(L),
         NEW fx, \A i \in DOMAIN primary :
           /\ fx[i].value = fixes[i].value
           /\ fx[i].executed => fixes[i].executed \/ primary[i] \in L
  PROVE  HoldsIn(model', fx, primary)
  <1>1. /\ HoldsIn(model, fixes, primary) /\ StepsSound /\ OnePerWrite
        /\ DOMAIN primary \subseteq DOMAIN fixes /\ DOMAIN fixes \subseteq Checks
        /\ \A n \in DOMAIN families : families[n] \in Families
    BY NowHolds DEF IInv, TypeOK, FixesTyped, WorldTyped
  <1> SUFFICES ASSUME NEW i \in DOMAIN primary, fx[i].executed,
                      \A j \in DOMAIN primary : j # i => Slot(j) # Slot(i)
               PROVE  model'[Slot(i)] = fx[i].value
    BY DEF HoldsIn
  <1>2. Slot(i) \in Slots /\ Slot(i)[2] # "Comments"
    <2>1. Slot(i) # Null /\ i \in Checks
      BY <1>1 DEF OnePerWrite
    <2> QED
      BY <1>1, <2>1, SlotType
  <1>3. ASSUME NEW k \in L, steps[k].slot = Slot(i)
        PROVE  steps[k].value = fixes[i].value
    <2>1. steps[k].kind = "value" \/ steps[k].slot[2] = "Comments"
      BY <1>1 DEF StepsSound
    <2>2. /\ steps[k].check \in DOMAIN primary
          /\ steps[k].slot = Slot(steps[k].check)
          /\ steps[k].value = fixes[steps[k].check].value
      BY <1>1, <1>2, <1>3 DEF StepsSound
    <2> QED
      BY <1>3, <2>2
  <1>4. CASE \E k \in L : steps[k].slot = Slot(i)
    BY <1>2, <1>3, <1>4, LandingFacts
  <1>5. CASE \A k \in L : steps[k].slot # Slot(i)
    <2>1. model'[Slot(i)] = model[Slot(i)]
      BY <1>2, <1>5, LandingFacts
    <2>2. primary[i] \notin L
      BY <1>1, <1>5 DEF StepsSound
    <2> QED
      BY <1>1, <2>1, <2>2 DEF HoldsIn
  <1> QED
    BY <1>4, <1>5

\* A commit marks fixes that landed, and touches no other slots.
Marked == /\ DOMAIN fixes' = DOMAIN fixes
          /\ \A i \in DOMAIN fixes :
               /\ fixes'[i] \in Fix
               /\ fixes'[i].value = fixes[i].value
               /\ fixes'[i].about = fixes[i].about
               /\ fixes'[i].executed => fixes[i].executed \/ <<pass, i>> \in landed'

LEMMA CommitInv ==
  ASSUME IInv, left = {}, pc \in {"work", "each"}, pc' \in {"each", "log"},
         UNCHANGED <<planVars, passVars, unfixable, steps, primary, log, unsure>>,
         at' \in Nat \ {0}, landed \subseteq landed', Marked,
         model' \in [Slots -> Value], HoldsIn(model', fixes', primary),
         \A s \in Slots : s \notin Touched /\ s[2] # "Comments" => model'[s] = model[s]
  PROVE  IInv'
  <1>1. /\ TypeOK /\ AnswersItsQuestion /\ MemoBound
        /\ LeftStrictest /\ StrictestWins /\ OnePerWrite /\ NumbersReserved
        /\ FreshNumbers /\ StepsSound /\ ExecutedLanded /\ LogPast /\ LogHolds
    BY DEF IInv
  <1>2. UNCHANGED <<found, left, toWarm, memo, taken, lost, calls, active, pass, seen,
                    families, unfixable, steps, primary, log, unsure>>
    BY DEF planVars, passVars
  <1>3. /\ DOMAIN fixes' = DOMAIN fixes
        /\ \A i \in DOMAIN fixes :
             /\ fixes'[i] \in Fix /\ fixes'[i].value = fixes[i].value
             /\ fixes'[i].about = fixes[i].about
             /\ fixes'[i].executed => fixes[i].executed \/ <<pass, i>> \in landed'
    BY DEF Marked
  <1>4. TypeOK'
    <2>1. WorldTyped'
      BY <1>1, <1>2 DEF TypeOK, WorldTyped, Phases
    <2>2. PlanTyped' /\ FixesTyped'
      BY <1>1, <1>2, <1>3 DEF TypeOK, PlanTyped, FixesTyped
    <2> QED
      BY <2>1, <2>2 DEF TypeOK
  <1>5. Waiting' /\ Unwritten' /\ MemoBound' /\ LogPast'
    BY <1>1, <1>2 DEF Waiting, Unwritten, MemoBound, LogPast
  <1>6. ExecutedLanded'
    BY <1>1, <1>2, <1>3 DEF ExecutedLanded
  <1>7. NumbersReserved' /\ FreshNumbers'
    BY <1>1, <1>2, <1>3, NumbersKept
  <1>8. AnswersItsQuestion' /\ LeftStrictest' /\ StrictestWins' /\ OnePerWrite'
    <2>1. \A j \in DOMAIN fixes' : RightAnswer(j, fixes'[j])
      BY <1>1, <1>3 DEF AnswersItsQuestion, RightAnswer
    <2>2. \A j \in left' : Slot(j) # Null => Strictest(j, Suggestion(j))
      BY <1>1, <1>2 DEF LeftStrictest
    <2>3. \A j \in DOMAIN fixes' :
            RuleAt(j).strategy = "inferred" => Strictest(j, fixes'[j].value)
      BY <1>1, <1>3 DEF StrictestWins, Strictest
    <2>4. OneFor(left', DOMAIN fixes')
      BY <1>1, <1>2, <1>3 DEF OnePerWrite, OneFor
    <2> QED
      BY <1>2, <2>1, <2>2, <2>3, <2>4, Frame
  <1>9. StepsSound' /\ ExecutedHolds'
    <2>1. DOMAIN primary \subseteq DOMAIN fixes
      BY <1>1 DEF TypeOK, FixesTyped
    <2>2. OwnSteps(fixes', steps', primary')
      <3>1. OwnSteps(fixes, steps, primary)
        BY <1>1 DEF StepsSound, OwnSteps
      <3>2. \A i \in DOMAIN primary : fixes'[i].value = fixes[i].value
        BY <1>3, <2>1
      <3>3. OwnSteps(fixes', steps, primary)
        BY <3>1, <3>2 DEF OwnSteps
      <3> QED
        BY <1>2, <3>3
    <2>3. HoldsIn(model', fixes', primary')
      BY <1>2
    <2> QED
      BY <1>2, <2>2, <2>3, Frame
  <1>10. LogHolds'
    <2>1. Touched' = Touched
      BY <1>2, Frame DEF Touched, SlotsOf
    <2> SUFFICES ASSUME NEW w \in log
                 PROVE  \/ model'[w.slot] = w.new
                        \/ w.slot \in Interactions \cup unsure
                        \/ w.slot \in Touched
      BY <1>2, <2>1 DEF LogHolds, Interactions
    <2>2. w.slot \in Slots /\ w.slot[2] # "Comments"
      BY <1>1 DEF LogPast
    <2> QED
      BY <1>1, <2>2 DEF LogHolds
  <1> QED
    BY <1>4, <1>5, <1>6, <1>7, <1>8, <1>9, <1>10 DEF IInv

LEMMA CommitBatchInv ==
  ASSUME IInv, CommitBatch
  PROVE  IInv'
  <1>1. PICK L \in SUBSET DOMAIN steps : \E confirmed \in SUBSET L :
          /\ Landing(L) /\ History(L)
          /\ fixes' = Executed({i \in DOMAIN primary : primary[i] \in confirmed})
    BY DEF CommitBatch
  <1>2. PICK confirmed \in SUBSET L :
          fixes' = Executed({i \in DOMAIN primary : primary[i] \in confirmed})
    BY <1>1
  <1> DEFINE S == {i \in DOMAIN primary : primary[i] \in confirmed}
  <1>3. /\ pc = "work" /\ left = {} /\ pc' = "log" /\ at' = at
        /\ UNCHANGED <<planVars, passVars, unfixable, steps, primary, log, unsure>>
    BY DEF CommitBatch, Ready
  <1>4. FixesTyped /\ StepsSound /\ DOMAIN primary \subseteq DOMAIN fixes
        /\ at \in Nat \ {0}
    BY DEF IInv, TypeOK, FixesTyped, WorldTyped
  <1>5. landed \subseteq landed' /\ \A i \in S : <<pass, i>> \in landed'
    BY <1>1, <1>4 DEF History, StepsSound
  <1>6. /\ DOMAIN fixes' = DOMAIN fixes
        /\ \A i \in DOMAIN fixes :
             /\ fixes'[i] \in Fix
             /\ fixes'[i].value = fixes[i].value
             /\ fixes'[i].about = fixes[i].about
             /\ fixes'[i].executed => fixes[i].executed \/ i \in S
    <2> HIDE DEF S
    <2>1. fixes' = Executed(S)
      BY <1>2 DEF S
    <2> QED
      BY <1>4, <2>1, ExecutedFacts
  <1>7. Marked
    BY <1>5, <1>6 DEF Marked
  <1>8. HoldsIn(model', fixes', primary)
    <2>1. \A i \in DOMAIN primary :
            /\ fixes'[i].value = fixes[i].value
            /\ fixes'[i].executed => fixes[i].executed \/ primary[i] \in L
      BY <1>4, <1>6
    <2> QED
      BY <1>1, <1>3, <2>1, LandingHolds
  <1> QED
    BY <1>1, <1>3, <1>4, <1>5, <1>7, <1>8, LandingFacts, UntouchedStay, CommitInv

\* Nothing is written: the envelope was an error, the agent goes on finding by
\* finding, or is through with that.
LEMMA NoWriteInv ==
  ASSUME IInv, left = {}, pc \in {"work", "each"}, pc' \in {"each", "log"},
         UNCHANGED <<planVars, passVars, fixVars, model, log, landed, unsure>>,
         at' \in Nat \ {0}
  PROVE  IInv'
  <1>1. /\ UNCHANGED <<planVars, passVars, unfixable, steps, primary, log, unsure>>
        /\ fixes' = fixes /\ model' = model /\ landed' = landed
    BY DEF fixVars
  <1>2. Marked
    BY <1>1 DEF Marked, IInv, TypeOK, FixesTyped
  <1>3. model' \in [Slots -> Value]
    BY <1>1 DEF IInv, TypeOK, WorldTyped
  <1>4. HoldsIn(model', fixes', primary)
    BY <1>1, NowHolds
  <1> QED
    BY <1>1, <1>2, <1>3, <1>4, CommitInv

LEMMA NoWriteStepsInv ==
  ASSUME IInv, CommitRejected \/ CommitFallback \/ CommittedAll
  PROVE  IInv'
  <1>1. at \in Nat \ {0} /\ (pc = "each" => left = {})
    BY DEF IInv, TypeOK, WorldTyped, Waiting
  <1>2. CASE CommitRejected
    BY <1>1, <1>2, NoWriteInv DEF CommitRejected, Ready, worldVars
  <1>3. CASE CommitFallback
    BY <1>3, NoWriteInv DEF CommitFallback, Ready
  <1>4. CASE CommittedAll
    BY <1>1, <1>4, NoWriteInv DEF CommittedAll, worldVars
  <1> QED
    BY <1>2, <1>3, <1>4

LEMMA CommitOneInv ==
  ASSUME IInv, CommitOne
  PROVE  IInv'
  <1> DEFINE i == steps[at].check
  <1>1. /\ pc = "each" /\ pc' = "each" /\ at <= Len(steps) /\ at' = at + 1
        /\ Landing({at}) /\ History({at})
        /\ fixes' = IF steps[at].kind = "value" THEN Executed({i}) ELSE fixes
        /\ UNCHANGED <<planVars, passVars, unfixable, steps, primary, log, unsure>>
    BY DEF CommitOne
  <1>2. /\ FixesTyped /\ StepsSound /\ DOMAIN primary \subseteq DOMAIN fixes
        /\ at \in Nat \ {0} /\ left = {}
    BY <1>1 DEF IInv, TypeOK, FixesTyped, WorldTyped, Waiting
  <1>3. at \in DOMAIN steps
    BY <1>1, <1>2 DEF FixesTyped
  <1>4. /\ landed \subseteq landed'
        /\ steps[at].kind = "value" => <<pass, i>> \in landed'
    BY <1>1 DEF History
  <1>5. steps[at].kind = "value" => i \in DOMAIN primary /\ primary[i] = at
    BY <1>2, <1>3 DEF StepsSound
  <1>6. /\ DOMAIN fixes' = DOMAIN fixes
        /\ \A j \in DOMAIN fixes :
             /\ fixes'[j] \in Fix
             /\ fixes'[j].value = fixes[j].value
             /\ fixes'[j].about = fixes[j].about
             /\ fixes'[j].executed => \/ fixes[j].executed
                                      \/ j = i /\ steps[at].kind = "value"
    <2> HIDE DEF i
    <2>1. CASE steps[at].kind = "value"
      <3>1. fixes' = Executed({i})
        BY <1>1, <2>1
      <3>2. \A j : j \in {i} => j = i
        OBVIOUS
      <3> QED
        BY <1>2, <2>1, <3>1, <3>2, ExecutedFacts
    <2>2. CASE steps[at].kind # "value"
      BY <1>1, <1>2, <2>2 DEF FixesTyped
    <2> QED
      BY <2>1, <2>2
  <1>7. Marked
    BY <1>4, <1>6 DEF Marked
  <1>8. HoldsIn(model', fixes', primary)
    <2>1. \A j \in DOMAIN primary :
            /\ fixes'[j].value = fixes[j].value
            /\ fixes'[j].executed => fixes[j].executed \/ primary[j] \in {at}
      BY <1>2, <1>5, <1>6
    <2> QED
      BY <1>1, <1>3, <2>1, LandingHolds
  <1>9. {at} \in SUBSET DOMAIN steps /\ at' \in Nat \ {0}
    BY <1>1, <1>2, <1>3
  <1> QED
    BY <1>1, <1>2, <1>4, <1>7, <1>8, <1>9, LandingFacts, UntouchedStay, CommitInv

LEMMA CommitOneFailsInv ==
  ASSUME IInv, CommitOneFails
  PROVE  IInv'
  <1>1. PICK L \in SUBSET {at} : Landing(L) /\ History(L)
    BY DEF CommitOneFails
  <1>2. /\ pc = "each" /\ pc' = "each" /\ at <= Len(steps) /\ at' = AfterFailure
        /\ UNCHANGED <<planVars, passVars, unfixable, steps, primary, log, unsure>>
        /\ fixes' = fixes
    BY DEF CommitOneFails, fixVars
  <1>3. /\ FixesTyped /\ at \in Nat \ {0} /\ left = {}
    BY <1>2 DEF IInv, TypeOK, WorldTyped, Waiting
  <1>4. L \in SUBSET DOMAIN steps /\ at' \in Nat \ {0}
    BY <1>2, <1>3 DEF FixesTyped, AfterFailure
  <1>5. Marked /\ landed \subseteq landed'
    BY <1>1, <1>2, <1>3 DEF Marked, History, FixesTyped
  <1>6. HoldsIn(model', fixes', primary)
    BY <1>1, <1>2, <1>4, LandingHolds
  <1> QED
    BY <1>1, <1>2, <1>3, <1>4, <1>5, <1>6, LandingFacts, UntouchedStay, CommitInv

-----------------------------------------------------------------------------
\* What was executed is logged.

LEMMA EntryFacts ==
  ASSUME NEW i
  PROVE  /\ Entry(i).pass = pass /\ Entry(i).rule = Pairs[i][1]
         /\ Entry(i).slot = Slot(i) /\ Entry(i).new = fixes[i].value
  BY DEF Entry

\* A slot of the pass that was logged before, or that another rule writes in
\* this pass, can be seen in the log or was not confirmed.
LEMMA SeenOrUnsure ==
  ASSUME IInv, WriteLog, NEW w \in log', NEW j \in DOMAIN primary,
         Slot(j) = w.slot, w.pass # pass \/ w.rule # Pairs[j][1]
  PROVE  w.slot \in (Interactions \cup unsure)'
  <1>1. CASE fixes[j].executed
    <2>1. Entry(j) \in log'
      BY <1>1 DEF WriteLog
    <2>2. /\ Entry(j).slot = w.slot
          /\ Entry(j).rule # w.rule \/ Entry(j).pass # w.pass
      BY EntryFacts
    <2> QED
      BY <2>1, <2>2 DEF Interactions
  <1>2. CASE ~fixes[j].executed
    BY <1>2 DEF WriteLog
  <1> QED
    BY <1>1, <1>2

LEMMA WriteLogInv ==
  ASSUME IInv, WriteLog
  PROVE  IInv'
  <1>1. /\ TypeOK /\ Waiting /\ MemoBound /\ AnswersItsQuestion
        /\ LeftStrictest /\ StrictestWins /\ OnePerWrite /\ NumbersReserved
        /\ FreshNumbers /\ StepsSound /\ ExecutedLanded /\ ExecutedHolds
        /\ LogPast /\ LogHolds
        /\ DOMAIN primary \subseteq DOMAIN fixes /\ DOMAIN fixes \subseteq Checks
        /\ \A n \in DOMAIN families : families[n] \in Families
    BY DEF IInv, TypeOK, FixesTyped, WorldTyped
  <1>2. /\ pc = "log" /\ pc' = "start"
        /\ log' = log \cup {Entry(i) : i \in {i \in DOMAIN primary : fixes[i].executed}}
        /\ UNCHANGED <<found, left, toWarm, memo, taken, lost, calls, active, pass,
                       seen, families, fixes, unfixable, steps, primary, model,
                       landed, at>>
    BY DEF WriteLog, planVars, passVars, fixVars
  <1>3. TypeOK'
    BY <1>1, <1>2 DEF TypeOK, WorldTyped, PlanTyped, FixesTyped, Phases
  <1>4. Waiting' /\ Unwritten' /\ MemoBound' /\ ExecutedLanded' /\ ExecutedHolds'
    BY <1>1, <1>2 DEF Waiting, Unwritten, MemoBound, ExecutedLanded, ExecutedHolds
  <1>5. NumbersReserved' /\ FreshNumbers'
    BY <1>1, <1>2, NumbersKept
  <1>6. AnswersItsQuestion' /\ LeftStrictest' /\ StrictestWins' /\ OnePerWrite'
    <2>1. \A j \in DOMAIN fixes' : RightAnswer(j, fixes'[j])
      BY <1>1, <1>2 DEF AnswersItsQuestion, RightAnswer
    <2>2. \A j \in left' : Slot(j) # Null => Strictest(j, Suggestion(j))
      BY <1>1, <1>2 DEF LeftStrictest
    <2>3. \A j \in DOMAIN fixes' :
            RuleAt(j).strategy = "inferred" => Strictest(j, fixes'[j].value)
      BY <1>1, <1>2 DEF StrictestWins, Strictest
    <2>4. OneFor(left', DOMAIN fixes')
      BY <1>1, <1>2 DEF OnePerWrite, OneFor
    <2> QED
      BY <1>2, <2>1, <2>2, <2>3, <2>4, Frame
  <1>7. StepsSound'
    <2>1. OwnSteps(fixes', steps', primary')
      BY <1>1, <1>2 DEF StepsSound, OwnSteps
    <2> QED
      BY <1>2, <2>1, Frame
  <1>8. \A i \in DOMAIN primary : Slot(i) \in Slots /\ Slot(i)[2] # "Comments"
    <2> TAKE i \in DOMAIN primary
    <2>1. Slot(i) # Null /\ i \in Checks
      BY <1>1 DEF OnePerWrite
    <2> QED
      BY <1>1, <2>1, SlotType
  <1>9. \A w \in log' :
          \/ w \in log
          \/ \E i \in DOMAIN primary : fixes[i].executed /\ w = Entry(i)
    BY <1>2
  <1>10. LogPast'
    <2>1. pass \in Nat
      BY <1>1 DEF TypeOK, WorldTyped
    <2> SUFFICES ASSUME NEW w \in log'
                 PROVE  /\ w.pass \in Nat /\ w.pass <= pass
                        /\ w.slot \in Slots /\ w.slot[2] # "Comments"
      BY <1>2 DEF LogPast
    <2>2. CASE w \in log
      BY <1>1, <2>2 DEF LogPast
    <2>3. ASSUME NEW i \in DOMAIN primary, w = Entry(i)
          PROVE  /\ w.pass \in Nat /\ w.pass <= pass
                 /\ w.slot \in Slots /\ w.slot[2] # "Comments"
      BY <1>8, <2>1, <2>3, EntryFacts
    <2> QED
      BY <1>9, <2>2, <2>3
  <1>11. LogHolds'
    <2> SUFFICES ASSUME NEW w \in log'
                 PROVE  \/ model[w.slot] = w.new
                        \/ w.slot \in (Interactions \cup unsure)'
      BY <1>2 DEF LogHolds
    <2>1. CASE w \in log
      <3>1. CASE w.slot \in Interactions \cup unsure
        <4>1. log \subseteq log' /\ unsure \subseteq unsure'
          BY DEF WriteLog
        <4> QED
          BY <3>1, <4>1 DEF Interactions
      <3>2. CASE w.slot \in Touched
        <4>1. PICK j \in DOMAIN primary : Slot(j) = w.slot
          BY <3>2 DEF Touched
        <4>2. w.pass # pass
          <5>1. w.pass \in Nat /\ w.pass < pass /\ pass \in Nat
            BY <1>1, <1>2, <2>1 DEF LogPast, TypeOK, WorldTyped
          <5> QED
            BY <5>1
        <4> QED
          BY <4>1, <4>2, SeenOrUnsure
      <3> QED
        BY <1>1, <2>1, <3>1, <3>2 DEF LogHolds
    <2>2. ASSUME NEW i \in DOMAIN primary, fixes[i].executed, w = Entry(i)
          PROVE  \/ model[w.slot] = w.new
                 \/ w.slot \in (Interactions \cup unsure)'
      <3>1. w.slot = Slot(i) /\ w.rule = Pairs[i][1] /\ w.new = fixes[i].value
        BY <2>2, EntryFacts
      <3>2. ASSUME NEW j \in DOMAIN primary, j # i, Slot(j) = Slot(i)
            PROVE  w.slot \in (Interactions \cup unsure)'
        <4>1. Pairs[j][1] # Pairs[i][1]
          BY <1>1, <3>2 DEF OnePerWrite, SameWrite
        <4> QED
          BY <3>1, <3>2, <4>1, SeenOrUnsure
      <3> QED
        BY <1>1, <1>2, <2>2, <3>1, <3>2 DEF ExecutedHolds
    <2> QED
      BY <1>9, <2>1, <2>2
  <1> QED
    BY <1>3, <1>4, <1>5, <1>6, <1>7, <1>10, <1>11 DEF IInv

-----------------------------------------------------------------------------
\* The theorems.

LEMMA InitInv == Init => IInv
  <1> SUFFICES ASSUME Init PROVE IInv
    OBVIOUS
  <1>1. PICK s \in Scenarios : active = s.on /\ model = s.model
    BY DEF Init
  <1>2. active \subseteq Rules /\ model \in [Slots -> Value]
    <2>1. s \in [on : SUBSET Rules, model : [Slots -> Value]]
      BY ConstantsAssumption
    <2> QED
      BY <1>1, <2>1
  <1>3. /\ pc = "start" /\ pass = 0 /\ seen = model /\ families = Nothing
        /\ found = {} /\ left = {} /\ toWarm = {} /\ memo = Nothing
        /\ taken = Nothing /\ lost = {} /\ calls = 0 /\ fixes = Nothing
        /\ unfixable = {} /\ steps = <<>> /\ primary = Nothing /\ at = 1
        /\ log = {}
    BY DEF Init
  <1>4. DOMAIN Nothing = {}
    BY DEF Nothing
  <1>5. MaxPasses \in Nat /\ Budget \in Nat
    BY ConstantsAssumption
  <1>6. WorldTyped
    BY <1>2, <1>3, <1>4, <1>5 DEF WorldTyped, Phases
  <1>7. PlanTyped /\ FixesTyped
    BY <1>3, <1>4, <1>5 DEF PlanTyped, FixesTyped
  <1>8. /\ Waiting /\ Unwritten /\ MemoBound /\ AnswersItsQuestion /\ LeftStrictest
        /\ StrictestWins /\ ExecutedLanded /\ StepsSound /\ ExecutedHolds
        /\ LogPast /\ LogHolds
    BY <1>3, <1>4 DEF Waiting, Unwritten, MemoBound, AnswersItsQuestion,
       LeftStrictest, StrictestWins, ExecutedLanded, StepsSound, ExecutedHolds,
       LogPast, LogHolds
  <1>9. OnePerWrite /\ NumbersReserved /\ FreshNumbers
    BY <1>3, <1>4 DEF OnePerWrite, NumbersReserved, FreshNumbers, Renumbered
  <1> QED
    BY <1>6, <1>7, <1>8, <1>9 DEF IInv, TypeOK

LEMMA StutterInv ==
  ASSUME IInv, UNCHANGED vars
  PROVE  IInv'
  <1>1. /\ UNCHANGED <<pc, found, left, taken, lost, fixVars, passVars, worldVars>>
        /\ UNCHANGED <<toWarm, memo, calls>>
    BY DEF vars, planVars
  <1>2. PlanTyped' /\ MemoBound'
    BY <1>1 DEF IInv, TypeOK, PlanTyped, MemoBound
  <1> QED
    BY <1>1, <1>2, MemoStep

\* The inductive invariant holds in every state of the design agent.
THEOREM FixPlanInvariance == Spec => []IInv
  <1>1. Init => IInv
    BY InitInv
  <1>2. IInv /\ [Next]_vars => IInv'
    <2> SUFFICES ASSUME IInv, [Next]_vars PROVE IInv'
      OBVIOUS
    <2>1. CASE StartPass
      BY <2>1, StartPassInv
    <2>2. CASE Collect
      BY <2>2, CollectInv
    <2>3. ASSUME NEW r \in Rules, WarmBatch(r) \/ WarmFails(r) PROVE IInv'
      BY <2>3, WarmBatchInv, WarmFailsInv
    <2>4. ASSUME NEW i \in Checks,
                 Unresolved(i) \/ Compute(i) \/ Recall(i) \/ Ask(i) \/ Renumber(i)
          PROVE  IInv'
      BY <2>4, UnresolvedInv, ComputeInv, RecallInv, AskInv, RenumberInv
    <2>5. CASE CommitBatch
      BY <2>5, CommitBatchInv
    <2>6. CASE CommitRejected \/ CommitFallback \/ CommittedAll
      BY <2>6, NoWriteStepsInv
    <2>7. CASE CommitOne
      BY <2>7, CommitOneInv
    <2>8. CASE CommitOneFails
      BY <2>8, CommitOneFailsInv
    <2>9. CASE WriteLog
      BY <2>9, WriteLogInv
    <2>10. CASE UNCHANGED vars
      BY <2>10, StutterInv
    <2> QED
      BY <2>1, <2>2, <2>3, <2>4, <2>5, <2>6, <2>7, <2>8, <2>9, <2>10 DEF Next
  <1> QED
    BY <1>1, <1>2, PTL DEF Spec

\* What the design agent keeps over a pass and over the run has its shape;
\* the findings to prepare are among those found, and the calls to the
\* language model stay within the budget.
THEOREM FixPlanTypeCorrect == Spec => []TypeOK
  <1>1. IInv => TypeOK
    BY DEF IInv
  <1> QED
    BY <1>1, FixPlanInvariance, PTL

\* No value of the language model is proposed that the rule rejects at its
\* element, or that answers a question about another value: _echo_matches,
\* the memo's key and its second judgement of what is remembered see to it.
THEOREM ModelValuesAnswer == Spec => []AnswersItsQuestion
  <1>1. IInv => AnswersItsQuestion
    BY DEF IInv
  <1> QED
    BY <1>1, FixPlanInvariance, PTL

\* Where one write mends several findings about a rating, no finding asked
\* for more than what is written: _collapse_to_one.
THEOREM RatingsStrictest == Spec => []StrictestWins
  <1>1. IInv => StrictestWins
    BY DEF IInv
  <1> QED
    BY <1>1, FixPlanInvariance, PTL

\* A number is proposed once, and none of the elements that the rule is
\* compared with bears it, unless its read failed: _next_available and its
\* cache of taken values.
THEOREM NumbersFresh == Spec => []FreshNumbers
  <1>1. IInv => FreshNumbers
    BY DEF IInv
  <1> QED
    BY <1>1, FixPlanInvariance, PTL

\* A proposed value answers its question, is strict enough and not taken.
THEOREM ValuesRight == Spec => []ValuesAreRight
  BY ModelValuesAnswer, RatingsStrictest, NumbersFresh, PTL
     DEF ValuesAreRight

\* An executed fix reached the model, and the log is true of the model until
\* the log itself shows a second write or a write was not confirmed:
\* _commit_revit_batch, _commit_per_element and fix_write_log.
THEOREM ExecutionTrue == Spec => []ExecutedIsTrue
  <1>1. IInv => ExecutedIsTrue
    <2> SUFFICES ASSUME IInv PROVE ExecutedIsTrue
      OBVIOUS
    <2> QED
      BY DEF IInv, ExecutedLanded, LogHolds, ExecutedIsTrue
  <1> QED
    BY <1>1, FixPlanInvariance, PTL

-----------------------------------------------------------------------------
\* Numbers are stable.  A pass numbers the findings of a key (a category and a
\* parameter) one after the other, and each number depends on those before it.
\* That two passes agree would be an induction over the findings; instead, any
\* numbering that was reached is a Plan, a function that satisfies the
\* recursion of _next_available, and two plans for the same values differ
\* nowhere, because they would have to differ somewhere first.  The operators
\* take the values s that a pass was given, so that they can be those of the
\* pass before.

Numbered(k) == {i \in Checks : /\ RuleAt(i).strategy = "next_available"
                               /\ NumberKey(Pairs[i][1]) = k}
Keys == {NumberKey(r) : r \in Rules}

AcceptsAt(s, i, v) ==
  /\ v \in Fits[Pairs[i][1]][ElementAt(i)]
  /\ RuleAt(i).unique =>
       v \notin {s[<<e, Param[i]>>] :
                   e \in {e \in Loaded \ {ElementAt(i)} :
                            InScope(Pairs[i][1], e)}}
FoundAt(s, i) ==
  /\ Pairs[i][1] \in active
  /\ ~AcceptsAt(s, i, s[Home[i]])
  /\ s[Home[i]] = Null => Suggestion(i) # Null
Todo(s, k) ==
  {i \in Numbered(k) :
     FoundAt(s, i) /\ \A j \in Checks : Pairs[j] = Pairs[i] => i <= j}
Order(s, i) == IF s[Home[i]] = Null THEN i + Len(Pairs) ELSE i
Base(s, i) == IF s[Home[i]] = Null THEN Suggestion(i) ELSE s[Home[i]]
InUseAt(s, k) ==
  (IF k[1] \in {"Rooms", Null}
   THEN {s[<<e, k[2]>>] : e \in {e \in Elements : CategoryOf[e] = "Rooms"}}
   ELSE {s[<<e, k[2]>>] : e \in {e \in Loaded : CategoryOf[e] = k[1]}}) \ {Null}

Earlier(s, D, i) == {j \in D : Order(s, j) < Order(s, i)}
Numbers(g, D) == {g[j] : j \in D} \ {Null}
Plan(s, k, D, g) ==
  \A i \in D :
    g[i] = NextAvailable(Base(s, i),
                         InUseAt(s, k) \cup Numbers(g, Earlier(s, D, i)))

\* The findings D of a pass that was given s are numbered by g.
Agrees(s, k, D, g, fx) ==
  /\ Plan(s, k, D, g)
  /\ \A i \in DOMAIN fx : i \in Numbered(k) => i \in D /\ fx[i].value = g[i]

LEMMA NumberedFacts ==
  ASSUME NEW k, NEW i \in Numbered(k)
  PROVE  /\ i \in Checks /\ Pairs[i][1] \in Rules /\ k \in Keys
         /\ k[1] = RuleAt(i).category /\ k[2] = RuleAt(i).param
         /\ Owner[i] = ElementAt(i) /\ Param[i] = k[2]
         /\ Home[i] = <<ElementAt(i), k[2]>> /\ Owner[i] # Null
         /\ Slot(i) = Home[i] /\ Home[i] # Null /\ Home[i] \in Slots
         /\ ElementAt(i) \in Elements /\ ElementAt(i) \in Owners
  <1>1. /\ i \in Checks /\ RuleAt(i).strategy = "next_available"
        /\ NumberKey(Pairs[i][1]) = k
    BY DEF Numbered
  <1>2. /\ Pairs[i][1] \in Rules /\ ElementAt(i) \in Elements
        /\ ElementAt(i) \in Owners
    BY <1>1, CheckTypes DEF Owners
  <1>3. RuleAt(i).target = "instance" /\ RuleAt(i).param # "Type Name"
    BY <1>1, <1>2, ConstantsAssumption DEF RuleAt
  <1>4. /\ k = <<RuleAt(i).category, RuleAt(i).param>> /\ k \in Keys
    BY <1>1, <1>2 DEF NumberKey, RuleAt, Keys
  <1>5. Target[i] = "instance"
    BY <1>1, <1>3 DEF Target
  <1>6. Owner[i] = ElementAt(i) /\ Param[i] = RuleAt(i).param
    BY <1>1, <1>3, <1>5 DEF Owner, Param
  <1>7. Home[i] = <<ElementAt(i), RuleAt(i).param>>
    BY <1>1, <1>6 DEF Home
  <1>8. Owner[i] # Null
    <2>1. Null \notin Values \cup Owners \cup Slots
      BY ConstantsAssumption
    <2> QED
      BY <1>2, <1>6, <2>1
  <1>9. Home[i] \in Slots
    BY <1>1, <1>8, HomeTypes
  <1>10. Home[i] # Null
    BY <1>9, ConstantsAssumption
  <1>11. Slot(i) = Home[i]
    BY <1>5, <1>8 DEF Slot
  <1> QED
    BY <1>1, <1>2, <1>4, <1>6, <1>7, <1>8, <1>9, <1>10, <1>11

\* Findings come one after the other.
LEMMA OrderFacts ==
  ASSUME NEW s
  PROVE  /\ \A i \in Checks : Order(s, i) \in 1 .. Len(Pairs) + Len(Pairs)
         /\ \A i, j \in Checks : Order(s, i) = Order(s, j) => i = j
  <1>1. \A i \in Checks : i \in 1 .. Len(Pairs) /\ Len(Pairs) \in Nat
    BY CheckTypes
  <1> QED
    BY <1>1 DEF Order

\* D holds what comes before any of its findings.
Initial(s, D, E) ==
  \A i \in D, j \in E : Order(s, j) < Order(s, i) => j \in D

\* Two numberings from the same values agree where both have numbered.
LEMMA PlansAgree ==
  ASSUME NEW s, NEW k, NEW E, E \subseteq Checks, NEW D, D \subseteq E,
         Initial(s, D, E), NEW g, NEW h, Plan(s, k, D, g), Plan(s, k, E, h)
  PROVE  \A i \in D : g[i] = h[i]
  <1> SUFFICES ASSUME NEW a \in D, g[a] # h[a] PROVE FALSE
    OBVIOUS
  <1> DEFINE n == Len(Pairs) + Len(Pairs)
             differ == {i \in D : g[i] # h[i]}
             T == {Order(s, i) : i \in differ}
  <1>1. n \in Nat /\ T \in SUBSET (1 .. n) /\ T # {}
    <2>1. a \in Checks
      OBVIOUS
    <2>2. n \in Nat
      BY <2>1, CheckTypes
    <2> QED
      BY <2>2, OrderFacts
  <1>2. PICK t \in T : \A u \in T : t <= u
    <2> HIDE DEF T, n
    <2> QED
      BY <1>1, LeastExists
  <1>3. PICK i \in differ : \A j \in differ : Order(s, i) <= Order(s, j)
    BY <1>2
  <1>4. Earlier(s, D, i) = Earlier(s, E, i)
    BY DEF Earlier, Initial
  <1>5. \A j \in Earlier(s, D, i) : g[j] = h[j]
    <2> SUFFICES ASSUME NEW j \in D, Order(s, j) < Order(s, i), g[j] # h[j]
        PROVE  FALSE
      BY DEF Earlier
    <2>1. Order(s, i) <= Order(s, j)
      BY <1>3
    <2>2. Order(s, i) \in Nat /\ Order(s, j) \in Nat
      BY OrderFacts
    <2> QED
      BY <2>1, <2>2
  <1>6. Numbers(g, Earlier(s, D, i)) = Numbers(h, Earlier(s, E, i))
    BY <1>4, <1>5 DEF Numbers
  <1> QED
    BY <1>3, <1>6 DEF Plan

\* What a plan is made of depends on the values of its parameter only.
LEMMA SameValues ==
  ASSUME NEW s, NEW t, NEW k,
         \A e \in Elements : s[<<e, k[2]>>] = t[<<e, k[2]>>]
  PROVE  /\ Todo(s, k) = Todo(t, k) /\ InUseAt(s, k) = InUseAt(t, k)
         /\ \A i \in Numbered(k) : /\ Order(s, i) = Order(t, i)
                                   /\ Base(s, i) = Base(t, i)
         /\ \A D, g : D \subseteq Numbered(k) =>
              (Plan(s, k, D, g) <=> Plan(t, k, D, g))
  <1>1. ASSUME NEW i \in Numbered(k) PROVE s[Home[i]] = t[Home[i]]
    <2>1. Home[i] = <<ElementAt(i), k[2]>> /\ ElementAt(i) \in Elements
      BY NumberedFacts
    <2> QED
      BY <2>1
  <1>2. \A i \in Numbered(k) : /\ Order(s, i) = Order(t, i)
                               /\ Base(s, i) = Base(t, i)
    BY <1>1 DEF Order, Base
  <1>3. InUseAt(s, k) = InUseAt(t, k)
    <2>1. Loaded \subseteq Elements
      BY ConstantsAssumption
    <2> QED
      BY <2>1 DEF InUseAt
  <1>4. ASSUME NEW i \in Numbered(k) PROVE FoundAt(s, i) <=> FoundAt(t, i)
    <2>1. Param[i] = k[2] /\ s[Home[i]] = t[Home[i]]
      BY <1>1, NumberedFacts
    <2>2. \A e \in Loaded \ {ElementAt(i)} : s[<<e, Param[i]>>] = t[<<e, Param[i]>>]
      BY <2>1, ConstantsAssumption
    <2>3. {s[<<e, Param[i]>>] : e \in {e \in Loaded \ {ElementAt(i)} :
                                         InScope(Pairs[i][1], e)}}
            = {t[<<e, Param[i]>>] : e \in {e \in Loaded \ {ElementAt(i)} :
                                             InScope(Pairs[i][1], e)}}
      BY <2>2
    <2> QED
      BY <2>1, <2>3 DEF FoundAt, AcceptsAt
  <1>5. Todo(s, k) = Todo(t, k)
    BY <1>4 DEF Todo
  <1>6. ASSUME NEW D, NEW g, D \subseteq Numbered(k)
        PROVE  Plan(s, k, D, g) <=> Plan(t, k, D, g)
    <2>1. \A i \in D : Earlier(s, D, i) = Earlier(t, D, i)
      BY <1>2, <1>6 DEF Earlier
    <2> QED
      BY <1>2, <1>3, <1>6, <2>1 DEF Plan
  <1> QED
    BY <1>2, <1>3, <1>5, <1>6

Twins(i) == {j \in Checks : Pairs[j] = Pairs[i]}

LEMMA NumberedNow ==
  ASSUME NEW k, NEW i \in Numbered(k)
  PROVE  /\ Current(i) = seen[Home[i]] /\ Rank(i) = Order(seen, i)
         /\ Found(i) <=> FoundAt(seen, i)
         /\ Base(seen, i) = IF Current(i) = Null THEN Suggestion(i) ELSE Current(i)
  <1>1. Current(i) = seen[Home[i]]
    BY NumberedFacts DEF Current
  <1>2. \A v : Accepts(i, v) <=> AcceptsAt(seen, i, v)
    BY DEF Accepts, AcceptsAt, Siblings
  <1> QED
    BY <1>1, <1>2 DEF Rank, Order, Base, Found, FoundAt

\* The findings of one element and rule are alike, and the first stands for
\* them.
LEMMA TwinsAlike ==
  ASSUME NEW k, NEW i \in Numbered(k), NEW j \in Twins(i)
  PROVE  /\ j \in Numbered(k) /\ Home[j] = Home[i]
         /\ Suggestion(j) = Suggestion(i) /\ Current(j) = Current(i)
         /\ Found(j) <=> Found(i)
         /\ Rank(j) = IF Current(i) = Null THEN j + Len(Pairs) ELSE j
  <1>1. j \in Checks /\ Pairs[j] = Pairs[i]
    BY DEF Twins
  <1>2. /\ RuleAt(j) = RuleAt(i) /\ ElementAt(j) = ElementAt(i)
        /\ Suggestion(j) = Suggestion(i)
    BY <1>1 DEF RuleAt, ElementAt, Suggestion
  <1>3. j \in Numbered(k)
    BY <1>1, <1>2 DEF Numbered
  <1>4. Home[j] = Home[i] /\ Param[j] = Param[i]
    BY <1>2, <1>3, NumberedFacts
  <1>5. Current(j) = Current(i)
    BY <1>3, <1>4, NumberedNow
  <1>6. \A v : Accepts(j, v) <=> Accepts(i, v)
    BY <1>1, <1>2, <1>4 DEF Accepts, Siblings
  <1> QED
    BY <1>1, <1>2, <1>3, <1>4, <1>5, <1>6 DEF Found, Rank

LEMMA GroupIsTwins ==
  ASSUME NEW k, NEW i \in Numbered(k), i \in PathB
  PROVE  Group(PathB, i) = Twins(i)
  <1>1. Slot(i) # Null /\ Slot(i) = <<ElementAt(i), k[2]>>
    BY NumberedFacts
  <1>2. ASSUME NEW j \in PathB, Pairs[j][1] = Pairs[i][1], Slot(j) = Slot(i)
        PROVE  j \in Twins(i)
    <2>1. j \in Checks
      BY DEF PathB
    <2>2. j \in Numbered(k)
      BY <1>2, <2>1 DEF Numbered, RuleAt
    <2>3. ElementAt(j) = ElementAt(i)
      BY <1>1, <1>2, <2>2, NumberedFacts
    <2>4. Pairs[j] = <<Pairs[j][1], Pairs[j][2]>> /\ Pairs[i] = <<Pairs[i][1], Pairs[i][2]>>
      <3>1. Pairs \in Seq(Rules \X Loaded)
        BY ConstantsAssumption
      <3>2. i \in DOMAIN Pairs /\ j \in DOMAIN Pairs
        BY <2>1, NumberedFacts DEF Checks
      <3> QED
        BY <3>1, <3>2
    <2> QED
      BY <1>2, <2>1, <2>3, <2>4 DEF Twins, ElementAt
  <1>3. ASSUME NEW j \in Twins(i)
        PROVE  j \in PathB /\ Pairs[j][1] = Pairs[i][1] /\ Slot(j) = Slot(i)
    <2>1. j \in Checks /\ Pairs[j] = Pairs[i]
      BY DEF Twins
    <2>2. j \in Numbered(k) /\ Home[j] = Home[i] /\ Found(j)
      BY TwinsAlike DEF PathB
    <2>3. Slot(j) = Slot(i)
      BY <2>2, NumberedFacts
    <2> QED
      BY <2>1, <2>2, <2>3 DEF PathB
  <1> QED
    BY <1>1, <1>2, <1>3 DEF Group

LEMMA FirstOfTwins ==
  ASSUME NEW k, NEW i \in Numbered(k), i \in PathB
  PROVE  LET f == First(Group(PathB, i))
         IN  /\ Chosen(Group(PathB, i)) = f /\ f \in Twins(i)
             /\ \A j \in Twins(i) : f <= j
  <1> DEFINE f == First(Twins(i))
  <1>1. Group(PathB, i) = Twins(i)
    BY GroupIsTwins
  <1>2. i \in Twins(i) /\ Twins(i) \subseteq Checks
    BY NumberedFacts DEF Twins
  <1>3. Agreed(Twins(i))
    BY TwinsAlike DEF Agreed
  <1>4. f \in Twins(i) /\ \A j \in Twins(i) : Rank(f) <= Rank(j)
    BY <1>2, FirstMember
  <1>5. \A j \in Twins(i) : f <= j
    <2> TAKE j \in Twins(i)
    <2>1. j \in Nat /\ f \in Nat /\ Len(Pairs) \in Nat
      BY <1>2, <1>4, CheckTypes
    <2>2. /\ Rank(j) = IF Current(i) = Null THEN j + Len(Pairs) ELSE j
          /\ Rank(f) = IF Current(i) = Null THEN f + Len(Pairs) ELSE f
          /\ Rank(f) <= Rank(j)
      BY <1>4, TwinsAlike
    <2> HIDE DEF f
    <2> QED
      BY <2>1, <2>2
  <1>6. Chosen(Twins(i)) = f
    BY <1>3 DEF Chosen
  <1> QED
    BY <1>1, <1>4, <1>5, <1>6

\* What is collected of a key is what is to do of it.
LEMMA CollectedIsTodo ==
  ASSUME NEW k, NEW i \in Numbered(k)
  PROVE  i \in {Chosen(Group(PathB, j)) : j \in PathB} <=> i \in Todo(seen, k)
  <1>1. ASSUME NEW j \in PathB, i = Chosen(Group(PathB, j))
        PROVE  i \in Todo(seen, k)
    <2>1. Group(PathB, j) \subseteq Checks /\ j \in Group(PathB, j)
      BY DEF Group, PathB
    <2>2. i \in Group(PathB, j)
      BY <1>1, <2>1, ChosenStrictest
    <2>3. Pairs[i][1] = Pairs[j][1]
      BY <2>2 DEF Group
    <2>4. j \in Numbered(k)
      BY <2>3 DEF Numbered, RuleAt, PathB
    <2>5. i \in Twins(j) /\ \A l \in Twins(j) : i <= l
      BY <1>1, <2>4, FirstOfTwins
    <2>6. Found(i)
      BY <2>4, <2>5, TwinsAlike DEF PathB
    <2> QED
      BY <2>5, <2>6, NumberedNow DEF Todo, Twins
  <1>2. ASSUME i \in Todo(seen, k)
        PROVE  i \in {Chosen(Group(PathB, j)) : j \in PathB}
    <2>1. i \in PathB /\ \A j \in Twins(i) : i <= j
      BY <1>2, NumberedNow, NumberedFacts DEF Todo, PathB, Twins
    <2>2. i = Chosen(Group(PathB, i))
      <3> DEFINE f == First(Group(PathB, i))
      <3>1. /\ Chosen(Group(PathB, i)) = f /\ f \in Twins(i)
            /\ \A j \in Twins(i) : f <= j
        BY <2>1, FirstOfTwins
      <3>2. i \in Twins(i) /\ i \in Nat /\ f \in Nat
        BY <3>1, NumberedFacts, CheckTypes DEF Twins
      <3>3. i <= f /\ f <= i
        BY <2>1, <3>1, <3>2
      <3> HIDE DEF f
      <3> QED
        BY <3>1, <3>2, <3>3
    <2> QED
      BY <2>1, <2>2
  <1> QED
    BY <1>1, <1>2

\* The next finding is the first of its key that is left.
LEMMA UpcomingIsFirst ==
  ASSUME NEW k, left \subseteq PathB, left # {},
         NEW i \in Numbered(k), i \in Todo(seen, k), i = Upcoming,
         NEW j \in Numbered(k), j \in left, j \in Todo(seen, k), j # i,
         found = PathB
  PROVE  Order(seen, i) < Order(seen, j)
  <1> DEFINE R(x) == Rank(First(Group(found, x)))
             n == Len(Pairs) + Len(Pairs)
             T == {R(x) : x \in left}
  <1>1. \A x \in left : R(x) \in 1 .. n /\ n \in Nat
    <2> TAKE x \in left
    <2>1. Group(found, x) \subseteq Checks /\ Group(found, x) # {}
      BY DEF Group, PathB
    <2>2. First(Group(found, x)) \in Checks
      BY <2>1, FirstMember
    <2>3. First(Group(found, x)) \in 1 .. Len(Pairs) /\ Len(Pairs) \in Nat
      BY <2>2, CheckTypes
    <2> QED
      BY <2>3 DEF Rank
  <1>2. \E x \in left : \A y \in left : R(x) <= R(y)
    <2>1. T \in SUBSET (1 .. n) /\ T # {} /\ n \in Nat
      BY <1>1
    <2>2. \E t \in T : \A u \in T : t <= u
      <3> HIDE DEF T, n
      <3> QED
        BY <2>1, LeastExists
    <2> QED
      BY <2>2
  <1>3. R(i) <= R(j)
    BY <1>2 DEF Upcoming
  <1>4. ASSUME NEW x \in Numbered(k), x \in Todo(seen, k) PROVE R(x) = Order(seen, x)
    <2>1. x \in PathB /\ \A y \in Twins(x) : x <= y
      BY <1>4, NumberedNow, NumberedFacts DEF Todo, PathB, Twins
    <2>2. First(Group(found, x)) = x
      <3> DEFINE f == First(Group(PathB, x))
      <3>1. f \in Twins(x) /\ \A y \in Twins(x) : f <= y
        BY <2>1, FirstOfTwins
      <3>2. x \in Twins(x) /\ x \in Nat /\ f \in Nat
        BY <3>1, NumberedFacts, CheckTypes DEF Twins
      <3>3. x <= f /\ f <= x
        BY <2>1, <3>1, <3>2
      <3> HIDE DEF f
      <3> QED
        BY <3>2, <3>3 DEF f
    <2> QED
      BY <2>2, NumberedNow
  <1>5. Order(seen, i) <= Order(seen, j)
    BY <1>3, <1>4
  <1>6. /\ Order(seen, i) # Order(seen, j)
        /\ Order(seen, i) \in Nat /\ Order(seen, j) \in Nat
    BY OrderFacts, NumberedFacts
  <1> QED
    BY <1>5, <1>6

\* What is left of a key is to do, and comes after what is done.
QueueOf(k) ==
  /\ \A i \in left : i \in Numbered(k) => i \in Todo(seen, k)
  /\ \A i \in left, j \in Todo(seen, k) \ left :
       i \in Numbered(k) => Order(seen, j) < Order(seen, i)
QueueSound ==
  /\ pc = "work" => found = PathB /\ \A k \in Keys : QueueOf(k)
  /\ pc = "collect" => taken = Nothing /\ lost = {}
  /\ pass = 0 => pc = "start" /\ DOMAIN fixes = {}

\* The numbers of a pass follow a plan, and so did those of the pass before.
NumberedBy(g, k) ==
  LET D == Todo(seen, k) \ left
  IN  /\ Agrees(seen, k, D, g, fixes)
      /\ k \in DOMAIN taken => taken[k] = InUseAt(seen, k) \cup Numbers(g, D)
      /\ k \notin DOMAIN taken => D = {}
NumbersPlanned ==
  lost = {} /\ pass # 0 /\ pc # "collect" =>
    \A k \in Keys : \E g : NumberedBy(g, k)
BeforePlanned ==
  before.lost = {} /\ DOMAIN before.fixes # {} =>
    \A k \in Keys : \E g :
      Agrees(before.seen, k, Todo(before.seen, k), g, before.fixes)

NInv == QueueSound /\ NumbersPlanned /\ BeforePlanned

LEMMA FrameTodo ==
  ASSUME active' = active
  PROVE  /\ \A s, k : Todo(s, k)' = Todo(s, k)
         /\ before' = before => (BeforePlanned => BeforePlanned')
         /\ seen' = seen => /\ PathB' = PathB
                            /\ \A k : Todo(seen, k)' = Todo(seen, k)
  <1>1. \A s, i : FoundAt(s, i)' <=> FoundAt(s, i)
    BY DEF FoundAt
  <1>2. \A s, k : Todo(s, k)' = Todo(s, k)
    BY DEF Todo, FoundAt
  <1>3. before' = before => (BeforePlanned => BeforePlanned')
    BY DEF BeforePlanned, Todo, FoundAt
  <1>4. seen' = seen => PathB' = PathB
    BY DEF PathB, Found, Accepts, Siblings, Current
  <1>5. seen' = seen => \A k : Todo(seen, k)' = Todo(seen, k)
    BY DEF Todo, FoundAt
  <1> QED
    BY <1>2, <1>3, <1>4, <1>5

\* Findings that have no numbers come and go.
LEMMA OthersKeepNumbers ==
  ASSUME NInv, UNCHANGED <<seen, active, lost, taken, pass, before, found>>,
         pc # "collect", pc' # "collect", pc' = "work" => pc = "work",
         pass = 0 => pc' = "start",
         left' \subseteq left,
         \A i \in left : RuleAt(i).strategy = "next_available" => i \in left',
         \A i \in DOMAIN fixes' :
           RuleAt(i).strategy = "next_available" =>
             i \in DOMAIN fixes /\ fixes'[i].value = fixes[i].value,
         pass = 0 => DOMAIN fixes' = {}
  PROVE  NInv'
  <1>1. \A k : Todo(seen, k)' = Todo(seen, k) /\ PathB' = PathB
    BY FrameTodo
  <1>2. \A k : Todo(seen, k) \ left' = Todo(seen, k) \ left
    BY DEF Todo, Numbered
  <1>3. ASSUME NEW k, QueueOf(k) PROVE QueueOf(k)'
    BY <1>1, <1>2, <1>3 DEF QueueOf
  <1>4. QueueSound'
    BY <1>1, <1>3 DEF NInv, QueueSound
  <1>5. ASSUME NEW k, NEW g, NumberedBy(g, k) PROVE NumberedBy(g, k)'
    <2>1. Agrees(seen, k, Todo(seen, k) \ left, g, fixes')
      BY <1>5 DEF NumberedBy, Agrees, Numbered
    <2> QED
      BY <1>1, <1>2, <1>5, <2>1 DEF NumberedBy
  <1>6. NumbersPlanned'
    BY <1>5 DEF NInv, NumbersPlanned
  <1>7. BeforePlanned'
    BY FrameTodo DEF NInv
  <1> QED
    BY <1>4, <1>6, <1>7 DEF NInv

LEMMA StartKeepsNumbers ==
  ASSUME IInv, NInv, StartPass PROVE NInv'
  <1>1. /\ pc = "start" /\ pc' = "collect" /\ pass' = pass + 1 /\ active' = active
        /\ before' = [seen |-> seen, fixes |-> fixes, lost |-> lost]
        /\ lost' = {} /\ taken' = Nothing
    BY DEF StartPass, Forget
  <1>2. left = {} /\ pass \in Nat
    BY <1>1 DEF IInv, Waiting, TypeOK, WorldTyped
  <1>3. QueueSound'
    BY <1>1, <1>2 DEF QueueSound
  <1>4. NumbersPlanned'
    BY <1>1 DEF NumbersPlanned
  <1>5. BeforePlanned'
    <2> SUFFICES ASSUME lost = {}, DOMAIN fixes # {}, NEW k \in Keys
        PROVE  \E g : Agrees(seen, k, Todo(seen, k), g, fixes)
      <3>1. /\ before'.seen = seen /\ before'.fixes = fixes /\ before'.lost = lost
        BY <1>1
      <3>2. \A k : Todo(before.seen, k)' = Todo(seen, k)
        BY <1>1, <3>1 DEF Todo, FoundAt
      <3> QED
        BY <3>1, <3>2 DEF BeforePlanned
    <2>1. pass # 0
      BY DEF NInv, QueueSound
    <2>2. PICK g : NumberedBy(g, k)
      BY <1>1, <2>1 DEF NInv, NumbersPlanned
    <2>3. Todo(seen, k) \ left = Todo(seen, k)
      BY <1>2
    <2>4. Agrees(seen, k, Todo(seen, k) \ left, g, fixes)
      BY <2>2 DEF NumberedBy
    <2> QED
      BY <2>3, <2>4
  <1> QED
    BY <1>3, <1>4, <1>5 DEF NInv

LEMMA CollectKeepsNumbers ==
  ASSUME IInv, NInv, Collect PROVE NInv'
  <1>1. /\ pc = "collect" /\ pc' = "work" /\ found' = PathB
        /\ left' = {Chosen(Group(PathB, i)) : i \in PathB}
        /\ seen' = seen /\ active' = active /\ pass' = pass /\ before' = before
        /\ taken' = taken /\ lost' = lost /\ fixes' = fixes
    BY DEF Collect, passVars, fixVars
  <1>2. taken' = Nothing /\ DOMAIN fixes' = {} /\ pass' # 0
    BY <1>1 DEF NInv, QueueSound, IInv, Waiting
  <1>3. \A k : Todo(seen, k)' = Todo(seen, k) /\ PathB' = PathB
    BY <1>1, FrameTodo
  <1>4. \A k : \A i \in Numbered(k) : i \in left' <=> i \in Todo(seen, k)
    BY <1>1, CollectedIsTodo
  <1>5. \A k : Todo(seen, k) \ left' = {} /\ Todo(seen, k) \subseteq Numbered(k)
    BY <1>4 DEF Todo
  <1>6. \A k \in Keys : QueueOf(k)'
    BY <1>1, <1>3, <1>4, <1>5 DEF QueueOf
  <1>7. QueueSound'
    BY <1>1, <1>2, <1>3, <1>6 DEF QueueSound
  <1>8. NumbersPlanned'
    <2> SUFFICES ASSUME NEW k \in Keys PROVE NumberedBy(Nothing, k)'
      BY DEF NumbersPlanned
    <2>1. k \notin DOMAIN taken'
      BY <1>2 DEF Nothing
    <2>2. Agrees(seen', k, {}, Nothing, fixes')
      BY <1>2 DEF Agrees, Plan
    <2> QED
      BY <1>3, <1>5, <2>1, <2>2 DEF NumberedBy
  <1>9. BeforePlanned'
    BY <1>1, FrameTodo DEF NInv
  <1> QED
    BY <1>7, <1>8, <1>9 DEF NInv

NextNumber(s, k, D, g, i) ==
  NextAvailable(Base(s, i), InUseAt(s, k) \cup Numbers(g, D))
GrownBy(h, g, D, i, v) ==
  /\ Numbers(h, D \cup {i}) = Numbers(g, D) \cup ({v} \ {Null})
  /\ h[i] = v /\ \A j \in D : h[j] = g[j]

\* A plan goes on with the next finding.
LEMMA PlanExtended ==
  ASSUME NEW s, NEW k, NEW D, D \subseteq Checks, NEW g, Plan(s, k, D, g),
         NEW i \in Checks, i \notin D, \A j \in D : Order(s, j) < Order(s, i),
         NEW v, v = NextNumber(s, k, D, g, i)
  PROVE  \E h : Plan(s, k, D \cup {i}, h) /\ GrownBy(h, g, D, i, v)
  <1> DEFINE h == [j \in D \cup {i} |-> IF j = i THEN v ELSE g[j]]
  <1>1. h[i] = v /\ \A j \in D : h[j] = g[j]
    OBVIOUS
  <1> HIDE DEF h
  <1>2. \A j \in D \cup {i} : Order(s, j) \in Nat
    BY OrderFacts
  <1>3. Earlier(s, D \cup {i}, i) = D
    BY <1>2 DEF Earlier
  <1>4. ASSUME NEW j \in D PROVE Earlier(s, D \cup {i}, j) = Earlier(s, D, j)
    BY <1>2 DEF Earlier
  <1>5. \A E : E \subseteq D => Numbers(h, E) = Numbers(g, E)
    BY <1>1 DEF Numbers
  <1>6. \A j \in D : Earlier(s, D, j) \subseteq D
    BY DEF Earlier
  <1>7. Plan(s, k, D \cup {i}, h)
    BY <1>1, <1>3, <1>4, <1>5, <1>6 DEF Plan, NextNumber
  <1>8. Numbers(h, D \cup {i}) = Numbers(g, D) \cup ({v} \ {Null})
    BY <1>1 DEF Numbers
  <1> QED
    BY <1>1, <1>7, <1>8 DEF GrownBy

\* While the pass works, the values in use are those it was given.
LEMMA InUseIsGiven ==
  ASSUME model = seen, NEW r \in Rules
  PROVE  InUse(r, {}) = InUseAt(seen, NumberKey(r))
  <1>1. /\ NumberKey(r)[1] = Rule[r].category /\ NumberKey(r)[2] = Rule[r].param
        /\ Elements \ {} = Elements
    BY DEF NumberKey
  <1> QED
    BY <1>1 DEF InUse, InUseAt, FromRooms, Compared

LEMMA RenumberKeepsNumbers ==
  ASSUME IInv, NInv, NEW i \in Checks, Renumber(i) PROVE NInv'
  <1> DEFINE r == Pairs[i][1]
             base == IF Current(i) = Null THEN Suggestion(i) ELSE Current(i)
             key == NumberKey(r)
  <1>1. /\ pc = "work" /\ i \in left /\ i = Upcoming
        /\ RuleAt(i).strategy = "next_available"
        /\ UNCHANGED <<pc, found, passVars, worldVars>>
        /\ pc' = pc /\ found' = found /\ seen' = seen /\ active' = active
        /\ pass' = pass /\ before' = before
    BY DEF Renumber, Computable, Turn, passVars
  <1>2. PICK unread \in SUBSET Unreadable(r) :
          LET used == IF key \in DOMAIN taken THEN taken[key] ELSE InUse(r, unread)
              v == NextAvailable(base, used)
          IN  /\ key \in DOMAIN taken => unread = {}
              /\ lost' = lost \cup unread
              /\ taken' = With(taken, key, Reserved(used, v))
              /\ Prepare(i, v, Null)
    BY DEF Renumber
  <1>3. PICK used : used = IF key \in DOMAIN taken THEN taken[key]
                           ELSE InUse(r, unread)
    OBVIOUS
  <1>4. PICK v : v = NextAvailable(base, used)
    OBVIOUS
  <1>5. /\ key \in DOMAIN taken => unread = {}
        /\ lost' = lost \cup unread
        /\ taken' = With(taken, key, Reserved(used, v)) /\ Prepare(i, v, Null)
    BY <1>2, <1>3, <1>4
  <1>6. /\ left' = left \ {i}
        /\ \/ fixes' = fixes
           \/ fixes' = With(fixes, i, NewFix(i, v, Null))
    BY <1>5 DEF Prepare, NewFix
  <1>7. /\ i \in Numbered(key) /\ r \in Rules /\ key \in Keys
        /\ \A k : i \in Numbered(k) => k = key
    BY <1>1, CheckTypes DEF Numbered, Keys
  <1>8. model = seen /\ found = PathB /\ left \subseteq PathB /\ pass # 0
        /\ i \in Todo(seen, key)
    BY <1>1, <1>7 DEF IInv, Unwritten, TypeOK, PlanTyped, NInv, QueueSound, QueueOf
  <1>9. /\ \A k : Todo(seen, k)' = Todo(seen, k) /\ PathB' = PathB
        /\ \A k : Todo(seen, k) \subseteq Numbered(k)
    BY <1>1, FrameTodo DEF Todo
  <1>10. \A k : k # key => Todo(seen, k) \ left' = Todo(seen, k) \ left
    BY <1>6, <1>7, <1>9
  <1>11. Todo(seen, key) \ left' = (Todo(seen, key) \ left) \cup {i}
    BY <1>6, <1>8
  <1>12. \A j \in Todo(seen, key) \ left : Order(seen, j) < Order(seen, i)
    BY <1>1, <1>7 DEF NInv, QueueSound, QueueOf
  <1> HIDE DEF key, base, r
  <1>13. QueueSound'
    <2>1. ASSUME NEW k \in Keys, k # key PROVE QueueOf(k)'
      <3>1. QueueOf(k)
        BY <1>1 DEF NInv, QueueSound
      <3> QED
        BY <1>1, <1>6, <1>9, <1>10, <2>1, <3>1 DEF QueueOf
    <2>2. QueueOf(key)'
      <3>1. QueueOf(key)
        BY <1>1, <1>7 DEF NInv, QueueSound
      <3>2. ASSUME NEW x \in left', x \in Numbered(key)
            PROVE  Order(seen, i) < Order(seen, x)
        <4>1. x \in left /\ x # i /\ x \in Todo(seen, key)
          BY <1>6, <3>1, <3>2 DEF QueueOf
        <4> QED
          BY <1>1, <1>7, <1>8, <3>2, <4>1, UpcomingIsFirst
      <3>3. \A x \in left' : x \in left
        BY <1>6
      <3> QED
        BY <1>1, <1>9, <1>11, <3>1, <3>2, <3>3 DEF QueueOf
    <2> QED
      BY <1>1, <1>8, <1>9, <2>1, <2>2 DEF QueueSound
  <1>14. NumbersPlanned'
    <2> SUFFICES ASSUME lost' = {}, NEW k \in Keys
        PROVE  \E g : NumberedBy(g, k)'
      BY DEF NumbersPlanned
    <2>1. lost = {} /\ unread = {}
      BY <1>5
    <2>2. PICK g : NumberedBy(g, k)
      BY <1>1, <1>8, <2>1 DEF NInv, NumbersPlanned
    <2>3. /\ DOMAIN taken' = DOMAIN taken \cup {key}
          /\ taken'[key] = used \cup ({v} \ {Null})
          /\ \A x \in DOMAIN taken : x # key => taken'[x] = taken[x]
      BY <1>5 DEF With, Reserved
    <2>4. /\ \A j \in DOMAIN fixes' : j # i => j \in DOMAIN fixes
                                               /\ fixes'[j].value = fixes[j].value
          /\ i \in DOMAIN fixes' => i \in DOMAIN fixes \/ fixes'[i].value = v
      BY <1>6 DEF With, NewFix
    <2>5. CASE k # key
      <3>1. Agrees(seen, k, Todo(seen, k) \ left, g, fixes')
        BY <1>7, <2>2, <2>4, <2>5 DEF NumberedBy, Agrees
      <3>2. NumberedBy(g, k)'
        BY <1>1, <1>9, <1>10, <2>2, <2>3, <2>5, <3>1 DEF NumberedBy
      <3> QED
        BY <3>2
    <2>6. CASE k = key
      <3> DEFINE D == Todo(seen, key) \ left
      <3>1. /\ Plan(seen, key, D, g) /\ D \subseteq Checks /\ i \notin D
            /\ key \in DOMAIN taken =>
                 taken[key] = InUseAt(seen, key) \cup Numbers(g, D)
            /\ key \notin DOMAIN taken => D = {}
        BY <1>1, <1>9, <2>2, <2>6 DEF NumberedBy, Agrees, Numbered
      <3>2. used = InUseAt(seen, key) \cup Numbers(g, D)
        <4>1. CASE key \in DOMAIN taken
          BY <1>3, <3>1, <4>1
        <4>2. CASE key \notin DOMAIN taken
          <5>1. InUse(r, {}) = InUseAt(seen, key)
            BY <1>7, <1>8, InUseIsGiven DEF key
          <5>2. Numbers(g, D) = {}
            BY <3>1, <4>2 DEF Numbers
          <5> QED
            BY <1>3, <2>1, <4>2, <5>1, <5>2
        <4> QED
          BY <4>1, <4>2
      <3>3. base = Base(seen, i)
        BY <1>7, NumberedNow DEF base
      <3>4. v = NextNumber(seen, key, D, g, i)
        BY <1>4, <3>2, <3>3 DEF NextNumber
      <3>5. \A j \in D : Order(seen, j) < Order(seen, i)
        BY <1>12
      <3>6. \E h : Plan(seen, key, D \cup {i}, h) /\ GrownBy(h, g, D, i, v)
        <4> HIDE DEF D
        <4> QED
          BY <3>1, <3>4, <3>5, PlanExtended
      <3>7. PICK h : Plan(seen, key, D \cup {i}, h) /\ GrownBy(h, g, D, i, v)
        BY <3>6
      <3>8. i \notin DOMAIN fixes
        BY <1>1 DEF IInv, Waiting
      <3>9. Agrees(seen, key, D \cup {i}, h, fixes')
        BY <2>2, <2>4, <2>6, <3>7, <3>8 DEF NumberedBy, Agrees, GrownBy
      <3>10. taken'[key] = InUseAt(seen, key) \cup Numbers(h, D \cup {i})
        BY <2>3, <3>2, <3>7 DEF GrownBy
      <3>11. NumberedBy(h, k)'
        <4>1. Todo(seen, key)' \ left' = D \cup {i}
          BY <1>9, <1>11
        <4>2. key' = key
          OBVIOUS
        <4>3. Agrees(seen', k, (Todo(seen, k) \ left)', h, fixes')
          BY <1>1, <2>6, <3>9, <4>1
        <4>4. /\ k \in DOMAIN taken'
              /\ taken'[k] = InUseAt(seen', k) \cup Numbers(h, (Todo(seen, k) \ left)')
          BY <1>1, <2>3, <2>6, <3>10, <4>1
        <4> HIDE DEF D
        <4> QED
          BY <4>3, <4>4 DEF NumberedBy
      <3> QED
        BY <3>11
    <2> QED
      BY <2>5, <2>6
  <1>15. BeforePlanned'
    BY <1>1, FrameTodo DEF NInv
  <1> QED
    BY <1>13, <1>14, <1>15 DEF NInv

\* Findings are prepared in other ways, too.
LEMMA PrepareKeepsNumbers ==
  ASSUME NInv, NEW i \in Checks, RuleAt(i).strategy # "next_available",
         pc = "work", UNCHANGED <<pc, found, taken, lost, passVars>>,
         left' = left \ {i}, \A j \in DOMAIN fixes' : j # i =>
                               j \in DOMAIN fixes /\ fixes'[j] = fixes[j]
  PROVE  NInv'
  <1>1. pass # 0
    BY DEF NInv, QueueSound
  <1>2. UNCHANGED <<seen, active, lost, taken, pass, before, found>> /\ pc' = pc
    BY DEF passVars
  <1> QED
    BY <1>1, <1>2, OthersKeepNumbers

LEMMA StepsKeepNumbers ==
  ASSUME IInv, NInv, NEW i \in Checks,
         Unresolved(i) \/ Compute(i) \/ Recall(i) \/ Ask(i)
  PROVE  NInv'
  <1>1. /\ pc = "work" /\ UNCHANGED <<pc, found, taken, lost, passVars>>
    BY DEF Unresolved, Compute, Recall, Ask, Computable, Turn
  <1>2. /\ left' = left \ {i}
        /\ \A j \in DOMAIN fixes' : j # i =>
             j \in DOMAIN fixes /\ fixes'[j] = fixes[j]
    <2>1. ASSUME NEW v, NEW about, Prepare(i, v, about)
          PROVE  /\ left' = left \ {i}
                 /\ \A j \in DOMAIN fixes' : j # i =>
                      j \in DOMAIN fixes /\ fixes'[j] = fixes[j]
      BY <2>1 DEF Prepare, With
    <2>2. CASE Unresolved(i)
      BY <2>2 DEF Unresolved
    <2>3. CASE Compute(i) \/ Recall(i) \/ Ask(i)
      <3>1. \E v, about : Prepare(i, v, about)
        BY <2>3 DEF Compute, Recall, Ask
      <3> QED
        BY <2>1, <3>1
    <2> QED
      BY <2>2, <2>3
  <1>3. RuleAt(i).strategy # "next_available"
    <2>1. CASE Unresolved(i)
      <3>1. i \in Numbered(NumberKey(Pairs[i][1])) => Slot(i) # Null
        BY NumberedFacts
      <3> QED
        BY <2>1, <3>1 DEF Numbered, Unresolved
    <2>2. CASE Compute(i) \/ Recall(i) \/ Ask(i)
      BY <2>2 DEF Compute, Recall, Ask, Computable
    <2> QED
      BY <2>1, <2>2
  <1> QED
    BY <1>1, <1>2, <1>3, PrepareKeepsNumbers

LEMMA WarmKeepsNumbers ==
  ASSUME IInv, NInv, NEW r \in Rules, WarmBatch(r) \/ WarmFails(r) PROVE NInv'
  <1>1. /\ pc = "work" /\ pc' = pc
        /\ UNCHANGED <<seen, active, lost, taken, pass, before, found>>
        /\ left' = left /\ fixes' = fixes
    BY DEF WarmBatch, WarmFails, passVars, fixVars
  <1>2. pass # 0
    BY <1>1 DEF NInv, QueueSound
  <1> QED
    BY <1>1, <1>2, OthersKeepNumbers

LEMMA WritesKeepNumbers ==
  ASSUME IInv, NInv,
         \/ CommitBatch \/ CommitRejected \/ CommitFallback \/ CommitOne
         \/ CommitOneFails \/ CommittedAll \/ WriteLog
  PROVE  NInv'
  <1>1. /\ pc \in {"work", "each", "log"} /\ pc' \in {"each", "log", "start"}
        /\ UNCHANGED <<planVars, passVars>>
    BY DEF CommitBatch, CommitRejected, CommitFallback, CommitOne,
           CommitOneFails, CommittedAll, WriteLog, Ready
  <1>2. UNCHANGED <<seen, active, lost, taken, pass, before, found, left>>
    BY <1>1 DEF planVars, passVars
  <1>3. fixes' = fixes \/ \E S : fixes' = Executed(S)
    BY DEF CommitBatch, CommitRejected, CommitFallback, CommitOne,
           CommitOneFails, CommittedAll, WriteLog, fixVars
  <1>4. /\ DOMAIN fixes' = DOMAIN fixes
        /\ \A i \in DOMAIN fixes : fixes'[i].value = fixes[i].value
    BY <1>3, ExecutedFacts DEF IInv, TypeOK
  <1>5. pass # 0
    BY <1>1 DEF NInv, QueueSound
  <1> QED
    BY <1>1, <1>2, <1>4, <1>5, OthersKeepNumbers

LEMMA StutterKeepsNumbers ==
  ASSUME NInv, UNCHANGED vars PROVE NInv'
  <1>1. UNCHANGED <<seen, active, lost, taken, pass, before, found, left, fixes, pc>>
    BY DEF vars, planVars, passVars, fixVars
  <1>2. /\ \A s, k : Todo(s, k)' = Todo(s, k)
        /\ PathB' = PathB /\ \A k : Todo(seen, k)' = Todo(seen, k)
    BY <1>1, FrameTodo
  <1>3. \A k : QueueOf(k)' <=> QueueOf(k)
    BY <1>1, <1>2 DEF QueueOf
  <1>4. \A g, k : NumberedBy(g, k)' <=> NumberedBy(g, k)
    BY <1>1, <1>2 DEF NumberedBy
  <1>5. QueueSound'
    BY <1>1, <1>2, <1>3 DEF NInv, QueueSound
  <1>6. NumbersPlanned'
    BY <1>1, <1>4 DEF NInv, NumbersPlanned
  <1>7. BeforePlanned'
    BY <1>1, FrameTodo DEF NInv
  <1> QED
    BY <1>5, <1>6, <1>7 DEF NInv

LEMMA NumbersInit == Init => NInv
  BY DEF Init, NInv, QueueSound, NumbersPlanned, BeforePlanned, Nothing

LEMMA NumbersInvariance == Spec => []NInv
  <1>1. IInv /\ NInv /\ [Next]_vars => NInv'
    <2> SUFFICES ASSUME IInv, NInv, [Next]_vars PROVE NInv'
      OBVIOUS
    <2>1. CASE StartPass
      BY <2>1, StartKeepsNumbers
    <2>2. CASE Collect
      BY <2>2, CollectKeepsNumbers
    <2>3. ASSUME NEW r \in Rules, WarmBatch(r) \/ WarmFails(r) PROVE NInv'
      BY <2>3, WarmKeepsNumbers
    <2>4. ASSUME NEW i \in Checks,
                 Unresolved(i) \/ Compute(i) \/ Recall(i) \/ Ask(i)
          PROVE  NInv'
      BY <2>4, StepsKeepNumbers
    <2>5. ASSUME NEW i \in Checks, Renumber(i) PROVE NInv'
      BY <2>5, RenumberKeepsNumbers
    <2>6. CASE \/ CommitBatch \/ CommitRejected \/ CommitFallback \/ CommitOne
               \/ CommitOneFails \/ CommittedAll \/ WriteLog
      BY <2>6, WritesKeepNumbers
    <2>7. CASE UNCHANGED vars
      BY <2>7, StutterKeepsNumbers
    <2> QED
      BY <2>1, <2>2, <2>3, <2>4, <2>5, <2>6, <2>7 DEF Next
  <1> QED
    BY <1>1, NumbersInit, FixPlanInvariance, PTL DEF Spec

\* Two passes that were given the same values of a parameter propose the same
\* numbers for it, whatever else has changed between them and however far the
\* second has come: the proposal of the first one is recognised
\* (_next_available).
THEOREM NumbersAreStable == Spec => []StableNumbers
  <1>1. IInv /\ NInv => StableNumbers
    <2> SUFFICES ASSUME IInv, NInv,
                        NEW i \in Renumbered \cap DOMAIN before.fixes,
                        lost = {}, before.lost = {},
                        \A o \in Owners : seen[<<o, Param[i]>>]
                                            = before.seen[<<o, Param[i]>>]
                 PROVE  fixes[i].value = before.fixes[i].value
      BY DEF StableNumbers
    <2> DEFINE k == NumberKey(Pairs[i][1])
               E == Todo(seen, k)
               D == E \ left
    <2>1. i \in Numbered(k) /\ k \in Keys /\ i \in DOMAIN fixes
      <3>1. i \in DOMAIN fixes /\ RuleAt(i).strategy = "next_available"
            /\ i \in Checks
        BY DEF Renumbered, IInv, TypeOK, FixesTyped
      <3> QED
        BY <3>1, CheckTypes DEF Numbered, Keys
    <2>2. Param[i] = k[2]
      BY <2>1, NumberedFacts
    <2> HIDE DEF k
    <2>3. pc # "collect" /\ pass # 0
      BY <2>1 DEF IInv, Waiting, NInv, QueueSound
    <2>4. PICK g : NumberedBy(g, k)
      BY <2>1, <2>3 DEF NInv, NumbersPlanned
    <2>5. PICK h : Agrees(before.seen, k, Todo(before.seen, k), h, before.fixes)
      BY <2>1 DEF NInv, BeforePlanned
    <2>6. \A e \in Elements : seen[<<e, k[2]>>] = before.seen[<<e, k[2]>>]
      BY <2>2 DEF Owners
    <2>7. /\ E = Todo(before.seen, k) /\ E \subseteq Numbered(k)
          /\ E \subseteq Checks
      BY <2>6, SameValues DEF Todo, Numbered
    <2>8. Plan(seen, k, E, h) /\ Plan(seen, k, D, g)
      BY <2>4, <2>5, <2>6, <2>7, SameValues DEF Agrees, NumberedBy
    <2>9. Initial(seen, D, E)
      <3> SUFFICES ASSUME NEW x \in D, NEW j \in E,
                          Order(seen, j) < Order(seen, x), j \in left
                   PROVE  FALSE
        BY DEF Initial
      <3>1. pc = "work" /\ QueueOf(k)
        BY <2>1 DEF IInv, Waiting, NInv, QueueSound
      <3>2. Order(seen, x) < Order(seen, j)
        BY <2>7, <3>1 DEF QueueOf
      <3>3. Order(seen, x) \in Nat /\ Order(seen, j) \in Nat
        BY <2>7, OrderFacts
      <3> QED
        BY <3>2, <3>3
    <2>10. i \in D /\ fixes[i].value = g[i]
      BY <2>1, <2>4 DEF NumberedBy, Agrees
    <2>11. before.fixes[i].value = h[i]
      BY <2>1, <2>5 DEF Agrees
    <2>12. g[i] = h[i]
      <3> HIDE DEF D, E
      <3>1. D \subseteq E
        BY DEF D
      <3>2. E \subseteq Checks /\ Plan(seen, k, D, g) /\ Plan(seen, k, E, h)
        BY <2>7, <2>8
      <3>3. Initial(seen, D, E)
        BY <2>9
      <3>4. \A x \in D : g[x] = h[x]
        BY <3>1, <3>2, <3>3, PlansAgree
      <3> QED
        BY <2>10, <3>4
    <2> QED
      BY <2>10, <2>11, <2>12
  <1> QED
    BY <1>1, NumbersInvariance, FixPlanInvariance, PTL
=============================================================================
