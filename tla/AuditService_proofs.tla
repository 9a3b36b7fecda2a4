------------------------ MODULE AuditService_proofs ------------------------
(***************************************************************************)
(* Theorems about AuditService, for any number of processes, viewers,      *)
(* audits, events and faults.                                              *)
(*                                                                         *)
(* LockSound says what a process knows at each place of acquire(),         *)
(* JobsSound how its jobs, their homes and their numbers relate, ViewsSound*)
(* that a connection belongs to a viewer that follows a job.               *)
(***************************************************************************)
EXTENDS AuditService, FiniteNumbers

-----------------------------------------------------------------------------
\* The inductive invariant.

\* The bounds of TypeOK that the shape of a step alone does not keep.
Bounds ==
  /\ \A s \in Servers : life[s] + (IF up[s] THEN 0 ELSE 1) <= faults
  /\ \A j \in Jobs : status[j] \in {"none", "running"} =>
                       Len(events[j]) <= MaxMarks

LockSound ==
  \A s \in Servers :
    /\ pc[s] # "idle" => ~held[s] /\ want[s] \in Work
    /\ busy[s] \in {{}, {"audit"}, {"write"}}
    /\ held[s] <=> busy[s] # {}
    /\ Running(s) <=> busy[s] = {"audit"}

JobsSound ==
  /\ \A j, k \in Jobs : (status[j] = "none" /\ j <= k) => status[k] = "none"
  /\ \A s \in Servers :
       /\ \A j \in known[s] : /\ home[j] = s
                              /\ status[j] # "none"
                              /\ status[j] = "running" => current[s] = j
       /\ current[s] # NoJob => /\ current[s] \in known[s]
                                /\ \A j \in known[s] : j <= current[s]
       /\ Cardinality(known[s]) <= MaxFinished + 1

ViewsSound == \A v \in Viewers : watch[v] = NoJob => conn[v] = "idle"

IInv == TypeOK /\ Bounds /\ LockSound /\ JobsSound /\ ViewsSound

LEMMA JobsNat == Jobs \subseteq Nat \ {NoJob} /\ IsFiniteSet(Jobs)
  BY ConstantsAssumption, FS_Interval DEF Jobs, NoJob

LEMMA InvInit == Init => IInv
  <1> SUFFICES ASSUME Init PROVE IInv
    OBVIOUS
  <1>1. TypeOK
    BY ConstantsAssumption
    DEF Init, TypeOK, Lives, Places, Statuses, Conns, NoJob
  <1>2. Bounds
    BY ConstantsAssumption DEF Init, Bounds
  <1>3. LockSound
    BY DEF Init, LockSound, Running
  <1>4. JobsSound
    <2>1. Cardinality({}) = 0
      BY FS_EmptySet
    <2> QED
      BY <2>1, ConstantsAssumption DEF Init, JobsSound
  <1>5. ViewsSound
    BY DEF Init, ViewsSound
  <1> QED
    BY <1>1, <1>2, <1>3, <1>4, <1>5 DEF IInv

-----------------------------------------------------------------------------
\* Eviction.

\* A process with no running audit keeps at most MaxFinished jobs.
LEMMA EvictionBounds ==
  ASSUME TypeOK, NEW s \in Servers, Finished(s) = known[s]
  PROVE  /\ IsFiniteSet(known[s] \ Evicted(s))
         /\ Cardinality(known[s] \ Evicted(s)) <= MaxFinished
  <1>1. known[s] \subseteq Nat /\ IsFiniteSet(known[s])
    BY JobsNat, FS_Subset DEF TypeOK
  <1>2. \A j \in known[s] : /\ Newer(s, j) = Above(known[s], j)
                            /\ Cardinality(Newer(s, j)) \in Nat
    BY <1>1, FS_Subset, FS_CardinalityType DEF Newer, Above
  <1>3. known[s] \ Evicted(s) = Few(known[s], MaxFinished)
    BY <1>2, ConstantsAssumption DEF Evicted, Few
  <1> QED
    BY <1>1, <1>3, TopFew, ConstantsAssumption

-----------------------------------------------------------------------------
\* What does not concern the viewers, or breaks a connection.
LEMMA ViewsKeep ==
  ASSUME ViewsSound, UNCHANGED watch,
         \A v \in Viewers : \/ conn'[v] = conn[v]
                            \/ conn[v] = "open" /\ conn'[v] = "off"
  PROVE  ViewsSound'
  BY DEF ViewsSound

\* Jobs that are left alone.
LEMMA JobsKeep ==
  ASSUME JobsSound, UNCHANGED jobVars
  PROVE  JobsSound'
  BY DEF jobVars, JobsSound

-----------------------------------------------------------------------------
\* The steps of a process.

\* The first system calls of acquire().
LEMMA AcquirePreserves ==
  ASSUME IInv, NEW s \in Servers,
         \/ \E w \in Work : Ask(s, w)
         \/ ReadOwner(s) \/ UnlinkStale(s) \/ Recreate(s)
  PROVE  IInv'
  <1>1. UNCHANGED <<held, up, life, busy, jobVars, viewVars, faults>>
    BY DEF Ask, ReadOwner, UnlinkStale, Recreate
  <1>2. file' \in {file, NoFile, NewFile(s)}
    BY DEF Ask, ReadOwner, UnlinkStale, Recreate
  <1>3. \E place \in Places, w \in Work \cup {"none"} :
          /\ pc' = [pc EXCEPT ![s] = place]
          /\ want' = [want EXCEPT ![s] = w]
          /\ place # "idle" => ~held[s] /\ w \in Work
    <2>1. CASE \E w \in Work : Ask(s, w)
      BY <2>1 DEF Ask, Goto, Places, IInv, TypeOK
    <2>2. CASE ReadOwner(s)
      <3>1. want = [want EXCEPT ![s] = want[s]] /\ ~held[s] /\ want[s] \in Work
        BY <2>2 DEF ReadOwner, IInv, LockSound, TypeOK
      <3> QED
        BY <2>2, <3>1 DEF ReadOwner, Goto, Answer409, Places
    <2>3. CASE UnlinkStale(s)
      <3>1. want = [want EXCEPT ![s] = want[s]] /\ ~held[s] /\ want[s] \in Work
        BY <2>3 DEF UnlinkStale, IInv, LockSound, TypeOK
      <3> QED
        BY <2>3, <3>1 DEF UnlinkStale, Goto, Answer409, Places
    <2>4. CASE Recreate(s)
      <3>1. want = [want EXCEPT ![s] = want[s]] /\ ~held[s] /\ want[s] \in Work
        BY <2>4 DEF Recreate, IInv, LockSound, TypeOK
      <3> QED
        BY <2>4, <3>1 DEF Recreate, Goto, Answer409, Places
    <2> QED
      BY <2>1, <2>2, <2>3, <2>4
  <1>4. TypeOK'
    <2>1. NewFile(s) \in LockFile
      BY DEF NewFile, LockFile, IInv, TypeOK
    <2> QED
      BY <1>1, <1>2, <1>3, <2>1 DEF IInv, TypeOK, jobVars, viewVars
  <1>5. Bounds'
    BY <1>1 DEF IInv, Bounds, jobVars
  <1>6. LockSound'
    <2>1. \A t \in Servers : Running(t)' <=> Running(t)
      BY <1>1 DEF Running, jobVars
    <2>2. pc \in [Servers -> Places] /\ want \in [Servers -> Work \cup {"none"}]
            /\ LockSound
      BY DEF IInv, TypeOK
    <2>3. \A t \in Servers : pc'[t] # "idle" => ~held[t] /\ want'[t] \in Work
      BY <1>3, <2>2 DEF LockSound
    <2> QED
      BY <1>1, <2>1, <2>2, <2>3 DEF LockSound
  <1>7. JobsSound'
    BY <1>1, JobsKeep DEF IInv
  <1>8. ViewsSound'
    BY <1>1, ViewsKeep DEF IInv, viewVars
  <1> QED
    BY <1>4, <1>5, <1>6, <1>7, <1>8 DEF IInv

\* The work begins: an audit gets the lowest number that is left, after the
\* oldest finished ones were evicted.
LEMMA StartPreserves ==
  ASSUME IInv, NEW s \in Servers, NEW j \in Unused,
         \A k \in Unused : j <= k, NewJob(s, j), ~Running(s),
         UNCHANGED <<faults, up, life>>
  PROVE  /\ status' \in [Jobs -> Statuses] /\ UNCHANGED events
         /\ home' \in [Jobs -> Servers \cup {"nobody"}]
         /\ known' \in [Servers -> SUBSET Jobs]
         /\ current' \in [Servers -> Jobs \cup {NoJob}]
         /\ Running(s)'
         /\ \A t \in Servers \ {s} : Running(t)' <=> Running(t)
         /\ Bounds' /\ JobsSound'
  <1> USE DEF NewJob, Unused
  <1>1. j \in Jobs /\ status[j] = "none" /\ j # NoJob
    BY JobsNat
  <1>2. /\ status' \in [Jobs -> Statuses]
        /\ home' \in [Jobs -> Servers \cup {"nobody"}]
        /\ known' \in [Servers -> SUBSET Jobs]
        /\ current' \in [Servers -> Jobs \cup {NoJob}]
    BY <1>1 DEF IInv, TypeOK, Statuses
  <1>3. \A t \in Servers : current[t] # j
    BY <1>1 DEF IInv, JobsSound
  <1>4. Running(s)' /\ \A t \in Servers \ {s} : Running(t)' <=> Running(t)
    BY <1>1, <1>3 DEF IInv, TypeOK, Running
  <1>5. Bounds'
    BY <1>1 DEF IInv, TypeOK, Bounds
  <1>6. Finished(s) = known[s]
    <2>1. \A k \in known[s] : k \in Jobs /\ k # NoJob
      BY JobsNat DEF IInv, TypeOK
    <2>2. \A k \in known[s] : status[k] # "running"
      BY <2>1 DEF IInv, JobsSound, Running
    <2> QED
      BY <2>2 DEF Finished
  <1>7. JobsSound'
    <2>1. \A i, k \in Jobs :
            (status'[i] = "none" /\ i <= k) => status'[k] = "none"
      <3> SUFFICES ASSUME NEW i \in Jobs, NEW k \in Jobs,
                          status'[i] = "none", i <= k
                   PROVE  status'[k] = "none"
        OBVIOUS
      <3>1. i # j /\ status[i] = "none" /\ status[k] = "none"
        BY <1>1 DEF IInv, TypeOK, JobsSound
      <3>2. j <= i /\ j \in Nat /\ i \in Nat /\ k \in Nat
        BY <1>1, <3>1, JobsNat
      <3>3. k # j
        BY <3>1, <3>2
      <3> QED
        BY <3>1, <3>3 DEF IInv, TypeOK
    <2>2. \A t \in Servers \ {s} :
            known'[t] = known[t] /\ current'[t] = current[t]
      BY DEF IInv, TypeOK
    <2>3. known'[s] = (known[s] \ Evicted(s)) \cup {j} /\ current'[s] = j
      BY DEF IInv, TypeOK
    <2>4. \A k \in known[s] : k # j /\ k <= j
      <3> SUFFICES ASSUME NEW k \in known[s] PROVE k # j /\ k <= j
        OBVIOUS
      <3>1. k \in Jobs /\ status[k] # "none"
        BY DEF IInv, TypeOK, JobsSound
      <3>2. ~(j <= k)
        BY <1>1, <3>1 DEF IInv, JobsSound
      <3> QED
        BY <1>1, <3>1, <3>2, JobsNat
    <2>5. Cardinality(known'[s]) <= MaxFinished + 1
      <3>1. /\ IsFiniteSet(known[s] \ Evicted(s))
            /\ Cardinality(known[s] \ Evicted(s)) <= MaxFinished
        BY <1>6, EvictionBounds DEF IInv
      <3>2. /\ Cardinality(known[s] \ Evicted(s)) \in Nat
            /\ Cardinality((known[s] \ Evicted(s)) \cup {j}) =
                 Cardinality(known[s] \ Evicted(s)) + 1
        BY <2>4, <3>1, FS_AddElement, FS_CardinalityType
      <3>3. Cardinality(known'[s]) = Cardinality(known[s] \ Evicted(s)) + 1
        BY <2>3, <3>2
      <3> HIDE DEF NewJob
      <3> QED
        BY <3>1, <3>2, <3>3, ConstantsAssumption
    <2>6. \A t \in Servers : \A k \in known'[t] :
            /\ home'[k] = t
            /\ status'[k] # "none"
            /\ status'[k] = "running" => current'[t] = k
      <3> SUFFICES ASSUME NEW t \in Servers, NEW k \in known'[t]
                   PROVE  /\ home'[k] = t /\ status'[k] # "none"
                          /\ status'[k] = "running" => current'[t] = k
        OBVIOUS
      <3>1. k \in Jobs
        BY <1>2
      <3>2. CASE t = s /\ k = j
        BY <1>1, <2>3, <3>2 DEF IInv, TypeOK
      <3>3. CASE t = s /\ k # j
        <4>1. k \in known[s] \ Evicted(s)
          BY <2>3, <3>3
        <4>2. home[k] = s /\ status[k] # "none" /\ status[k] # "running"
          BY <1>6, <4>1 DEF IInv, JobsSound, Finished
        <4> QED
          BY <3>1, <3>3, <4>1, <4>2 DEF IInv, TypeOK
      <3>4. CASE t # s
        <4>1. k \in known[t] /\ current'[t] = current[t]
          BY <2>2, <3>4
        <4>2. /\ home[k] = t /\ status[k] # "none"
              /\ status[k] = "running" => current[t] = k
          BY <4>1 DEF IInv, JobsSound
        <4>3. k \notin Evicted(s)
          BY <3>4, <4>2 DEF Evicted, Finished, IInv, JobsSound
        <4> QED
          BY <1>1, <3>1, <4>1, <4>2, <4>3 DEF IInv, TypeOK
      <3> QED
        BY <3>2, <3>3, <3>4
    <2>7. \A t \in Servers :
            /\ current'[t] # NoJob => /\ current'[t] \in known'[t]
                                      /\ \A k \in known'[t] : k <= current'[t]
            /\ Cardinality(known'[t]) <= MaxFinished + 1
      <3> TAKE t \in Servers
      <3>1. CASE t = s
        BY <1>1, <2>3, <2>4, <2>5, <3>1, JobsNat
      <3>2. CASE t # s
        BY <2>2, <3>2 DEF IInv, JobsSound
      <3> QED
        BY <3>1, <3>2
    <2> HIDE DEF NewJob, Unused
    <2> QED
      BY <2>1, <2>6, <2>7 DEF JobsSound
  <1> QED
    BY <1>2, <1>4, <1>5, <1>7

LEMMA WriteTokenPreserves ==
  ASSUME IInv, NEW s \in Servers, WriteToken(s) PROVE IInv'
  <1> USE DEF WriteToken
  <1>1. ~held[s] /\ want[s] \in Work /\ busy[s] = {} /\ ~Running(s)
    BY DEF IInv, LockSound
  <1>2. file' \in LockFile \cup {NoFile}
    <2>1. [by |-> s, life |-> life[s], written |-> TRUE] \in LockFile
      BY DEF IInv, TypeOK, LockFile
    <2> QED
      BY <2>1 DEF IInv, TypeOK, Written
  <1>8. /\ faults' \in 0 .. MaxFaults
        /\ up' \in [Servers -> BOOLEAN] /\ life' \in [Servers -> Lives]
        /\ held' \in [Servers -> BOOLEAN]
        /\ pc' \in [Servers -> Places]
        /\ want' \in [Servers -> Work \cup {"none"}]
        /\ busy' \in [Servers -> SUBSET Work]
    BY <1>1 DEF IInv, TypeOK, Goto, Places
  <1>3. /\ jobVars' = jobVars /\ want[s] = "write"
        \/ /\ want[s] = "audit"
           /\ \E j \in Unused : (\A k \in Unused : j <= k) /\ NewJob(s, j)
    BY <1>1 DEF Work
  <1>4. /\ status' \in [Jobs -> Statuses] /\ UNCHANGED events
        /\ home' \in [Jobs -> Servers \cup {"nobody"}]
        /\ known' \in [Servers -> SUBSET Jobs]
        /\ current' \in [Servers -> Jobs \cup {NoJob}]
        /\ want[s] = "audit" => Running(s)'
        /\ want[s] = "write" => ~Running(s)'
        /\ \A t \in Servers \ {s} : Running(t)' <=> Running(t)
        /\ Bounds' /\ JobsSound'
    <2>1. CASE jobVars' = jobVars /\ want[s] = "write"
      BY <1>1, <2>1, JobsKeep DEF IInv, TypeOK, Bounds, Running, jobVars
    <2>2. CASE /\ want[s] = "audit"
               /\ \E j \in Unused : (\A k \in Unused : j <= k) /\ NewJob(s, j)
      BY <1>1, <2>2, StartPreserves
    <2> QED
      BY <1>3, <2>1, <2>2
  <1>5. TypeOK'
    BY <1>2, <1>4, <1>8 DEF IInv, TypeOK, viewVars
  <1>6. LockSound'
    <2> SUFFICES ASSUME NEW t \in Servers
                 PROVE  /\ pc'[t] # "idle" => ~held'[t] /\ want'[t] \in Work
                        /\ busy'[t] \in {{}, {"audit"}, {"write"}}
                        /\ held'[t] <=> busy'[t] # {}
                        /\ Running(t)' <=> busy'[t] = {"audit"}
      BY DEF LockSound
    <2>1. CASE t = s
      <3>1. pc'[s] = "idle" /\ held'[s] /\ busy'[s] = {want[s]}
        BY <1>1 DEF IInv, TypeOK, Goto
      <3> QED
        BY <1>1, <1>4, <2>1, <3>1 DEF Work
    <2>2. CASE t # s
      <3>1. /\ pc'[t] = pc[t] /\ held'[t] = held[t] /\ want'[t] = want[t]
            /\ busy'[t] = busy[t] /\ (Running(t)' <=> Running(t))
        BY <1>4, <2>2 DEF IInv, TypeOK, Goto
      <3> QED
        BY <3>1 DEF IInv, LockSound
    <2> QED
      BY <2>1, <2>2
  <1>7. ViewsSound'
    BY ViewsKeep DEF IInv, viewVars
  <1> QED
    BY <1>4, <1>5, <1>6, <1>7 DEF IInv

\* What a step of a process does that leaves the jobs and the viewers alone.
LEMMA EndWorkPreserves ==
  ASSUME IInv, NEW s \in Servers, NEW w \in Work, EndWork(s, w) PROVE IInv'
  <1> USE DEF EndWork, Release
  <1>1. busy[s] = {"write"} /\ w = "write"
    BY DEF IInv, LockSound, Work
  <1>2. TypeOK'
    BY ConstantsAssumption DEF IInv, TypeOK, viewVars, jobVars
  <1>3. Bounds'
    <2>1. faults <= faults'
      BY DEF IInv, TypeOK
    <2>2. UNCHANGED <<life, up, status, events>>
      BY DEF jobVars
    <2> QED
      BY <2>1, <2>2, <1>2 DEF IInv, TypeOK, Bounds, Lives
  <1>4. LockSound'
    <2>1. \A t \in Servers : Running(t)' <=> Running(t)
      BY DEF Running, jobVars
    <2>2. held \in [Servers -> BOOLEAN] /\ busy \in [Servers -> SUBSET Work]
            /\ LockSound
      BY DEF IInv, TypeOK
    <2>3. /\ held' = [held EXCEPT ![s] = FALSE]
          /\ busy' = [busy EXCEPT ![s] = {}] /\ UNCHANGED <<pc, want>>
      BY <1>1, <2>2
    <2> QED
      BY <1>1, <2>1, <2>2, <2>3 DEF LockSound
  <1>5. JobsSound'
    BY JobsKeep DEF IInv
  <1>6. ViewsSound'
    BY ViewsKeep DEF IInv, viewVars
  <1> QED
    BY <1>2, <1>3, <1>4, <1>5, <1>6 DEF IInv

LEMMA MarkPreserves ==
  ASSUME IInv, NEW s \in Servers, Mark(s) PROVE IInv'
  <1> USE DEF Mark
  <1> DEFINE j == current[s]
  <1>1. j \in Jobs /\ status[j] = "running" /\ events[j] \in Seq(Events)
        /\ Len(events[j]) < MaxMarks /\ j # NoJob
    BY JobsNat DEF Running, IInv, TypeOK
  <1>2. /\ events'[j] = Append(events[j], "mark")
        /\ \A k \in Jobs \ {j} : events'[k] = events[k]
    BY <1>1 DEF IInv, TypeOK
  <1>3. /\ events'[j] \in Seq(Events) /\ Len(events'[j]) = Len(events[j]) + 1
        /\ \A i \in 1 .. Len(events[j]) : events'[j][i] = events[j][i]
        /\ events'[j][Len(events[j]) + 1] = "mark"
    BY <1>1, <1>2 DEF Events
  <1>4. /\ events' \in [Jobs -> Seq(Events)]
        /\ \A k \in Jobs : Len(events'[k]) <= MaxMarks + 2
    BY <1>1, <1>2, <1>3, ConstantsAssumption DEF IInv, TypeOK
  <1> HIDE DEF j
  <1>5. TypeOK'
    BY <1>4 DEF IInv, TypeOK, lockVars, viewVars
  <1>6. Bounds'
    BY <1>1, <1>2, <1>3, ConstantsAssumption DEF IInv, TypeOK, Bounds
  <1>7. LockSound'
    BY DEF IInv, LockSound, lockVars, Running
  <1>8. JobsSound'
    BY DEF IInv, JobsSound
  <1>9. ViewsSound'
    BY ViewsKeep DEF IInv, viewVars
  <1> QED
    BY <1>5, <1>6, <1>7, <1>8, <1>9 DEF IInv

\* The end of an audit: marks are its last events.
LEMMA EndJobPreserves ==
  ASSUME IInv, NEW s \in Servers,
         NEW outcome \in {"done", "failed"}, NEW marks \in Seq(Events),
         Len(marks) <= 2, EndJob(s, outcome, marks)
  PROVE  IInv'
  <1> USE DEF EndJob, Release
  <1> DEFINE j == current[s]
  <1>1. j \in Jobs /\ status[j] = "running" /\ events[j] \in Seq(Events)
        /\ Len(events[j]) <= MaxMarks /\ j # NoJob /\ busy[s] = {"audit"}
    BY JobsNat DEF Running, IInv, TypeOK, Bounds, LockSound
  <1>2. /\ events'[j] = events[j] \o marks /\ status'[j] = outcome
        /\ \A k \in Jobs \ {j} :
             events'[k] = events[k] /\ status'[k] = status[k]
    BY <1>1 DEF IInv, TypeOK
  <1>3. /\ events'[j] \in Seq(Events)
        /\ Len(events'[j]) = Len(events[j]) + Len(marks)
        /\ \A i \in 1 .. Len(events[j]) : events'[j][i] = events[j][i]
        /\ \A i \in 1 .. Len(marks) :
             events'[j][Len(events[j]) + i] = marks[i]
    BY <1>1, <1>2
  <1>4. /\ events' \in [Jobs -> Seq(Events)]
        /\ \A k \in Jobs : Len(events'[k]) <= MaxMarks + 2
    BY <1>1, <1>2, <1>3, ConstantsAssumption DEF IInv, TypeOK
  <1> HIDE DEF j
  <1>5. TypeOK'
    <2>1. status' \in [Jobs -> Statuses]
      BY DEF IInv, TypeOK, Statuses
    <2> QED
      BY <1>4, <2>1, ConstantsAssumption DEF IInv, TypeOK, viewVars
  <1>6. Bounds'
    <2>1. faults <= faults' /\ UNCHANGED <<up, life>>
      BY DEF IInv, TypeOK
    <2>2. \A k \in Jobs : status'[k] \in {"none", "running"} =>
                            Len(events'[k]) <= MaxMarks
      BY <1>1, <1>2 DEF IInv, Bounds
    <2> QED
      BY <2>1, <2>2, <1>5 DEF IInv, TypeOK, Bounds, Lives
  <1>7. LockSound'
    <2> SUFFICES ASSUME NEW t \in Servers
                 PROVE  /\ pc'[t] # "idle" => ~held'[t] /\ want'[t] \in Work
                        /\ busy'[t] \in {{}, {"audit"}, {"write"}}
                        /\ held'[t] <=> busy'[t] # {}
                        /\ Running(t)' <=> busy'[t] = {"audit"}
      BY DEF LockSound
    <2>1. CASE t = s
      BY <1>1, <1>2, <2>1 DEF IInv, TypeOK, Running, Free, j
    <2>2. CASE t # s
      <3>1. current[t] # j
        <4>1. j \in known[s] /\ home[j] = s
          BY <1>1 DEF IInv, JobsSound, j
        <4>2. current[t] # NoJob => home[current[t]] = t
          BY DEF IInv, JobsSound
        <4> QED
          BY <1>1, <2>2, <4>1, <4>2
      <3>2. Running(t)' <=> Running(t)
        BY <1>2, <3>1 DEF Running, IInv, TypeOK
      <3> QED
        BY <2>2, <3>2 DEF IInv, TypeOK, LockSound
    <2> QED
      BY <2>1, <2>2
  <1>8. JobsSound'
    <2>1. \A k \in Jobs : /\ status'[k] = "none" <=> status[k] = "none"
                          /\ status'[k] = "running" => status[k] = "running"
      BY <1>1, <1>2
    <2>2. UNCHANGED <<home, known, current>> /\ known \in [Servers -> SUBSET Jobs]
      BY DEF IInv, TypeOK
    <2> QED
      BY <2>1, <2>2 DEF IInv, JobsSound
  <1>9. ViewsSound'
    BY ViewsKeep DEF IInv, viewVars
  <1> QED
    BY <1>5, <1>6, <1>7, <1>8, <1>9 DEF IInv

\* A process dies; what it knew is gone, what it did not own is as it was.
LEMMA StopPreserves ==
  ASSUME IInv, NEW s \in Servers, Stop(s) PROVE IInv'
  <1> USE DEF Stop
  <1>1. TypeOK'
    <2>1. /\ file' \in LockFile \cup {NoFile} /\ faults' \in 0 .. MaxFaults
          /\ home' \in [Jobs -> Servers \cup {"nobody"}]
          /\ conn' \in [Viewers -> Conns]
      BY ConstantsAssumption DEF IInv, TypeOK, Conns
    <2> QED
      BY <2>1 DEF IInv, TypeOK, Places
  <1>2. Bounds'
    <2>1. faults' = faults + 1 /\ faults \in Nat /\ UNCHANGED <<status, events>>
      BY DEF IInv, TypeOK
    <2>2. \A t \in Servers : life[t] + (IF up'[t] THEN 0 ELSE 1) <= faults + 1
      <3> TAKE t \in Servers
      <3>1. life[t] \in Nat /\ life[t] + (IF up[t] THEN 0 ELSE 1) <= faults
        BY DEF IInv, TypeOK, Lives, Bounds
      <3>2. CASE t = s
        BY <2>1, <3>1, <3>2 DEF IInv, TypeOK
      <3>3. CASE t # s
        BY <2>1, <3>1, <3>3 DEF IInv, TypeOK
      <3> QED
        BY <3>2, <3>3
    <2> QED
      BY <2>1, <2>2 DEF IInv, Bounds
  <1>3. LockSound'
    <2> SUFFICES ASSUME NEW t \in Servers
                 PROVE  /\ pc'[t] # "idle" => ~held'[t] /\ want'[t] \in Work
                        /\ busy'[t] \in {{}, {"audit"}, {"write"}}
                        /\ held'[t] <=> busy'[t] # {}
                        /\ Running(t)' <=> busy'[t] = {"audit"}
      BY DEF LockSound
    <2>1. CASE t = s
      BY <2>1 DEF IInv, TypeOK, Running
    <2>2. CASE t # s
      BY <2>2 DEF IInv, TypeOK, LockSound, Running
    <2> QED
      BY <2>1, <2>2
  <1>4. JobsSound'
    <2>1. Cardinality({}) = 0
      BY FS_EmptySet
    <2>2. /\ known'[s] = {} /\ current'[s] = NoJob
          /\ \A t \in Servers \ {s} :
               known'[t] = known[t] /\ current'[t] = current[t]
      BY DEF IInv, TypeOK
    <2>3. \A t \in Servers \ {s} : \A k \in known[t] : home'[k] = t
      BY DEF IInv, TypeOK, JobsSound
    <2> QED
      BY <2>1, <2>2, <2>3, ConstantsAssumption DEF IInv, JobsSound
  <1>5. ViewsSound'
    <2>1. \A v \in Viewers : \/ conn'[v] = conn[v]
                             \/ conn[v] = "open" /\ conn'[v] = "off"
      BY DEF IInv, TypeOK
    <2> QED
      BY <2>1, ViewsKeep DEF IInv
  <1> QED
    BY <1>1, <1>2, <1>3, <1>4, <1>5 DEF IInv

LEMMA RestartPreserves ==
  ASSUME IInv, NEW s \in Servers, Restart(s) PROVE IInv'
  <1> USE DEF Restart
  <1>1. life[s] + 1 <= faults /\ faults \in 0 .. MaxFaults /\ life[s] \in Nat
    BY DEF IInv, TypeOK, Bounds, Lives
  <1>2. TypeOK'
    <2>1. life[s] + 1 \in Lives
      BY <1>1, ConstantsAssumption DEF Lives
    <2> QED
      BY <2>1 DEF IInv, TypeOK, lockVars, jobVars, viewVars
  <1>3. Bounds'
    BY <1>1 DEF IInv, TypeOK, Bounds, jobVars
  <1>4. LockSound'
    BY DEF IInv, LockSound, lockVars, jobVars, Running
  <1>5. JobsSound'
    BY JobsKeep DEF IInv
  <1>6. ViewsSound'
    BY ViewsKeep DEF IInv, viewVars
  <1> QED
    BY <1>2, <1>3, <1>4, <1>5, <1>6 DEF IInv

-----------------------------------------------------------------------------
\* The steps of a viewer.

\* What concerns the processes and their jobs does not see them.
LEMMA ServerSideKeeps ==
  ASSUME IInv, UNCHANGED <<lockVars, up, life, busy, jobVars>>,
         faults' >= faults, faults' \in Nat
  PROVE  Bounds' /\ LockSound' /\ JobsSound'
  <1>1. Bounds'
    <2>1. \A s \in Servers : life[s] \in Nat
      BY DEF IInv, TypeOK, Lives
    <2>2. faults \in Nat
      BY DEF IInv, TypeOK
    <2> QED
      BY <2>1, <2>2 DEF IInv, Bounds, jobVars
  <1>2. LockSound'
    BY DEF IInv, LockSound, lockVars, jobVars, Running
  <1> QED
    BY <1>1, <1>2, JobsKeep DEF IInv

LEMMA FollowPreserves ==
  ASSUME IInv, NEW v \in Viewers, NEW j \in Jobs, Follow(v, j) PROVE IInv'
  <1> USE DEF Follow
  <1>1. TypeOK'
    BY ConstantsAssumption DEF IInv, TypeOK, Conns, lockVars, jobVars
  <1>2. Bounds' /\ LockSound' /\ JobsSound'
    BY ServerSideKeeps DEF IInv, TypeOK
  <1>3. ViewsSound'
    BY JobsNat DEF IInv, TypeOK, ViewsSound
  <1> QED
    BY <1>1, <1>2, <1>3 DEF IInv

LEMMA OpenPreserves ==
  ASSUME IInv, NEW v \in Viewers, Open(v) PROVE IInv'
  <1> USE DEF Open
  <1>1. watch[v] \in Jobs /\ watch[v] # NoJob /\ home[watch[v]] \in Servers
    BY DEF Served, IInv, TypeOK
  <1>2. TypeOK'
    BY <1>1, ConstantsAssumption DEF IInv, TypeOK, Conns, lockVars, jobVars
  <1>3. Bounds' /\ LockSound' /\ JobsSound'
    BY ServerSideKeeps DEF IInv, TypeOK
  <1>4. ViewsSound'
    BY <1>1 DEF IInv, TypeOK, ViewsSound
  <1> QED
    BY <1>2, <1>3, <1>4 DEF IInv

\* A connection ends.
LEMMA HangupPreserves ==
  ASSUME IInv, NEW v \in Viewers, EndStream(v) \/ Drop(v) PROVE IInv'
  <1>1. /\ conn[v] = "open" /\ conn' = [conn EXCEPT ![v] = "off"]
        /\ faults' \in {faults, faults + 1}
        /\ faults' # faults => faults < MaxFaults
        /\ UNCHANGED <<lockVars, up, life, busy, jobVars, watch, via, sent,
                       delivered>>
    BY DEF EndStream, Drop
  <1>2. faults' \in 0 .. MaxFaults /\ faults' >= faults
    BY <1>1, ConstantsAssumption DEF IInv, TypeOK
  <1>3. TypeOK'
    BY <1>1, <1>2 DEF IInv, TypeOK, Conns, lockVars, jobVars
  <1>4. Bounds' /\ LockSound' /\ JobsSound'
    BY <1>1, <1>2, ServerSideKeeps
  <1>5. ViewsSound'
    BY <1>1, ViewsKeep DEF IInv, TypeOK
  <1> QED
    BY <1>3, <1>4, <1>5 DEF IInv

\* An event is sent, within the bounds of the list of the job.
LEMMA DeliverPreserves ==
  ASSUME IInv, NEW v \in Viewers, Deliver(v) PROVE IInv'
  <1>1. /\ conn[v] = "open" /\ sent[v] < Len(events[watch[v]])
        /\ sent' = [sent EXCEPT ![v] = @ + 1]
        /\ \/ delivered' = [delivered EXCEPT ![v] = sent[v] + 1]
           \/ delivered' = [delivered EXCEPT ![v] = @]
        /\ \E c \in {"open", "closed"} : conn' = [conn EXCEPT ![v] = c]
        /\ UNCHANGED <<lockVars, up, life, busy, jobVars, watch, via, faults>>
    BY DEF Deliver
  <1>2. watch[v] \in Jobs /\ watch[v] # NoJob
    BY <1>1 DEF IInv, TypeOK, ViewsSound
  <1>3. sent[v] + 1 \in 0 .. MaxMarks + 2
    <2>1. /\ events[watch[v]] \in Seq(Events)
          /\ Len(events[watch[v]]) <= MaxMarks + 2
          /\ sent[v] \in 0 .. MaxMarks + 2
      BY <1>2 DEF IInv, TypeOK
    <2>2. Len(events[watch[v]]) \in Nat
      BY <2>1
    <2> QED
      BY <1>1, <2>1, <2>2, ConstantsAssumption
  <1>4. TypeOK'
    <2>1. /\ sent' \in [Viewers -> 0 .. MaxMarks + 2]
          /\ delivered' \in [Viewers -> 0 .. MaxMarks + 2]
      BY <1>1, <1>3 DEF IInv, TypeOK
    <2>2. conn' \in [Viewers -> Conns]
      BY <1>1 DEF IInv, TypeOK, Conns
    <2>3. TypeOK /\ UNCHANGED <<file, held, pc, want, up, life, busy, status,
                               events, home, known, current, watch, via,
                               faults>>
      BY <1>1 DEF IInv, lockVars, jobVars
    <2> QED
      BY <2>1, <2>2, <2>3 DEF TypeOK
  <1>5. Bounds' /\ LockSound' /\ JobsSound'
    BY <1>1, ServerSideKeeps DEF IInv, TypeOK
  <1>6. ViewsSound'
    BY <1>1, <1>2 DEF IInv, TypeOK, ViewsSound
  <1> QED
    BY <1>4, <1>5, <1>6 DEF IInv

-----------------------------------------------------------------------------
\* The theorems.

LEMMA ServiceStutterPreserves == ASSUME IInv, UNCHANGED vars PROVE IInv'
  <1> USE DEF vars
  <1>1. TypeOK'
    BY DEF IInv, TypeOK, lockVars, jobVars, viewVars
  <1>2. Bounds' /\ LockSound' /\ JobsSound'
    BY ServerSideKeeps DEF IInv, TypeOK
  <1>3. ViewsSound'
    BY ViewsKeep DEF IInv, viewVars
  <1> QED
    BY <1>1, <1>2, <1>3 DEF IInv

\* What processes, jobs and viewers rely on is true in every reachable state:
\* the invariant behind the theorems below.
THEOREM ServiceInvariance == Spec => []IInv
  <1>1. IInv /\ [Next]_vars => IInv'
    <2> SUFFICES ASSUME IInv, [Next]_vars PROVE IInv'
      OBVIOUS
    <2>1. ASSUME NEW s \in Servers, NEW w \in Work, Ask(s, w) \/ EndWork(s, w)
          PROVE  IInv'
      BY <2>1, AcquirePreserves, EndWorkPreserves
    <2>2. ASSUME NEW s \in Servers, Acquire(s) PROVE IInv'
      BY <2>2, AcquirePreserves, WriteTokenPreserves DEF Acquire
    <2>3. ASSUME NEW s \in Servers,
                 Succeed(s) \/ ExitCode(s) \/ Raised(s) \/ Ceiling(s)
          PROVE  IInv'
      <3>1. \E outcome \in {"done", "failed"} :
              \E marks \in {<<"finished">>, <<"failed">>,
                           <<"failed", "postmortem">>} :
                EndJob(s, outcome, marks)
        BY <2>3 DEF Succeed, ExitCode, Raised, Ceiling
      <3>2. \A marks \in {<<"finished">>, <<"failed">>,
                          <<"failed", "postmortem">>} :
              marks \in Seq(Events) /\ Len(marks) <= 2
        <4>1. /\ <<"finished">> \in Seq(Events) /\ Len(<<"finished">>) <= 2
              /\ <<"failed">> \in Seq(Events) /\ Len(<<"failed">>) <= 2
          BY DEF Events
        <4>2. /\ <<"failed", "postmortem">> \in Seq(Events)
              /\ Len(<<"failed", "postmortem">>) <= 2
          BY DEF Events
        <4> QED
          BY <4>1, <4>2, Zenon
      <3> QED
        BY <3>1, <3>2, EndJobPreserves
    <2>4. ASSUME NEW v \in Viewers,
                 \/ \E j \in Jobs : Follow(v, j)
                 \/ Open(v) \/ Deliver(v) \/ EndStream(v) \/ Drop(v)
          PROVE  IInv'
      BY <2>4, FollowPreserves, OpenPreserves, DeliverPreserves,
         HangupPreserves
    <2>5. CASE UNCHANGED vars
      BY <2>5, ServiceStutterPreserves
    <2> QED
      BY <2>1, <2>2, <2>3, <2>4, <2>5, MarkPreserves, StopPreserves,
         RestartPreserves DEF Next
  <1> QED
    BY <1>1, InvInit, PTL DEF Spec

\* Locks, jobs, event lists and viewers always have the shape the code gives
\* them, within the bounds of the model.
THEOREM ServiceTypeCorrect == Spec => []TypeOK
  BY ServiceInvariance, PTL DEF IInv

\* However often processes die and locks are taken over, a process never runs
\* two of the works that need its lock, nor one without the lock.
THEOREM WritersExclude == Spec => []OneWriterPerServer
  <1>1. IInv => OneWriterPerServer
    <2> SUFFICES ASSUME IInv, NEW s \in Servers
                 PROVE  /\ Cardinality(busy[s]) <= 1
                        /\ busy[s] # {} <=> held[s]
                        /\ Running(s) => busy[s] = {"audit"}
      BY DEF OneWriterPerServer
    <2>1. /\ Cardinality({}) = 0 /\ Cardinality({"audit"}) = 1
          /\ Cardinality({"write"}) = 1
      BY FS_EmptySet, FS_Singleton
    <2>2. busy[s] \in {{}, {"audit"}, {"write"}}
      BY DEF IInv, LockSound
    <2>3. Cardinality(busy[s]) <= 1
      BY <2>1, <2>2
    <2> QED
      BY <2>3 DEF IInv, LockSound
  <1> QED
    BY <1>1, ServiceInvariance, PTL

\* A process never remembers more than MaxFinished finished audits and one
\* more, and never forgets the current one.
THEOREM JobsStayBounded == Spec => []JobsBounded
  <1>1. IInv => JobsBounded
    BY DEF IInv, JobsSound, JobsBounded
  <1> QED
    BY <1>1, ServiceInvariance, PTL
=============================================================================
