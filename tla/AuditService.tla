---------------------------- MODULE AuditService ----------------------------
(***************************************************************************)
(* The AuditHub service: several service processes that share one runs     *)
(* folder and its .service_lock (SingleRunLock), each with its AuditRunner *)
(* (jobs, their event lists, eviction), the three kinds of work that take  *)
(* the lock (POST /audits, apply-once, verification views), browsers that  *)
(* follow a job over an event stream that drops and is redialled.          *)
(*                                                                         *)
(* acquire() blocks its process's event loop, so nothing else of the same  *)
(* process happens between two of its system calls; other processes do.    *)
(* All else is one step per handler between two awaits.                    *)
(***************************************************************************)
EXTENDS Naturals, Sequences, FiniteSets

CONSTANTS
  Servers,      \* service processes over one runs folder
  Viewers,      \* browser tabs, each following one job
  Asked,        \* bound: the work each process may be asked for
  MaxJobs,      \* bound: audits started in all
  MaxMarks,     \* bound: progress events of one audit
  MaxFinished,  \* MAX_FINISHED_JOBS: finished jobs kept at a start
  MaxFaults     \* bound: crashes, failed unlinks, dropped connections

ASSUME ConstantsAssumption ==
  /\ MaxJobs \in Nat \ {0}
  /\ MaxMarks \in Nat
  /\ MaxFinished \in Nat
  /\ MaxFaults \in Nat
  /\ IsFiniteSet(Servers)
  /\ \A s \in Servers : Asked[s] \subseteq {"audit", "write"}

Jobs == 1 .. MaxJobs
NoJob == 0
Lives == 0 .. MaxFaults
NoFile == [by |-> "nobody"]

\* What takes the run lock: an audit, or a request that writes to Revit
\* (approvals/apply-once and verification-views, which share one pattern).
Work == {"audit", "write"}

\* The lock file: who created it, in which life, and whether the owner's
\* token was written yet (it is created empty).
LockFile == [by : Servers, life : Lives, written : BOOLEAN]

Places == {"idle", "read", "unlink", "recreate", "write"}
Statuses == {"none", "running", "done", "failed"}
\* The runner's marks, the events of the structlog tap, and the error the
\* runner itself logs, through the same tap, after its "failed" mark.
Events == {"mark", "finished", "failed", "postmortem"}
Terminal == {"finished", "failed"}

Conns == {"idle", "off", "open", "closed"}

\* The name the server gives every event of a stream, and the names the
\* browser hands to the only handler the page sets: onmessage is called for
\* events without a name of their own.
EventName == "progress"
HandledNames == {"message"}

VARIABLES
  file,      \* .service_lock
  up, life,  \* is the process alive; how often it was started
  held,      \* SingleRunLock._held
  pc, want,  \* place in acquire(), and for what work
  busy,      \* the work going on under the lock of a process
  status,    \* AuditJob.status
  events,    \* AuditJob.events
  home,      \* the process whose memory holds the job
  known,     \* AuditRunner.jobs of a process; older jobs have lower numbers
  current,   \* AuditRunner.current
  watch,     \* the job a viewer follows
  conn,      \* its EventSource
  via,       \* the process that serves the connection, which keeps the
             \* job's events even when the job is evicted
  sent,      \* events sent on this connection, the index of stream_events
  delivered, \* ReplayDedup.delivered: events the live log accepted
  faults     \* crashes, failed unlinks and dropped connections so far

lockVars == <<file, held, pc, want>>
jobVars == <<status, events, home, known, current>>
viewVars == <<watch, conn, via, sent, delivered>>
vars == <<lockVars, up, life, busy, jobVars, viewVars, faults>>

TypeOK ==
  /\ file \in LockFile \cup {NoFile}
  /\ up \in [Servers -> BOOLEAN] /\ life \in [Servers -> Lives]
  /\ held \in [Servers -> BOOLEAN]
  /\ pc \in [Servers -> Places] /\ want \in [Servers -> Work \cup {"none"}]
  /\ busy \in [Servers -> SUBSET Work]
  /\ status \in [Jobs -> Statuses]
  /\ events \in [Jobs -> Seq(Events)]
  /\ \A j \in Jobs : Len(events[j]) <= MaxMarks + 2
  /\ home \in [Jobs -> Servers \cup {"nobody"}]
  /\ known \in [Servers -> SUBSET Jobs]
  /\ current \in [Servers -> Jobs \cup {NoJob}]
  /\ watch \in [Viewers -> Jobs \cup {NoJob}] /\ conn \in [Viewers -> Conns]
  /\ via \in [Viewers -> Servers \cup {"nobody"}]
  /\ sent \in [Viewers -> 0 .. MaxMarks + 2]
  /\ delivered \in [Viewers -> 0 .. MaxMarks + 2]
  /\ faults \in 0 .. MaxFaults

Init ==
  /\ file = NoFile
  /\ up = [s \in Servers |-> TRUE] /\ life = [s \in Servers |-> 0]
  /\ held = [s \in Servers |-> FALSE]
  /\ pc = [s \in Servers |-> "idle"] /\ want = [s \in Servers |-> "none"]
  /\ busy = [s \in Servers |-> {}]
  /\ status = [j \in Jobs |-> "none"] /\ events = [j \in Jobs |-> <<>>]
  /\ home = [j \in Jobs |-> "nobody"]
  /\ known = [s \in Servers |-> {}] /\ current = [s \in Servers |-> NoJob]
  /\ watch = [v \in Viewers |-> NoJob] /\ conn = [v \in Viewers |-> "idle"]
  /\ via = [v \in Viewers |-> "nobody"]
  /\ sent = [v \in Viewers |-> 0] /\ delivered = [v \in Viewers |-> 0]
  /\ faults = 0

Running(s) == current[s] # NoJob /\ status[current[s]] = "running"
Free(s) == up[s] /\ pc[s] = "idle"
Unused == {j \in Jobs : status[j] = "none"}
\* Bounds: the work asked for, and an audit only while one is left to start.
MayAsk(s, w) == w \in Asked[s] /\ (w = "audit" =>
  Cardinality(Unused) > Cardinality({t \in Servers : want[t] = "audit"}))

-----------------------------------------------------------------------------
(* SingleRunLock.acquire() and release(), one system call per step.        *)

\* The owner named in the file is not the process that took it: no token
\* yet, the reader's own number, a dead process, or a number that now
\* belongs to another start time.
Stale(s) ==
  \/ file = NoFile
  \/ ~file.written
  \/ file.by = s
  \/ ~up[file.by]
  \/ life[file.by] # file.life

NewFile(s) == [by |-> s, life |-> life[s], written |-> FALSE]
Goto(s, place) == pc' = [pc EXCEPT ![s] = place]
Answer409(s) == Goto(s, "idle") /\ want' = [want EXCEPT ![s] = "none"]

\* Wrong: acquire() without its check of _held.
AskUnheld(s, w) ==
  /\ Free(s)
  /\ w = "audit" => ~Running(s)
  /\ MayAsk(s, w)
  /\ want' = [want EXCEPT ![s] = w]
  /\ IF file = NoFile THEN file' = NewFile(s) /\ Goto(s, "write")
     ELSE UNCHANGED file /\ Goto(s, "read")
  /\ UNCHANGED <<held, up, life, busy, jobVars, viewVars, faults>>

\* A request reaches acquire(): create-or-fail in one call. A request that
\* finds the job or the lock of its own process busy is answered 409 at once
\* and changes nothing.
Ask(s, w) ==
  /\ Free(s) /\ ~held[s]
  /\ w = "audit" => ~Running(s)
  /\ MayAsk(s, w)
  /\ want' = [want EXCEPT ![s] = w]
  /\ IF file = NoFile THEN file' = NewFile(s) /\ Goto(s, "write")
     ELSE UNCHANGED file /\ Goto(s, "read")
  /\ UNCHANGED <<held, up, life, busy, jobVars, viewVars, faults>>

\* Wrong: the owner is judged by its number alone.
ReadOwnerByNumber(s) ==
  /\ up[s] /\ pc[s] = "read"
  /\ IF file = NoFile \/ ~file.written \/ file.by = s
     THEN Goto(s, "unlink") /\ UNCHANGED want
     ELSE Answer409(s)
  /\ UNCHANGED <<file, held, up, life, busy, jobVars, viewVars, faults>>

\* The file exists: read it and judge its owner.
ReadOwner(s) ==
  /\ up[s] /\ pc[s] = "read"
  /\ IF Stale(s) THEN Goto(s, "unlink") /\ UNCHANGED want
     ELSE Answer409(s)
  /\ UNCHANGED <<file, held, up, life, busy, jobVars, viewVars, faults>>

\* Is some other process between its creation and its write of the file?
OpenElsewhere(s) ==
  \E t \in Servers \ {s} : pc[t] = "write" /\ file = NewFile(t)

\* The reclaim removes whatever file is there by now; where an open file
\* cannot be removed (Windows), it fails and the request is refused.
UnlinkStale(s) ==
  /\ up[s] /\ pc[s] = "unlink"
  /\ \/ file' = NoFile /\ Goto(s, "recreate") /\ UNCHANGED want
     \/ OpenElsewhere(s) /\ Answer409(s) /\ UNCHANGED file
  /\ UNCHANGED <<held, up, life, busy, jobVars, viewVars, faults>>

Recreate(s) ==
  /\ up[s] /\ pc[s] = "recreate"
  /\ IF file = NoFile THEN file' = NewFile(s) /\ Goto(s, "write")
                           /\ UNCHANGED want
     ELSE Answer409(s) /\ UNCHANGED file
  /\ UNCHANGED <<held, up, life, busy, jobVars, viewVars, faults>>

\* The token goes to the file that was created, which another process may
\* have unlinked and replaced meanwhile.
Written(s) == IF file = NewFile(s)
              THEN [by |-> s, life |-> life[s], written |-> TRUE] ELSE file

Finished(s) == {j \in known[s] : status[j] # "running"}
Newer(s, j) == {k \in Finished(s) : k > j}

\* _evict_finished: the oldest finished jobs beyond MaxFinished.
Evicted(s) == {j \in Finished(s) : Cardinality(Newer(s, j)) >= MaxFinished}

\* A new AuditJob under the lock: evict, register, make it current.
NewJob(s, j) ==
  /\ status' = [status EXCEPT ![j] = "running"]
  /\ known' = [known EXCEPT ![s] = (@ \ Evicted(s)) \cup {j}]
  /\ current' = [current EXCEPT ![s] = j]
  /\ home' = [k \in Jobs |-> IF k = j THEN s
                             ELSE IF k \in Evicted(s) THEN "nobody"
                             ELSE home[k]]
  /\ UNCHANGED events

\* The token is written, the lock is held and the work begins.
WriteToken(s) ==
  /\ up[s] /\ pc[s] = "write"
  /\ file' = Written(s)
  /\ held' = [held EXCEPT ![s] = TRUE]
  /\ Goto(s, "idle") /\ want' = [want EXCEPT ![s] = "none"]
  /\ busy' = [busy EXCEPT ![s] = @ \cup {want[s]}]
  /\ IF want[s] = "audit"
     THEN \E j \in Unused : /\ \A k \in Unused : j <= k
                            /\ NewJob(s, j)
     ELSE UNCHANGED jobVars
  /\ UNCHANGED <<up, life, viewVars, faults>>

\* release(): unlinks whatever file is there; an unlink that fails leaves it.
Release(s, w) ==
  /\ held' = [held EXCEPT ![s] = FALSE]
  /\ busy' = [busy EXCEPT ![s] = @ \ {w}]
  /\ \/ file' = NoFile /\ UNCHANGED faults
     \/ faults < MaxFaults /\ faults' = faults + 1 /\ UNCHANGED file

\* An apply-once pass or the creation of views ends, well or badly.
EndWork(s, w) ==
  /\ Free(s) /\ w \in busy[s] \ {"audit"}
  /\ Release(s, w)
  /\ UNCHANGED <<pc, want, up, life, jobVars, viewVars>>

-----------------------------------------------------------------------------
(* AuditRunner._execute.                                                   *)

\* "started", run_started and every line the tap sees.
Mark(s) ==
  /\ Free(s) /\ Running(s) /\ Len(events[current[s]]) < MaxMarks
  /\ events' = [events EXCEPT ![current[s]] = Append(@, "mark")]
  /\ UNCHANGED <<lockVars, up, life, busy, status, home, known, current,
                 viewVars, faults>>

\* The job's outcome, its terminal event and its release are one step: no
\* await lies between them.
EndJob(s, outcome, marks) ==
  /\ Free(s) /\ Running(s)
  /\ status' = [status EXCEPT ![current[s]] = outcome]
  /\ events' = [events EXCEPT ![current[s]] = @ \o marks]
  /\ Release(s, "audit")
  /\ UNCHANGED <<pc, want, up, life, home, known, current, viewVars>>

Succeed(s) == EndJob(s, "done", <<"finished">>)
ExitCode(s) == EndJob(s, "failed", <<"failed">>)
\* The audit raised: log.error comes after the mark, through the tap.
Raised(s) == EndJob(s, "failed", <<"failed", "postmortem">>)

\* Wrong: no ceiling.
NoCeiling(s) == FALSE /\ EndJob(s, "failed", <<"failed", "postmortem">>)

\* wait_for's ceiling passed; the audit is cancelled.
Ceiling(s) == EndJob(s, "failed", <<"failed", "postmortem">>)

-----------------------------------------------------------------------------
(* The life of a process.                                                  *)

\* A process dies, or is shut down and its tasks' finally blocks run. Its
\* memory goes, and with it its jobs; the streams it served break.
Stop(s) ==
  /\ up[s] /\ faults < MaxFaults
  /\ faults' = faults + 1
  /\ up' = [up EXCEPT ![s] = FALSE]
  /\ file' \in IF busy[s] # {} THEN {file, NoFile} ELSE {file}
  /\ held' = [held EXCEPT ![s] = FALSE]
  /\ pc' = [pc EXCEPT ![s] = "idle"] /\ want' = [want EXCEPT ![s] = "none"]
  /\ busy' = [busy EXCEPT ![s] = {}]
  /\ known' = [known EXCEPT ![s] = {}]
  /\ current' = [current EXCEPT ![s] = NoJob]
  /\ home' = [j \in Jobs |-> IF home[j] = s THEN "nobody" ELSE home[j]]
  /\ conn' = [v \in Viewers |->
       IF conn[v] = "open" /\ via[v] = s THEN "off" ELSE conn[v]]
  /\ UNCHANGED <<life, status, events, watch, via, sent, delivered>>

Restart(s) ==
  /\ ~up[s]
  /\ up' = [up EXCEPT ![s] = TRUE]
  /\ life' = [life EXCEPT ![s] = @ + 1]
  /\ UNCHANGED <<lockVars, busy, jobVars, viewVars, faults>>

-----------------------------------------------------------------------------
(* useAuditEvents over ReconnectingEventSource and ReplayDedup.            *)

\* The page follows another audit: a new source and a new deduplication.
Follow(v, j) ==
  /\ watch[v] # j /\ status[j] # "none"
  /\ watch' = [watch EXCEPT ![v] = j]
  /\ conn' = [conn EXCEPT ![v] = "off"]
  /\ via' = [via EXCEPT ![v] = "nobody"]
  /\ sent' = [sent EXCEPT ![v] = 0]
  /\ delivered' = [delivered EXCEPT ![v] = 0]
  /\ UNCHANGED <<lockVars, up, life, busy, jobVars, faults>>

\* The process that can serve the viewer's job.
Served(v) == watch[v] # NoJob /\ home[watch[v]] # "nobody"
             /\ Free(home[watch[v]])

\* A connection opens and stream_events starts from the first event. A job
\* its process no longer knows is answered 404 and dialled again later.
Open(v) ==
  /\ conn[v] = "off" /\ Served(v)
  /\ conn' = [conn EXCEPT ![v] = "open"]
  /\ via' = [via EXCEPT ![v] = home[watch[v]]]
  /\ sent' = [sent EXCEPT ![v] = 0]
  /\ UNCHANGED <<lockVars, up, life, busy, jobVars, watch, delivered, faults>>

\* The event that is sent next reaches the handler and is not a replay of
\* one that was accepted (connSeen is sent, for events that reach it).
Accepts(v) == EventName \in HandledNames /\ sent[v] >= delivered[v]

\* Wrong: a job that has ended is not drained first.
DeliverRunning(v) ==
  LET event == events[watch[v]][sent[v] + 1]
  IN  /\ conn[v] = "open" /\ Free(via[v])
      /\ sent[v] < Len(events[watch[v]]) /\ status[watch[v]] = "running"
      /\ sent' = [sent EXCEPT ![v] = @ + 1]
      /\ delivered' = [delivered EXCEPT ![v] =
           IF Accepts(v) THEN sent[v] + 1 ELSE @]
      /\ conn' = [conn EXCEPT ![v] =
           IF Accepts(v) /\ event \in Terminal THEN "closed" ELSE @]
      /\ UNCHANGED <<lockVars, up, life, busy, jobVars, watch, via, faults>>

\* The next event is sent on the connection. The page puts it in its log if
\* it accepts it, and closes the source for good if it is terminal.
Deliver(v) ==
  LET event == events[watch[v]][sent[v] + 1]
  IN  /\ conn[v] = "open" /\ Free(via[v])
      /\ sent[v] < Len(events[watch[v]])
      /\ sent' = [sent EXCEPT ![v] = @ + 1]
      /\ delivered' = [delivered EXCEPT ![v] =
           IF Accepts(v) THEN sent[v] + 1 ELSE @]
      /\ conn' = [conn EXCEPT ![v] =
           IF Accepts(v) /\ event \in Terminal THEN "closed" ELSE @]
      /\ UNCHANGED <<lockVars, up, life, busy, jobVars, watch, via, faults>>

\* The server closes the drained stream of an ended job, which EventSource
\* takes for an error.
EndStream(v) ==
  /\ conn[v] = "open" /\ Free(via[v])
  /\ sent[v] = Len(events[watch[v]]) /\ status[watch[v]] # "running"
  /\ conn' = [conn EXCEPT ![v] = "off"]
  /\ UNCHANGED <<lockVars, up, life, busy, jobVars, watch, via, sent,
                 delivered, faults>>

\* The network drops the connection.
Drop(v) ==
  /\ conn[v] = "open" /\ faults < MaxFaults
  /\ faults' = faults + 1
  /\ conn' = [conn EXCEPT ![v] = "off"]
  /\ UNCHANGED <<lockVars, up, life, busy, jobVars, watch, via, sent,
                 delivered>>

-----------------------------------------------------------------------------
Acquire(s) ==
  ReadOwner(s) \/ UnlinkStale(s) \/ Recreate(s) \/ WriteToken(s)

Next ==
  \/ \E s \in Servers :
       \/ \E w \in Work : Ask(s, w) \/ EndWork(s, w)
       \/ Acquire(s)
       \/ Mark(s) \/ Succeed(s) \/ ExitCode(s) \/ Raised(s) \/ Ceiling(s)
       \/ Stop(s) \/ Restart(s)
  \/ \E v \in Viewers :
       \/ \E j \in Jobs : Follow(v, j)
       \/ Open(v) \/ Deliver(v) \/ EndStream(v) \/ Drop(v)

\* A system call returns, the ceiling's timer fires, the event loop comes
\* back to the streams after every acquire(), which send and end, the browser
\* redials.
Fairness ==
  /\ \A s \in Servers : WF_vars(Acquire(s)) /\ WF_vars(Ceiling(s))
  /\ \A v \in Viewers : /\ SF_vars(Open(v)) /\ SF_vars(Deliver(v))
                        /\ SF_vars(EndStream(v))

Spec == Init /\ [][Next]_vars /\ Fairness

-----------------------------------------------------------------------------
(* Properties.                                                             *)

\* One audit, apply-once or view creation at a time in a service process
\* (all three write to Revit), and never one without the run lock.
OneWriterPerServer ==
  \A s \in Servers : /\ Cardinality(busy[s]) <= 1
                     /\ busy[s] # {} <=> held[s]
                     /\ Running(s) => busy[s] = {"audit"}

Quiet(s) == \A t \in Servers \ {s} :
  /\ pc[t] = "idle" /\ ~held[t]
  /\ ~(up[t] /\ file # NoFile /\ file.by = t /\ file.life = life[t])

\* What a dead process left behind, even when its number is in use again,
\* never jams the lock: a request that finds a lock file while no other
\* process works, acquires or could not remove its own file gets the lock,
\* unless one of them moves or its own process stops.
LockNotJammed == \A s \in Servers :
  (pc[s] = "read" /\ Quiet(s)) ~> (held[s] \/ ~Quiet(s) \/ ~up[s])

\* A process remembers its latest audits, MaxFinished finished ones and one
\* more, and its current audit among them.
JobsBounded ==
  \A s \in Servers :
    /\ Cardinality(known[s]) <= MaxFinished + 1
    /\ current[s] # NoJob => /\ current[s] \in known[s]
                             /\ \A j \in known[s] : j <= current[s]
    /\ \A j \in known[s] : home[j] = s

\* A hung audit does not stay: every job ends or dies with its process.
JobsEnd == \A j \in Jobs :
  status[j] = "running" ~> (status[j] # "running" \/ home[j] = "nobody")

\* The connection of a viewer has carried the end of its audit.
OutcomeSent(v) == watch[v] # NoJob /\
  \E i \in 1 .. sent[v] : events[watch[v]][i] \in Terminal

\* The process that knows the audit died, or evicted it before the viewer
\* was connected.
OutOfReach(v, j) == home[j] = "nobody" /\ conn[v] = "off"

\* Over dropped connections and late arrivals a viewer that stays on an audit
\* is sent its end, also when the audit ended before the viewer connected.
OutcomeIsSent == \A v \in Viewers, j \in Jobs :
  watch[v] = j ~> (watch[v] # j \/ OutcomeSent(v) \/ OutOfReach(v, j))

\* Not so in the code: the page (sse.ts, sse.test.ts) accepts the end and
\* closes its source, instead of dialling the ended stream for ever.
StreamClosesAtOutcome == \A v \in Viewers, j \in Jobs :
  watch[v] = j ~> (watch[v] # j \/ conn[v] = "closed" \/ OutOfReach(v, j))

\* Not so in the code: of the runner's terminal marks the page says that after
\* one of them "the stream will never carry another event".
TerminalIsLast == \A j \in Jobs : \A i \in 1 .. Len(events[j]) :
  events[j][i] \in Terminal => i = Len(events[j])
=============================================================================
