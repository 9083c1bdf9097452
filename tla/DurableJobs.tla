----------------------------- MODULE DurableJobs -----------------------------
(***************************************************************************)
(* DurableJobSupervisor of packages/ohm/src/extensions/durable-jobs.ts:    *)
(* jobs of an extension that outlive the process.                          *)
(*                                                                         *)
(* A host is one supervisor; hosts of one process or of several share the  *)
(* store, a file rewritten as a whole under a lock, so that a transaction  *)
(* is one step here.  Between the transactions of a call everything else   *)
(* may happen: the extension is refreshed, which closes the host and opens *)
(* another, the process dies, another host looks at the store.  A write    *)
(* may fail, and may have taken place when it fails.                       *)
(***************************************************************************)
EXTENDS Naturals, FiniteSets

CONSTANTS
  Job,          \* job identifiers; each is created at most once
  Host,         \* supervisors
  ProcessOf,    \* process a supervisor lives in
  KeyOf,        \* idempotency key a job is started with
  NoHost,
  MaxJobs,      \* MAX_JOBS
  MaxActive,    \* MAX_ACTIVE_JOBS
  Results,      \* how an operation may end
  MaxAttempts, MaxFailures  \* bounds of the model

ASSUME JobsAssumption ==
  /\ NoHost \notin Host
  /\ {MaxJobs, MaxActive, MaxAttempts} \subseteq Nat \ {0}
  /\ MaxFailures \in Nat /\ Results \subseteq {"succeeded", "failed", "interrupted"}

VARIABLES
  store,      \* the jobs on disk
  status,     \* where a host is in its life
  current,    \* attempt under #active of a host, 0 if there is none
  phase,      \* where an attempt is in its host
  runner,     \* host of an attempt
  outcome,    \* how the operation of an attempt ended
  signalled,  \* attempts whose signal is aborted
  ending,     \* calls of #terminateActive
  cancelling, \* cancellations on record that are to stop the operation
  failures    \* writes that failed

memory   == <<current, phase, runner, outcome>>
stopping == <<signalled, ending, cancelling>>
disk     == <<store, failures>>
jobVars  == <<store, status, memory, stopping, failures>>

Attempt      == Job \X (1 .. MaxAttempts)
ActiveStates == {"starting", "running"}
Prunable     == {"succeeded", "failed", "cancelled", "timed_out"}
States       == ActiveStates \cup Prunable \cup {"absent", "evicted", "interrupted"}
Gone         == {"absent", "evicted"}

JobsInit ==
  /\ store = [j \in Job |-> [state |-> "absent", attempt |-> 0, host |-> NoHost]]
  /\ status = [h \in Host |-> "open"]
  /\ current = [h \in Host |-> [j \in Job |-> 0]]
  /\ phase = [a \in Attempt |-> "none"] /\ runner = [a \in Attempt |-> NoHost]
  /\ outcome = [a \in Attempt |-> "none"]
  /\ signalled = {} /\ ending = {} /\ cancelling = {}
  /\ failures = 0

-----------------------------------------------------------------------------
(* The store.                                                              *)

IsActive(jobs, j) == jobs[j].state \in ActiveStates

(* #ownedByLiveHost: within a process a host lives until it is closed.     *)
OwnerLives(h, g) ==
  /\ g # NoHost
  /\ IF ProcessOf[g] = ProcessOf[h] THEN status[g] \in {"open", "retired", "closing"} ELSE status[g] # "dead"

(* #launching: from the first record of an attempt until it runs or is     *)
(* given up.  (A resume that is refused clears the mark of the job early;  *)
(* it is missed only while an attempt that did not start is interrupted.)  *)
Launching(h, j) ==
  \E n \in 1 .. MaxAttempts :
    runner[<<j, n>>] = h /\ phase[<<j, n>>] \in {"assigned", "admitted", "unlaunched"}

\* Mutant: a host asks only whether the job is one of its own operations.
AbandonedIfNotMine(h, j) == IsActive(store, j) /\ current[h][j] = 0 /\ ~Launching(h, j)

\* Mutant: a host takes its own jobs for live ones whatever became of them.
AbandonedByOthers(h, j) ==
  IsActive(store, j) /\ current[h][j] = 0 /\ ~Launching(h, j) /\ ~OwnerLives(h, store[j].host)

(* #recover: the active jobs a host takes for abandoned.                   *)
Abandoned(h, j) ==
  /\ IsActive(store, j) /\ current[h][j] = 0 /\ ~Launching(h, j)
  /\ store[j].host = h \/ ~OwnerLives(h, store[j].host)

Recovered(h) ==
  [j \in Job |->
     IF Abandoned(h, j) THEN [store[j] EXCEPT !.state = "interrupted", !.host = NoHost] ELSE store[j]]

Turned(job, state) ==
  [job EXCEPT !.state = state, !.host = IF state \in ActiveStates THEN @ ELSE NoHost]
Change(jobs, j, job)    == [k \in Job |-> IF k = j THEN job ELSE jobs[k]]
With(jobs, j, state)    == Change(jobs, j, Turned(jobs[j], state))

Occupied(jobs) == {j \in Job : jobs[j].state \notin Gone}
Busy(jobs)     == {j \in Job : IsActive(jobs, j)}

(* evictionIndex: finished jobs go before interrupted ones.                *)
Evictable(jobs) ==
  LET finished == {j \in Job : jobs[j].state \in Prunable} IN
  IF finished # {} THEN finished ELSE {j \in Job : jobs[j].state = "interrupted"}

(* pruneForInsert                                                          *)
Pruned(jobs) ==
  IF Cardinality(Occupied(jobs)) < MaxJobs THEN {jobs}
  ELSE {With(jobs, j, "evicted") : j \in Evictable(jobs)}

Write(jobs)     == store' = jobs /\ UNCHANGED failures
FailToWrite(jobs) ==
  /\ failures < MaxFailures /\ failures' = failures + 1
  /\ store' \in {store, jobs}

(* A call goes on as soon as its transaction has given the lock back, so   *)
(* its own host has no other transaction before that.                      *)
Transacts(h) == \A a \in Attempt : runner[a] = h => phase[a] # "assigned"

(* #assertOwner, and then a transaction.                                   *)
Open(h)  == status[h] = "open"
Calls(h) == Open(h) /\ Transacts(h)

-----------------------------------------------------------------------------
(* start and resume.                                                       *)

Claimed(jobs, h, j, n) ==
  Change(jobs, j, [state |-> "starting", attempt |-> n, host |-> h])

(* The record is written, and the call goes on to launch the attempt.      *)
Launches(h, a) ==
  /\ phase' = [phase EXCEPT ![a] = "assigned"]
  /\ runner' = [runner EXCEPT ![a] = h]
  /\ UNCHANGED <<current, outcome>>

KeyTaken(jobs, j) == \E k \in Occupied(jobs) : KeyOf[k] = KeyOf[j]

Start(h, j) ==
  LET jobs == Recovered(h) IN
  /\ Calls(h) /\ store[j].state = "absent"
  /\ ~KeyTaken(jobs, j) /\ Cardinality(Busy(jobs)) < MaxActive
  /\ \E pruned \in Pruned(jobs) :
       LET new == Claimed(pruned, h, j, 1) IN
       \/ Write(new) /\ Launches(h, <<j, 1>>)
       \/ FailToWrite(new) /\ UNCHANGED memory
  /\ UNCHANGED <<status, stopping>>

Resume(h, j) ==
  LET jobs == Recovered(h)  n == jobs[j].attempt + 1  new == Claimed(jobs, h, j, n) IN
  /\ Calls(h) /\ jobs[j].state = "interrupted" /\ n <= MaxAttempts
  /\ Cardinality(Busy(jobs)) < MaxActive
  /\ \/ Write(new) /\ Launches(h, <<j, n>>)
     \/ FailToWrite(new) /\ UNCHANGED memory
  /\ UNCHANGED <<status, stopping>>

To(a, next) == phase' = [phase EXCEPT ![a] = next]
Is(a, here) == phase[a] = here
Entry(a)    == current[runner[a]][a[1]]
Enter(a, n) == current' = [current EXCEPT ![runner[a]][a[1]] = n]

(* #launch                                                                 *)
Launch(a) ==
  /\ Is(a, "assigned")
  /\ IF Open(runner[a])
     THEN To(a, "admitted") /\ Enter(a, a[2])
     ELSE To(a, "unlaunched") /\ UNCHANGED current
  /\ UNCHANGED <<disk, status, runner, outcome, stopping>>

OnRecord(a, state) ==
  store[a[1]].attempt = a[2] /\ store[a[1]].state = state /\ store[a[1]].host = runner[a]

(* The job has not changed meanwhile, and its operation starts; otherwise, *)
(* or if the write fails, its entry is removed.                            *)
Admit(a) ==
  LET new == With(store, a[1], "running") IN
  /\ Is(a, "admitted") /\ Transacts(runner[a])
  /\ \/ /\ OnRecord(a, "starting") /\ Write(new)
        /\ To(a, "running") /\ UNCHANGED current
     \/ /\ \/ OnRecord(a, "starting") /\ FailToWrite(new)
           \/ ~OnRecord(a, "starting") /\ UNCHANGED disk
        /\ To(a, "unlaunched") /\ Enter(a, 0)
  /\ UNCHANGED <<status, runner, outcome, stopping>>

\* Mutant: an outcome is written whatever the job has become.
SettledAnyhow(a, state) == IF store[a[1]].state \in Gone THEN store ELSE With(store, a[1], state)

(* #settle: only the attempt on record, while the job is active.           *)
Settled(a, state) ==
  IF store[a[1]].attempt = a[2] /\ IsActive(store, a[1]) THEN With(store, a[1], state) ELSE store

(* #interruptUnlaunched                                                    *)
InterruptUnlaunched(a) ==
  LET new == Settled(a, "interrupted") IN
  /\ Is(a, "unlaunched") /\ Transacts(runner[a]) /\ To(a, "over")
  /\ Write(new) \/ FailToWrite(new)
  /\ UNCHANGED <<status, current, runner, outcome, stopping>>

-----------------------------------------------------------------------------
(* #runOperation                                                           *)

Forgotten(a) == IF Entry(a) = a[2] THEN Enter(a, 0) ELSE UNCHANGED current

(* What an operation gives after the abort of its signal is not recorded.  *)
OperationEnds(a) ==
  /\ Is(a, "running")
  /\ \/ a \in signalled /\ To(a, "over") /\ Forgotten(a) /\ UNCHANGED outcome
     \/ /\ a \notin signalled /\ To(a, "ended") /\ UNCHANGED current
        /\ \E result \in Results :
             outcome' = [outcome EXCEPT ![a] = result]
  /\ UNCHANGED <<disk, status, runner, stopping>>

SettleOperation(a) ==
  LET new == Settled(a, outcome[a]) IN
  /\ Is(a, "ended") /\ Transacts(runner[a]) /\ To(a, "over") /\ Forgotten(a)
  /\ Write(new) \/ FailToWrite(new)
  /\ UNCHANGED <<status, runner, outcome, stopping>>

-----------------------------------------------------------------------------
(* #terminateActive: what stops the operation of an attempt.               *)

Ending(a, state) == [attempt |-> a, state |-> state]

TimedOut(a) ==
  /\ Is(a, "running") /\ Entry(a) = a[2] /\ a \notin signalled
  /\ ~(\E e \in ending : e.attempt = a /\ e.state = "timed_out")
  /\ ending' = ending \cup {Ending(a, "timed_out")}
  /\ UNCHANGED <<disk, status, memory, signalled, cancelling>>

(* First the record, in a transaction of its own, and then the signal,     *)
(* also if the record could not be written.  (Another host may see the     *)
(* record before the signal; to the properties the attempt is being        *)
(* stopped in between, as it is before.)                                   *)
StopOperation(e) ==
  LET new == Settled(e.attempt, e.state) IN
  /\ e \in ending /\ Transacts(runner[e.attempt])
  /\ Write(new) \/ FailToWrite(new)
  /\ ending' = ending \ {e}
  /\ signalled' = signalled \cup {a \in {e.attempt} : ~Is(a, "over")}
  /\ UNCHANGED <<status, memory, cancelling>>

(* cancel: not for the job of another live host.                           *)
Cancel(h, j) ==
  LET jobs == Recovered(h)  new == With(jobs, j, "cancelled") IN
  /\ Calls(h) /\ jobs[j].state \in ActiveStates \cup {"interrupted"}
  /\ IsActive(jobs, j) => current[h][j] # 0 \/ ~OwnerLives(h, jobs[j].host)
  /\ \/ /\ Write(new)
        /\ cancelling' = IF current[h][j] # 0 THEN cancelling \cup {<<h, j>>} ELSE cancelling
     \/ FailToWrite(new) /\ UNCHANGED cancelling
  /\ UNCHANGED <<status, memory, signalled, ending>>

StopCancelled(h, j) ==
  /\ <<h, j>> \in cancelling /\ cancelling' = cancelling \ {<<h, j>>}
  /\ ending' = IF current[h][j] = 0 THEN ending
               ELSE ending \cup {Ending(<<j, current[h][j]>>, "cancelled")}
  /\ UNCHANGED <<disk, status, memory, signalled>>

(* inspect, list and the polls of wait.                                    *)
Look(h) ==
  /\ Calls(h)
  /\ Write(Recovered(h)) \/ FailToWrite(Recovered(h))
  /\ UNCHANGED <<status, memory, stopping>>

-----------------------------------------------------------------------------
(* Hosts.                                                                  *)

(* The generation of the extension ends (interrupt of #bindOwner), and     *)
(* some cleanup later its host is closed.                                  *)
Stop(h, from, to) ==
  /\ status[h] = from /\ status' = [status EXCEPT ![h] = to]
  /\ ending' = ending \cup {Ending(<<j, current[h][j]>>, "interrupted") : j \in {k \in Job : current[h][k] # 0}}
  /\ UNCHANGED <<disk, memory, signalled, cancelling>>

Retire(h) == Stop(h, "open", "retired")
Close(h)  == Stop(h, "retired", "closing")

(* Its calls of #terminateActive are over; operations that go on are left  *)
(* alone after CLOSE_DRAIN_MS.                                             *)
Closed(h) ==
  /\ status[h] = "closing"
  /\ ~(\E e \in ending : runner[e.attempt] = h /\ e.state = "interrupted")
  /\ status' = [status EXCEPT ![h] = "stopped"]
  /\ UNCHANGED <<disk, memory, stopping>>

Dying(p) == {h \in Host : ProcessOf[h] = p}

ProcessDies(p) ==
  /\ \A h \in Dying(p) : status[h] # "dead"
  /\ status' = [h \in Host |-> IF h \in Dying(p) THEN "dead" ELSE status[h]]
  /\ current' = [h \in Host |-> IF h \in Dying(p) THEN [j \in Job |-> 0] ELSE current[h]]
  /\ phase' = [a \in Attempt |-> IF runner[a] \in Dying(p) THEN "over" ELSE phase[a]]
  /\ ending' = {e \in ending : runner[e.attempt] \notin Dying(p)}
  /\ cancelling' = {c \in cancelling : c[1] \notin Dying(p)}
  /\ UNCHANGED <<disk, runner, outcome, signalled>>

-----------------------------------------------------------------------------
AttemptStep(a) ==
  Launch(a) \/ Admit(a) \/ InterruptUnlaunched(a) \/ SettleOperation(a) \/ TimedOut(a)
EndingStep == \E e \in ending : StopOperation(e)
JobCall(h, j) == Start(h, j) \/ Resume(h, j) \/ Cancel(h, j)

JobsNext ==
  \/ \E a \in Attempt : AttemptStep(a) \/ OperationEnds(a)
  \/ EndingStep
  \/ \E h \in Host, j \in Job : JobCall(h, j) \/ StopCancelled(h, j)
  \/ \E h \in Host : Look(h) \/ Retire(h) \/ Close(h) \/ Closed(h) \/ ProcessDies(ProcessOf[h])

(* Timers fire, the file system answers, somebody waits for the jobs, and  *)
(* an operation ends some time after the abort of its signal.              *)
JobsProgress ==
  \/ \E a \in Attempt : AttemptStep(a) \/ (a \in signalled /\ OperationEnds(a))
  \/ EndingStep
  \/ \E h \in Host : Look(h) \/ \E j \in Job : StopCancelled(h, j)

JobsFairness == WF_jobVars(JobsProgress)

JobsSpec == JobsInit /\ [][JobsNext]_jobVars /\ JobsFairness

-----------------------------------------------------------------------------
(* Every variable has its shape.                                           *)
JobsTypeOK ==
  /\ store \in [Job -> [state : States, attempt : 0 .. MaxAttempts, host : Host \cup {NoHost}]]
  /\ \A j \in Job : IsActive(store, j) <=> store[j].host # NoHost
  /\ status \in [Host -> {"open", "retired", "closing", "stopped", "dead"}]
  /\ current \in [Host -> [Job -> 0 .. MaxAttempts]]
  /\ cancelling \subseteq Host \X Job
  /\ signalled \subseteq Attempt
  /\ phase \in [Attempt -> {"none", "assigned", "admitted", "unlaunched", "running", "ended", "over"}]
  /\ runner \in [Attempt -> Host \cup {NoHost}]
  /\ outcome \in [Attempt -> Results \cup {"none"}]
  /\ ending \subseteq [attempt : Attempt, state : Prunable \cup {"interrupted"}]
  /\ failures \in 0 .. MaxFailures

BeingStopped(a) ==
  \/ a \in signalled \/ \E e \in ending : e.attempt = a
  \/ <<runner[a], a[1]>> \in cancelling /\ Entry(a) = a[2]

(* An operation that nobody is stopping is the one its record speaks of:   *)
(* the last attempt, running, of this host.  So a job never has two, and   *)
(* no other host takes it for interrupted while it runs.  What remains is  *)
(* a job whose cancellation took place in a write that failed.  And a job  *)
(* that has succeeded did so in the attempt on record.                     *)
RecordsTellTheTruth ==
  /\ \A a \in Attempt :
       Is(a, "running") /\ ~BeingStopped(a) =>
         \/ OnRecord(a, "running")
         \/ /\ failures > 0 /\ store[a[1]].attempt = a[2]
            /\ store[a[1]].state \in {"cancelled", "evicted"}
  /\ \A j \in Job : store[j].state = "succeeded" => outcome[<<j, store[j].attempt>>] = "succeeded"

(* A finished job stays as it is, an interrupted one is resumed as a new   *)
(* attempt or cancelled, and the record of an attempt is not reopened.     *)
FinishedJobsStay ==
  [][\A j \in Job :
       /\ store[j].state \in Prunable => store'[j] = store[j] \/ store'[j].state = "evicted"
       /\ store[j].state = "interrupted" /\ IsActive(store', j) =>
            store'[j].attempt = store[j].attempt + 1]_jobVars

(* An open host can settle the job, or take it for abandoned.              *)
InReach(j) ==
  \E h \in Host : Open(h) /\ (store[j].host = h \/ ~OwnerLives(h, store[j].host))
=============================================================================
