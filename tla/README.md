# Verification of Ohm: sessions, runs, recovery, tools and what lets one go at a time

This directory holds TLA+ models of the parts of Ohm that decide what a user's
session contains after anything that can happen to it: the journal a session is
kept in, the file that holds the journal, the loop that runs the agent, the
context it sends and compacts, the recovery of a run that a crash interrupted,
the scheduling of tool calls, jobs and child processes; and of the locks, leases
and queues that let one process, writer, edit, question or session go at a time.
The models are translated from the TypeScript sources under `src/packages`,
checked with TLC on small instances, and the properties that matter most are
proved for every value of the constants with TLAPS.

`PROJECT.json` lists the components, the runs, the lines of source each
definition stands for (`map`), the change of the code that would break each
property (`mutants`), the hazards the properties are for, and the theorems.

## 1. The system

Ohm is a harness for coding agents. A host (terminal UI, RPC, HTTP server, SDK)
drives an `AgentSession`; the session asks a model provider, runs the tools the
model calls, and records everything in an append-only JSONL file.

    host -- prompt, steer, followUp, abort, recover --> AgentSession
    AgentSession -- run, RunControl --> RuntimeEngine -- requests --> provider
    RuntimeEngine -- events --> SessionEventSink -- commits --> SessionV4SyncWriter
    RuntimeEngine -- calls --> ToolCoordinator -- claims --> ToolResourceArbiter
    SessionV4Writer -- rows, fsync --> file -- rows --> reducer (every reader)

Everything in one process runs on one event loop, so two steps interleave only
at an `await`; several sessions, tools and child processes are in flight at the
same time, and the process may die between any two system calls.

| Part | State it keeps | Operations | What is hard, and what makes it correct |
| --- | --- | --- | --- |
| Journal reducer (`kernel/src/session-v4/reduce.ts`) | nodes, heads, operations, queue entries, tool effects | one change per commit, accepted or refused | every reader must reduce the same file to the same state; the order of claims, dispatches and endings is the protocol everything else relies on |
| Journal writer and reader (`writer.ts`, `reader.ts`) | reduced state, offset, fault, chain of appends | open, append, close | crash between write and fsync, partial writes, retries, faults: nothing acknowledged is lost, the file stays readable |
| Run loop (`ohm/src/service/agent-session.ts`, `kernel/src/runtime/core/agent.ts`) | control queue, pending messages, run, abort signal | prompt, continue, steer, followUp, abort, the loop | messages are queued durably and held in memory in several places; an abort may arrive at any await; every call ends and no message is lost or overtaken |
| Compaction and projection (`kernel/src/runtime/context`, `runtime/core/agent.ts`) | the branch, the context in memory, the recovery attempt | load, compact automatically, after an overflow or by hand, record, reload | summaries of summaries, cuts between a call and its result, entries added while a summary is made: nothing is lost from the context and an overflow does not loop |
| Recovery (`agent-session.ts`, `recoverInterruptedRun`) | the snapshot of the interrupted run | one pass, repeatable at any time | a pass may itself be interrupted; no tool runs twice that must not, every call gets one answer, the run is closed |
| Tool coordinator and arbiter (`ohm/src/tools`) | prepared calls, waves, leases and waiters | execute, acquire, release, abort | conflicting tools of several sessions; a tool that ignores an abort keeps its lease; no lost wakeup, no overtaking |
| Authorization queue (`service/tool-authorization-queue.ts`) | a chain of promises | ask the host, one question at a time | a cancelled caller leaves at once, its turn is skipped, the host is not asked the next meanwhile |
| Session writer lease (`storage/session-writer-lease.ts`) | two directory locks, owner records | acquire, bind, release | several processes; a dead owner is retired by renaming; at most one writer of a file |
| File lock (`storage/file-lock.ts`) | lock directory, tokens, its age | acquire, operate, release, remove what was left | no atomic compare-and-remove on directories; deaths between any two calls |
| File mutation queue (`tools/file-mutation-queue.ts`) | lanes per file identity | run one mutation after the other | identities are resolved asynchronously, order of arrival is kept |
| Session runtime and owner (`agent-session-runtime.ts`, `agent-session-owner.ts`) | the live session, the chain of replacements, the disposal | new, resume, fork, import, refresh, dispose | a factory that outlives its caller, a recovery that fails, disposal in between: one session in use, no file without one |
| Durable jobs (`extensions/durable-jobs.ts`) | the table of jobs in a locked file | start, resume, cancel, refresh, close | host restarts, hosts beside each other, writes that fail after they took place, late outcomes |
| Managed processes (`process/`) | record, child, pipe, timers | spawn, read, cancel, settle | exit against timeout against cancel, descendants, signals that do nothing, back-pressure |
| Session catalogue (`session-manager.ts`, `session-catalog-index.ts`) | index of headers | list, open, delete | index against files |
| Replicated state, config store (`extensions/`) | snapshots with revisions | patch, write | revisions inside one process; the store is under the file lock |
| Extension runtime (`extensions/runtime.ts`) | registrations, generations | load, reload, hooks | hooks of an old generation after a reload |
| Packages, settings, trust (`core/`, `config/`) | files | install, update, write | files of other programs, mostly parsing |
| Providers, models, auth (`models`, `providers`, `auth`) | credentials, catalogues | stream, refresh | wire formats |
| Interfaces, server, CLI, TUI (`interfaces`, `serve`, `cli`, `tui`, `terminal`) | connections, screens | requests, events | translation to calls of the session |

## 2. The modules

    DurableLog  <-- refined by --  SessionWriter
    SessionJournal <-- extended by -- AgentRun <-- extended by -- RunRecovery
    ToolScheduler  DurableJobs  ManagedProcess  <-- put side by side by -- MCHost
    FileLock  WriterLease  MutationQueue  AuthorizationQueue  SessionRuntime
    ContextCompaction                           <-- put side by side by -- MCParts
    Selection <-- used by -- AgentRun, RunRecovery, ContextCompaction

Theorems are in modules of their own: `SessionJournalProofs`,
`SessionWriterProofs`, `RunRecoveryProofs`, `ExclusionProofs` (FileLock,
WriterLease and both queues), `ContextProofs` (ContextCompaction),
`RuntimeProofs` (SessionRuntime, and all of MCParts side by side), `HostProofs`
(tools, jobs and processes, and these side by side) and `SelectionProofs`, the
lemmas about Selection that the others use. `MCHost` and
`MCParts` check modules that share no state: a behaviour is one of a single
part, chosen by its first state, while the others keep their initial state. Each
property then speaks of its own part, and only of it.

### Selection

`Array.prototype.filter` and the sort by distinct numbers, which the queues of
messages and the projection of a context are made with. An element is found at
its rank in a set of numbers, so nothing recurs over an array, and what the
operators give for every array can be proved.

### SessionJournal

The strict reducer. One action per change type that carries protocol state
(`conversation_node_appended`, `head_selected`, `operation_accepted` with or
without a queue entry, `step selected`, `step started`, `attempt started`,
`cancel`, `finish`, `queue entry added / claimed / consumed / cancelled`,
`tool prepared / dispatched / in doubt / recovery started / finished /
reconciled / resolved`), guarded by what `reduce.ts` would refuse and with the
effects `reduce.ts` applies: `run_cancelled` settles the effects that were never
dispatched, `run_finished` demands that nothing is left. A behaviour of the
module is any journal a strict reader can open, by whatever program it was
written. The guards that other modules ask about before they commit
(`CanClaim`, `CanAddNode`, `CanFinishRun`, ...) are operators of their own, so
that the run loop can also be refused.

Left out: payloads, timestamps, names, labels, checkpoints, tool names,
fingerprints and input hashes, the index of a call (identified with the call),
the ids of settlements, the retained range of a compaction and the ancestry of
branch summaries. The idempotence of commit ids is in SessionWriter. Every
change is a step of its own: a commit of several changes is atomic in the file
and its intermediate states are states of this module.

### SessionWriter and DurableLog

The append path of the file. `cache` is the file as processes read it, `disk`
what a loss of power leaves, `pc` where the append in progress is; `Submit`,
`AnswerRetry`, `Reject`, `StartWrite`, `FinishWrite`, `Sync`, `Fail`, `Close`
and `FinishClose` are the steps of `append`, `#appendNow` and `close`; `Open`,
`SyncTruncation` and `FailTruncation` those of `open`. `Crash` and `PowerLoss`
are the environment. DurableLog is the promise: one list of commits, each
accepted after those before it, with a stable prefix. The refinement maps `log`
to the complete rows of the file and `stable` to those on the disk; a torn row
is no row. A power loss keeps a prefix of what was written, which is what an
append-only file with an ordered journal gives; reordering of blocks inside one
append is not modelled. The creation of a new file is left out.

### AgentRun

One `AgentSession` around `RuntimeEngine.run`. `phase` is where `#run` is;
`control` is `RunControl.#queue`, `waiting` is `#pendingQueuedMessages`,
`taken` is the local list of messages that were drained and not yet appended;
`due`, `running` and `executed` follow an effect from its preparation to the
real call of its tool; `calls` and `replies` are the only content of messages
that matters. The variables of SessionJournal are the durable state: a step that
commits is that module's action, and `refused` remembers a commit the reducer
would not take. One step is the code between two awaits or one commit of it:
a crash may fall between any two commits, and while `Busy` holds (commits that
follow each other without an await) nothing else of the process moves.
Operations: `Queue` (steer, follow-up, custom message), `Dequeue`, `Prompt`,
`Continue`, `Abort`; then the loop: accept, append and consume the prompt,
deliver what was queued, ask the provider, plan, prepare, dispatch and call
tools, answer the calls, finish or leave the run open, and go on with the next
prompt.
An attempt that fails or is cut off (`AttemptFails`) leaves an assistant message
without calls in the conversation before it is retried, given up or cancelled
(`Retry`, `ProviderFails`, `CancelRetry`), as `#streamStep` does.

Left out: the `next_run` queue, compaction (ContextCompaction), user shell commands, `clearQueue`,
messages that start a turn, closing the session, the limits of 100 messages and
of bytes, hooks that throw while tools are executing. Which calls of a response
run together is left open here (any subset, any order): ToolScheduler has the
waves and the leases. Provider call identifiers are unique within a run.

### RunRecovery

`Crash` forgets the process and keeps the journal, `Reopen` restores what is
queued, `Recover` starts the pass of `recoverInterruptedRun`, whose sections are
the phases `r_prompt` to `r_close`: put the prompt in place, mark dispatched
effects as in doubt, repeat repeatable ones, check the reconcilable ones, cancel
the run, record the operator's resolutions, write the missing results, answer
the remaining calls, restore and consume claimed messages, finish. Each commit
is a step, so the pass may die anywhere and be started again. The choice of the
tool for a repetition (missing, changed, refused) is one nondeterministic
`GiveUp`; the order in which results are restored is left open.

### ToolScheduler

The batches of several sessions over one `ToolResourceArbiter`. `stage` is where
the coordinator is with a call (`planned`, `prepared`, `authorizing`, `waiting`,
`leased`, `dispatched`, `executing`, `recording`, `done`); `waiting` with
`order` is the queue of the arbiter, `active` its leases. `FreePrefix` is the one
rule both the waves of a batch and `#pump` follow: take members in order up to
the first that conflicts with what is held or was taken. Queues are sets with an
order, not sequences, so that the module can be proved about. `Overlap` is the
relation `pathOverlaps` computes. Results, progress, redaction, presentation
observers and the authorization queue (a module of its own) are left out:
authorization takes any time and may refuse.

### FileLock

`withFileLock` and `tryWithFileLockSync` over one lock directory. `dir` is the
identity of the directory that stands, `control` the files `claim`, `owner` and
`pid` in it, each with the token of its writer, `old` that its time of change is
beyond the stale limit. `at` is where a call is, and others and deaths come between
any two steps. A call acquires
(`Mkdir`, `Identify`, `WriteControl`, `Verify`), operates, looks again
(`Recheck`) and releases (`Unlock`, `Unclaim`, `Rmdir`), or rolls back; a waiter
removes what stands in the order of the code: `Look` is the lstat, which gives
the identity and the age, `ReadClaim` reads the claim, `Judge` its owner, and
`Confirm`, `Strip`, `SweepClaim` and `Sweep` remove. Between any two of these the
directory may be released, removed and made anew, so what a waiter reads need
not be of the directory it has looked at (`seen`, `aged`, `found`). Several reads
are one step where only the last of them decides (the files of `Holds` and of an
owner), and the unlinking of owner and pid is one, since one of the two alone
tells nobody anything. `Die` leaves the files as they are, or the last one
without content (`blank`). `SyncCaller` are calls that ask once.

Exclusion is not a property of this code (section 6). What it does promise is
`SecondOperationWasLetIn`: a second operation comes in only after a waiter has
robbed a living caller. `robbed` is the history of that, and nothing reads it. It
is set in two places: where a waiter confirms, going by age alone, the claim of a
caller that lives; and where it removes an empty directory without having removed
a claim from it (`sweepblind`) while another living caller takes that directory
for its own. The first needs a caller that is slower than the stale limit between
its claim and its last control file, or at its release, or an identity that came
back. The second needs a look at the age that is outdated, or a synchronous
waiter that takes a claim somebody else removed for one it has removed. Whatever
else happens lets nobody in: deaths anywhere, any number of waiters at one dead
owner's directory, callers that lose the race for a directory.

Left out: the waiting time and its limit (a caller may give up whenever it
waits), and identities of the file system that are not read.

### WriterLease

The lease on a session file. An opener installs its record at the lock of the
path and then at the lock of the file's identity, each by a rename that replaces
nothing (`Install`, `Collide`); a dead owner is retired in three steps (`Retire`
renames the record away, `Compare` looks at what was moved, `Restore` puts it
back or keeps it aside); `BindToFile` takes the second lock when the file comes
into being; `Release` to `RemoveDirectory` are the release. The run has two
links of one file with two openers each, who may die at any step. `displaced` is
a history: the locks at which a `Retire` renamed away the record of an owner who
was alive.

That at most one live process has the lease is not so, and not a property here
(section 6). `SecondWriterWasLetIn` says what is: two live processes write only
after the record of a living owner was renamed away by mistake at the lock of the
identity, and, if both opened the same path, at the lock of the path too. In the
run two writers are reached over the two links, so the property is not about
nothing.

### MutationQueue, AuthorizationQueue

The two queues in front of the file system and of the host. MutationQueue has
the queue of registrations, one lookup at a time, and a lane for each identity;
files come and go while names are looked up (`present`). What the property
leaves out is what the code leaves out: a file that is missing when a link to it
is looked up gets another lane than the file under its own name
(`InLaneOfFile`). AuthorizationQueue has the chain and what each caller got.

### SessionRuntime

`AgentSessionRuntime`: calls take turns on a chain of promises, a call replaces
the session (`Allowed`, `Setup`, `CloseOld`, `Create`, `Creating`, `Apply`,
`Rebind`), or undoes what it did (`Discard`, `Recover` to `Rebound`, `Failing`);
every await is a step, at which the caller may give up, `dispose()` may be
called or a factory may fail, return or go on unobserved (`ReturnsLate`). `life`
and `writers` say of each session that was made whether it is live and whether
its store is open, `files` which files exist. The callback of a refresh puts
another session on the same store. `adoptSession`, used by tests only, and the
owner's retries of a start are left out.

### ContextCompaction

What is sent to the model of a branch. `branch` is the active branch of the
session, an entry being its type, size and the call it answers or the first
entry it keeps; `about` of a summary is the set of entries it was made from, a
history the code does not keep and the properties need. `context` is the list of
messages of the loop. The pure part is translated operator by operator:
`BuildContextEntries`, `RepairToolBlocks`, `FillMissingToolResults`, `Elided`,
`RecentBoundary`, `TurnBoundary`, `SafeToolBoundary`, `UnsafeCuts`,
`LaterFittingBoundary`, `Cut`, `RebasedCuts`. The loop around it: `Load` with
automatic compaction, `Send`, `Respond`, `ReturnResults`, `ReportOverflow` with
the one attempt that is remembered, `CompactNow`, `FinishCompaction` and
`FailCompaction`, and `Navigate` to an earlier entry. `tries` counts compactions
since the last progress (a history).

Left out: the estimate of tokens (a size; what a provider reports is taken to
agree with it), system messages and instructions, identifiers of messages,
provider state, the text of a summary and its checks. Two consequences of the
code are not shown by a property: a cut that falls at a message without a node of
its own (an extension's note, the output of a user's command) can never be
recorded, because such messages get new identifiers with each load
(`agent-session.ts` 3122), so that such a compaction fails each time, as
`FinishCompaction` has it; and a note added while tools run parts the call from
its result, which is then answered by "No result provided": the model adds notes
only outside of a tool batch. Call identifiers are unique in a session.

### DurableJobs

`DurableJobSupervisor`: `store` is the file of jobs, rewritten as a whole under
the file lock, so a transaction is one step, and so is the case that it fails
before or after it took place (`FailToWrite`). That the lock excludes is taken for
granted here; section 6 has when it does not. A call has several transactions,
and everything may happen between them: `Start` or `Resume`, `Launch`, `Admit`,
the operation, `SettleOperation`; `TimedOut`, `Cancel` and the end of a host come
in between (`ending`, `cancelling`, `signalled`). `Recovered` is the rule by which
a host takes an active job for abandoned; `Pruned` the retention. A refresh of
the extension is a host that is retired and closed, another one is open beside
it in the same process or another.

Left out: child sessions, subscriptions, metadata. Two limits of the properties
are the code's: a job whose host is closed in a living process after its writes
failed stays active for the others (`InReach` excludes it), and a cancellation
whose write took place but failed leaves the operation to its time limit
(`RecordsTellTheTruth` says so).

### ManagedProcess

The supervisor of child processes: admission, `Spawn`, the events of the child
in any order the system allows (`Spawned`, `SpawnFailed`, `Data`, `PipeEnds`,
`Exits`, `Closes`), the four timers, cancellation, the end of the owner, reads
with back-pressure, and `Finish`, which settles a record and releases old ones.
Descendants (`kin`) hold the pipe after the process is gone, signals may do
nothing (`killed`). Left out: standard input, subscriptions to output, the way
descendants are found.

## 3. Runs

All runs are exhaustive over the bounds below. `CHECK_DEADLOCK FALSE` stands
where identifiers or bounds run out, or everything is done; the writer runs
check deadlock.

| Run | Instance | Question |
| --- | --- | --- |
| `journal_commits` | one run with 2 effects of any policies, 2 calls, 2 steps, 2 attempts; or 2 queue entries, 2 runs, 2 nodes | Can any journal a reader accepts dispatch an effect too often, give it an untruthful outcome, put a result where it does not belong, deliver an entry out of turn or finish a run with something of it open? |
| `writer_crash` | 4 drafts (one depends on another, two share an id), 2 rows, 2 queued appends, 2 crashes, 1 power loss | Does the file stay readable; is nothing acknowledged lost; does `close` end; is the file a DurableLog? |
| `run_tools` | 2 effects of any policy, 2 turns, an abort, a throw, a crash; or 2 steering or custom messages over 2 runs with tool calls and an abort | What ran, what was recorded, what answers the calls; is a message in one place of the process? |
| `run_settle` | 1 effect, 2 turns, 2 attempts, an abort, 2 failed attempts, a throw, a crash | Do calls end and interrupted runs settle? (liveness) |
| `run_crash` | 3 follow-ups, 2 runs, 2 crashes | Is none lost or overtaken? |
| `parts` | 3 waiting callers of a lock, or 2 and one that does not wait, or 2 of either kind that are slow; 2 links with 2 openers each; 4 mutations, 3 names, 2 files; 3 questions; 3 calls and 5 sessions of a runtime; 8 entries of a branch | Does each of them let one go at a time, and what lets a second operation or a second writer in; does a runtime have one session in use and no stray file; is the context whole, are cuts right, do overflows end? |
| `host` | 3 batches with 6 calls over nested paths and a workspace claim, a queue of 2; 1 job between 2 hosts or 2 jobs of one, 2 attempts, a failed write; 1 process with 3 chunks of output | Exclusion, order, wakeups and overtaking of tools; truth and finality of jobs; one reason and one settlement of a process, no stuck reader; and does what was begun end? |
| `writer_reopen`, `run_prompt`, `run_order`, `run_lost`, `lock_sweep` | | the findings of section 6 |

Why the bounds are enough to be interesting: two runs are what it takes for one
run to leave something behind for another; two calls for one to be dispatched
while the other is being prepared or abandoned; three messages for two queues
to be merged in a wrong order; two crashes for recovery itself to be
interrupted. `run_tools` gives the only run every node it may need (prompt, two
assistant messages, two results and a spare), so no behaviour stops for lack of
a node before its run is finished. `run_settle` likewise has one node for the
prompt, one for each of its four attempts and one for the result. In `host` the
queue limit of two is reached, a claim of the whole workspace meets a path, the
directory above it and an unrelated file; of two jobs the store keeps one, so
retention takes place; three chunks pass the high water mark of two. In `parts`
three callers are a holder and two that remove what it left, or one that removes
and one that has made the directory anew. With three, acquisition and release are
quicker than the stale limit, and a waiter goes by an age the directory had at its
look or has at its verdict (`Quick` in MCParts); two, of which one may be
synchronous, take as long as they like (`lock_slow`). Two identities of
directories are enough for one to come back. Four openers over
two links are a dead one, two that retire it at the lock of the identity they
share and one that comes while its place is empty; five
sessions are the first, two replacements of which one fails and is undone, and a
refresh; and eight entries are enough for a compaction of a compaction, with
something added between plan and record, and for three compactions without
progress, the bound `CompactionsAreBounded` claims. The last two entries of a
branch are compactions, so that a branch at the limit can still be compacted.

## 4. Fairness

- `SessionWriter`: weak fairness of the writer's steps: a promise chain goes on
  and a system call returns or fails. Nothing is assumed of crashes or callers.
- `RunRecovery!FairSpec`: weak fairness of the loop and of the pass (the event
  loop runs, the provider answers, fails or is aborted, tools settle), weak
  fairness of reopening, and strong fairness of a recovery pass in which every
  unsettled effect gets a resolution. The last is the operator's part: the
  documentation of `/recover` promises that such a pass settles the run, and
  without a pass an interrupted run waits, as it should.
- `MCHost`: weak fairness of the part that acts. For the tools: promises go on,
  hosts answer, tools settle, however long they ignore an abort; nobody has to
  abort anything. For the jobs: the file system answers, timers fire, somebody
  waits for the job, and an operation ends some time after the abort of its
  signal, as `docs/extension-api.md` asks of it; an operation need not end by
  itself. For processes: timers fire and events are delivered; a process need
  not exit, its descendants need not let go of the pipe, the extension need not
  read.
- The parts of `parts` have no liveness properties and no fairness: a lock is
  not promised to those who wait for it, only to one at a time.

## 5. What is proved

`SessionJournalProofs` (any number of identifiers, any bounds):

- `TypeCorrect`: the reduced state has its shape.
- `DispatchBudgetHolds`, `OutcomesTruthful`: the invariant `EffectHistory` holds
  of each effect for itself. It ties the number of dispatches to the status, the
  policy and the recovery flag, which the two properties leave out and without
  which neither is inductive: a `dispatched` effect has one dispatch unless it is
  a repetition, a `prepared` one has none, and so on.
- `OneOpenRunHolds`, `FinishedRunsSettled`: the invariant `RunInv` adds that a
  claimed entry belongs to the open run and that the result of an effect is a
  node identifier. A finished run is not the open one, and the frame lemmas show
  that no step touches what belongs to a run that is not open.
- `HistoryStaysFinal`: a node, a finished run and a settled effect or entry stay
  what they are. Each step is shown to write only what was absent or unsettled.
- `PendingIsOwedHolds`, `ClaimsInOrderHolds`: the lists of pending entries are
  what is owed, once each, which is inductive as it stands; a claimed entry stays
  the first of its kind until it is finished, because entries are only added at
  the end, and by `RunInv` its claimant is the open run.
- `ReservationsHold`, `ResultsFollowCallsHolds`: the invariant `ReservationInv` of
  what a journal has promised. The node reserved by an entry or a prompt is never
  that of a tool result (`Reserved`), two entries never reserve the same
  (`TargetsDistinct`), effects with one result belong to one message
  (`SharedResults`), a call of a run has one effect (`CallsDistinct`), and what is
  in the conversation hangs together (`EffectsRooted`, `NodesRooted`,
  `PromptsRooted`). Without it a result could be put in place by the delivery of
  an entry, where no call is above it.

`RunRecoveryProofs`:

- `SessionKeepsJournal`: `SessionSpec => Spec` of SessionJournal, one lemma for
  each group of actions: everything the program commits is a step the reducer
  accepts, so all the theorems above hold of the program with its crashes and
  recoveries.
- `ExecutedAsRecordedHolds`, `OutcomeIsWhatHappenedHolds`: `ExecutionInv` says
  that the tool of an effect ran at most as often as it was durably dispatched,
  that what the process still intends to call has not run, and that a
  repetition about to be called has a dispatch in hand. Most actions are `Quiet`
  (they call and arm nothing); the others are treated one by one.
- `RecoveryIsAcceptedHolds`, `CallsAnsweredOnceHolds`: `SettlingInv` says what
  each phase of the loop and of a recovery pass has already done: where the prompt
  is (`PromptPlaced`), which effects are settled (`Settling`) and have their
  results in place (`ResultsPlaced`), that the head is on the path of the run
  (`Path`), that calls are answered once in a run (`Answers`) and what of the
  current batch is prepared (`Batch`). Proving it showed that a call is answered
  once in its run, not in the session: a provider may use the identifier of a
  call again in a later run, and the property says so now.
- `HeldOnceHolds`: `MessageInv` says that the three queues of the process have
  no message in common, and none twice (`QueuesApart`), that what the control
  queue and the pending messages hold is queued in the journal, and what the
  run has taken was once (`HeldAreQueued`), and which of them each phase has
  still to claim (`Moments`). A new message gets an entry that was absent, so it
  is in none of the queues; what is moved is taken from where it was, by
  identifier; and what recovery or reopening puts back comes from the journal
  into empty queues. What taking, putting back and sorting a queue give is a
  dozen lemmas on `Among` and `Ascending`, from `SelectionProofs`.
- `QueuedIsHeldHolds`, `DeliveryIsAcceptedHolds`, under `FollowUpsAlone`: the
  host queues follow-ups only, nothing throws (`MaxThrows = 0`), and messages are
  delivered one at a time or no run is aborted. None of the three can be left
  out, TLC shows: steering that is left over becomes a follow-up of the process
  but not of the journal (findings 2 and 3); a hook that throws before the run is
  accepted forgets the queued prompt; and with `FollowUpMode = "all"` an abort
  forgets what the run had taken beside its prompt. Within them the theorems hold of any number of entries, runs,
  tools, crashes, failed attempts and recovery passes, and of aborts when
  messages go one at a time; `run_crash` is the case of three entries, two
  crashes and "all". `DeliveryInv` says why: entries are numbered as they are
  added and listed in that order (`EntriesInOrder`); the messages of the process
  form one line in the order of their entries, the prompt to be, what is taken,
  what waits, and all that is durably queued is in that line (`LineInv`); a run
  has claimed only what it is delivering, and nothing during a turn
  (`ClaimsInv`); and outside a batch effects are over, so a run that ends of its
  own accord is not left open (`EffectsNow`) and the next one may be accepted.
  The first of the line is then the oldest entry owed (`OldestIsFirst`), which is
  what the reducer asks of a claim (`OldestPrompt`, `OldestDelivered`).

`SessionWriterProofs` (any commits, any dependencies, any bounds):

- `WriterTypeCorrect`, `FileStaysReadableHolds`, `AcksSurviveHold`: `WriterInv`
  restates what a reader does (one pass over the rows) row by row (`Accepted`,
  lemma `ReadableIs`), and adds what the three properties leave out: an open
  writer holds the rows before its offset; while nothing failed, the offset is
  the end of the file when a write may start; and what is behind it during a
  write is the row of the append in progress. A faulted writer has no such end,
  which is why it may not write.
- `WriterImplementsDurableLog`: the refinement of DurableLog. It needs one more
  fact, `DiskIsPrefix`: what is on the disk is a part of the log. A step of the
  writer appends to the log when the LF of a row is written, makes it stable
  when a sync returns, and a loss of power is the crash of DurableLog.

`ExclusionProofs`:

- `SecondOperationWasLetInHolds`, for any callers, waiting or synchronous, any
  deaths and calls of any length. Until a living caller is robbed, `LockInv`
  holds, and after that nothing is claimed, so what is inductive is `robbed \/
  LockInv`. It says that whoever answers for the directory answers alone: its
  maker until the claim and after its removal, the owner of the claim between,
  who removes what is dead. The directory may stand with nobody to answer for it,
  left empty by the dead, and then it is removed by its age. What a waiter strips
  belongs to the dead, and the claim it removes makes it the one who answers;
  who has removed none can succeed only while nobody else takes the empty
  directory for his.
- `SecondWriterWasLetInHolds`, `LeaseTypeCorrect`, for any openers, paths and
  number of attempts. `LeaseInv` says that the lock of the path is taken first
  and released last (`PathFirst`), and that at a lock where no living owner was
  displaced a living owner has its record, until it has removed it itself
  (`OwnersHaveRecords`). Two writers share the lock of the identity, where one
  record stands, so one of them has none: somebody was displaced there; and
  likewise at a path they share.
- `LockTypeCorrect`: the shape of the lock, robbed or not. What could go wrong in
  it is a control file that outlives its directory.
- `QuestionsInTurnHolds`, `QuestionTypeCorrect`: turns on the chain end in the
  order of the calls, and an aborted caller's turn is skipped without asking.
- `MutationsInOrderHolds`, `MutationTypeCorrect`: `MutationInv` follows a mutation from the queue of
  registrations through the one lookup in progress to its lane: names reach
  their lanes in the order of the calls, so lanes are in order.

`RuntimeProofs` (any number of calls and sessions, whoever gives up, whenever
`dispose()` is called): `OneSessionInUseHolds`, `FilesFollowSessionsHolds`,
`RuntimeTypeCorrect`. `CallsInOrder` makes the call that operates the only one:
those before it on the chain have ended. `RuntimeInv` then says for each of its
stages which stores are open and which session the runtime names (`Stands`, with
one definition for each stage), for the time between two calls the same
(`AtRest`), and of the file of a call that has ended whose it is
(`FilesAccounted`). Nothing of it depends on what a caller or a factory decides:
a store is in `writers` exactly while its session is opened or live, so a factory
left to itself has lost its store before the previous session is opened again.
The frame of a step of the operating call is shown once (`OperatorKeepsInv`),
and each action only for the stage it enters.

It ends with the parts of MCParts beside one another. A step of the whole is one
of each part or leaves it alone, so a behaviour of the whole is one of every part
(`BehavioursOfParts`), and what the parts have theorems of holds in the whole
that `parts` checks: `PartsTypeCorrect` and `PartsKeepPromises`.

`SelectionProofs`: `AscendingIs` (the rank is a bijection from a finite set of
numbers to 1 to its size, so the order lists each number once and ascends),
`PickedIs` and `AmongIs` (what is picked, where, that it is in order and nothing
else), `SameListing` (increasing listings of the same numbers are equal) and
`PickedAll` (to pick everything changes nothing), by induction over the sizes of
sets as the library's theorems allow it: over a set of naturals that is closed under successors, not over an operator.

`ContextProofs`, for any entries, sizes and limits:

- `CompactionsAreBoundedHolds`: between two steps of progress the number of
  compactions goes with the state of the one attempt of recovery (`SpentIn`): the
  bound is in the control of the loop and does not depend on what a compaction
  saves.
- `OverflowCutIsFirstHolds`: `ShapeInv` says that the context in memory was
  projected, so it is `Paired`: every call has a result, in its own turn, and
  different calls are of different entries. That every step keeps it
  is shown through the whole projection: what is built from a branch, replayable,
  repaired and filled in is paired (`RepairToolBlocks` and
  `FillMissingToolResults` are what makes it so), and so is what a response or
  a result adds. In a paired context the running count of `laterFittingBoundary`
  agrees with the search of `safeToolBoundary` at every cut (`UnsafeCutsIs`), the
  beginning of a turn is a safe cut, and a later cut keeps fewer tokens
  (`LaterFits`), so the search from the recent boundary on finds the first that
  fits and falls back only when there is none.
- `ContextTypeCorrect`: from the same invariant, with the cut of a compaction
  under way strictly between two messages of the context.
- `ContextIsWholeHolds`: the argument is about what a branch gives, not about how
  it is computed. `Holds(ms, b, n)` says that the messages are what `b` gives of
  its first `n` entries (`Gives`: the latest summary, what is shown beside it, an
  answer made up for a call without one), in one order that is defined for all of
  them (`Key`). `LoadHolds` shows that a reload holds everything, through each
  stage of the projection; and two ordered listings of the same are equal
  (`SamePositions`, from `SameListing`), so nothing more is needed for what is in
  memory than that it holds what the branch gives. `WholeInv` adds what makes that
  last: results are right after their calls (`ResultsInPlace`), a summary keeps
  from an entry that is no result and knows everything before it
  (`SummariesKnow`), and the cut of a compaction under way is safe. The step that
  matters is the end of a compaction. Since the cut is safe, what is kept begins
  with no result (`CutBegins`); what was shown before is in the source, and what
  the previous summary knew is known to the new one, because that summary comes
  first and is in the source as well. And what the host keeps in memory is
  projected once more, which is the identity there, because calls and results
  stand side by side in it (`HeldTogether`, `RepairedIs`, `CompleteIs`).

`HostProofs`, for jobs and processes:

- `FinishedJobsStayHolds`: `JobsInv` says how little is needed. Every
  transaction reads the store it writes, so what an operation, a timer or a host
  remembers of a job only decides whether it is written, never over what.
- `RecordsTellTheTruthHolds`, `JobsTypeCorrect`: `RecordsInv` ties the process to
  the file: attempts are numbered as they are recorded (`AttemptsOnRecord`), what
  an open host has under way is the last attempt on record (`OpenHostsOwn`), its
  entries are those of the attempts it admitted (`EntriesMatch`), what a host that
  is not open any more has admitted is being stopped (`LeavingStops`), and a
  success on record is over (`SuccessIsOver`).
- `ReadersAreServedHolds`, `FirstReasonDecidesHolds`: `ProcessInv` says that a
  record that has ended is quiet: its stream is at its end, only the timer of
  the pipe may still be set, and what is kept of old records is of such
  processes, whatever events are still to come.
- `ProcessTypeCorrect`, which is where the limits of the supervisor are stated:
  the chunks kept for a reader, and the records of ended processes. `BoundInv`
  adds that at the high water mark the pipe is paused (`HeldBack`), so no chunk
  comes on top of it, and that a process with a reason to stop was spawned and is
  not taken to run (`StoppedForAReason`).
- `HostTypeCorrect`, `HostKeepsPromises`, `HostStepsKeepPromises` (the action
  properties): for the three parts side by side, as `host` checks them. Fairness
  is stated of whichever part acts, so a behaviour of the host need not be a fair
  one of each part; that its steps keep the invariants of the parts (`HostInv`)
  is shown instead.

For the tools, all the safety properties of ToolScheduler, for any
batches, calls and claims. `ArbiterInv` says that between two calls of the
arbiter its queue is what `#pump` may be called on: ordered without gaps, with
leases that do not conflict, and with a lease for every call that is leased,
dispatched or executing. Each step either leaves the arbiter alone (`Apart`) or
ends with `#pump` on such a queue (`Pumped`, lemma `TwoKinds`), so each property
is shown once for `#pump` and not once for each action:

- `SchedulerTypeCorrect`, `EffectsAreExclusiveHolds`: who is granted a lease was
  compared with everything held and everyone before it; the symmetry of conflicts
  does the rest.
- `WaitersAreBlockedHolds`: those before the first one left over all got leases, so
  what blocked it is held.
- `NobodyOvertakesHolds`: the free prefix is closed under "before", which needs the
  order of the queue to be transitive and total.
- `CallsKeepOrderHolds`: from `BatchInv`, which adds that calls are planned in
  order, that a sequential call is never prepared beside another, and that what a
  running call had to wait for is done.

The assumptions are the `ASSUME`s of the modules, which TLC evaluates in every
run: `None` is no identifier, entries are numbered, bounds are naturals, the
relation of overlapping paths is symmetric, a real name is its own real name,
the files of a runtime have different names, and limits are positive where the
code has them so. The only theorems with hypotheses beyond them are the two under
`FollowUpsAlone`.

Only model-checked is liveness, which the prover does not reach: `CallsEnd`,
`OpenRunsSettle`, `CloseCompletes`, `WhatIsBegunEnds`. Without `FollowUpsAlone`,
`QueuedIsHeld` and `DeliveryIsAccepted` are not theorems: section 6 has how they
fail.

## 6. Findings

1. `run_prompt`: a run that started from a queued prompt and is aborted before
   the prompt is appended cannot be recovered. `#finish` cancels the claimed
   entry and leaves the run open; recovery then appends the prompt under a
   cancelled entry, which the reducer refuses, in every pass.
2. `run_order`: what is left of a run's steering waits as a follow-up while the
   next run takes newer steering first; the durable order is the older one first,
   the claim is refused and the run fails.
3. `run_lost`: steering that was taken after a response with tool calls lives in
   a local variable; an abort during the tools forgets it until the session is
   reopened, though it is still queued in the journal.
4. `writer_reopen`: a row that was written but not synchronized is reduced and
   published by the next `open` without an fsync, so readers see state a loss of
   power can still take back.
5. `lock_sweep`: an unclaimed directory is removed by its path, after a look at
   its age that may be outdated: the lstat comes first, the claim is read
   afterwards. An operation lasts longer than the stale limit, a waiter looks at
   its directory, the lock is released and another caller makes the directory
   anew; the waiter finds no claim in it yet, removes it by the age of the first,
   and makes its own. The other identifies that one as the directory it has made,
   both write their files into it, find them there, and operate. In the run three
   callers wait, nobody dies, and acquisition and release are quick.

The same happens without an outdated age when a process dies between its mkdir
and its claim: two waiters find its empty directory old, and the slower one
removes the directory the faster one has made in its place. And a synchronous
waiter needs neither: `removeExpectedControlSync` counts a claim that is gone as
removed, so of two that remove what one dead owner left, a synchronous one goes
on to `rmdir` and may take the directory the other has just made. No run shows
these two alone; `robbed` counts both, so `parts` and the theorem cover them.

The writer lease has a hole that no run shows, because the property a document
claims is not one of the runs. "A second live writer for the same session is
rejected" (`docs/sessions.md` 140 and `packages/ohm/docs/session-jsonl.md` 203;
`docs/serve.md` 129: "Only one writer can own a durable session file.") does not
hold of `session-writer-lease.ts` 109-133: who has seen a dead owner renames
whatever record stands there by then, and puts a living one back only if the
place is still empty. Over two links of the file this takes four openers. Over
one path it takes five: the dead one, two that both saw it, a third that takes
the path while a record is misplaced, and the next one; by the end the path and
the identity have each lost a living owner's record. To see it, state
`\A p, q \in Opener : Writing(p) /\ Writing(q) => p = q` as an invariant of
`parts` with the part "lease" only, over two links, or one path and five openers
(where the counterexample has 38 states).

The same hole as 2 exists for a follow-up that an extension sends during a run
while an earlier follow-up of the user waits for the next one (agent-session.ts
9830-9840); it has no run of its own.

## 7. What is not modelled

- Parts of modelled components: the creation of a journal file; the `next_run`
  queue, user shell commands, messages that start a turn and the limits of the
  queues in the run loop; the owner's retries and `adoptSession` of the runtime;
  child sessions and subscriptions of jobs; standard input of processes; the
  estimates and texts of compaction. Each is named in its module's section.
- The limits of the message queues are a hazard of their own in `PROJECT.json`:
  reopening refuses more than 100 queued entries, while custom messages are only
  counted in the control queue.
- Links to a missing file in the mutation queue, as said above: the property does
  not hold there.
- Extension runtime, replicated state, packages, settings, catalogue: tables and
  files of which one process changes one at a time; what they share across
  processes is under the file lock, and is as exclusive as that is.
- Providers, credentials, user interfaces, server, command line, images,
  observability: they parse, render or call other programs, and what could go
  wrong there is data rather than an order of events. They are most of the
  repository's lines, so the map covers a small share of the whole; of the
  session service, the kernel's journal and loop, the locks and the tool
  scheduling it covers most of what changes shared or durable state.

Each part's reason is in `PROJECT.json`.
