----------------------------- MODULE RunRecovery -----------------------------
(***************************************************************************)
(* Crashes, reopening and AgentSession.recoverInterruptedRun over the run  *)
(* loop of AgentRun.                                                       *)
(*                                                                         *)
(* Recovery is one pass over the interrupted run, in the order of the      *)
(* code: the prompt is put in place, dispatched effects become in doubt,   *)
(* repeatable ones are called again, reconcilable ones are checked, the    *)
(* run is cancelled, resolutions supplied by the operator are recorded,    *)
(* and, if no effect is left open, results and claimed messages are put in *)
(* place and the run is finished.  Each commit is a step, so the process   *)
(* may die between any two and start another pass.                         *)
(***************************************************************************)
EXTENDS AgentRun

CONSTANT MaxCrashes   \* bound on the deaths of the process

VARIABLES
  supplied,  \* effects the operator resolves in this pass
  noticed,   \* dispatched effects of the snapshot still to be marked
  blocked,   \* effects this pass has given up on
  current,   \* effect being called again or checked, or None
  crashes

pass    == <<supplied, noticed, blocked, current>>
session == <<agent, pass, crashes>>

(* Commits of recovery that follow each other without an await.            *)
RecoveryBusy ==
  phase \in {"r_prompt", "r_cancel", "r_resolve", "r_results", "r_replies", "r_queues", "r_close"}

SessionInit ==
  /\ AgentInit
  /\ supplied = {} /\ noticed = {} /\ blocked = {} /\ current = None
  /\ crashes = 0

(* What no step of this module but a crash touches.                        *)
still == <<loop, queues, tools, text, aborts, failures>>

-----------------------------------------------------------------------------
(* The process dies; the journal is all that is left.                      *)
Crash ==
  /\ phase # "closed" /\ crashes < MaxCrashes
  /\ crashes' = crashes + 1
  /\ phase' = "closed" /\ run' = None /\ prompt' = NoPrompt
  /\ aborted' = FALSE /\ outcome' = "completed" /\ refused' = ""
  /\ control' = <<>> /\ waiting' = <<>> /\ taken' = <<>>
  /\ todo' = {} /\ answer' = None /\ due' = {} /\ running' = {}
  /\ supplied' = {} /\ noticed' = {} /\ blocked' = {} /\ current' = None
  /\ UNCHANGED <<journal, executed, text, counts>>

QueuedEntries == {e \in EntryId : entry[e].status = "queued"}
Restored(e) ==
  [id |-> e, mode |-> IF entry[e].kind = "steering" THEN "steer" ELSE "follow_up"]
InMemory(entries) ==
  LET ids == Ascending(entries) IN [i \in DOMAIN ids |-> Restored(ids[i])]

\* Mutant: only steering is restored.
ReopenForgets ==
  /\ phase = "closed"
  /\ phase' = "idle"
  /\ waiting' = InMemory({e \in QueuedEntries : entry[e].kind = "steering"})
  /\ UNCHANGED <<journal, loop, control, taken, tools, text, refused, counts, pass, crashes>>

(* #restoreDurableQueues                                                   *)
Reopen ==
  /\ phase = "closed"
  /\ phase' = "idle"
  /\ waiting' = InMemory(QueuedEntries)
  /\ UNCHANGED <<journal, loop, control, taken, tools, text, refused, counts, pass, crashes>>

-----------------------------------------------------------------------------
(* The pass.                                                               *)

Mine == EffectsOf(open)
InStatus(statuses) == {t \in Mine : effect[t].status \in statuses}

(* recoverInterruptedRun({ resolutions }).                                 *)
Recover(resolutions) ==
  /\ phase = "idle" /\ open # None
  /\ resolutions \subseteq Mine
  /\ phase' = "r_prompt" /\ supplied' = resolutions
  /\ UNCHANGED <<journal, still, refused, throws, noticed, blocked, current, crashes>>

Leave ==
  /\ phase' = "idle"
  /\ supplied' = {} /\ noticed' = {} /\ blocked' = {} /\ current' = None

To(next) == phase' = next /\ UNCHANGED <<still, refused, throws, pass, crashes>>

(* #materializeInterruptedPrompt                                           *)
PromptInPlace == op[open].prompt # None => Exists(op[open].prompt)

RestorePrompt ==
  /\ phase = "r_prompt" /\ ~PromptInPlace
  /\ AddNode(op[open].prompt, op[open].source, open, "user", TRUE)
  /\ To("r_prompt")

PromptRefused ==
  /\ phase = "r_prompt" /\ ~PromptInPlace
  /\ ~CanAddNode(op[open].prompt, op[open].source, open, "user")
  /\ refused' = "prompt" /\ Leave
  /\ UNCHANGED <<journal, still, throws, crashes>>

(* The dispatched effects of a snapshot become in doubt, with an await     *)
(* after each; a tool that finished meanwhile fails the pass.              *)
Doubt(t) ==
  /\ \/ phase = "r_prompt" /\ PromptInPlace /\ t \in InStatus({"dispatched"})
        /\ noticed' = InStatus({"dispatched"}) \ {t}
     \/ phase = "r_doubt" /\ t \in noticed /\ noticed' = noticed \ {t}
  /\ MarkInDoubt(t)
  /\ phase' = "r_doubt"
  /\ UNCHANGED <<still, refused, throws, supplied, blocked, current, crashes>>

DoubtRefused(t) ==
  /\ phase = "r_doubt" /\ t \in noticed /\ effect[t].status # "dispatched"
  /\ refused' = "doubt" /\ Leave
  /\ UNCHANGED <<journal, still, throws, crashes>>

EndDoubt ==
  /\ \/ phase = "r_prompt" /\ PromptInPlace /\ InStatus({"dispatched"}) = {}
     \/ phase = "r_doubt" /\ noticed = {}
  /\ To("r_repeat") /\ UNCHANGED journal

(* In-doubt effects of a policy that this pass has still to look at.       *)
Ahead(policy) ==
  {t \in InStatus({"in_doubt"}) \ (supplied \cup blocked) : effect[t].policy = policy}

(* The run was cancelled, the repetition is used up, the tools of the step *)
(* are not those installed, or the host denies the call.                   *)
GiveUp(t) ==
  /\ \/ phase = "r_repeat" /\ t \in Ahead("repeatable")
     \/ phase = "r_reconcile" /\ t \in Ahead("reconcile")
  /\ blocked' = blocked \cup {t}
  /\ UNCHANGED <<journal, phase, still, refused, throws, supplied, noticed, current, crashes>>

MayRepeat(t) == ~op[open].cancelled /\ effect[t].dispatches = 1

\* Mutant: the repetition is not recorded.
RepeatUnrecorded(t) ==
  /\ phase = "r_repeat" /\ t \in Ahead("repeatable") /\ MayRepeat(t)
  /\ phase' = "r_call" /\ current' = t
  /\ UNCHANGED <<journal, still, refused, throws, supplied, noticed, blocked, crashes>>

Repeat(t) ==
  /\ phase = "r_repeat" /\ t \in Ahead("repeatable") /\ MayRepeat(t)
  /\ DispatchEffect(t)
  /\ phase' = "r_call" /\ current' = t
  /\ UNCHANGED <<still, refused, throws, supplied, noticed, blocked, crashes>>

RepeatCall ==
  /\ phase = "r_call"
  /\ executed' = [executed EXCEPT ![current] = @ + 1]
  /\ phase' = "r_calling"
  /\ UNCHANGED <<journal, loop, queues, todo, answer, due, running, text, refused, counts,
                 pass, crashes>>

(* The result of the repetition, refused when the first call returned and  *)
(* was recorded in the meantime.                                           *)
RepeatReturns(result) ==
  /\ phase = "r_calling"
  /\ IF effect[current].status = "dispatched"
     THEN FinishEffect(current, result) /\ UNCHANGED blocked
     ELSE blocked' = blocked \cup {current} /\ UNCHANGED journal
  /\ phase' = "r_repeat" /\ current' = None
  /\ UNCHANGED <<still, refused, throws, supplied, noticed, crashes>>

(* The result cannot be recorded.                                          *)
RepeatLost ==
  /\ phase = "r_calling" /\ throws < MaxThrows /\ throws' = throws + 1
  /\ effect[current].status = "dispatched"
  /\ MarkInDoubt(current)
  /\ blocked' = blocked \cup {current}
  /\ phase' = "r_repeat" /\ current' = None
  /\ UNCHANGED <<still, refused, supplied, noticed, crashes>>

EndRepeat ==
  /\ phase = "r_repeat" /\ Ahead("repeatable") = {}
  /\ To("r_reconcile") /\ UNCHANGED journal

Reconcile(t) ==
  /\ phase = "r_reconcile" /\ t \in Ahead("reconcile")
  /\ StartRecovery(t)
  /\ phase' = "r_check" /\ current' = t
  /\ UNCHANGED <<still, refused, throws, supplied, noticed, blocked, crashes>>

(* The tool tells what happened, or cannot tell or throws.                 *)
Reconciled(result) ==
  /\ phase = "r_check"
  /\ ReconcileEffect(current, result)
  /\ phase' = "r_reconcile" /\ current' = None
  /\ UNCHANGED <<still, refused, throws, supplied, noticed, blocked, crashes>>

StillInDoubt ==
  /\ phase = "r_check"
  /\ blocked' = blocked \cup {current}
  /\ phase' = "r_reconcile" /\ current' = None
  /\ UNCHANGED <<journal, still, refused, throws, supplied, noticed, crashes>>

EndReconcile ==
  /\ phase = "r_reconcile" /\ Ahead("reconcile") = {}
  /\ To("r_cancel") /\ UNCHANGED journal

(* The signal of the pass; a tool that is executing returns first.         *)
RecoveryAborted ==
  /\ phase \in {"r_repeat", "r_call", "r_reconcile", "r_check"}
  /\ aborts < MaxAborts /\ aborts' = aborts + 1
  /\ Leave
  /\ UNCHANGED <<journal, loop, queues, tools, text, failures, refused, throws, crashes>>

-----------------------------------------------------------------------------
(* Settling the run: from here to the end there is no await.               *)

\* Mutant: the run is settled without a cancellation.
RecoverySkipsCancel ==
  /\ phase = "r_cancel" /\ ~op[open].cancelled
  /\ To("r_resolve") /\ UNCHANGED journal

RecoveryCancels ==
  /\ phase = "r_cancel" /\ ~op[open].cancelled
  /\ CancelRun(open)
  /\ To("r_resolve")

\* Mutant: every pass cancels the run.
CancelsAgain ==
  /\ phase = "r_cancel" /\ op[open].cancelled
  /\ CancelRun(open)
  /\ To("r_resolve")

AlreadyCancelled ==
  /\ phase = "r_cancel" /\ op[open].cancelled
  /\ To("r_resolve") /\ UNCHANGED journal

ToResolve == supplied \cap InStatus({"in_doubt", "recovery_started"})

Resolve(t, result) ==
  /\ phase = "r_resolve" /\ t \in ToResolve
  /\ ResolveEffect(t, result)
  /\ To("r_resolve")

StaysBlocked ==
  /\ phase = "r_resolve" /\ ToResolve = {} /\ InStatus(Unsettled) # {}
  /\ Leave
  /\ UNCHANGED <<journal, still, refused, throws, crashes>>

AllResolved ==
  /\ phase = "r_resolve" /\ InStatus(Unsettled) = {}
  /\ To("r_results") /\ UNCHANGED journal

\* Mutant: only reserved result messages count as answers.
AnsweredByReserved ==
  UNION {replies[n] : n \in {effect[t].result : t \in Mine}}

Answered == UNION {replies[n] : n \in {m \in OwnedNodes(open) : node[m].role = "tool"}}

(* #materializeInterruptedToolResults: first the reserved result messages. *)
MissingResults == {n \in {effect[t].result : t \in Mine} : ~Exists(n)}

ElsewhereAnswered(n) == {effect[t].call : t \in {u \in Mine : effect[u].result # n}}

Unanswered(n) ==
  LET asker == (CHOOSE t \in ResultOf(n) : TRUE) IN
  calls[effect[asker].assistant] \ (Answered \cup ElsewhereAnswered(n))

RestoreResult(n) ==
  /\ phase = "r_results" /\ n \in MissingResults
  /\ Unanswered(n) # {}
  /\ AddNode(n, head, open, "tool", TRUE)
  /\ replies' = [replies EXCEPT ![n] = Unanswered(n)]
  /\ UNCHANGED <<phase, loop, queues, tools, calls, customs, refused, counts, pass, crashes>>

EndResults ==
  /\ phase = "r_results" /\ \A n \in MissingResults : Unanswered(n) = {}
  /\ To("r_replies") /\ UNCHANGED journal

(* ... then a message for the calls of the run that nothing answers.       *)
Silent == {n \in OwnedNodes(open) : node[n].role = "assistant" /\ calls[n] \ Answered # {}}

Reply(n) ==
  /\ phase = "r_replies" /\ n \in Silent /\ UnusedNodes # {}
  /\ AddNode(NewNode, head, open, "tool", TRUE)
  /\ replies' = [replies EXCEPT ![NewNode] = calls[n] \ Answered]
  /\ UNCHANGED <<phase, loop, queues, tools, calls, customs, refused, counts, pass, crashes>>

EndReplies ==
  /\ phase = "r_replies" /\ Silent = {}
  /\ To("r_queues") /\ UNCHANGED journal

(* #finishInterruptedQueues                                                *)
ClaimedHere == {e \in EntryId : entry[e].status = "claimed" /\ entry[e].op = open}

RestoreMessage(e) ==
  /\ phase = "r_queues" /\ e \in ClaimedHere /\ ~Exists(entry[e].target)
  /\ AddNode(entry[e].target, head, open, "user", TRUE)
  /\ To("r_queues")

ConsumeMessage(e) ==
  /\ phase = "r_queues" /\ e \in ClaimedHere /\ Exists(entry[e].target)
  /\ FinishEntry(e, "consumed")
  /\ To("r_queues")

EndQueues ==
  /\ phase = "r_queues" /\ ClaimedHere = {}
  /\ To("r_close") /\ UNCHANGED journal

RecoveryFinishes ==
  /\ phase = "r_close"
  /\ FinishRun(open, "cancelled")
  /\ Leave
  /\ UNCHANGED <<still, refused, throws, crashes>>

-----------------------------------------------------------------------------
EffectRecovery ==
  \E t \in EffectId :
    \/ Doubt(t) \/ DoubtRefused(t) \/ GiveUp(t) \/ Repeat(t) \/ Reconcile(t)
    \/ \E result \in {"succeeded", "failed", "abandoned"} : Resolve(t, result)

CallRecovery ==
  \/ RepeatCall \/ RepeatLost \/ StillInDoubt
  \/ \E result \in {"succeeded", "failed"} : RepeatReturns(result)
  \/ \E result \in {"succeeded", "failed", "not_applied"} : Reconciled(result)

SettleRecovery ==
  \/ \E n \in NodeId : RestoreResult(n) \/ Reply(n)
  \/ \E e \in EntryId : RestoreMessage(e) \/ ConsumeMessage(e)
  \/ RecoveryCancels \/ AlreadyCancelled \/ StaysBlocked \/ AllResolved
  \/ EndResults \/ EndReplies \/ EndQueues \/ RecoveryFinishes

PassStep ==
  \/ RestorePrompt \/ PromptRefused \/ EndDoubt \/ EndRepeat \/ EndReconcile
  \/ EffectRecovery \/ CallRecovery \/ SettleRecovery

RecoverStep == \E resolutions \in SUBSET Mine : Recover(resolutions)

(* The process alone, between calls of the host.                           *)
ProcessStep == RunLoopStep /\ ~RecoveryBusy /\ UNCHANGED <<pass, crashes>>

SessionNext ==
  \/ HostStep /\ UNCHANGED <<pass, crashes>>
  \/ ProcessStep
  \/ PassStep \/ RecoverStep \/ RecoveryAborted
  \/ Crash \/ Reopen

SessionSpec == SessionInit /\ [][SessionNext]_session

(* The event loop runs, the provider and the tools answer, the process is  *)
(* started again, and the operator who keeps asking for a complete pass    *)
(* (every effect may be abandoned) gets one.                               *)
FairSpec ==
  /\ SessionSpec
  /\ WF_session(ProcessStep)
  /\ WF_session(PassStep)
  /\ WF_session(Reopen)
  /\ SF_session(Recover(Mine))

-----------------------------------------------------------------------------
(* Properties.                                                             *)

(* A tool runs only after its dispatch is durable, so across any crash and *)
(* recovery a tool that must not be repeated runs at most once and a       *)
(* repeatable one at most twice.                                           *)
ExecutedAsRecorded ==
  \A t \in EffectId :
    /\ executed[t] <= effect[t].dispatches
    /\ executed[t] > 1 => effect[t].policy = "repeatable"

(* An effect the journal calls not applied, on no one's word but the       *)
(* program's own (no reconciliation was started), never ran.               *)
OutcomeIsWhatHappened ==
  \A t \in EffectId :
    effect[t].status = "not_applied" /\ ~effect[t].recovery => executed[t] = 0

(* In one run no call is answered twice, and once the run is over the call *)
(* of each effect is answered by the tool message reserved for it, whoever *)
(* wrote that: the run or any of the passes interrupted on the way.        *)
CallsAnsweredOnce ==
  /\ \A m, n \in NodeId :
       m # n /\ node[m].op = node[n].op => replies[m] \cap replies[n] = {}
  /\ \A t \in EffectId :
       effect[t].status # "absent" /\ open # effect[t].op =>
         effect[t].call \in replies[effect[t].result]

(* The reducer accepts the commit recovery is about to make.               *)
RecoveryIsAccepted ==
  /\ phase = "r_queues" =>
       \A e \in ClaimedHere :
         Exists(entry[e].target) \/ CanAddNode(entry[e].target, head, open, "user")
  /\ phase = "r_results" =>
       \A n \in MissingResults : CanAddNode(n, head, open, "tool") /\ Unanswered(n) # {}
  /\ phase = "r_close" => CanFinishRun(open, "cancelled")

(* Recovery can put the prompt of any interrupted run in place.            *)
PromptIsRecoverable ==
  phase = "r_prompt" =>
    PromptInPlace \/ CanAddNode(op[open].prompt, op[open].source, open, "user")

(* A queued message is in one place of the process only.                   *)
HeldOnce ==
  /\ Held(control) \cap Held(waiting) = {}
  /\ Held(taken) \cap (Held(control) \cup Held(waiting)) = {}
  /\ \A q \in {control, waiting, taken} : Cardinality(Held(q)) = Len(q)
  /\ Held(control) \cup Held(waiting) \subseteq QueuedEntries

(* A message that is durably queued is still in the memory of an idle      *)
(* process, so it will be delivered or offered back.                       *)
QueuedIsHeld == phase = "idle" => QueuedEntries \subseteq Held(waiting)

(* The process delivers in the order the reducer demands.                  *)
DeliveryIsAccepted == refused \notin {"claim", "accept"}

(* A call of the session ends.                                             *)
CallsEnd == Active ~> ~Active

(* A run that a crash, an abort or a failure left open is settled.         *)
OpenRunsSettle == (open # None) ~> (open = None)
=============================================================================
