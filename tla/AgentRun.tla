------------------------------ MODULE AgentRun ------------------------------
(***************************************************************************)
(* The run loop of an AgentSession: packages/ohm/src/service/agent-session *)
(* (prompt, steer, followUp, abort, the loop over queued prompts and the   *)
(* SessionEventSink) around RuntimeEngine.run and RunControl of            *)
(* packages/kernel/src/runtime/core/agent.ts, and the part of              *)
(* ToolCoordinator that decides when a tool really runs.                   *)
(*                                                                         *)
(* The journal is SessionJournal: a step that commits a change is that     *)
(* module's action, and where the program relies on the reducer to refuse  *)
(* a change the refusal is modelled (the reducer throws, the run fails).   *)
(* One step is the code between two awaits, or one commit of it: a crash   *)
(* may fall between any two commits, but nothing else of the process runs  *)
(* inside a sequence of commits without an await (see Busy).               *)
(*                                                                         *)
(* Entries are numbered in the order they were added, which is the order   *)
(* of the keys of the reduced queue map.                                   *)
(***************************************************************************)
EXTENDS SessionJournal, Selection

CONSTANTS
  SteeringMode,   \* drain mode of steering messages
  FollowUpMode,   \* drain mode of follow-up messages
  QueueModes,     \* kinds of message the user queues
  EffectPolicies, \* recovery modes of the tools installed
  MaxAborts,      \* bound on the calls of abort()
  MaxFailures,    \* bound on failed provider attempts
  MaxThrows       \* bound on hooks and listeners that throw

ASSUME EntryAssumption == EntryId \subseteq Nat

ASSUME RunRoleAssumption == {"user", "assistant", "tool"} \subseteq Roles

ASSUME ModeAssumption ==
  /\ {SteeringMode, FollowUpMode} \subseteq {"one-at-a-time", "all"}
  /\ QueueModes \subseteq {"steer", "follow_up", "custom"}
  /\ EffectPolicies \subseteq Policies

VARIABLES
  phase,     \* where the process is; "closed" when there is none
  run,       \* #activeOperationId
  prompt,    \* what the run to accept, or being run, starts from
  aborted,   \* the abort signal of the RunControl
  outcome,   \* how the run in "closing" and "finishing" ends
  control,   \* RunControl.#queue
  waiting,   \* #pendingQueuedMessages
  taken,     \* messages taken from a queue and not yet appended
  todo,      \* calls of the last response that have not been looked at
  answer,    \* toolResultMessageId of the batch
  due,       \* effects prepared here whose tool has not been called
  running,   \* effects whose tool is executing
  executed,  \* how often the tool of an effect was really called
  calls,     \* content of an assistant message: its tool calls
  replies,   \* content of a tool message: the calls it answers
  customs,   \* entries whose message is an extension's custom message
  refused,   \* last commit of the process the reducer refused, or ""
  aborts, failures, throws

queues == <<control, waiting, taken>>
tools  == <<todo, answer, due, running, executed>>
text   == <<calls, replies, customs>>
counts == <<aborts, failures, throws>>
loop   == <<run, prompt, aborted, outcome>>
agent  == <<journal, phase, loop, queues, tools, text, refused, counts>>

Message == [id : EntryId, mode : {"steer", "follow_up"}]

Active ==
  phase \in {"starting", "accepted", "consume", "deliver", "turn", "steering",
            "asking", "failing", "answered", "tools", "closing", "finishing", "ended",
            "returned", "settling"}

OwnPrompt     == [from |-> "text", id |-> 0]
NoPrompt      == [from |-> "history", id |-> 0]
QueuePrompt(e) == [from |-> "queue", id |-> e]

-----------------------------------------------------------------------------
(* Identifiers are random UUIDs: a step takes any that nothing uses.       *)

UnusedNodes == {n \in NodeId : FreshNode(n) /\ n # answer}
NewNode     == CHOOSE n \in UnusedNodes : TRUE
UnusedOps   == {o \in OpId : op[o].status = "absent"}
NewOp       == CHOOSE o \in UnusedOps : TRUE
UnusedEffects == {t \in EffectId : effect[t].status = "absent"}
NewEffect   == CHOOSE t \in UnusedEffects : TRUE
UnusedEntries == {e \in EntryId : entry[e].status = "absent"}
NewEntry    == CHOOSE e \in UnusedEntries : \A f \in UnusedEntries : e <= f

OfMode(q, mode)  == Among(q, {m \in Items(q) : m.mode = mode})
Without(q, gone) == Among(q, Items(q) \ Items(gone))

(* RunControl.#take                                                        *)
Take(mode, drain) ==
  LET chosen == OfMode(control, mode)
  IN  IF drain = "all" \/ chosen = <<>> THEN chosen ELSE <<Head(chosen)>>
TakeSteering  == Take("steer", SteeringMode)
TakeFollowUps == Take("follow_up", FollowUpMode)

Held(q)        == {m.id : m \in Items(q)}
AsFollowUps(q) == [i \in DOMAIN q |-> [q[i] EXCEPT !.mode = "follow_up"]]

(* The messages of a queue in the order of their entries.                  *)
DurableOrder(q) ==
  LET ids == Ascending(Held(q))
  IN  [i \in DOMAIN ids |-> CHOOSE m \in Items(q) : m.id = ids[i]]

(* Inside a sequence of commits without an await: an append whose entry is *)
(* still to be consumed, a tool prepared and not yet dispatched, or the    *)
(* commits of SessionEventSink.#finish.                                    *)
Busy ==
  \/ phase \in {"consume", "finishing"}
  \/ phase = "accepted" /\ aborted /\ ~op[run].cancelled
  \/ phase \in {"steering", "deliver"} /\ taken # <<>> /\ Exists(entry[Head(taken).id].target)
  \/ \E t \in due : effect[t].status = "prepared"

(* #assertOpen and #assertNoSuspendedRun                                   *)
Usable == phase # "closed" /\ ~Busy /\ open \in {None, run}

AgentInit ==
  /\ Init
  /\ phase = "idle" /\ run = None /\ prompt = NoPrompt
  /\ aborted = FALSE /\ outcome = "completed"
  /\ control = <<>> /\ waiting = <<>> /\ taken = <<>>
  /\ todo = {} /\ answer = None /\ due = {} /\ running = {}
  /\ executed = [t \in EffectId |-> 0]
  /\ calls = [n \in NodeId |-> {}] /\ replies = [n \in NodeId |-> {}]
  /\ customs = {} /\ refused = ""
  /\ aborts = 0 /\ failures = 0 /\ throws = 0

-----------------------------------------------------------------------------
(* Calls of the host.                                                      *)

(* steer(), followUp() and custom messages delivered as follow-ups: the    *)
(* entry is durable before it is in memory.  A custom message needs an     *)
(* active run and goes to its control queue; a user's follow-up waits for  *)
(* the run to end.                                                         *)
Queue(mode) ==
  /\ Usable
  /\ mode = "custom" => Active
  /\ UnusedEntries # {} /\ UnusedNodes # {}
  /\ AddEntry(NewEntry, NewNode, IF mode = "steer" THEN "steering" ELSE "follow_up")
  /\ LET m == [id |-> NewEntry, mode |-> IF mode = "steer" THEN "steer" ELSE "follow_up"] IN
     IF Active /\ mode # "follow_up"
     THEN control' = Append(control, m) /\ UNCHANGED waiting
     ELSE waiting' = Append(waiting, m) /\ UNCHANGED control
  /\ customs' = IF mode = "custom" THEN customs \cup {NewEntry} ELSE customs
  /\ UNCHANGED <<phase, loop, taken, tools, calls, replies, refused, counts>>

Users(q) == Among(q, {m \in Items(q) : m.id \notin customs})

(* dequeueMessage(): the user takes back the oldest message.               *)
Dequeue ==
  LET first == Users(waiting) \o Users(control) IN
  /\ Usable /\ first # <<>>
  /\ FinishEntry(Head(first).id, "cancelled")
  /\ waiting' = Without(waiting, <<Head(first)>>)
  /\ control' = Without(control, <<Head(first)>>)
  /\ UNCHANGED <<phase, loop, taken, tools, text, refused, counts>>

(* #run: a new RunControl takes over the waiting steering messages.        *)
Begin(p, left) ==
  /\ phase = "idle" /\ open = None
  /\ UnusedOps # {} /\ UnusedNodes # {}
  /\ phase' = "starting" /\ prompt' = p /\ aborted' = FALSE
  /\ control' = OfMode(left, "steer") /\ waiting' = OfMode(left, "follow_up")
  /\ UNCHANGED <<journal, run, outcome, taken, tools, text, refused, counts>>

Prompt == Begin(OwnPrompt, waiting)

(* continue(): after an assistant message from the first steering, else    *)
(* follow-up, message waiting; otherwise from the history as it is.        *)
Continue ==
  /\ head # None
  /\ IF node[head].role # "assistant"
     THEN Begin(NoPrompt, waiting)
     ELSE LET first == OfMode(Users(waiting), "steer") \o OfMode(Users(waiting), "follow_up") IN
          /\ first # <<>>
          /\ Begin(QueuePrompt(Head(first).id), Without(waiting, <<Head(first)>>))

(* abort(): the request is recorded if a run is active, then signalled.    *)
Abort ==
  /\ Active /\ ~Busy
  /\ ~aborted /\ aborts < MaxAborts
  /\ aborted' = TRUE /\ aborts' = aborts + 1
  /\ IF run # None /\ open = run /\ ~op[run].cancelled
     THEN CancelRun(run)
     ELSE UNCHANGED journal
  /\ UNCHANGED <<phase, run, prompt, outcome, queues, tools, text, refused, failures, throws>>

-----------------------------------------------------------------------------
(* Accepting a run and its prompt.                                         *)

CanAcceptQueued(e) ==
  /\ open = None
  /\ entry[e].status = "queued"
  /\ First(entry[e].kind, e)
  /\ PromptOf(entry[e].target) = {}

(* The run is accepted, and a queued prompt claimed with it, or the commit *)
(* is refused and the call fails.                                          *)
Accept ==
  /\ phase = "starting" /\ UnusedOps # {}
  /\ UNCHANGED <<prompt, aborted, outcome, queues, tools, text, counts>>
  /\ \/ /\ prompt.from = "text" /\ UnusedNodes # {}
        /\ AcceptRun(NewOp, NewNode)
     \/ prompt.from = "history" /\ AcceptRun(NewOp, None)
     \/ prompt.from = "queue" /\ AcceptQueuedRun(NewOp, prompt.id)
  /\ phase' = "accepted" /\ run' = NewOp /\ UNCHANGED refused

AcceptRefused ==
  /\ phase = "starting"
  /\ IF prompt.from = "queue" THEN ~CanAcceptQueued(prompt.id) ELSE open # None
  /\ phase' = "settling" /\ refused' = "accept"
  /\ UNCHANGED <<journal, loop, queues, tools, text, counts>>

(* A model that cannot be selected, a hook that throws before acceptance.  *)
StartFails ==
  /\ phase = "starting" /\ throws < MaxThrows
  /\ phase' = "settling" /\ throws' = throws + 1
  /\ UNCHANGED <<journal, loop, queues, tools, text, refused, aborts, failures>>

(* An abort that came before acceptance is recorded right after it.        *)
RecordAbort ==
  /\ phase = "accepted" /\ aborted /\ ~op[run].cancelled
  /\ CancelRun(run)
  /\ UNCHANGED <<phase, loop, queues, tools, text, refused, counts>>

AppendPrompt ==
  /\ phase = "accepted" /\ ~Busy
  /\ IF prompt.from = "history"
     THEN phase' = "deliver" /\ UNCHANGED journal
     ELSE /\ AddNode(op[run].prompt, head, run, "user", TRUE)
          /\ phase' = IF prompt.from = "queue" THEN "consume" ELSE "deliver"
  /\ UNCHANGED <<loop, queues, tools, text, refused, counts>>

ConsumePrompt ==
  /\ phase = "consume"
  /\ FinishEntry(prompt.id, "consumed")
  /\ phase' = "deliver"
  /\ UNCHANGED <<loop, queues, tools, text, refused, counts>>

-----------------------------------------------------------------------------
(* Leaving the run: what was taken from a queue is only a local variable   *)
(* of RuntimeEngine.run and is gone; tools already running are not.        *)

Close(end) ==
  /\ phase' = "closing" /\ outcome' = end
  /\ taken' = <<>> /\ todo' = {} /\ due' = {} /\ answer' = None
  /\ UNCHANGED <<run, prompt, aborted, control, waiting, executed, text>>

InRun ==
  phase \in {"accepted", "deliver", "turn", "steering", "asking", "failing", "answered", "tools"}

(* Tools of the run that are executing; a batch that is only executing     *)
(* tools waits for one of them to return.                                  *)
Executing == running \cap EffectsOf(run)

(* The signal is noticed, at any await of the run.                         *)
NoticeAbort ==
  /\ InRun /\ ~Busy /\ aborted
  /\ Executing # {} => todo # {} \/ due # {}
  /\ UNCHANGED running
  /\ Close("cancelled")
  /\ UNCHANGED <<journal, refused, counts>>

(* A hook or listener throws while no tool is under way.                   *)
Throw ==
  /\ InRun /\ phase # "failing" /\ ~Busy /\ ~aborted
  /\ due = {} /\ Executing = {}
  /\ throws < MaxThrows /\ throws' = throws + 1
  /\ Close("thrown") /\ UNCHANGED running
  /\ UNCHANGED <<journal, refused, aborts, failures>>

(* The failed attempt is the last: it may not be retried, or a listener of *)
(* its failure threw.                                                      *)
ProviderFails ==
  /\ phase = "failing" /\ ~aborted
  /\ Close("failed") /\ UNCHANGED running
  /\ UNCHANGED <<journal, refused, counts>>

(* cancelRetry(), a call of the host, during the delay before a retry.     *)
CancelRetry ==
  /\ phase = "failing" /\ ~aborted /\ op[run].attempt < MaxAttempts
  /\ Close("cancelled") /\ UNCHANGED running
  /\ UNCHANGED <<journal, refused, counts>>

StepLimit ==
  /\ phase = "turn" /\ op[run].selected = MaxSteps
  /\ Close(IF aborted THEN "cancelled" ELSE "failed") /\ UNCHANGED running
  /\ UNCHANGED <<journal, refused, counts>>

-----------------------------------------------------------------------------
(* Delivering queued messages: claim, reduce through the hooks, append and *)
(* consume.                                                                *)

Delivering == phase \in {"steering", "deliver"} /\ taken # <<>>
Delivered  == Head(taken).id

BeginDelivery ==
  /\ Delivering /\ entry[Delivered].status = "queued"
  /\ ClaimEntry(Delivered, run)
  /\ UNCHANGED <<phase, loop, queues, tools, text, refused, counts>>

ClaimRefused ==
  /\ Delivering /\ entry[Delivered].status = "queued"
  /\ ~CanClaim(Delivered, run)
  /\ refused' = "claim"
  /\ Close(IF aborted THEN "cancelled" ELSE "thrown") /\ UNCHANGED running
  /\ UNCHANGED <<journal, counts>>

AppendDelivery ==
  /\ Delivering /\ entry[Delivered].status = "claimed"
  /\ AddNode(entry[Delivered].target, head, run, "user", TRUE)
  /\ UNCHANGED <<phase, loop, queues, tools, text, refused, counts>>

EndDelivery ==
  /\ Delivering /\ Exists(entry[Delivered].target)
  /\ FinishEntry(Delivered, "consumed")
  /\ taken' = Tail(taken)
  /\ UNCHANGED <<phase, loop, control, waiting, tools, text, refused, counts>>

AllDelivered ==
  /\ phase = "deliver" /\ taken = <<>>
  /\ phase' = "turn"
  /\ UNCHANGED <<journal, loop, queues, tools, text, refused, counts>>

-----------------------------------------------------------------------------
(* The turns of the model.                                                 *)

\* Mutant: the messages taken stay in the queue.
TakeTurnKeeps ==
  /\ phase = "turn" /\ ~aborted /\ op[run].selected < MaxSteps
  /\ taken' = TakeSteering
  /\ phase' = "steering"
  /\ UNCHANGED <<journal, loop, control, waiting, tools, text, refused, counts>>

TakeTurn ==
  /\ phase = "turn" /\ ~aborted /\ op[run].selected < MaxSteps
  /\ taken' = TakeSteering /\ control' = Without(control, TakeSteering)
  /\ phase' = "steering"
  /\ UNCHANGED <<journal, loop, waiting, tools, text, refused, counts>>

(* provider_attempt_started: run_step_selected and run_attempt, one commit.*)
Ask ==
  /\ phase = "steering" /\ taken = <<>>
  /\ StartStep(run)
  /\ phase' = "asking"
  /\ UNCHANGED <<loop, queues, tools, text, refused, counts>>

(* An attempt that fails, or is cut off by an abort, leaves an assistant   *)
(* message without calls in the conversation, whether it is retried or not.*)
AttemptFails ==
  /\ phase = "asking" /\ UnusedNodes # {}
  /\ aborted \/ failures < MaxFailures
  /\ failures' = IF aborted THEN failures ELSE failures + 1
  /\ AddNode(NewNode, head, run, "assistant", TRUE)
  /\ phase' = "failing"
  /\ UNCHANGED <<loop, queues, tools, text, refused, aborts, throws>>

Retry ==
  /\ phase = "failing" /\ ~aborted /\ op[run].attempt < MaxAttempts
  /\ StartAttempt(run, op[run].step, op[run].attempt + 1)
  /\ phase' = "asking"
  /\ UNCHANGED <<loop, queues, tools, text, refused, counts>>

(* The assistant message of a response that ended; an abort may come while *)
(* hooks look at it.                                                       *)
Respond(called) ==
  /\ phase = "asking" /\ UnusedNodes # {}
  /\ called \cap UNION {calls[n] : n \in OwnedNodes(run)} = {}
  /\ AddNode(NewNode, head, run, "assistant", TRUE)
  /\ calls' = [calls EXCEPT ![NewNode] = called]
  /\ todo' = called
  /\ phase' = "answered"
  /\ UNCHANGED <<loop, queues, answer, due, running, executed, replies, customs, refused, counts>>

(* What follows a response without calls, or a batch that ends the run:    *)
(* steering already taken, else follow-ups, else the end.                  *)
Onward(steering, left) ==
  LET followUps == IF steering = <<>> THEN TakeFollowUps ELSE <<>> IN
  /\ taken' = steering \o followUps
  /\ control' = Without(left, followUps)
  /\ phase' = IF taken' = <<>> THEN "closing" ELSE "deliver"

AnswerWithoutCalls ==
  /\ phase = "answered" /\ todo = {}
  /\ Onward(TakeSteering, Without(control, TakeSteering))
  /\ outcome' = "completed"
  /\ UNCHANGED <<journal, run, prompt, aborted, waiting, tools, text, refused, counts>>

(* finishReason "pause": the model asks for another turn.                  *)
Pause ==
  /\ phase = "answered" /\ todo = {}
  /\ taken' = TakeSteering /\ control' = Without(control, TakeSteering)
  /\ phase' = "deliver"
  /\ UNCHANGED <<journal, loop, waiting, tools, text, refused, counts>>

PlanTools ==
  /\ phase = "answered" /\ todo # {} /\ UnusedNodes # {}
  /\ taken' = TakeSteering /\ control' = Without(control, TakeSteering)
  /\ answer' = NewNode
  /\ phase' = "tools"
  /\ UNCHANGED <<journal, loop, waiting, todo, due, running, executed, text, refused, counts>>

-----------------------------------------------------------------------------
(* Tools.                                                                  *)

(* Unknown, invalid, blocked or denied: answered without an effect.        *)
RefuseTool(c) ==
  /\ phase = "tools" /\ c \in todo /\ ~Busy
  /\ todo' = todo \ {c}
  /\ UNCHANGED <<journal, phase, loop, queues, answer, due, running, executed, text, refused, counts>>

PrepareTool(c, policy) ==
  /\ phase = "tools" /\ c \in todo /\ ~Busy /\ ~aborted
  /\ UnusedEffects # {}
  /\ PrepareEffect(NewEffect, run, c, policy, answer, head)
  /\ todo' = todo \ {c} /\ due' = due \cup {NewEffect}
  /\ UNCHANGED <<phase, loop, queues, answer, running, executed, text, refused, counts>>

DispatchTool(t) ==
  /\ t \in due /\ effect[t].status = "prepared"
  /\ DispatchEffect(t)
  /\ UNCHANGED <<phase, loop, queues, tools, text, refused, counts>>

\* Mutant: the tool is called before its dispatch is durable.
CallPrepared(t) ==
  /\ t \in due /\ effect[t].status = "prepared" /\ ~aborted
  /\ due' = due \ {t} /\ running' = running \cup {t}
  /\ executed' = [executed EXCEPT ![t] = @ + 1]
  /\ UNCHANGED <<journal, phase, loop, queues, todo, answer, text, refused, counts>>

CallTool(t) ==
  /\ t \in due /\ effect[t].status = "dispatched" /\ ~Busy /\ ~aborted
  /\ due' = due \ {t} /\ running' = running \cup {t}
  /\ executed' = [executed EXCEPT ![t] = @ + 1]
  /\ UNCHANGED <<journal, phase, loop, queues, todo, answer, text, refused, counts>>

(* A tool that was called returns, perhaps after its run was interrupted   *)
(* or even recovered; the reducer then refuses its completion.  The first  *)
(* to return after an abort rejects the batch and the others are left.     *)
ToolReturns(t, result) ==
  /\ t \in running /\ ~Busy
  /\ running' = running \ {t}
  /\ IF Live(t) /\ effect[t].status = "dispatched"
     THEN FinishEffect(t, result)
     ELSE UNCHANGED journal
  /\ IF phase = "tools" /\ aborted /\ t \in Executing
     THEN Close("cancelled")
     ELSE UNCHANGED <<phase, loop, queues, todo, answer, due, executed, text>>
  /\ UNCHANGED <<refused, counts>>

(* A listener of the dispatch fails: the tool is not called.               *)
ToolNotCalled(t) ==
  /\ t \in due /\ effect[t].status = "dispatched" /\ ~Busy /\ ~aborted
  /\ throws < MaxThrows /\ throws' = throws + 1
  /\ FinishEffect(t, "failed")
  /\ due' = due \ {t}
  /\ UNCHANGED <<phase, loop, queues, todo, answer, running, executed, text, refused, aborts, failures>>

(* The tool message of the batch, then the steering that came meanwhile.   *)
AnswerCalls ==
  /\ phase = "tools" /\ todo = {} /\ due = {}
  /\ Executing = {}
  /\ AddNode(answer, head, run, "tool", TRUE)
  /\ replies' = [replies EXCEPT ![answer] = calls[head]]
  /\ answer' = None
  /\ \/ /\ taken' = taken \o TakeSteering
        /\ control' = Without(control, TakeSteering)
        /\ phase' = "deliver" /\ UNCHANGED outcome
     \/ /\ Onward(taken \o TakeSteering, Without(control, TakeSteering))
        /\ outcome' = "completed"
  /\ UNCHANGED <<run, prompt, aborted, waiting, todo, due, running, executed, calls, customs, refused, counts>>

-----------------------------------------------------------------------------
(* SessionEventSink.#finish and the end of the run.                        *)

BeginFinish ==
  /\ phase = "closing"
  /\ phase' = "finishing"
  /\ UNCHANGED <<journal, loop, queues, tools, text, refused, counts>>

Stranded == {e \in EntryId : /\ entry[e].status = "claimed" /\ entry[e].op = run
                             /\ ~Exists(entry[e].target)}

(* What #finish itself requires before it commits run_finished.            *)
FinishReady ==
  /\ op[run].prompt # None => Exists(op[run].prompt)
  /\ RunSettled(run)

EndOutcome == IF outcome = "thrown" THEN "failed" ELSE outcome

MustCancel == outcome = "cancelled" /\ ~op[run].cancelled

FinishCancels ==
  /\ phase = "finishing" /\ MustCancel
  /\ CancelRun(run)
  /\ UNCHANGED <<phase, loop, queues, tools, text, refused, counts>>

FinishDropsClaim ==
  /\ phase = "finishing" /\ ~MustCancel
  /\ \E e \in Stranded : FinishEntry(e, "cancelled")
  /\ UNCHANGED <<phase, loop, queues, tools, text, refused, counts>>

(* Something is unsettled: the run stays open for recovery.                *)
FinishLeavesOpen ==
  /\ phase = "finishing" /\ ~MustCancel /\ Stranded = {} /\ ~FinishReady
  /\ phase' = "ended"
  /\ UNCHANGED <<journal, loop, queues, tools, text, refused, counts>>

\* Mutant: the completion is committed again and again.
CompletionRepeated ==
  /\ phase = "finishing" /\ Stranded = {} /\ FinishReady
  /\ outcome = "completed" /\ op[run].cancelled
  /\ UNCHANGED <<journal, phase, loop, queues, tools, text, refused, counts>>

(* An abort came between the last response and run_completed: the reducer  *)
(* refuses the completion and the run ends as cancelled.                   *)
CompletionRefused ==
  /\ phase = "finishing" /\ Stranded = {} /\ FinishReady
  /\ outcome = "completed" /\ op[run].cancelled
  /\ outcome' = "cancelled"
  /\ UNCHANGED <<journal, phase, run, prompt, aborted, queues, tools, text, refused, counts>>

FinishCommits ==
  /\ phase = "finishing" /\ ~MustCancel /\ Stranded = {} /\ FinishReady
  /\ FinishRun(run, EndOutcome)
  /\ phase' = "ended"
  /\ UNCHANGED <<loop, queues, tools, text, refused, counts>>

(* RuntimeEngine.run returns what is left in the control queue, marked as  *)
(* follow-ups; when it throws nothing is returned.                         *)
ReturnRun ==
  /\ phase = "ended" /\ run' = None
  /\ IF outcome = "thrown"
     THEN phase' = "settling" /\ UNCHANGED queues
     ELSE /\ phase' = "returned"
          /\ taken' = AsFollowUps(control) /\ control' = <<>>
          /\ UNCHANGED waiting
  /\ UNCHANGED <<journal, prompt, aborted, outcome, tools, text, refused, counts>>

(* The loop of the session after RuntimeEngine.run: next queued prompt, or *)
(* the end of the call, also when its step or output budget is used up.    *)
Undelivered == DurableOrder(taken \o control \o waiting)

EndCancelled ==
  /\ phase = "returned" /\ outcome = "cancelled"
  /\ control' = taken \o control /\ taken' = <<>>
  /\ phase' = "settling"
  /\ UNCHANGED <<journal, loop, waiting, tools, text, refused, counts>>

EndCall ==
  /\ phase = "returned" /\ outcome # "cancelled"
  /\ control' = Undelivered /\ taken' = <<>> /\ waiting' = <<>>
  /\ phase' = "settling"
  /\ UNCHANGED <<journal, loop, tools, text, refused, counts>>

\* Mutant: the newest message starts the next run.
NextPromptNewest ==
  LET newest == Undelivered[Len(Undelivered)] IN
  /\ phase = "returned" /\ outcome # "cancelled"
  /\ Undelivered # <<>> /\ UnusedOps # {}
  /\ phase' = "starting"
  /\ prompt' = QueuePrompt(newest.id) /\ taken' = <<>>
  /\ control' = <<>> /\ waiting' = Without(Undelivered, <<newest>>)
  /\ UNCHANGED <<journal, run, aborted, outcome, tools, text, refused, counts>>

NextPrompt ==
  LET next == IF FollowUpMode = "all" THEN Undelivered ELSE <<Head(Undelivered)>>
      left == Without(Undelivered, next) IN
  /\ phase = "returned" /\ outcome # "cancelled"
  /\ Undelivered # <<>> /\ UnusedOps # {}
  /\ phase' = "starting"
  /\ prompt' = QueuePrompt(Head(next).id) /\ taken' = Tail(next)
  /\ control' = OfMode(left, "steer") /\ waiting' = OfMode(left, "follow_up")
  /\ UNCHANGED <<journal, run, aborted, outcome, tools, text, refused, counts>>

(* #settleRun: what is left in the control queue waits for the next run.   *)
Settle ==
  /\ phase = "settling"
  /\ phase' = "idle" /\ aborted' = FALSE
  /\ waiting' = IF control = <<>> THEN waiting ELSE DurableOrder(waiting \o control)
  /\ control' = <<>> /\ taken' = <<>>
  /\ UNCHANGED <<journal, run, prompt, outcome, tools, text, refused, counts>>

-----------------------------------------------------------------------------
HostStep ==
  \/ \E mode \in QueueModes : Queue(mode)
  \/ Dequeue \/ Prompt \/ Continue \/ Abort \/ CancelRetry

AcceptStep == Accept \/ AcceptRefused \/ StartFails \/ RecordAbort \/ AppendPrompt \/ ConsumePrompt

DeliverStep == BeginDelivery \/ ClaimRefused \/ AppendDelivery \/ EndDelivery \/ AllDelivered

TurnStep ==
  \/ TakeTurn \/ Ask \/ AttemptFails \/ Retry
  \/ \E called \in SUBSET CallId : Respond(called)
  \/ AnswerWithoutCalls \/ Pause \/ PlanTools \/ AnswerCalls

ToolStep ==
  \/ \E c \in CallId : RefuseTool(c) \/ \E policy \in EffectPolicies : PrepareTool(c, policy)
  \/ \E t \in EffectId :
       \/ DispatchTool(t) \/ CallTool(t) \/ ToolNotCalled(t)
       \/ \E result \in {"succeeded", "failed"} : ToolReturns(t, result)

FaultStep == NoticeAbort \/ Throw \/ ProviderFails \/ StepLimit

FinishStep ==
  \/ BeginFinish \/ FinishCancels \/ FinishDropsClaim \/ FinishLeavesOpen
  \/ CompletionRefused \/ FinishCommits
  \/ ReturnRun \/ EndCancelled \/ EndCall \/ NextPrompt \/ Settle

RunLoopStep == AcceptStep \/ DeliverStep \/ TurnStep \/ ToolStep \/ FaultStep \/ FinishStep
=============================================================================
