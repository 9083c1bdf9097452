-------------------------- MODULE RunRecoveryProofs --------------------------
(* The running session is an implementation of its journal, a tool runs no *)
(* more often than its dispatches were made durable, and what recovery     *)
(* commits when it settles a run is accepted and answers every call once.  *)
(* A queued message is in one queue of the process at most; and when the   *)
(* host queues follow-ups only, none is lost and none is refused.          *)
EXTENDS RunRecovery, SessionJournalProofs, SelectionProofs, WellFoundedInduction

-----------------------------------------------------------------------------
(* What the program commits is a step of the journal, whatever arguments   *)
(* it passes: the reducer looks every identifier up.                       *)

LEMMA NewIdentifiers ==
  /\ UnusedNodes # {} => NewNode \in NodeId
  /\ UnusedOps # {} => NewOp \in OpId
  /\ UnusedEffects # {} => NewEffect \in EffectId /\ effect[NewEffect].status = "absent"
  BY DEF UnusedNodes, NewNode, UnusedOps, NewOp, UnusedEffects, NewEffect

LEMMA AddNodeIsJournalled ==
  ASSUME TypeOK, NEW n, NEW p, NEW o, NEW r \in {"user", "assistant", "tool"},
         AddNode(n, p, o, r, TRUE)
  PROVE  Next
<1>1. n \in NodeId /\ p \in NodeId \cup {None} /\ o \in OpId \cup {None}
  BY DEF AddNode, CanAddNode, Exists, TypeOK
<1>2. r \in Roles /\ TRUE \in BOOLEAN
  BY RunRoleAssumption
<1>3. QED
  BY <1>1, <1>2 DEF Next, NodeStep

LEMMA CancelRunIsJournalled == ASSUME NEW o, CancelRun(o) PROVE Next
  BY DEF CancelRun, IsOpen, Next, RunStep

LEMMA FinishRunIsJournalled == ASSUME NEW o, NEW x, FinishRun(o, x) PROVE Next
  BY DEF FinishRun, CanFinishRun, IsOpen, Next, RunStep

LEMMA StartStepIsJournalled == ASSUME NEW o, StartStep(o) PROVE Next
  BY DEF StartStep, CanSelectStep, IsOpen, Next, RunStep

LEMMA RetryIsJournalled ==
  ASSUME TypeOK, NEW o, op[o].attempt < MaxAttempts,
         StartAttempt(o, op[o].step, op[o].attempt + 1)
  PROVE  Next
<1>1. o \in OpId
  BY DEF StartAttempt, IsOpen
<1>2. op[o].step \in Nat /\ op[o].attempt \in Nat /\ op[o].selected \in Nat
  BY <1>1 DEF TypeOK, Operation
<1>3. op[o].step \in 0..op[o].selected
  BY <1>2 DEF StartAttempt
<1>4. op[o].attempt + 1 \in 1..MaxAttempts
  BY <1>2, BoundAssumption
<1>5. QED
  BY <1>1, <1>3, <1>4 DEF Next, RunStep

LEMMA AddEntryIsJournalled ==
  ASSUME NEW e, NEW n, NEW k \in Kinds, AddEntry(e, n, k) PROVE Next
  BY DEF AddEntry, FreshNode, Next, QueueStep

LEMMA ClaimEntryIsJournalled == ASSUME NEW e, NEW o, ClaimEntry(e, o) PROVE Next
  BY DEF ClaimEntry, CanClaim, IsOpen, Next, QueueStep

LEMMA FinishEntryIsJournalled ==
  ASSUME NEW e, NEW x \in {"consumed", "cancelled"}, FinishEntry(e, x) PROVE Next
  BY DEF FinishEntry, CanConsume, CanCancelEntry, Next, QueueStep

LEMMA EffectIsJournalled ==
  ASSUME NEW t,
         \/ DispatchEffect(t)
         \/ MarkInDoubt(t)
         \/ StartRecovery(t)
         \/ \E x : FinishEffect(t, x) \/ ReconcileEffect(t, x) \/ ResolveEffect(t, x)
  PROVE  Next
<1>1. t \in EffectId
  BY DEF DispatchEffect, CanDispatch, MarkInDoubt, StartRecovery, FinishEffect,
     ReconcileEffect, ResolveEffect, CanResolve, Live
<1>2. ASSUME NEW x, FinishEffect(t, x) \/ ReconcileEffect(t, x) \/ ResolveEffect(t, x)
      PROVE  x \in Terminal
  BY <1>2 DEF FinishEffect, ReconcileEffect, ResolveEffect, Terminal
<1>3. QED
  BY <1>1, <1>2 DEF Next, EffectStep

LEMMA AcceptIsJournalled ==
  ASSUME NEW o \in OpId,
         \/ \E q \in NodeId \cup {None} : AcceptRun(o, q)
         \/ \E e : AcceptQueuedRun(o, e)
  PROVE  Next
  BY DEF AcceptQueuedRun, Next, RunStep

LEMMA PrepareIsJournalled ==
  ASSUME NEW t \in EffectId, NEW o, NEW c \in CallId, NEW policy \in Policies, NEW n, NEW a,
         PrepareEffect(t, o, c, policy, n, a)
  PROVE  Next
<1>1. o \in OpId /\ n \in NodeId /\ a \in NodeId
  BY DEF PrepareEffect, IsOpen, ResultNodeAllowed, FreshNode, OwnedNodes
<1>2. QED
  BY <1>1 DEF Next, EffectStep

-----------------------------------------------------------------------------
(* The actions of the run loop.                                            *)

LEMMA HostStepIsJournalled ==
  ASSUME TypeOK, HostStep PROVE Next \/ UNCHANGED journal
<1>1. ASSUME NEW mode \in QueueModes, Queue(mode) PROVE Next
  BY <1>1, AddEntryIsJournalled DEF Queue, Kinds
<1>2. ASSUME Dequeue PROVE Next
  BY <1>2, FinishEntryIsJournalled DEF Dequeue
<1>3. ASSUME Prompt \/ Continue PROVE UNCHANGED journal
  BY <1>3 DEF Prompt, Continue, Begin
<1>4. ASSUME Abort PROVE Next \/ UNCHANGED journal
  BY <1>4, CancelRunIsJournalled DEF Abort
<1>5. ASSUME CancelRetry PROVE UNCHANGED journal
  BY <1>5 DEF CancelRetry
<1>6. QED
  BY <1>1, <1>2, <1>3, <1>4, <1>5 DEF HostStep

LEMMA AcceptStepIsJournalled ==
  ASSUME TypeOK, AcceptStep PROVE Next \/ UNCHANGED journal
<1>1. ASSUME Accept PROVE Next
  BY <1>1, NewIdentifiers, AcceptIsJournalled DEF Accept
<1>2. ASSUME AcceptRefused \/ StartFails PROVE UNCHANGED journal
  BY <1>2 DEF AcceptRefused, StartFails
<1>3. ASSUME RecordAbort PROVE Next
  BY <1>3, CancelRunIsJournalled DEF RecordAbort
<1>4. ASSUME AppendPrompt PROVE Next \/ UNCHANGED journal
  BY <1>4, AddNodeIsJournalled DEF AppendPrompt
<1>5. ASSUME ConsumePrompt PROVE Next
  BY <1>5, FinishEntryIsJournalled DEF ConsumePrompt
<1>6. QED
  BY <1>1, <1>2, <1>3, <1>4, <1>5 DEF AcceptStep

LEMMA DeliverStepIsJournalled ==
  ASSUME TypeOK, DeliverStep PROVE Next \/ UNCHANGED journal
<1>1. ASSUME BeginDelivery PROVE Next
  BY <1>1, ClaimEntryIsJournalled DEF BeginDelivery
<1>2. ASSUME AppendDelivery PROVE Next
  BY <1>2, AddNodeIsJournalled DEF AppendDelivery
<1>3. ASSUME EndDelivery PROVE Next
  BY <1>3, FinishEntryIsJournalled DEF EndDelivery
<1>4. ASSUME ClaimRefused \/ AllDelivered PROVE UNCHANGED journal
  BY <1>4 DEF ClaimRefused, AllDelivered
<1>5. QED
  BY <1>1, <1>2, <1>3, <1>4 DEF DeliverStep

LEMMA TurnStepIsJournalled ==
  ASSUME TypeOK, TurnStep PROVE Next \/ UNCHANGED journal
<1>1. ASSUME Ask PROVE Next
  BY <1>1, StartStepIsJournalled DEF Ask
<1>2. ASSUME Retry PROVE Next
  BY <1>2, RetryIsJournalled DEF Retry
<1>3. ASSUME NEW called \in SUBSET CallId, Respond(called) PROVE Next
  BY <1>3, AddNodeIsJournalled DEF Respond
<1>4. ASSUME AnswerCalls PROVE Next
  BY <1>4, AddNodeIsJournalled DEF AnswerCalls
<1>5. ASSUME TakeTurn \/ AnswerWithoutCalls \/ Pause \/ PlanTools PROVE UNCHANGED journal
  BY <1>5 DEF TakeTurn, AnswerWithoutCalls, Pause, PlanTools
<1>6. ASSUME AttemptFails PROVE Next
  BY <1>6, AddNodeIsJournalled DEF AttemptFails
<1>7. QED
  BY <1>1, <1>2, <1>3, <1>4, <1>5, <1>6 DEF TurnStep

LEMMA ToolStepIsJournalled ==
  ASSUME TypeOK, ToolStep PROVE Next \/ UNCHANGED journal
<1>1. ASSUME NEW c \in CallId, RefuseTool(c) PROVE UNCHANGED journal
  BY <1>1 DEF RefuseTool
<1>2. ASSUME NEW c \in CallId, NEW policy \in EffectPolicies, PrepareTool(c, policy)
      PROVE  Next
  BY <1>2, NewIdentifiers, PrepareIsJournalled, ModeAssumption DEF PrepareTool
<1>3. ASSUME NEW t \in EffectId, DispatchTool(t) PROVE Next
  BY <1>3, EffectIsJournalled DEF DispatchTool
<1>4. ASSUME NEW t \in EffectId, CallTool(t) PROVE UNCHANGED journal
  BY <1>4 DEF CallTool
<1>5. ASSUME NEW t \in EffectId, ToolNotCalled(t) PROVE Next
  BY <1>5, EffectIsJournalled DEF ToolNotCalled
<1>6. ASSUME NEW t \in EffectId, NEW result, ToolReturns(t, result)
      PROVE  Next \/ UNCHANGED journal
  BY <1>6, EffectIsJournalled DEF ToolReturns
<1>7. QED
  BY <1>1, <1>2, <1>3, <1>4, <1>5, <1>6 DEF ToolStep

LEMMA FinishStepIsJournalled ==
  ASSUME TypeOK, FinishStep PROVE Next \/ UNCHANGED journal
<1>1. ASSUME FinishCancels PROVE Next
  BY <1>1, CancelRunIsJournalled DEF FinishCancels
<1>2. ASSUME FinishDropsClaim PROVE Next
  BY <1>2, FinishEntryIsJournalled DEF FinishDropsClaim
<1>3. ASSUME FinishCommits PROVE Next
  BY <1>3, FinishRunIsJournalled DEF FinishCommits
<1>4. ASSUME \/ BeginFinish \/ FinishLeavesOpen \/ CompletionRefused \/ ReturnRun
             \/ EndCancelled \/ EndCall \/ NextPrompt \/ Settle
      PROVE  UNCHANGED journal
  BY <1>4 DEF BeginFinish, FinishLeavesOpen, CompletionRefused, ReturnRun, EndCancelled,
     EndCall, NextPrompt, Settle
<1>5. QED
  BY <1>1, <1>2, <1>3, <1>4 DEF FinishStep

LEMMA RunLoopIsJournalled ==
  ASSUME TypeOK, RunLoopStep PROVE Next \/ UNCHANGED journal
<1>1. ASSUME FaultStep PROVE UNCHANGED journal
  BY <1>1 DEF FaultStep, NoticeAbort, Throw, ProviderFails, StepLimit
<1>2. QED
  BY <1>1, AcceptStepIsJournalled, DeliverStepIsJournalled, TurnStepIsJournalled,
     ToolStepIsJournalled, FinishStepIsJournalled DEF RunLoopStep

-----------------------------------------------------------------------------
(* The actions of recovery.                                                *)

LEMMA EffectRecoveryIsJournalled ==
  ASSUME TypeOK, EffectRecovery PROVE Next \/ UNCHANGED journal
<1> PICK t \in EffectId :
      \/ Doubt(t) \/ DoubtRefused(t) \/ GiveUp(t) \/ Repeat(t) \/ Reconcile(t)
      \/ \E result \in {"succeeded", "failed", "abandoned"} : Resolve(t, result)
  BY DEF EffectRecovery
<1>1. CASE Doubt(t) \/ Repeat(t) \/ Reconcile(t)
  BY <1>1, EffectIsJournalled DEF Doubt, Repeat, Reconcile
<1>2. CASE DoubtRefused(t) \/ GiveUp(t)
  BY <1>2 DEF DoubtRefused, GiveUp
<1>3. CASE \E result \in {"succeeded", "failed", "abandoned"} : Resolve(t, result)
  BY <1>3, EffectIsJournalled DEF Resolve
<1>4. QED
  BY <1>1, <1>2, <1>3

LEMMA CallRecoveryIsJournalled ==
  ASSUME TypeOK, CallRecovery PROVE Next \/ UNCHANGED journal
<1>1. ASSUME RepeatCall \/ StillInDoubt PROVE UNCHANGED journal
  BY <1>1 DEF RepeatCall, StillInDoubt
<1>2. ASSUME RepeatLost PROVE Next
  BY <1>2, EffectIsJournalled DEF RepeatLost
<1>3. ASSUME NEW result, RepeatReturns(result) PROVE Next \/ UNCHANGED journal
  BY <1>3, EffectIsJournalled DEF RepeatReturns
<1>4. ASSUME NEW result, Reconciled(result) PROVE Next
  BY <1>4, EffectIsJournalled DEF Reconciled
<1>5. QED
  BY <1>1, <1>2, <1>3, <1>4 DEF CallRecovery

LEMMA SettleRecoveryIsJournalled ==
  ASSUME TypeOK, SettleRecovery PROVE Next \/ UNCHANGED journal
<1>1. ASSUME NEW n \in NodeId, RestoreResult(n) \/ Reply(n) PROVE Next
  BY <1>1, AddNodeIsJournalled DEF RestoreResult, Reply
<1>2. ASSUME NEW e \in EntryId, RestoreMessage(e) \/ ConsumeMessage(e) PROVE Next
  BY <1>2, AddNodeIsJournalled, FinishEntryIsJournalled DEF RestoreMessage, ConsumeMessage
<1>3. ASSUME RecoveryCancels \/ RecoveryFinishes PROVE Next
  BY <1>3, CancelRunIsJournalled, FinishRunIsJournalled DEF RecoveryCancels, RecoveryFinishes
<1>4. ASSUME \/ AlreadyCancelled \/ StaysBlocked \/ AllResolved
             \/ EndResults \/ EndReplies \/ EndQueues
      PROVE  UNCHANGED journal
  BY <1>4 DEF AlreadyCancelled, StaysBlocked, AllResolved, EndResults, EndReplies, EndQueues
<1>5. QED
  BY <1>1, <1>2, <1>3, <1>4 DEF SettleRecovery

LEMMA PassIsJournalled ==
  ASSUME TypeOK, PassStep PROVE Next \/ UNCHANGED journal
<1>1. ASSUME RestorePrompt PROVE Next
  BY <1>1, AddNodeIsJournalled DEF RestorePrompt
<1>2. ASSUME PromptRefused \/ EndDoubt \/ EndRepeat \/ EndReconcile
      PROVE  UNCHANGED journal
  BY <1>2 DEF PromptRefused, EndDoubt, EndRepeat, EndReconcile
<1>3. QED
  BY <1>1, <1>2, EffectRecoveryIsJournalled, CallRecoveryIsJournalled,
     SettleRecoveryIsJournalled DEF PassStep

LEMMA SessionIsJournalled ==
  ASSUME TypeOK, [SessionNext]_session PROVE [Next]_journal
<1>1. ASSUME RecoverStep \/ RecoveryAborted \/ Crash \/ Reopen \/ UNCHANGED session
      PROVE  UNCHANGED journal
  BY <1>1 DEF RecoverStep, Recover, RecoveryAborted, Crash, Reopen, session, agent
<1>2. ASSUME ProcessStep PROVE Next \/ UNCHANGED journal
  BY <1>2, RunLoopIsJournalled DEF ProcessStep
<1>3. QED
  BY <1>1, <1>2, HostStepIsJournalled, PassIsJournalled DEF SessionNext

(* Whatever the running process, its crashes and its recoveries do, the    *)
(* session file holds a journal that a strict reader opens: each commit    *)
(* the program gets through is one the reducer accepts, one at a time.     *)
THEOREM SessionKeepsJournal == SessionSpec => Spec
<1>1. SessionInit => Init
  BY DEF SessionInit, AgentInit
<1>2. Init => TypeOK
  BY InitialType
<1>3. TypeOK /\ [SessionNext]_session => TypeOK' /\ [Next]_journal
  BY SessionIsJournalled, TypeStep
<1>4. QED
  BY <1>1, <1>2, <1>3, PTL DEF SessionSpec, Spec

-----------------------------------------------------------------------------
(* How often a tool is really called.  A dispatch that is durable and not  *)
(* yet used is what lets a call happen: for the run, an effect in due was  *)
(* never called; for recovery, the repetition counts one dispatch more     *)
(* than there were calls.                                                  *)

ExecutionInv ==
  /\ executed \in [EffectId -> Nat]
  /\ due \subseteq EffectId
  /\ due # {} => phase = "tools"
  /\ \A t \in EffectId : executed[t] <= effect[t].dispatches
  /\ \A t \in due : executed[t] = 0
  /\ phase = "r_call" =>
       current \in EffectId /\ executed[current] < effect[current].dispatches

LEMMA DispatchesGrow ==
  ASSUME TypeOK, EffectHistory, [Next]_journal, NEW x \in EffectId
  PROVE  /\ effect[x].dispatches \in Nat /\ effect'[x].dispatches \in Nat
         /\ effect[x].dispatches <= effect'[x].dispatches
<1>1. TypeOK'
  BY TypeStep
<1>2. effect[x] \in Effect /\ effect'[x] \in Effect /\ HistoryOf(effect[x])
  BY <1>1 DEF TypeOK, EffectHistory
<1>3. effect[x].dispatches \in Nat /\ effect'[x].dispatches \in Nat
  BY <1>2 DEF Effect
<1>4. CASE effect'[x] = effect[x]
  BY <1>3, <1>4
<1>5. CASE NodeStep \/ QueueStep \/ UNCHANGED journal
  BY <1>5, <1>4, NodeStepFrame, QueueStepFrame DEF journal
<1>6. CASE RunStep
  <2>1. \/ effect'[x] = effect[x]
        \/ effect'[x] = [effect[x] EXCEPT !.status = "not_applied"]
    BY <1>6 DEF RunStep, AcceptRun, AcceptQueuedRun, SelectStep, StartStep, StartAttempt,
       CancelRun, FinishRun
  <2>2. QED
    BY <1>2, <1>3, <2>1 DEF Effect
<1>7. CASE EffectStep
  <2>1. PICK t \in EffectId :
          \/ \E o \in OpId, c \in CallId, policy \in Policies, n, a \in NodeId :
               PrepareEffect(t, o, c, policy, n, a)
          \/ DispatchEffect(t)
          \/ StartRecovery(t)
          \/ \E s : Become(t, s)
    BY <1>7 DEF EffectStep, MarkInDoubt, FinishEffect, ReconcileEffect, ResolveEffect
  <2>2. CASE x # t
    <3>1. effect'[x] = effect[x]
      BY <2>1, <2>2 DEF PrepareEffect, DispatchEffect, StartRecovery, Become, TypeOK
    <3>2. QED
      BY <3>1, <1>4
  <2>3. CASE x = t /\ \E o \in OpId, c \in CallId, policy \in Policies, n, a \in NodeId :
                        PrepareEffect(t, o, c, policy, n, a)
    <3>1. effect[x].dispatches = 0
      BY <2>3, <1>2 DEF PrepareEffect, HistoryOf
    <3>2. QED
      BY <3>1, <1>3
  <2>4. CASE x = t /\ DispatchEffect(t)
    <3>1. effect'[x] = [effect[x] EXCEPT !.status = "dispatched",
                                         !.dispatches = effect[x].dispatches + 1]
      BY <2>4 DEF DispatchEffect, TypeOK
    <3>2. effect'[x].dispatches = effect[x].dispatches + 1
      BY <3>1, <1>2 DEF Effect
    <3>3. QED
      BY <3>2, <1>3
  <2>5. CASE x = t /\ (StartRecovery(t) \/ \E s : Become(t, s))
    <3>1. \/ effect'[x] = [effect[x] EXCEPT !.status = "recovery_started", !.recovery = TRUE]
          \/ \E s : effect'[x] = [effect[x] EXCEPT !.status = s]
      BY <2>5 DEF StartRecovery, Become, TypeOK
    <3>2. effect'[x].dispatches = effect[x].dispatches
      BY <3>1, <1>2 DEF Effect
    <3>3. QED
      BY <3>2, <1>3
  <2>6. QED
    BY <2>1, <2>2, <2>3, <2>4, <2>5
<1>8. QED
  BY <1>5, <1>6, <1>7 DEF Next

(* A step that calls no tool and arms none.                                *)
Quiet ==
  /\ executed' = executed /\ due' \subseteq due
  /\ due' # {} => phase' = "tools"
  /\ phase' = "r_call" => phase = "r_call" /\ current' = current

LEMMA QuietKeeps ==
  ASSUME TypeOK, EffectHistory, ExecutionInv, [Next]_journal, Quiet
  PROVE  ExecutionInv'
<1>1. /\ executed' \in [EffectId -> Nat] /\ due' \subseteq EffectId
      /\ due' # {} => phase' = "tools"
      /\ \A t \in due' : executed'[t] = 0
  BY DEF Quiet, ExecutionInv
<1>2. \A t \in EffectId : executed'[t] <= effect'[t].dispatches
  <2> SUFFICES ASSUME NEW t \in EffectId PROVE executed'[t] <= effect'[t].dispatches
    OBVIOUS
  <2>1. executed'[t] \in Nat /\ executed'[t] <= effect[t].dispatches
    BY DEF Quiet, ExecutionInv
  <2>2. QED
    BY <2>1, DispatchesGrow
<1>3. ASSUME phase' = "r_call"
      PROVE  current' \in EffectId /\ executed'[current'] < effect'[current'].dispatches
  <2>1. /\ current \in EffectId /\ current' = current
        /\ executed'[current] \in Nat /\ executed'[current] < effect[current].dispatches
    BY <1>3 DEF Quiet, ExecutionInv
  <2>2. QED
    BY <2>1, DispatchesGrow
<1>4. QED
  BY <1>1, <1>2, <1>3 DEF ExecutionInv

LEMMA HostStepIsQuiet ==
  ASSUME ExecutionInv, HostStep, UNCHANGED pass PROVE Quiet
<1>1. UNCHANGED current
  BY DEF pass
<1>2. ASSUME NEW mode \in QueueModes, Queue(mode) PROVE Quiet
  BY <1>1, <1>2 DEF Queue, tools, Quiet, ExecutionInv
<1>3. ASSUME Dequeue PROVE Quiet
  BY <1>1, <1>3 DEF Dequeue, tools, Quiet, ExecutionInv
<1>4. ASSUME Prompt \/ Continue PROVE Quiet
  BY <1>1, <1>4 DEF Prompt, Continue, Begin, tools, Quiet, ExecutionInv
<1>5. ASSUME Abort PROVE Quiet
  BY <1>1, <1>5 DEF Abort, tools, Quiet, ExecutionInv
<1>6. ASSUME CancelRetry PROVE Quiet
  BY <1>1, <1>6 DEF CancelRetry, Close, Quiet
<1>7. QED
  BY <1>2, <1>3, <1>4, <1>5, <1>6 DEF HostStep

LEMMA RunLoopIsQuiet ==
  ASSUME ExecutionInv, RunLoopStep, ~ToolStep, UNCHANGED pass PROVE Quiet
<1>1. UNCHANGED current
  BY DEF pass
<1>2. ASSUME AcceptStep PROVE Quiet
  BY <1>1, <1>2 DEF AcceptStep, Accept, AcceptRefused, StartFails, RecordAbort, AppendPrompt,
     ConsumePrompt, tools, Quiet, ExecutionInv
<1>3. ASSUME DeliverStep PROVE Quiet
  BY <1>1, <1>3 DEF DeliverStep, Delivering, BeginDelivery, ClaimRefused, AppendDelivery,
     EndDelivery, AllDelivered, Close, tools, Quiet, ExecutionInv
<1>4. ASSUME TurnStep PROVE Quiet
  BY <1>1, <1>4 DEF TurnStep, TakeTurn, Ask, AttemptFails, Retry, Respond, AnswerWithoutCalls,
     Onward, Pause, PlanTools, AnswerCalls, tools, Quiet, ExecutionInv
<1>5. ASSUME FaultStep PROVE Quiet
  BY <1>1, <1>5 DEF FaultStep, NoticeAbort, Throw, ProviderFails, StepLimit, Close, Quiet
<1>6. ASSUME FinishStep PROVE Quiet
  BY <1>1, <1>6 DEF FinishStep, BeginFinish, FinishCancels, FinishDropsClaim,
     FinishLeavesOpen, CompletionRefused, FinishCommits, ReturnRun, EndCancelled, EndCall,
     NextPrompt, Settle, tools, Quiet, ExecutionInv
<1>7. QED
  BY <1>2, <1>3, <1>4, <1>5, <1>6 DEF RunLoopStep

LEMMA ToolStepCounts ==
  ASSUME TypeOK, EffectHistory, ExecutionInv, [Next]_journal, ToolStep, UNCHANGED pass
  PROVE  ExecutionInv'
<1>1. UNCHANGED current
  BY DEF pass
<1>2. ASSUME NEW c \in CallId, RefuseTool(c) PROVE Quiet
  BY <1>1, <1>2 DEF RefuseTool, Quiet, ExecutionInv
<1>3. ASSUME NEW c \in CallId, NEW policy \in EffectPolicies, PrepareTool(c, policy)
      PROVE  ExecutionInv'
  <2> DEFINE t == NewEffect
  <2>1. /\ t \in EffectId /\ effect[t].status = "absent"
        /\ phase = "tools" /\ phase' = phase
        /\ executed' = executed /\ due' = due \cup {t}
    BY <1>3, NewIdentifiers DEF PrepareTool
  <2>2. executed[t] = 0
    BY <2>1 DEF ExecutionInv, EffectHistory, HistoryOf
  <2> HIDE DEF t
  <2>3. \A u \in EffectId : executed'[u] <= effect'[u].dispatches
    <3> SUFFICES ASSUME NEW u \in EffectId PROVE executed'[u] <= effect'[u].dispatches
      OBVIOUS
    <3>1. executed'[u] \in Nat /\ executed'[u] <= effect[u].dispatches
      BY <2>1 DEF ExecutionInv
    <3>2. QED
      BY <3>1, DispatchesGrow
  <2>4. QED
    BY <2>1, <2>2, <2>3 DEF ExecutionInv
<1>4. ASSUME NEW t \in EffectId, CallTool(t) PROVE ExecutionInv'
  <2>1. /\ t \in due /\ effect[t].status = "dispatched"
        /\ UNCHANGED <<effect, phase>>
        /\ due' = due \ {t} /\ executed' = [executed EXCEPT ![t] = executed[t] + 1]
    BY <1>4 DEF CallTool, journal
  <2>2. executed[t] = 0 /\ phase = "tools"
    BY <2>1 DEF ExecutionInv
  <2>3. effect[t].dispatches \in Nat /\ effect[t].dispatches > 0
    BY <2>1, DispatchesGrow DEF EffectHistory, HistoryOf
  <2>4. executed'[t] = 1 /\ \A u \in EffectId \ {t} : executed'[u] = executed[u]
    BY <2>1, <2>2 DEF ExecutionInv
  <2>5. executed' \in [EffectId -> Nat]
    BY <2>1 DEF ExecutionInv
  <2>6. QED
    BY <2>1, <2>2, <2>3, <2>4, <2>5 DEF ExecutionInv
<1>5. ASSUME NEW t \in EffectId, DispatchTool(t) \/ ToolNotCalled(t) PROVE Quiet
  BY <1>1, <1>5 DEF DispatchTool, ToolNotCalled, tools, Quiet, ExecutionInv
<1>6. ASSUME NEW t \in EffectId, NEW result, ToolReturns(t, result) PROVE Quiet
  BY <1>1, <1>6 DEF ToolReturns, Close, Quiet, ExecutionInv
<1>7. QED
  BY <1>2, <1>3, <1>4, <1>5, <1>6, QuietKeeps DEF ToolStep

LEMMA EffectRecoveryCounts ==
  ASSUME TypeOK, EffectHistory, ExecutionInv, [Next]_journal, EffectRecovery
  PROVE  ExecutionInv'
<1> PICK t \in EffectId :
      \/ Doubt(t) \/ DoubtRefused(t) \/ GiveUp(t) \/ Repeat(t) \/ Reconcile(t)
      \/ \E result \in {"succeeded", "failed", "abandoned"} : Resolve(t, result)
  BY DEF EffectRecovery
<1>1. CASE Repeat(t)
  <2>1. /\ phase = "r_repeat" /\ phase' = "r_call" /\ current' = t
        /\ UNCHANGED <<executed, due>>
    BY <1>1 DEF Repeat, still, tools
  <2>2. due' = {}
    BY <2>1 DEF ExecutionInv
  <2>3. effect[t].dispatches = 1 /\ effect'[t].dispatches = 2
    BY <1>1 DEF Repeat, MayRepeat, DispatchEffect, TypeOK, Effect
  <2>4. executed'[t] \in Nat /\ executed'[t] <= 1
    BY <2>1, <2>3 DEF ExecutionInv
  <2>5. \A u \in EffectId : executed'[u] <= effect'[u].dispatches
    <3> SUFFICES ASSUME NEW u \in EffectId PROVE executed'[u] <= effect'[u].dispatches
      OBVIOUS
    <3>1. executed'[u] \in Nat /\ executed'[u] <= effect[u].dispatches
      BY <2>1 DEF ExecutionInv
    <3>2. QED
      BY <3>1, DispatchesGrow
  <2>6. executed' \in [EffectId -> Nat]
    BY <2>1 DEF ExecutionInv
  <2>7. executed'[t] < effect'[t].dispatches
    BY <2>3, <2>4
  <2>8. QED
    BY <2>1, <2>2, <2>5, <2>6, <2>7 DEF ExecutionInv
<1>2. CASE \/ Doubt(t) \/ DoubtRefused(t) \/ GiveUp(t) \/ Reconcile(t)
           \/ \E result \in {"succeeded", "failed", "abandoned"} : Resolve(t, result)
  <2>1. Quiet
    BY <1>2 DEF Doubt, DoubtRefused, GiveUp, Reconcile, Resolve, To, Leave, still, tools,
       Quiet, ExecutionInv
  <2>2. QED
    BY <2>1, QuietKeeps
<1>3. QED
  BY <1>1, <1>2

LEMMA CallRecoveryCounts ==
  ASSUME TypeOK, EffectHistory, ExecutionInv, [Next]_journal, CallRecovery
  PROVE  ExecutionInv'
<1>1. CASE RepeatCall
  <2>1. /\ phase = "r_call" /\ phase' = "r_calling" /\ UNCHANGED <<effect, due>>
        /\ executed' = [executed EXCEPT ![current] = executed[current] + 1]
    BY <1>1 DEF RepeatCall, journal
  <2>2. /\ due' = {} /\ current \in EffectId
        /\ executed[current] < effect[current].dispatches
    BY <2>1 DEF ExecutionInv
  <2>3. effect[current].dispatches \in Nat
    BY <2>2, DispatchesGrow
  <2>4. executed'[current] <= effect'[current].dispatches
    BY <2>1, <2>2, <2>3 DEF ExecutionInv
  <2>5. \A u \in EffectId \ {current} : executed'[u] <= effect'[u].dispatches
    BY <2>1 DEF ExecutionInv
  <2>6. executed' \in [EffectId -> Nat]
    BY <2>1, <2>2 DEF ExecutionInv
  <2>7. QED
    BY <2>1, <2>2, <2>4, <2>5, <2>6 DEF ExecutionInv
<1>2. CASE ~RepeatCall
  <2>1. Quiet
    BY <1>2 DEF CallRecovery, RepeatLost, StillInDoubt, RepeatReturns, Reconciled, still,
       tools, Quiet, ExecutionInv
  <2>2. QED
    BY <2>1, QuietKeeps
<1>3. QED
  BY <1>1, <1>2

LEMMA PassCounts ==
  ASSUME TypeOK, EffectHistory, ExecutionInv, [Next]_journal, PassStep
  PROVE  ExecutionInv'
<1>1. ASSUME SettleRecovery PROVE Quiet
  BY <1>1 DEF SettleRecovery, RestoreResult, Reply, RestoreMessage, ConsumeMessage,
     RecoveryCancels, AlreadyCancelled, StaysBlocked, AllResolved, EndResults, EndReplies,
     EndQueues, RecoveryFinishes, To, Leave, still, tools, Quiet, ExecutionInv
<1>2. ASSUME RestorePrompt \/ PromptRefused \/ EndDoubt \/ EndRepeat \/ EndReconcile
      PROVE  Quiet
  BY <1>2 DEF RestorePrompt, PromptRefused, EndDoubt, EndRepeat, EndReconcile, To, Leave,
     still, tools, Quiet, ExecutionInv
<1>3. QED
  BY <1>1, <1>2, QuietKeeps, EffectRecoveryCounts, CallRecoveryCounts DEF PassStep

LEMMA ExecutionStep ==
  ASSUME TypeOK, EffectHistory, ExecutionInv, [SessionNext]_session
  PROVE  ExecutionInv'
<1>1. [Next]_journal
  BY SessionIsJournalled
<1>2. ASSUME HostStep, UNCHANGED <<pass, crashes>> PROVE ExecutionInv'
  BY <1>1, <1>2, HostStepIsQuiet, QuietKeeps
<1>3. ASSUME ProcessStep PROVE ExecutionInv'
  BY <1>1, <1>3, RunLoopIsQuiet, ToolStepCounts, QuietKeeps DEF ProcessStep
<1>4. ASSUME \/ RecoverStep \/ RecoveryAborted \/ Crash \/ Reopen \/ UNCHANGED session
      PROVE  Quiet
  BY <1>4 DEF RecoverStep, Recover, RecoveryAborted, Leave, Crash, Reopen, session, agent,
     still, pass, tools, Quiet, ExecutionInv
<1>5. QED
  BY <1>1, <1>2, <1>3, <1>4, PassCounts, QuietKeeps DEF SessionNext

LEMMA ExecutionInvariant == SessionSpec => [](TypeOK /\ EffectHistory /\ ExecutionInv)
<1>1. SessionInit => ExecutionInv
  <2> SUFFICES ASSUME SessionInit PROVE ExecutionInv
    OBVIOUS
  <2>1. /\ due = {} /\ phase = "idle" /\ executed = [t \in EffectId |-> 0]
        /\ effect = [t \in EffectId |-> NoEffect]
    BY DEF SessionInit, AgentInit, Init
  <2>2. NoEffect.dispatches = 0
    BY DEF NoEffect
  <2>3. QED
    BY <2>1, <2>2 DEF ExecutionInv
<1>2. TypeOK /\ EffectHistory /\ ExecutionInv /\ [SessionNext]_session => ExecutionInv'
  BY ExecutionStep
<1>3. SessionSpec => []TypeOK /\ []EffectHistory
  BY SessionKeepsJournal, TypeCorrect, HistoryInvariant, PTL
<1>4. QED
  BY <1>1, <1>2, <1>3, PTL DEF SessionSpec

(* A tool runs only on a dispatch that is durable, so over any number of   *)
(* crashes, aborts and recovery passes a tool that must not be repeated    *)
(* runs at most once and a repeatable one at most twice (runPrepared of    *)
(* the coordinator, recoverInterruptedRun).                                *)
THEOREM ExecutedAsRecordedHolds == SessionSpec => []ExecutedAsRecorded
<1>1. TypeOK /\ EffectHistory /\ ExecutionInv => ExecutedAsRecorded
  BY DEF TypeOK, Effect, EffectHistory, HistoryOf, ExecutionInv, ExecutedAsRecorded
<1>2. QED
  BY <1>1, ExecutionInvariant, PTL

(* An effect the program itself reports as not applied, when it cancels or *)
(* recovers a run, never ran; only the tool that was asked may report it   *)
(* of an effect that did (applyRunCancel, applyToolReconciled).            *)
THEOREM OutcomeIsWhatHappenedHolds == SessionSpec => []OutcomeIsWhatHappened
<1>1. TypeOK /\ EffectHistory /\ ExecutionInv => OutcomeIsWhatHappened
  BY DEF TypeOK, Effect, EffectHistory, HistoryOf, ExecutionInv, OutcomeIsWhatHappened
<1>2. QED
  BY <1>1, ExecutionInvariant, PTL

-----------------------------------------------------------------------------
(* Where the process is.  A phase of the run loop works on the open run,   *)
(* a phase of recovery on a run that no call of this process is running.   *)

RunPhases ==
  {"accepted", "consume", "deliver", "turn", "steering", "asking", "failing", "answered",
   "tools", "closing", "finishing"}

PassPhases ==
  {"r_prompt", "r_doubt", "r_repeat", "r_call", "r_calling", "r_reconcile", "r_check",
   "r_cancel", "r_resolve", "r_results", "r_replies", "r_queues", "r_close"}

RestPhases == {"closed", "idle", "starting", "returned", "settling"}

Where ==
  /\ phase \in RunPhases => open # None /\ run = open
  /\ phase \in RestPhases \cup PassPhases => run = None
  /\ phase \in PassPhases => open # None

(* The prompt of the run is in the conversation from the moment the loop   *)
(* begins to deliver, and recovery begins with it.                         *)
PlacedPhases ==
  (RunPhases \cup PassPhases) \ {"accepted", "r_prompt", "closing", "finishing"}

PromptPlaced ==
  /\ phase \in PlacedPhases => PromptInPlace
  /\ phase = "accepted" /\ prompt.from = "history" => op[run].prompt = None

(* What the pass has established when it settles the run.                  *)
Settling ==
  /\ phase \in {"r_resolve", "r_results", "r_replies", "r_queues", "r_close"} =>
       op[open].cancelled
  /\ phase \in {"r_results", "r_replies", "r_queues", "r_close"} => InStatus(Unsettled) = {}
  /\ phase = "r_close" => ClaimedHere = {}

LEMMA HostWhere == ASSUME Where, HostStep PROVE Where'
<1>1. ASSUME NEW mode \in QueueModes, Queue(mode) PROVE Where'
  BY <1>1 DEF Queue, AddEntry, loop, Where
<1>2. ASSUME Dequeue PROVE Where'
  BY <1>2 DEF Dequeue, FinishEntry, loop, Where
<1>3. ASSUME Prompt \/ Continue PROVE Where'
  BY <1>3 DEF Prompt, Continue, Begin, journal, loop, Where, RunPhases, PassPhases, RestPhases
<1>4. ASSUME Abort PROVE Where'
  BY <1>4 DEF Abort, CancelRun, journal, Where
<1>5. ASSUME CancelRetry PROVE Where'
  BY <1>5 DEF CancelRetry, Close, journal, Where, RunPhases, PassPhases, RestPhases
<1>6. QED
  BY <1>1, <1>2, <1>3, <1>4, <1>5 DEF HostStep

LEMMA RunLoopWhere == ASSUME TypeOK, Where, RunLoopStep PROVE Where'
<1> USE DEF Where, RunPhases, PassPhases, RestPhases
<1>1. ASSUME Accept PROVE Where'
  <2>1. NewOp \in OpId
    BY <1>1, NewIdentifiers DEF Accept
  <2>2. open' = NewOp /\ run' = NewOp /\ phase' = "accepted"
    BY <1>1 DEF Accept, AcceptRun, AcceptQueuedRun
  <2>3. QED
    BY <2>1, <2>2, IdAssumption
<1>2. ASSUME AcceptRefused \/ StartFails \/ RecordAbort \/ AppendPrompt \/ ConsumePrompt
      PROVE  Where'
  BY <1>2 DEF AcceptRefused, StartFails, RecordAbort, AppendPrompt, ConsumePrompt, AddNode,
     CancelRun, FinishEntry, journal, loop
<1>3. ASSUME DeliverStep PROVE Where'
  BY <1>3 DEF DeliverStep, Delivering, BeginDelivery, ClaimRefused, AppendDelivery,
     EndDelivery, AllDelivered, Close, AddNode, ClaimEntry, FinishEntry, journal, loop
<1>4. ASSUME TurnStep PROVE Where'
  BY <1>4 DEF TurnStep, TakeTurn, Ask, AttemptFails, Retry, Respond, AnswerWithoutCalls,
     Onward, Pause, PlanTools, AnswerCalls, AddNode, StartStep, StartAttempt, journal, loop
<1>5. ASSUME ToolStep PROVE Where'
  BY <1>5 DEF ToolStep, RefuseTool, PrepareTool, DispatchTool, CallTool, ToolNotCalled,
     ToolReturns, Close, PrepareEffect, DispatchEffect, FinishEffect, Become, journal, loop
<1>6. ASSUME FaultStep PROVE Where'
  BY <1>6 DEF FaultStep, NoticeAbort, Throw, ProviderFails, StepLimit, InRun, Close, journal
<1>7. ASSUME FinishStep PROVE Where'
  BY <1>7 DEF FinishStep, BeginFinish, FinishCancels, FinishDropsClaim, FinishLeavesOpen,
     CompletionRefused, FinishCommits, ReturnRun, EndCancelled, EndCall, NextPrompt, Settle,
     CancelRun, FinishEntry, FinishRun, journal, loop
<1>8. QED
  BY <1>1, <1>2, <1>3, <1>4, <1>5, <1>6, <1>7 DEF RunLoopStep, AcceptStep

LEMMA PassWhere == ASSUME TypeOK, Where, PassStep PROVE Where'
<1> USE DEF Where, RunPhases, PassPhases, RestPhases
<1>1. ASSUME RestorePrompt \/ PromptRefused \/ EndDoubt \/ EndRepeat \/ EndReconcile
      PROVE  Where'
  BY <1>1 DEF RestorePrompt, PromptRefused, EndDoubt, EndRepeat, EndReconcile, To, Leave,
     AddNode, still, loop, journal
<1>2. ASSUME EffectRecovery PROVE Where'
  BY <1>2 DEF EffectRecovery, Doubt, DoubtRefused, GiveUp, Repeat, Reconcile, Resolve, To,
     Leave, MarkInDoubt, DispatchEffect, StartRecovery, ResolveEffect, Become, still, loop,
     journal
<1>3. ASSUME CallRecovery PROVE Where'
  BY <1>3 DEF CallRecovery, RepeatCall, RepeatLost, StillInDoubt, RepeatReturns, Reconciled,
     MarkInDoubt, FinishEffect, ReconcileEffect, Become, still, loop, journal
<1>4. ASSUME SettleRecovery PROVE Where'
  BY <1>4 DEF SettleRecovery, RestoreResult, Reply, RestoreMessage, ConsumeMessage,
     RecoveryCancels, AlreadyCancelled, StaysBlocked, AllResolved, EndResults, EndReplies,
     EndQueues, RecoveryFinishes, To, Leave, AddNode, FinishEntry, CancelRun, FinishRun,
     still, loop, journal
<1>5. QED
  BY <1>1, <1>2, <1>3, <1>4 DEF PassStep

LEMMA WhereStep == ASSUME TypeOK, Where, [SessionNext]_session PROVE Where'
<1>1. ASSUME \/ RecoverStep \/ RecoveryAborted \/ Crash \/ Reopen \/ UNCHANGED session
      PROVE  Where'
  BY <1>1 DEF RecoverStep, Recover, RecoveryAborted, Leave, Crash, Reopen, session, agent,
     still, loop, journal, Where, RunPhases, PassPhases, RestPhases
<1>2. QED
  BY <1>1, HostWhere, RunLoopWhere, PassWhere DEF SessionNext, ProcessStep

(* A run stays open until it is closed.                                    *)
LEMMA OpenStays ==
  ASSUME TypeOK, [Next]_journal, open # None, open' # None PROVE open' = open
<1>1. CASE NodeStep \/ QueueStep \/ EffectStep \/ UNCHANGED journal
  BY <1>1, NodeStepFrame, QueueStepFrame, EffectStepFrame DEF journal
<1>2. CASE RunStep
  BY <1>2 DEF RunStep, AcceptRun, AcceptQueuedRun, SelectStep, StartStep, StartAttempt,
     CancelRun, FinishRun
<1>3. QED
  BY <1>1, <1>2 DEF Next

(* The open run keeps its prompt, its source and its cancellation, and a   *)
(* prompt that is in the conversation stays there.                         *)
LEMMA OpenRunStays ==
  ASSUME TypeOK, OneOpenRun, [Next]_journal, open # None, open' = open
  PROVE  /\ open \in OpId /\ op[open].status # "absent"
         /\ op'[open].prompt = op[open].prompt /\ op'[open].source = op[open].source
         /\ op[open].cancelled => op'[open].cancelled
         /\ PromptInPlace => PromptInPlace'
<1>1. open \in OpId /\ op[open].status # "absent"
  BY DEF TypeOK, OneOpenRun
<1>2. CASE Next
  <2>1. /\ op'[open].prompt = op[open].prompt /\ op'[open].source = op[open].source
        /\ op[open].cancelled => op'[open].cancelled
    BY <1>1, <1>2, RunIdentity
  <2>2. ASSUME NEW n, Exists(n) PROVE n \in NodeId /\ node'[n].role # "absent"
    BY <1>2, <2>2, NodesAreFinal DEF Exists
  <2>3. PromptInPlace => PromptInPlace'
    BY <2>1, <2>2 DEF PromptInPlace, Exists
  <2>4. QED
    BY <1>1, <2>1, <2>3
<1>3. CASE UNCHANGED journal
  BY <1>1, <1>3 DEF journal, PromptInPlace, Exists
<1>4. QED
  BY <1>2, <1>3

(* How the process gets to the phases in which the prompt is in place.     *)
LEMMA RunLoopPlaced ==
  ASSUME RunLoopStep, phase' \in PlacedPhases
  PROVE  phase \in PlacedPhases \/ AppendPrompt
<1> USE DEF PlacedPhases, RunPhases, PassPhases
<1>1. ASSUME AcceptStep PROVE phase \in PlacedPhases \/ AppendPrompt
  BY <1>1 DEF AcceptStep, Accept, AcceptRefused, StartFails, RecordAbort, ConsumePrompt
<1>2. ASSUME DeliverStep PROVE phase \in PlacedPhases
  BY <1>2 DEF DeliverStep, Delivering, BeginDelivery, ClaimRefused, AppendDelivery,
     EndDelivery, AllDelivered, Close
<1>3. ASSUME TurnStep PROVE phase \in PlacedPhases
  BY <1>3 DEF TurnStep, TakeTurn, Ask, AttemptFails, Retry, Respond, AnswerWithoutCalls,
     Onward, Pause, PlanTools, AnswerCalls
<1>4. ASSUME ToolStep PROVE phase \in PlacedPhases
  BY <1>4 DEF ToolStep, RefuseTool, PrepareTool, DispatchTool, CallTool, ToolNotCalled,
     ToolReturns, Close
<1>5. ASSUME FaultStep PROVE phase \in PlacedPhases
  BY <1>5 DEF FaultStep, NoticeAbort, Throw, ProviderFails, StepLimit, Close
<1>6. ASSUME FinishStep PROVE phase \in PlacedPhases
  BY <1>6 DEF FinishStep, BeginFinish, FinishCancels, FinishDropsClaim, FinishLeavesOpen,
     CompletionRefused, FinishCommits, ReturnRun, EndCancelled, EndCall, NextPrompt, Settle
<1>7. QED
  BY <1>1, <1>2, <1>3, <1>4, <1>5, <1>6 DEF RunLoopStep

LEMMA PassPlaced ==
  ASSUME PassStep, phase' \in PlacedPhases
  PROVE  phase \in PlacedPhases \/ (phase = "r_prompt" /\ PromptInPlace)
<1> USE DEF PlacedPhases, RunPhases, PassPhases
<1>1. ASSUME RestorePrompt \/ PromptRefused \/ EndDoubt \/ EndRepeat \/ EndReconcile
      PROVE  phase \in PlacedPhases \/ (phase = "r_prompt" /\ PromptInPlace)
  BY <1>1 DEF RestorePrompt, PromptRefused, EndDoubt, EndRepeat, EndReconcile, To, Leave
<1>2. ASSUME EffectRecovery
      PROVE  phase \in PlacedPhases \/ (phase = "r_prompt" /\ PromptInPlace)
  BY <1>2 DEF EffectRecovery, Doubt, DoubtRefused, GiveUp, Repeat, Reconcile, Resolve, To,
     Leave
<1>3. ASSUME CallRecovery PROVE phase \in PlacedPhases
  BY <1>3 DEF CallRecovery, RepeatCall, RepeatLost, StillInDoubt, RepeatReturns, Reconciled
<1>4. ASSUME SettleRecovery PROVE phase \in PlacedPhases
  BY <1>4 DEF SettleRecovery, RestoreResult, Reply, RestoreMessage, ConsumeMessage,
     RecoveryCancels, AlreadyCancelled, StaysBlocked, AllResolved, EndResults, EndReplies,
     EndQueues, RecoveryFinishes, To, Leave
<1>5. QED
  BY <1>1, <1>2, <1>3, <1>4 DEF PassStep

LEMMA SessionPlaced ==
  ASSUME [SessionNext]_session, phase' \in PlacedPhases
  PROVE  phase \in PlacedPhases \/ AppendPrompt \/ (phase = "r_prompt" /\ PromptInPlace)
<1> USE DEF PlacedPhases, RunPhases, PassPhases
<1>1. ASSUME HostStep PROVE phase \in PlacedPhases
  BY <1>1 DEF HostStep, Queue, Dequeue, Prompt, Continue, Begin, Abort, CancelRetry, Close
<1>2. ASSUME \/ RecoverStep \/ RecoveryAborted \/ Crash \/ Reopen \/ UNCHANGED session
      PROVE  phase \in PlacedPhases
  BY <1>2 DEF RecoverStep, Recover, RecoveryAborted, Leave, Crash, Reopen, session, agent
<1>3. QED
  BY <1>1, <1>2, RunLoopPlaced, PassPlaced DEF SessionNext, ProcessStep

(* ... and to the phase in which it has still to be put there.             *)
LEMMA AcceptedFrom ==
  ASSUME [SessionNext]_session, phase' = "accepted"
  PROVE  Accept \/ (phase = "accepted" /\ UNCHANGED <<run, prompt>>)
<1>1. ASSUME HostStep PROVE phase = "accepted" /\ UNCHANGED <<run, prompt>>
  BY <1>1 DEF HostStep, Queue, Dequeue, Prompt, Continue, Begin, Abort, CancelRetry, Close,
     loop
<1>2. ASSUME \/ RecoverStep \/ RecoveryAborted \/ Crash \/ Reopen \/ UNCHANGED session
      PROVE  phase = "accepted" /\ UNCHANGED <<run, prompt>>
  BY <1>2 DEF RecoverStep, Recover, RecoveryAborted, Leave, Crash, Reopen, session, agent, loop
<1>3. ASSUME AcceptStep PROVE Accept \/ (phase = "accepted" /\ UNCHANGED <<run, prompt>>)
  BY <1>3 DEF AcceptStep, AcceptRefused, StartFails, RecordAbort, AppendPrompt, ConsumePrompt,
     loop
<1>4. ASSUME DeliverStep \/ TurnStep PROVE FALSE
  BY <1>4 DEF DeliverStep, Delivering, BeginDelivery, ClaimRefused, AppendDelivery,
     EndDelivery, AllDelivered, Close, TurnStep, TakeTurn, Ask, AttemptFails, Retry, Respond,
     AnswerWithoutCalls, Onward, Pause, PlanTools, AnswerCalls
<1>5. ASSUME ToolStep PROVE phase = "accepted" /\ UNCHANGED <<run, prompt>>
  BY <1>5 DEF ToolStep, RefuseTool, PrepareTool, DispatchTool, CallTool, ToolNotCalled,
     ToolReturns, Close, loop
<1>6. ASSUME FaultStep \/ FinishStep PROVE FALSE
  BY <1>6 DEF FaultStep, NoticeAbort, Throw, ProviderFails, StepLimit, Close, FinishStep,
     BeginFinish, FinishCancels, FinishDropsClaim, FinishLeavesOpen, CompletionRefused,
     FinishCommits, ReturnRun, EndCancelled, EndCall, NextPrompt, Settle
<1>7. ASSUME PassStep PROVE FALSE
  BY <1>7 DEF PassStep, RestorePrompt, PromptRefused, EndDoubt, EndRepeat, EndReconcile, To,
     Leave, EffectRecovery, Doubt, DoubtRefused, GiveUp, Repeat, Reconcile, Resolve,
     CallRecovery, RepeatCall, RepeatLost, StillInDoubt, RepeatReturns, Reconciled,
     SettleRecovery, RestoreResult, Reply, RestoreMessage, ConsumeMessage, RecoveryCancels,
     AlreadyCancelled, StaysBlocked, AllResolved, EndResults, EndReplies, EndQueues,
     RecoveryFinishes
<1>8. QED
  BY <1>1, <1>2, <1>3, <1>4, <1>5, <1>6, <1>7 DEF SessionNext, ProcessStep, RunLoopStep

LEMMA PromptPlacedStep ==
  ASSUME TypeOK, OneOpenRun, Where, PromptPlaced, [SessionNext]_session
  PROVE  PromptPlaced'
<1>1. [Next]_journal /\ Where' /\ TypeOK'
  BY SessionIsJournalled, WhereStep, TypeStep
<1>2. ASSUME phase' \in PlacedPhases PROVE PromptInPlace'
  <2>1. open' # None
    BY <1>1, <1>2 DEF Where, PlacedPhases
  <2>2. ASSUME phase \in PlacedPhases \/ (phase = "r_prompt" /\ PromptInPlace)
        PROVE  PromptInPlace'
    <3>1. open # None /\ PromptInPlace
      BY <2>2 DEF Where, PlacedPhases, PassPhases, PromptPlaced
    <3>2. open' = open
      BY <1>1, <2>1, <3>1, OpenStays
    <3>3. QED
      BY <1>1, <3>1, <3>2, OpenRunStays
  <2>3. ASSUME AppendPrompt PROVE PromptInPlace'
    <3>1. phase = "accepted" /\ open # None /\ run = open
      BY <2>3 DEF AppendPrompt, Where, RunPhases
    <3>2. open' = open
      BY <1>1, <2>1, <3>1, OpenStays
    <3>3. op'[open].prompt = op[open].prompt
      BY <1>1, <3>1, <3>2, OpenRunStays
    <3>4. CASE prompt.from = "history"
      BY <3>1, <3>2, <3>3, <3>4 DEF PromptPlaced, PromptInPlace
    <3>5. CASE prompt.from # "history"
      <4>1. AddNode(op[open].prompt, head, open, "user", TRUE)
        BY <2>3, <3>1, <3>5 DEF AppendPrompt
      <4>2. op[open].prompt \in NodeId /\ node'[op[open].prompt].role = "user"
        BY <4>1 DEF AddNode, CanAddNode, TypeOK
      <4>3. QED
        BY <3>2, <3>3, <4>2 DEF PromptInPlace, Exists
    <3>6. QED
      BY <3>4, <3>5
  <2>4. QED
    BY <1>2, <2>2, <2>3, SessionPlaced
<1>3. ASSUME phase' = "accepted", prompt'.from = "history" PROVE op'[run'].prompt = None
  <2>1. CASE Accept
    <3>1. NewOp \in OpId /\ prompt.from = "history" /\ AcceptRun(NewOp, None) /\ run' = NewOp
      BY <1>3, <2>1, NewIdentifiers DEF Accept
    <3>2. op'[NewOp] = Accepted(None)
      BY <3>1 DEF AcceptRun, TypeOK
    <3>3. QED
      BY <3>1, <3>2 DEF Accepted, NoOperation
  <2>2. CASE phase = "accepted" /\ UNCHANGED <<run, prompt>>
    <3>1. open # None /\ run = open /\ op[run].prompt = None /\ open' # None
      BY <1>1, <1>3, <2>2 DEF Where, RunPhases, PromptPlaced
    <3>2. open' = open
      BY <1>1, <3>1, OpenStays
    <3>3. QED
      BY <1>1, <2>2, <3>1, <3>2, OpenRunStays
  <2>3. QED
    BY <1>3, <2>1, <2>2, AcceptedFrom
<1>4. QED
  BY <1>2, <1>3 DEF PromptPlaced

-----------------------------------------------------------------------------
SettlePhases == {"r_resolve", "r_results", "r_replies", "r_queues", "r_close"}

(* While recovery settles a run nothing else of the process moves: the run *)
(* belongs to no call, and there is no await.                              *)
LEMMA SettlesAlone ==
  ASSUME Where, [SessionNext]_session, phase' \in SettlePhases
  PROVE  SettleRecovery
         \/ (\E t \in EffectId : \E result : Resolve(t, result))
         \/ UNCHANGED session
<1> USE DEF SettlePhases
<1>1. ASSUME HostStep PROVE FALSE
  BY <1>1 DEF HostStep, Queue, Usable, Dequeue, Prompt, Continue, Begin, Abort, Active,
     CancelRetry, Close, loop, Where, PassPhases
<1>2. ASSUME RecoverStep \/ RecoveryAborted \/ Crash \/ Reopen PROVE FALSE
  BY <1>2 DEF RecoverStep, Recover, RecoveryAborted, Leave, Crash, Reopen
<1>3. ASSUME ProcessStep PROVE FALSE
  <2>1. ASSUME AcceptStep \/ DeliverStep PROVE FALSE
    BY <2>1 DEF AcceptStep, Accept, AcceptRefused, StartFails, RecordAbort, AppendPrompt,
       ConsumePrompt, DeliverStep, Delivering, BeginDelivery, ClaimRefused, AppendDelivery,
       EndDelivery, AllDelivered, Close
  <2>2. ASSUME TurnStep PROVE FALSE
    BY <2>2 DEF TurnStep, TakeTurn, Ask, AttemptFails, Retry, Respond, AnswerWithoutCalls,
       Onward, Pause, PlanTools, AnswerCalls
  <2>3. phase \notin SettlePhases
    BY <1>3 DEF ProcessStep, RecoveryBusy
  <2>4. ASSUME ToolStep PROVE FALSE
    BY <2>3, <2>4 DEF ToolStep, RefuseTool, PrepareTool, DispatchTool, CallTool, ToolNotCalled,
       ToolReturns, Close
  <2>5. ASSUME FaultStep \/ FinishStep PROVE FALSE
    BY <2>5 DEF FaultStep, NoticeAbort, Throw, ProviderFails, StepLimit, Close, FinishStep,
       BeginFinish, FinishCancels, FinishDropsClaim, FinishLeavesOpen, CompletionRefused,
       FinishCommits, ReturnRun, EndCancelled, EndCall, NextPrompt, Settle
  <2>6. QED
    BY <1>3, <2>1, <2>2, <2>4, <2>5 DEF ProcessStep, RunLoopStep
<1>4. ASSUME PassStep, ~SettleRecovery PROVE \E t \in EffectId : \E result : Resolve(t, result)
  <2>1. ASSUME \/ RestorePrompt \/ PromptRefused \/ EndDoubt \/ EndRepeat \/ EndReconcile
               \/ CallRecovery
        PROVE  FALSE
    BY <2>1 DEF RestorePrompt, PromptRefused, EndDoubt, EndRepeat, EndReconcile, To, Leave,
       CallRecovery, RepeatCall, RepeatLost, StillInDoubt, RepeatReturns, Reconciled
  <2>2. EffectRecovery
    BY <1>4, <2>1 DEF PassStep
  <2>3. QED
    BY <2>2 DEF EffectRecovery, Doubt, DoubtRefused, GiveUp, Repeat, Reconcile, To, Leave
<1>5. QED
  BY <1>1, <1>2, <1>3, <1>4 DEF SessionNext

LEMMA SettlingStep ==
  ASSUME TypeOK, OneOpenRun, Where, Settling, [SessionNext]_session
  PROVE  Settling'
<1>1. [Next]_journal /\ Where'
  BY SessionIsJournalled, WhereStep
<1>2. ASSUME phase' \in SettlePhases PROVE open # None /\ open' = open /\ open \in OpId
  <2>1. open' # None
    BY <1>1, <1>2 DEF Where, SettlePhases, PassPhases
  <2>2. phase \in PassPhases
    BY <1>2, SettlesAlone DEF SettlePhases, PassPhases, SettleRecovery, RestoreResult, Reply,
       RestoreMessage, ConsumeMessage, RecoveryCancels, AlreadyCancelled, StaysBlocked,
       AllResolved, EndResults, EndReplies, EndQueues, RecoveryFinishes, Resolve, session, agent
  <2>3. open # None
    BY <2>2 DEF Where
  <2>4. QED
    BY <1>1, <2>1, <2>3, OpenStays DEF TypeOK
<1>3. ASSUME phase' \in SettlePhases PROVE op'[open'].cancelled
  <2>1. op[open].cancelled => op'[open'].cancelled
    BY <1>1, <1>2, <1>3, OpenRunStays
  <2>2. CASE RecoveryCancels
    BY <1>2, <1>3, <2>2 DEF RecoveryCancels, CancelRun, TypeOK, Operation
  <2>3. CASE ~RecoveryCancels
    <3>1. op[open].cancelled
      BY <1>3, <2>3, SettlesAlone DEF Settling, SettlePhases, SettleRecovery, RestoreResult,
         Reply, RestoreMessage, ConsumeMessage, AlreadyCancelled, StaysBlocked, Leave,
         AllResolved, EndResults, EndReplies, EndQueues, RecoveryFinishes, Resolve, session,
         agent
    <3>2. QED
      BY <2>1, <3>1
  <2>4. QED
    BY <2>2, <2>3
<1>4. ASSUME phase' \in {"r_results", "r_replies", "r_queues", "r_close"}
      PROVE  InStatus(Unsettled)'  = {}
  <2>1. UNCHANGED effect /\ InStatus(Unsettled) = {}
    BY <1>4, SettlesAlone DEF Settling, SettlePhases, SettleRecovery, RestoreResult,
       Reply, RestoreMessage, ConsumeMessage, RecoveryCancels, AlreadyCancelled, StaysBlocked,
       Leave, AllResolved, EndResults, EndReplies, EndQueues, RecoveryFinishes, Resolve,
       session, agent, journal, To, AddNode, FinishEntry
  <2>2. QED
    BY <1>2, <1>4, <2>1 DEF InStatus, Mine, EffectsOf, SettlePhases
<1>5. ASSUME phase' = "r_close" PROVE ClaimedHere' = {}
  <2>1. UNCHANGED entry /\ ClaimedHere = {}
    BY <1>5, SettlesAlone DEF Settling, SettlePhases, SettleRecovery, RestoreResult,
       Reply, RestoreMessage, ConsumeMessage, RecoveryCancels, AlreadyCancelled, StaysBlocked,
       Leave, AllResolved, EndResults, EndReplies, EndQueues, RecoveryFinishes, Resolve,
       session, agent, journal, To
  <2>2. QED
    BY <1>2, <1>5, <2>1 DEF ClaimedHere, SettlePhases
<1>6. QED
  BY <1>3, <1>4, <1>5 DEF Settling, SettlePhases

-----------------------------------------------------------------------------
(* The messages of the open run form one path: until its prompt is in      *)
(* place it has none and the head is where it started; from then on every  *)
(* message of the run, and the head it started from, is reached from the   *)
(* head through messages of the run.                                       *)
Path ==
  open # None =>
    /\ ~PromptInPlace => OwnedNodes(open) = {} /\ head = op[open].source
    /\ \A n \in OwnedNodes(open) : DescendsVia(open, head, n)
    /\ DescendsVia(open, head, op[open].source)

Batching == {"answered", "tools"}

NoBirth == \A t \in EffectId : effect'[t].status # "absent" => effect[t].status # "absent"

(* A step that adds no message to the conversation and prepares no effect. *)
Waits ==
  /\ UNCHANGED <<node, head, calls, replies>> /\ NoBirth
  /\ phase' \in Batching =>
       \/ phase' = phase /\ answer' = answer /\ todo' \subseteq todo
       \/ PlanTools

(* A message without calls and without results is added to the open run.   *)
Says(n, r) ==
  /\ AddNode(n, head, open, r, TRUE) /\ (PromptInPlace \/ n = op[open].prompt)
  /\ UNCHANGED <<calls, replies>>
  /\ phase' \notin Batching

Speaks == \E n, r : r \in {"user", "assistant"} /\ Says(n, r)

LEMMA EffectsAreNotBorn ==
  ASSUME TypeOK,
         \/ UNCHANGED effect
         \/ \E o : CancelRun(o)
         \/ \E t : DispatchEffect(t) \/ MarkInDoubt(t) \/ StartRecovery(t)
         \/ \E t, x : FinishEffect(t, x) \/ ReconcileEffect(t, x) \/ ResolveEffect(t, x)
  PROVE  NoBirth
<1>1. ASSUME UNCHANGED effect \/ \E o : CancelRun(o) PROVE NoBirth
  BY <1>1 DEF CancelRun, NoBirth
<1>2. ASSUME NEW t, Live(t), NEW v, effect' = [effect EXCEPT ![t] = v] PROVE NoBirth
  BY <1>2 DEF Live, NoBirth, TypeOK
<1>3. ASSUME NEW t, DispatchEffect(t) \/ MarkInDoubt(t) \/ StartRecovery(t) PROVE NoBirth
  BY <1>2, <1>3 DEF DispatchEffect, CanDispatch, MarkInDoubt, StartRecovery, Become
<1>4. ASSUME NEW t, NEW x, FinishEffect(t, x) \/ ReconcileEffect(t, x) \/ ResolveEffect(t, x)
      PROVE  NoBirth
  BY <1>2, <1>4 DEF FinishEffect, ReconcileEffect, ResolveEffect, CanResolve, Become
<1>5. QED
  BY <1>1, <1>3, <1>4

LEMMA HostKinds == ASSUME TypeOK, HostStep PROVE Waits
<1> USE DEF Waits, Batching
<1>1. ASSUME NEW mode \in QueueModes, Queue(mode) PROVE Waits
  BY <1>1, EffectsAreNotBorn DEF Queue, AddEntry, tools
<1>2. ASSUME Dequeue PROVE Waits
  BY <1>2, EffectsAreNotBorn DEF Dequeue, FinishEntry, tools, text
<1>3. ASSUME Prompt \/ Continue PROVE Waits
  BY <1>3, EffectsAreNotBorn DEF Prompt, Continue, Begin, journal, text
<1>4. ASSUME Abort PROVE Waits
  <2>1. CancelRun(run) \/ UNCHANGED journal
    BY <1>4 DEF Abort
  <2>2. UNCHANGED <<node, head>> /\ NoBirth
    BY <2>1, EffectsAreNotBorn DEF CancelRun, journal
  <2>3. QED
    BY <1>4, <2>2 DEF Abort, tools, text
<1>5. ASSUME CancelRetry PROVE Waits
  BY <1>5, EffectsAreNotBorn DEF CancelRetry, Close, journal, text
<1>6. QED
  BY <1>1, <1>2, <1>3, <1>4, <1>5 DEF HostStep

LEMMA AcceptKinds == ASSUME TypeOK, Where, PromptPlaced, Path, AcceptStep PROVE Waits \/ Speaks
<1> USE DEF Batching
<1>1. ASSUME Accept PROVE Waits
  BY <1>1, EffectsAreNotBorn DEF Accept, AcceptRun, AcceptQueuedRun, Waits, text
<1>2. ASSUME AcceptRefused \/ StartFails \/ ConsumePrompt PROVE Waits
  BY <1>2, EffectsAreNotBorn DEF AcceptRefused, StartFails, ConsumePrompt, FinishEntry, journal,
     text, Waits
<1>3. ASSUME RecordAbort PROVE Waits
  <2>1. UNCHANGED <<node, head>> /\ NoBirth
    BY <1>3, EffectsAreNotBorn DEF RecordAbort, CancelRun
  <2>2. QED
    BY <1>3, <2>1 DEF RecordAbort, tools, text, Waits
<1>4. ASSUME AppendPrompt PROVE Waits \/ Speaks
  <2>1. CASE prompt.from = "history"
    BY <1>4, <2>1, EffectsAreNotBorn DEF AppendPrompt, journal, text, Waits
  <2>2. CASE prompt.from # "history"
    <3>1. AddNode(op[open].prompt, head, open, "user", TRUE)
      BY <1>4, <2>2 DEF AppendPrompt, Where, RunPhases
    <3>2. UNCHANGED <<calls, replies>> /\ phase' \notin Batching
      BY <1>4, <2>2 DEF AppendPrompt, text
    <3>3. Says(op[open].prompt, "user")
      BY <3>1, <3>2 DEF Says
    <3>4. QED
      BY <3>3 DEF Speaks
  <2>3. QED
    BY <2>1, <2>2
<1>5. QED
  BY <1>1, <1>2, <1>3, <1>4 DEF AcceptStep

LEMMA DeliverKinds == ASSUME TypeOK, Where, PromptPlaced, DeliverStep PROVE Waits \/ Speaks
<1> USE DEF Batching
<1>1. ASSUME BeginDelivery \/ EndDelivery PROVE Waits
  BY <1>1, EffectsAreNotBorn DEF BeginDelivery, EndDelivery, Delivering, ClaimEntry, FinishEntry,
     tools, text, Waits
<1>2. ASSUME ClaimRefused \/ AllDelivered PROVE Waits
  BY <1>2, EffectsAreNotBorn DEF ClaimRefused, AllDelivered, Close, journal, text, Waits
<1>3. ASSUME AppendDelivery PROVE Speaks
  <2>1. phase \in {"steering", "deliver"}
    BY <1>3 DEF AppendDelivery, Delivering
  <2>2. run = open /\ PromptInPlace
    BY <2>1 DEF Where, PromptPlaced, PlacedPhases, RunPhases
  <2>3. Says(entry[Delivered].target, "user")
    BY <1>3, <2>1, <2>2 DEF AppendDelivery, Says, text
  <2>4. QED
    BY <2>3 DEF Speaks
<1>4. QED
  BY <1>1, <1>2, <1>3 DEF DeliverStep

LEMMA TurnKinds ==
  ASSUME TypeOK, Where, PromptPlaced, TurnStep
  PROVE  Waits \/ Speaks \/ AnswerCalls \/ \E called \in SUBSET CallId : Respond(called)
<1> USE DEF Batching
<1>1. ASSUME TakeTurn \/ AnswerWithoutCalls \/ Pause \/ PlanTools PROVE Waits
  BY <1>1, EffectsAreNotBorn DEF TakeTurn, AnswerWithoutCalls, Onward, Pause, PlanTools,
     journal, text, Waits
<1>2. ASSUME Ask \/ Retry PROVE Waits
  BY <1>2, EffectsAreNotBorn DEF Ask, StartStep, Retry, StartAttempt, text, Waits
<1>3. ASSUME AttemptFails PROVE Speaks
  <2>1. phase = "asking"
    BY <1>3 DEF AttemptFails
  <2>2. run = open /\ PromptInPlace
    BY <2>1 DEF Where, PromptPlaced, PlacedPhases, RunPhases
  <2>3. Says(NewNode, "assistant")
    BY <1>3, <2>2 DEF AttemptFails, Says, text
  <2>4. QED
    BY <2>3 DEF Speaks
<1>4. QED
  BY <1>1, <1>2, <1>3 DEF TurnStep

LEMMA ToolKinds ==
  ASSUME TypeOK, ToolStep
  PROVE  Waits \/ \E c \in CallId, policy \in EffectPolicies : PrepareTool(c, policy)
<1> USE DEF Batching
<1>1. ASSUME NEW c \in CallId, RefuseTool(c) PROVE Waits
  BY <1>1, EffectsAreNotBorn DEF RefuseTool, journal, text, Waits
<1>2. ASSUME NEW t \in EffectId, DispatchTool(t) \/ CallTool(t) \/ ToolNotCalled(t) PROVE Waits
  <2>1. UNCHANGED <<node, head>> /\ NoBirth
    BY <1>2, EffectsAreNotBorn DEF DispatchTool, DispatchEffect, CallTool, ToolNotCalled,
       FinishEffect, Become, journal
  <2>2. QED
    BY <1>2, <2>1 DEF DispatchTool, CallTool, ToolNotCalled, tools, text, Waits
<1>3. ASSUME NEW t \in EffectId, NEW result, ToolReturns(t, result) PROVE Waits
  <2>1. FinishEffect(t, result) \/ UNCHANGED journal
    BY <1>3 DEF ToolReturns
  <2>2. UNCHANGED <<node, head>> /\ NoBirth
    BY <2>1, EffectsAreNotBorn DEF FinishEffect, Become, journal
  <2>3. QED
    BY <1>3, <2>2 DEF ToolReturns, Close, text, Waits
<1>4. QED
  BY <1>1, <1>2, <1>3 DEF ToolStep

LEMMA EndKinds == ASSUME TypeOK, FaultStep \/ FinishStep PROVE Waits
<1> USE DEF Batching
<1>1. ASSUME FaultStep PROVE Waits
  BY <1>1, EffectsAreNotBorn DEF FaultStep, NoticeAbort, Throw, ProviderFails, StepLimit, Close,
     journal, text, Waits
<1>2. ASSUME FinishCancels \/ FinishDropsClaim \/ FinishCommits PROVE Waits
  <2>1. UNCHANGED <<node, head>> /\ NoBirth
    BY <1>2, EffectsAreNotBorn DEF FinishCancels, FinishDropsClaim, FinishCommits, CancelRun,
       FinishEntry, FinishRun
  <2>2. QED
    BY <1>2, <2>1 DEF FinishCancels, FinishDropsClaim, FinishCommits, tools, text, Waits
<1>3. ASSUME \/ BeginFinish \/ FinishLeavesOpen \/ CompletionRefused \/ ReturnRun
             \/ EndCancelled \/ EndCall \/ NextPrompt \/ Settle
      PROVE  Waits
  BY <1>3, EffectsAreNotBorn DEF BeginFinish, FinishLeavesOpen, CompletionRefused, ReturnRun,
     EndCancelled, EndCall, NextPrompt, Settle, journal, text, tools, Waits
<1>4. QED
  BY <1>1, <1>2, <1>3 DEF FinishStep

LEMMA PassKinds ==
  ASSUME TypeOK, Where, PromptPlaced, Path, PassStep
  PROVE  Waits \/ Speaks \/ \E n \in NodeId : RestoreResult(n) \/ Reply(n)
<1> USE DEF Batching
<1>1. ASSUME RestorePrompt PROVE Speaks
  <2>1. open # None /\ ~PromptInPlace
    BY <1>1 DEF RestorePrompt, Where, PassPhases
  <2>2. head = op[open].source
    BY <2>1 DEF Path
  <2>3. Says(op[open].prompt, "user")
    BY <1>1, <2>2 DEF RestorePrompt, To, still, text, Says
  <2>4. QED
    BY <2>3 DEF Speaks
<1>2. ASSUME PromptRefused \/ EndDoubt \/ EndRepeat \/ EndReconcile PROVE Waits
  BY <1>2, EffectsAreNotBorn DEF PromptRefused, EndDoubt, EndRepeat, EndReconcile, To, Leave,
     still, text, journal, Waits
<1>3. ASSUME EffectRecovery PROVE Waits
  <2>1. PICK t \in EffectId :
          \/ Doubt(t) \/ DoubtRefused(t) \/ GiveUp(t) \/ Repeat(t) \/ Reconcile(t)
          \/ \E result : Resolve(t, result)
    BY <1>3 DEF EffectRecovery
  <2>2. UNCHANGED <<node, head>> /\ NoBirth
    BY <2>1, EffectsAreNotBorn DEF Doubt, DoubtRefused, GiveUp, Repeat, Reconcile, Resolve,
       MarkInDoubt, DispatchEffect, StartRecovery, ResolveEffect, Become, journal
  <2>3. UNCHANGED <<calls, replies>> /\ (phase' \in Batching => phase' = phase)
    BY <2>1 DEF Doubt, DoubtRefused, GiveUp, Repeat, Reconcile, Resolve, To, Leave, still, text
  <2>4. UNCHANGED <<answer, todo>>
    BY <2>1 DEF Doubt, DoubtRefused, GiveUp, Repeat, Reconcile, Resolve, To, still, tools
  <2>5. QED
    BY <2>2, <2>3, <2>4 DEF Waits
<1>4. ASSUME CallRecovery PROVE Waits
  <2>1. UNCHANGED <<node, head>> /\ NoBirth
    BY <1>4, EffectsAreNotBorn DEF CallRecovery, RepeatCall, RepeatLost, StillInDoubt,
       RepeatReturns, Reconciled, MarkInDoubt, FinishEffect, ReconcileEffect, Become, journal
  <2>2. UNCHANGED <<calls, replies>> /\ phase' \notin Batching
    BY <1>4 DEF CallRecovery, RepeatCall, RepeatLost, StillInDoubt, RepeatReturns, Reconciled,
       still, text
  <2>3. QED
    BY <2>1, <2>2 DEF Waits
<1>5. ASSUME NEW e \in EntryId, RestoreMessage(e) PROVE Speaks
  <2>1. phase = "r_queues"
    BY <1>5 DEF RestoreMessage
  <2>2. PromptInPlace
    BY <2>1 DEF PromptPlaced, PlacedPhases, RunPhases, PassPhases
  <2>3. Says(entry[e].target, "user")
    BY <1>5, <2>2 DEF RestoreMessage, To, still, text, Says
  <2>4. QED
    BY <2>3 DEF Speaks
<1>6. ASSUME \/ \E e \in EntryId : ConsumeMessage(e)
             \/ RecoveryCancels \/ AlreadyCancelled \/ StaysBlocked \/ AllResolved
             \/ EndResults \/ EndReplies \/ EndQueues \/ RecoveryFinishes
      PROVE  Waits
  <2>1. UNCHANGED <<node, head>> /\ NoBirth
    BY <1>6, EffectsAreNotBorn DEF ConsumeMessage, RecoveryCancels, AlreadyCancelled,
       StaysBlocked, AllResolved, EndResults, EndReplies, EndQueues, RecoveryFinishes,
       FinishEntry, CancelRun, FinishRun, journal
  <2>2. UNCHANGED <<calls, replies>> /\ phase' \notin Batching
    BY <1>6 DEF ConsumeMessage, RecoveryCancels, AlreadyCancelled, StaysBlocked, AllResolved,
       EndResults, EndReplies, EndQueues, RecoveryFinishes, To, Leave, still, text
  <2>3. QED
    BY <2>1, <2>2 DEF Waits
<1>7. QED
  BY <1>1, <1>2, <1>3, <1>4, <1>5, <1>6 DEF PassStep, SettleRecovery

(* What a step does to the conversation.                                   *)
LEMMA StepKinds ==
  ASSUME TypeOK, Where, PromptPlaced, Path, [SessionNext]_session
  PROVE  \/ Waits \/ Speaks \/ AnswerCalls
         \/ \E called \in SUBSET CallId : Respond(called)
         \/ \E c \in CallId, policy \in EffectPolicies : PrepareTool(c, policy)
         \/ \E n \in NodeId : RestoreResult(n) \/ Reply(n)
<1>1. ASSUME \/ RecoverStep \/ RecoveryAborted \/ Crash \/ Reopen \/ UNCHANGED session
      PROVE  Waits
  <2>1. UNCHANGED <<node, head>> /\ NoBirth
    BY <1>1, EffectsAreNotBorn DEF RecoverStep, Recover, RecoveryAborted, Crash, Reopen,
       session, agent, journal
  <2>2. UNCHANGED <<calls, replies>>
    BY <1>1 DEF RecoverStep, Recover, RecoveryAborted, Crash, Reopen, session, agent, still, text
  <2>3. phase' \in Batching => phase' = phase /\ UNCHANGED <<answer, todo>>
    BY <1>1 DEF RecoverStep, Recover, RecoveryAborted, Crash, Reopen, Leave, session, agent,
       tools, Batching
  <2>4. QED
    BY <2>1, <2>2, <2>3 DEF Waits
<1>2. QED
  BY <1>1, HostKinds, AcceptKinds, DeliverKinds, TurnKinds, ToolKinds, EndKinds, PassKinds
     DEF SessionNext, ProcessStep, RunLoopStep

PathOf(o) ==
  /\ ~(op[o].prompt # None => Exists(op[o].prompt)) =>
       OwnedNodes(o) = {} /\ head = op[o].source
  /\ \A n \in OwnedNodes(o) : DescendsVia(o, head, n)
  /\ DescendsVia(o, head, op[o].source)

(* A run begins where the head is, with no message of its own.             *)
LEMMA PathBegins ==
  ASSUME TypeOK, OneOpenRun, NodesRooted, Next, open = None, open' # None
  PROVE  Path'
<1>1. PICK o \in OpId : open' = o /\ op[o].status = "absent"
  BY NodeStepFrame, QueueStepFrame, EffectStepFrame
     DEF Next, RunStep, AcceptRun, AcceptQueuedRun, SelectStep, StartStep, StartAttempt,
         CancelRun, FinishRun
<1>2. TypeOK' /\ OneOpenRun'
  BY TypeStep, OneOpenRunStep
<1>3. op'[o].status # "absent"
  BY <1>1, <1>2 DEF OneOpenRun
<1>4. op'[o].source = head /\ UNCHANGED <<node, head>>
  BY <1>1, <1>3, RunBirth
<1>5. OwnedNodes(o) = {}
  <2>1. o # None
    BY IdAssumption
  <2>2. QED
    BY <1>1, <2>1 DEF NodesRooted, OwnedNodes
<1>6. OwnedNodes(o)' = {}
  BY <1>4, <1>5 DEF OwnedNodes, Exists
<1>7. DescendsVia(o, head, head)'
  BY DEF DescendsVia
<1>8. head' = op'[o].source
  BY <1>4
<1>9. PathOf(o)'
  BY <1>6, <1>7, <1>8 DEF PathOf
<1>10. QED
  BY <1>1, <1>9 DEF Path, PathOf, PromptInPlace

LEMMA PathRests ==
  ASSUME TypeOK, OneOpenRun, NodesRooted, Path, [Next]_journal, UNCHANGED <<node, head>>
  PROVE  Path'
<1>1. CASE open' = None
  BY <1>1 DEF Path
<1>2. CASE open' # None /\ open = None
  BY <1>2, PathBegins DEF journal
<1>3. CASE open' # None /\ open # None
  <2>1. open' = open
    BY <1>3, OpenStays
  <2>2. op'[open].prompt = op[open].prompt /\ op'[open].source = op[open].source
    BY <1>3, <2>1, OpenRunStays
  <2>3. PICK o : o = open
    OBVIOUS
  <2>4. PathOf(o)
    BY <1>3, <2>3 DEF Path, PathOf, PromptInPlace
  <2>5. op'[o].prompt = op[o].prompt /\ op'[o].source = op[o].source
    BY <2>2, <2>3
  <2>6. PathOf(o)'
    BY <2>4, <2>5 DEF PathOf, OwnedNodes, Exists, DescendsVia
  <2>7. QED
    BY <2>1, <2>3, <2>6 DEF Path, PathOf, PromptInPlace
<1>4. QED
  BY <1>1, <1>2, <1>3

LEMMA PathGrows ==
  ASSUME TypeOK, OneOpenRun, NodesRooted, Path, Next, open # None,
         NEW n, NEW r \in {"user", "assistant", "tool"}, AddNode(n, head, open, r, TRUE),
         PromptInPlace \/ n = op[open].prompt
  PROVE  Path'
<1> PICK o : o = open
  OBVIOUS
<1>1. n \in NodeId /\ open' = open /\ op' = op /\ head' = n
  BY DEF AddNode, CanAddNode
<1>2. node'[n] = [parent |-> head, op |-> o, role |-> r]
  BY <1>1 DEF AddNode, TypeOK
<1>3. (n \in OwnedNodes(o))' /\ node'[n].parent = head
  BY <1>1, <1>2 DEF OwnedNodes, Exists
<1>4. PathOf(o)
  BY DEF Path, PathOf, PromptInPlace
<1>5. ASSUME NEW a, DescendsVia(o, head, a) PROVE DescendsVia(o, n, a)'
  BY <1>3, <1>5, DescentGrows, DescentExtends
<1>6. PromptInPlace'
  <2>1. Exists(n)'
    BY <1>3 DEF OwnedNodes
  <2>2. ASSUME NEW m, Exists(m) PROVE m \in NodeId /\ node'[m].role # "absent"
    BY <2>2, NodesAreFinal DEF Exists
  <2>3. QED
    BY <1>1, <2>1, <2>2 DEF PromptInPlace, Exists
<1>7. ASSUME NEW m, (m \in OwnedNodes(o))' PROVE DescendsVia(o, n, m)'
  <2>1. CASE m = n
    BY <2>1 DEF DescendsVia
  <2>2. CASE m # n
    <3>1. m \in OwnedNodes(o)
      BY <1>7, <2>2 DEF AddNode, OwnedNodes, Exists, TypeOK
    <3>2. DescendsVia(o, head, m)
      BY <1>4, <3>1 DEF PathOf
    <3>3. QED
      BY <1>5, <3>2
  <2>3. QED
    BY <2>1, <2>2
<1>8. DescendsVia(o, n, op[o].source)'
  <2>1. DescendsVia(o, head, op[o].source)
    BY <1>4 DEF PathOf
  <2>2. PICK a : a = op[o].source
    OBVIOUS
  <2>3. DescendsVia(o, n, a)' /\ op'[o].source = a
    BY <1>1, <1>5, <2>1, <2>2
  <2>4. QED
    BY <2>3
<1>9. PathOf(o)'
  <2>1. ~~(op[o].prompt # None => Exists(op[o].prompt))'
    BY <1>1, <1>6 DEF PromptInPlace
  <2>2. \A m \in OwnedNodes(o)' : DescendsVia(o, head, m)'
    BY <1>1, <1>7
  <2>3. DescendsVia(o, head, op[o].source)'
    BY <1>1, <1>8
  <2>4. QED
    BY <2>1, <2>2, <2>3 DEF PathOf
<1>10. QED
  BY <1>1, <1>9 DEF Path, PathOf, PromptInPlace

LEMMA PathStep ==
  ASSUME TypeOK, OneOpenRun, NodesRooted, Where, PromptPlaced, Path, [SessionNext]_session
  PROVE  Path'
<1>1. [Next]_journal
  BY SessionIsJournalled
<1>2. CASE Waits
  BY <1>1, <1>2, PathRests DEF Waits
<1>3. ASSUME NEW c, NEW policy, PrepareTool(c, policy) PROVE Path'
  BY <1>1, <1>3, PathRests DEF PrepareTool, PrepareEffect
<1>4. ASSUME NEW n, NEW r \in {"user", "assistant", "tool"}, AddNode(n, head, open, r, TRUE),
             PromptInPlace \/ n = op[open].prompt
      PROVE  Path'
  <2>1. Next
    BY <1>4, AddNodeIsJournalled
  <2>2. QED
    BY <1>4, <2>1, PathGrows DEF AddNode, Path
<1>5. CASE Speaks
  BY <1>4, <1>5 DEF Speaks, Says
<1>6. ASSUME AnswerCalls \/ \E called \in SUBSET CallId : Respond(called) PROVE Path'
  <2>1. phase \in {"asking", "tools"}
    BY <1>6 DEF AnswerCalls, Respond
  <2>2. run = open /\ PromptInPlace
    BY <2>1 DEF Where, PromptPlaced, PlacedPhases, RunPhases
  <2>3. \/ AddNode(answer, head, open, "tool", TRUE)
        \/ AddNode(NewNode, head, open, "assistant", TRUE)
    BY <1>6, <2>2 DEF AnswerCalls, Respond
  <2>4. QED
    BY <1>4, <2>2, <2>3
<1>7. ASSUME NEW n \in NodeId, RestoreResult(n) \/ Reply(n) PROVE Path'
  <2>1. phase \in {"r_results", "r_replies"}
    BY <1>7 DEF RestoreResult, Reply
  <2>2. PromptInPlace
    BY <2>1 DEF PromptPlaced, PlacedPhases, PassPhases
  <2>3. \/ AddNode(n, head, open, "tool", TRUE)
        \/ AddNode(NewNode, head, open, "tool", TRUE)
    BY <1>7 DEF RestoreResult, Reply
  <2>4. QED
    BY <1>4, <2>2, <2>3
<1>8. QED
  BY <1>2, <1>3, <1>5, <1>6, <1>7, StepKinds

-----------------------------------------------------------------------------
(* What messages say of tool calls: only a message that exists has calls   *)
(* or results, and results are said by tool messages.                      *)
Contents ==
  /\ calls \in [NodeId -> SUBSET CallId] /\ replies \in [NodeId -> SUBSET CallId]
  /\ \A n \in NodeId : ~Exists(n) => calls[n] = {} /\ replies[n] = {}
  /\ \A n \in NodeId : replies[n] # {} => node[n].role = "tool"

(* In one run no call is made twice, none is answered twice, and nothing   *)
(* but a call is answered.                                                 *)
AnsweredOnce ==
  /\ \A m, n \in NodeId : m # n /\ node[m].op = node[n].op =>
       calls[m] \cap calls[n] = {} /\ replies[m] \cap replies[n] = {}
  /\ \A n \in NodeId : \A c \in replies[n] :
       \E m \in NodeId : node[m].op = node[n].op /\ c \in calls[m]

(* The call of an effect is made by its assistant message, and answered by *)
(* its result message alone, if that exists.                               *)
EffectsAnswered ==
  \A t \in EffectId : InBeing(t) =>
    /\ effect[t].call \in calls[effect[t].assistant]
    /\ \A m \in OwnedNodes(effect[t].op) :
         effect[t].call \in replies[m] => m = effect[t].result
    /\ Exists(effect[t].result) => effect[t].call \in replies[effect[t].result]

Answers == Contents /\ AnsweredOnce /\ EffectsAnswered

(* The calls that are being looked at are those of the last message, which *)
(* nothing answers yet; what they have prepared answers them in one node.  *)
Batch ==
  phase \in Batching =>
    /\ head \in OwnedNodes(open)
    /\ todo \subseteq calls[head]
    /\ \A m \in OwnedNodes(open) : replies[m] \cap calls[head] = {}
    /\ phase = "answered" => \A t \in EffectId : InBeing(t) => effect[t].assistant # head
    /\ phase = "tools" =>
         /\ answer \in NodeId
         /\ \A t \in EffectId : InBeing(t) =>
              (effect[t].assistant = head <=> effect[t].result = answer)

LEMMA AnswersRest ==
  ASSUME TypeOK, Answers, [Next]_journal, UNCHANGED <<node, calls, replies>>, NoBirth
  PROVE  Answers'
<1>1. Contents' /\ AnsweredOnce'
  BY DEF Answers, Contents, AnsweredOnce, Exists
<1>2. EffectsAnswered'
  <2> SUFFICES ASSUME NEW t \in EffectId, effect'[t].status # "absent"
               PROVE  /\ effect'[t].call \in calls[effect'[t].assistant]
                      /\ \A m \in OwnedNodes(effect'[t].op) :
                           effect'[t].call \in replies[m] => m = effect'[t].result
                      /\ Exists(effect'[t].result) =>
                           effect'[t].call \in replies[effect'[t].result]
    BY DEF EffectsAnswered, InBeing, OwnedNodes, Exists
  <2>1. effect[t].status # "absent"
    BY DEF NoBirth
  <2>2. /\ effect'[t].op = effect[t].op /\ effect'[t].call = effect[t].call
        /\ effect'[t].result = effect[t].result /\ effect'[t].assistant = effect[t].assistant
    BY <2>1, EffectIdentity DEF journal
  <2>3. QED
    BY <2>1, <2>2 DEF Answers, EffectsAnswered, InBeing
<1>3. QED
  BY <1>1, <1>2 DEF Answers

(* A message is added to the run with calls C, which nobody made, and with *)
(* results R, of calls that were made and not answered: those of exactly   *)
(* the effects that the message is reserved for, and perhaps some that     *)
(* prepared no effect.                                                     *)
Adds(n, r, C, R) ==
  /\ r \in {"user", "assistant", "tool"} /\ AddNode(n, head, open, r, TRUE)
  /\ C \in SUBSET CallId /\ R \in SUBSET CallId
  /\ calls' = [calls EXCEPT ![n] = C] /\ replies' = [replies EXCEPT ![n] = R]
  /\ R # {} => r = "tool"
  /\ \A m \in OwnedNodes(open) : calls[m] \cap C = {} /\ replies[m] \cap R = {}
  /\ \A c \in R : \E m \in OwnedNodes(open) : c \in calls[m]
  /\ \A t \in EffectId :
       InBeing(t) /\ effect[t].op = open /\ effect[t].call \in R => effect[t].result = n
  /\ \A t \in EffectId : InBeing(t) /\ effect[t].result = n => effect[t].call \in R

LEMMA AnswersGrow ==
  ASSUME TypeOK, Answers, EffectsRooted, NEW n, NEW r, NEW C, NEW R, Adds(n, r, C, R)
  PROVE  Answers'
<1> USE DEF Adds
<1>1. n \in NodeId /\ ~Exists(n) /\ effect' = effect
  BY DEF AddNode, CanAddNode
<1>2. \A m \in NodeId : m # n =>
        node'[m] = node[m] /\ calls'[m] = calls[m] /\ replies'[m] = replies[m]
  BY <1>1 DEF AddNode, TypeOK, Answers, Contents
<1>3. /\ node'[n].op = open /\ node'[n].role = r /\ r # "absent"
      /\ calls'[n] = C /\ replies'[n] = R
  BY <1>1 DEF AddNode, TypeOK, Answers, Contents
<1>4. \A m \in NodeId : Exists(m) => m # n /\ Exists(m)'
  BY <1>1, <1>2 DEF Exists
<1>5. \A m \in NodeId : m # n /\ Exists(m)' => Exists(m)
  BY <1>2 DEF Exists
<1>6. \A m \in NodeId : m # n => (Exists(m) \/ (calls[m] = {} /\ replies[m] = {}))
  BY DEF Answers, Contents
<1>7. \A m \in NodeId : Exists(m) /\ node[m].op = open => m \in OwnedNodes(open)
  BY DEF OwnedNodes
<1>8. Contents'
  <2>1. calls' \in [NodeId -> SUBSET CallId] /\ replies' \in [NodeId -> SUBSET CallId]
    BY DEF Answers, Contents
  <2>2. \A m \in NodeId : ~Exists(m)' => calls'[m] = {} /\ replies'[m] = {}
    BY <1>1, <1>2, <1>3, <1>4, <1>6 DEF Exists
  <2>3. \A m \in NodeId : replies'[m] # {} => node'[m].role = "tool"
    BY <1>2, <1>3 DEF Answers, Contents
  <2>4. QED
    BY <2>1, <2>2, <2>3 DEF Contents
<1>9. AnsweredOnce'
  <2>1. ASSUME NEW m \in NodeId, m # n, node'[m].op = node'[n].op
        PROVE  calls'[m] \cap C = {} /\ replies'[m] \cap R = {}
    BY <1>2, <1>3, <1>6, <1>7, <2>1
  <2>2. ASSUME NEW m \in NodeId, NEW k \in NodeId, m # k, node'[m].op = node'[k].op
        PROVE  calls'[m] \cap calls'[k] = {} /\ replies'[m] \cap replies'[k] = {}
    <3>1. CASE m = n
      BY <1>3, <2>1, <2>2, <3>1
    <3>2. CASE k = n
      BY <1>3, <2>1, <2>2, <3>2
    <3>3. CASE m # n /\ k # n
      BY <1>2, <2>2, <3>3 DEF Answers, AnsweredOnce
    <3>4. QED
      BY <3>1, <3>2, <3>3
  <2>3. ASSUME NEW m \in NodeId, NEW c \in replies'[m]
        PROVE  \E k \in NodeId : node'[k].op = node'[m].op /\ c \in calls'[k]
    <3>1. CASE m = n
      <4>1. PICK k \in OwnedNodes(open) : c \in calls[k]
        BY <1>3, <2>3, <3>1
      <4>2. k \in NodeId /\ k # n /\ node[k].op = open
        BY <1>4, <4>1 DEF OwnedNodes
      <4>3. QED
        BY <1>2, <1>3, <3>1, <4>1, <4>2
    <3>2. CASE m # n
      <4>1. PICK k \in NodeId : node[k].op = node[m].op /\ c \in calls[k]
        BY <1>2, <2>3, <3>2 DEF Answers, AnsweredOnce
      <4>2. k # n
        BY <1>1, <4>1 DEF Answers, Contents
      <4>3. QED
        BY <1>2, <3>2, <4>1, <4>2
    <3>3. QED
      BY <3>1, <3>2
  <2>4. QED
    BY <2>2, <2>3 DEF AnsweredOnce
<1>10. EffectsAnswered'
  <2> SUFFICES ASSUME NEW t \in EffectId, effect[t].status # "absent"
               PROVE  /\ effect[t].call \in calls'[effect[t].assistant]
                      /\ \A m \in NodeId :
                           (/\ Exists(m)' /\ node'[m].op = effect[t].op
                            /\ effect[t].call \in replies'[m]) => m = effect[t].result
                      /\ \A m \in NodeId :
                           m = effect[t].result /\ Exists(m)' =>
                             effect[t].call \in replies'[m]
    BY <1>1 DEF EffectsAnswered, InBeing, OwnedNodes, Exists
  <2>1. /\ effect[t].call \in calls[effect[t].assistant]
        /\ \A m \in OwnedNodes(effect[t].op) :
             effect[t].call \in replies[m] => m = effect[t].result
        /\ Exists(effect[t].result) => effect[t].call \in replies[effect[t].result]
    BY DEF Answers, EffectsAnswered, InBeing
  <2>2. effect[t].call \in calls'[effect[t].assistant]
    <3>1. effect[t].assistant \in NodeId /\ effect[t].assistant # n
      BY <1>4 DEF EffectsRooted, InBeing, OwnedNodes
    <3>2. QED
      BY <1>2, <2>1, <3>1
  <2>3. ASSUME NEW m \in NodeId, Exists(m)', node'[m].op = effect[t].op,
               effect[t].call \in replies'[m]
        PROVE  m = effect[t].result
    <3>1. CASE m = n
      BY <1>3, <2>3, <3>1 DEF InBeing
    <3>2. CASE m # n
      BY <1>2, <1>5, <2>1, <2>3, <3>2 DEF OwnedNodes
    <3>3. QED
      BY <3>1, <3>2
  <2>4. ASSUME NEW m \in NodeId, m = effect[t].result, Exists(m)'
        PROVE  effect[t].call \in replies'[m]
    <3>1. CASE m = n
      BY <1>3, <2>4, <3>1 DEF InBeing
    <3>2. CASE m # n
      BY <1>2, <1>5, <2>1, <2>4, <3>2
    <3>3. QED
      BY <3>1, <3>2
  <2>5. QED
    BY <2>2, <2>3, <2>4
<1>11. QED
  BY <1>8, <1>9, <1>10 DEF Answers

(* A tool result that is in the conversation belongs to the run that       *)
(* called the tool.                                                        *)
LEMMA ResultIsOwned ==
  ASSUME EffectsRooted, ResultsFollowCalls, NEW t \in EffectId, InBeing(t),
         Exists(effect[t].result)
  PROVE  effect[t].result \in OwnedNodes(effect[t].op) /\ node[effect[t].result].role = "tool"
<1>1. /\ node[effect[t].result].role = "tool"
      /\ DescendsVia(effect[t].op, effect[t].result, effect[t].assistant)
  BY DEF ResultsFollowCalls, InBeing
<1>2. effect[t].result # effect[t].assistant
  BY <1>1 DEF EffectsRooted
<1>3. QED
  BY <1>1, <1>2 DEF DescendsVia

(* The results that a missing message is to say: the calls of the batch it *)
(* is reserved for, and those of them that prepared an effect in any case. *)
LEMMA MissingSays ==
  ASSUME Answers, EffectsRooted, SharedResults, CallsDistinct, NEW n \in MissingResults
  PROVE  \E a \in OwnedNodes(open) :
           /\ Unanswered(n) = calls[a] \ (Answered \cup ElsewhereAnswered(n))
           /\ ResultOf(n) # {}
           /\ \A t \in ResultOf(n) : /\ effect[t].op = open /\ effect[t].assistant = a
                                     /\ effect[t].call \in Unanswered(n)
<1> DEFINE asker == CHOOSE t \in ResultOf(n) : TRUE
           a == effect[asker].assistant
<1>1. PICK u \in EffectId : InBeing(u) /\ effect[u].op = open /\ effect[u].result = n
  BY DEF MissingResults, Mine, EffectsOf, InBeing
<1>2. u \in ResultOf(n)
  BY <1>1 DEF ResultOf, InBeing
<1>3. asker \in ResultOf(n)
  BY <1>2
<1>4. \A t \in ResultOf(n) : effect[t].op = open /\ effect[t].assistant = a
  BY <1>1, <1>3 DEF ResultOf, SharedResults, InBeing
<1>5. a \in OwnedNodes(open)
  BY <1>3, <1>4 DEF EffectsRooted, ResultOf, InBeing
<1>6. Unanswered(n) = calls[a] \ (Answered \cup ElsewhereAnswered(n))
  BY DEF Unanswered
<1>7. ASSUME NEW t \in ResultOf(n) PROVE effect[t].call \in Unanswered(n)
  <2>1. /\ t \in EffectId /\ InBeing(t) /\ effect[t].result = n /\ effect[t].op = open
        /\ effect[t].assistant = a
    BY <1>4, <1>7 DEF ResultOf, InBeing
  <2>2. effect[t].call \in calls[a]
    BY <2>1 DEF Answers, EffectsAnswered
  <2>3. effect[t].call \notin Answered
    <3>1. ASSUME NEW m \in OwnedNodes(open), effect[t].call \in replies[m] PROVE FALSE
      <4>1. m = n
        BY <2>1, <3>1 DEF Answers, EffectsAnswered
      <4>2. QED
        BY <3>1, <4>1 DEF MissingResults, OwnedNodes
    <3>2. QED
      BY <3>1 DEF Answered
  <2>4. effect[t].call \notin ElsewhereAnswered(n)
    <3>1. ASSUME NEW v \in EffectId, InBeing(v), effect[v].op = open, effect[v].result # n,
                 effect[v].call = effect[t].call
          PROVE  FALSE
      BY <2>1, <3>1 DEF CallsDistinct
    <3>2. QED
      BY <3>1 DEF ElsewhereAnswered, Mine, EffectsOf, InBeing
  <2>5. QED
    BY <1>6, <2>2, <2>3, <2>4
<1>8. QED
  BY <1>2, <1>4, <1>5, <1>6, <1>7

(* No message reserved for a result is missing once the results are in     *)
(* place, so what the run then says of its own accord answers other calls. *)
ResultsPlaced == phase \in {"r_replies", "r_queues", "r_close"} => MissingResults = {}

LEMMA ResultsPlacedStep ==
  ASSUME TypeOK, ResultsAreNodes, Where, Settling, EffectsRooted, SharedResults, CallsDistinct,
         Answers, ResultsPlaced, [SessionNext]_session
  PROVE  ResultsPlaced'
<1> SUFFICES ASSUME phase' \in {"r_replies", "r_queues", "r_close"}
             PROVE  MissingResults' = {}
  BY DEF ResultsPlaced
<1>1. phase' \in SettlePhases
  BY DEF SettlePhases
<1>2. UNCHANGED effect /\ MissingResults = {}
  <2>1. CASE EndResults
    BY <2>1, MissingSays DEF EndResults, journal
  <2>2. CASE ~EndResults
    BY <1>1, <2>2, SettlesAlone DEF ResultsPlaced, SettleRecovery, RestoreResult, Reply,
       RestoreMessage, ConsumeMessage, RecoveryCancels, AlreadyCancelled, StaysBlocked, Leave,
       AllResolved, EndReplies, EndQueues, RecoveryFinishes, Resolve, session, agent, journal,
       To, AddNode, FinishEntry
  <2>3. QED
    BY <2>1, <2>2
<1>3. [Next]_journal /\ Where'
  BY SessionIsJournalled, WhereStep
<1>4. phase \in PassPhases
  BY <1>1, SettlesAlone DEF SettlePhases, PassPhases, SettleRecovery, RestoreResult, Reply,
     RestoreMessage, ConsumeMessage, RecoveryCancels, AlreadyCancelled, StaysBlocked,
     AllResolved, EndResults, EndReplies, EndQueues, RecoveryFinishes, Resolve, session, agent
<1>5. open' = open
  BY <1>1, <1>3, <1>4, OpenStays DEF Where, SettlePhases, PassPhases
<1>6. \A n \in NodeId : Exists(n) => Exists(n)'
  <2>1. ASSUME NEW n \in NodeId, Exists(n) PROVE Exists(n)'
    BY <1>3, <2>1, NodesAreFinal DEF Exists, journal
  <2>2. QED
    BY <2>1
<1>7. \A t \in Mine : Exists(effect[t].result)
  BY <1>2 DEF MissingResults
<1>8. \A t \in Mine : Exists(effect[t].result)'
  <2>1. ASSUME NEW t \in Mine PROVE Exists(effect[t].result)'
    <3>1. effect[t].result \in NodeId /\ Exists(effect[t].result)
      BY <1>7 DEF Exists
    <3>2. PICK n \in NodeId : n = effect[t].result
      BY <3>1
    <3>3. Exists(n)'
      BY <1>6, <3>1, <3>2
    <3>4. QED
      BY <1>2, <3>2, <3>3
  <2>2. QED
    BY <2>1
<1>9. QED
  BY <1>2, <1>5, <1>8 DEF MissingResults, Mine, EffectsOf, Exists

LEMMA AnswersStep ==
  ASSUME TypeOK, Where, PromptPlaced, Path, Settling, ResultsPlaced, ResultsFollowCalls,
         EffectsRooted, SharedResults, CallsDistinct, Answers, Batch, [SessionNext]_session
  PROVE  Answers'
<1>1. [Next]_journal
  BY SessionIsJournalled
<1>2. CASE Waits
  BY <1>1, <1>2, AnswersRest DEF Waits
<1>3. ASSUME NEW n, NEW r \in {"user", "assistant"}, Says(n, r) PROVE Answers'
  <2>1. /\ AddNode(n, head, open, r, TRUE) /\ UNCHANGED <<calls, replies>>
        /\ n \in NodeId /\ ~Exists(n)
    BY <1>3 DEF Says, AddNode, CanAddNode
  <2>2. calls' = [calls EXCEPT ![n] = {}] /\ replies' = [replies EXCEPT ![n] = {}]
    BY <2>1 DEF Answers, Contents
  <2>3. ResultOf(n) = {}
    BY <1>3, <2>1 DEF AddNode, CanAddNode, ToolAllowsNode
  <2>4. \A t \in EffectId : ~(InBeing(t) /\ effect[t].result = n)
    BY <2>3 DEF ResultOf, InBeing
  <2>5. QED
    <3>1. Adds(n, r, {}, {})
      BY <2>1, <2>2, <2>4 DEF Adds
    <3>2. QED
      BY <3>1, AnswersGrow
<1>4. ASSUME NEW called \in SUBSET CallId, Respond(called) PROVE Answers'
  <2>1. run = open
    BY <1>4 DEF Respond, Where, RunPhases
  <2>2. /\ AddNode(NewNode, head, open, "assistant", TRUE)
        /\ calls' = [calls EXCEPT ![NewNode] = called] /\ UNCHANGED replies
        /\ NewNode \in NodeId /\ ~Exists(NewNode)
        /\ called \cap UNION {calls[n] : n \in OwnedNodes(open)} = {}
    BY <1>4, <2>1 DEF Respond, AddNode, CanAddNode
  <2>3. replies' = [replies EXCEPT ![NewNode] = {}]
    BY <2>2 DEF Answers, Contents
  <2>4. ResultOf(NewNode) = {}
    BY <1>4 DEF Respond, UnusedNodes, NewNode, FreshNode
  <2>5. \A t \in EffectId : ~(InBeing(t) /\ effect[t].result = NewNode)
    BY <2>4 DEF ResultOf, InBeing
  <2>6. \A m \in OwnedNodes(open) : calls[m] \cap called = {}
    BY <2>2
  <2>7. QED
    <3>1. Adds(NewNode, "assistant", called, {})
      BY <2>2, <2>3, <2>5, <2>6 DEF Adds
    <3>2. QED
      BY <3>1, AnswersGrow
<1>5. ASSUME NEW c \in CallId, NEW policy \in EffectPolicies, PrepareTool(c, policy)
      PROVE  Answers'
  <2>1. /\ PrepareEffect(NewEffect, open, c, policy, answer, head)
        /\ NewEffect \in EffectId /\ effect[NewEffect].status = "absent"
        /\ c \in todo /\ phase = "tools"
        /\ UNCHANGED <<node, calls, replies>>
    BY <1>5, NewIdentifiers DEF PrepareTool, PrepareEffect, Where, RunPhases, text
  <2>2. /\ head \in OwnedNodes(open) /\ c \in calls[head]
        /\ \A m \in OwnedNodes(open) : replies[m] \cap calls[head] = {}
    BY <2>1 DEF Batch, Batching
  <2>3. /\ effect'[NewEffect].op = open /\ effect'[NewEffect].call = c
        /\ effect'[NewEffect].result = answer /\ effect'[NewEffect].assistant = head
    BY <2>1 DEF PrepareEffect, TypeOK
  <2>4. ~Exists(answer)
    BY <2>1 DEF PrepareEffect, ResultNodeAllowed, FreshNode
  <2>5. \A t \in EffectId : t # NewEffect => effect'[t] = effect[t]
    BY <2>1, OneBirth
  <2>6. Contents' /\ AnsweredOnce'
    BY <2>1 DEF Answers, Contents, AnsweredOnce, Exists
  <2>7. ASSUME NEW t \in EffectId, effect'[t].status # "absent"
        PROVE  /\ effect'[t].call \in calls[effect'[t].assistant]
               /\ \A m \in OwnedNodes(effect'[t].op) :
                    effect'[t].call \in replies[m] => m = effect'[t].result
               /\ Exists(effect'[t].result) => effect'[t].call \in replies[effect'[t].result]
    <3>1. CASE t = NewEffect
      BY <2>2, <2>3, <2>4, <3>1
    <3>2. CASE t # NewEffect
      BY <2>5, <2>7, <3>2 DEF Answers, EffectsAnswered, InBeing
    <3>3. QED
      BY <3>1, <3>2
  <2>8. EffectsAnswered'
    BY <2>1, <2>7 DEF EffectsAnswered, InBeing, OwnedNodes, Exists
  <2>9. QED
    BY <2>6, <2>8 DEF Answers
<1>6. CASE AnswerCalls
  <2>1. /\ AddNode(answer, head, open, "tool", TRUE) /\ phase = "tools"
        /\ replies' = [replies EXCEPT ![answer] = calls[head]] /\ UNCHANGED calls
        /\ answer \in NodeId /\ ~Exists(answer)
    BY <1>6 DEF AnswerCalls, AddNode, CanAddNode, Where, RunPhases
  <2>2. /\ head \in OwnedNodes(open)
        /\ \A m \in OwnedNodes(open) : replies[m] \cap calls[head] = {}
        /\ \A t \in EffectId : InBeing(t) =>
             (effect[t].assistant = head <=> effect[t].result = answer)
    BY <2>1 DEF Batch, Batching
  <2>3. calls' = [calls EXCEPT ![answer] = {}] /\ calls[head] \in SUBSET CallId
    BY <2>1, <2>2 DEF Answers, Contents, OwnedNodes
  <2>4. ASSUME NEW t \in EffectId, InBeing(t), effect[t].op = open,
               effect[t].call \in calls[head]
        PROVE  effect[t].result = answer
    <3>1. effect[t].call \in calls[effect[t].assistant] /\ effect[t].assistant \in OwnedNodes(open)
      BY <2>4 DEF Answers, EffectsAnswered, EffectsRooted
    <3>2. effect[t].assistant = head
      BY <2>2, <2>4, <3>1 DEF Answers, AnsweredOnce, OwnedNodes
    <3>3. QED
      BY <2>2, <2>4, <3>2
  <2>5. \A t \in EffectId : InBeing(t) /\ effect[t].result = answer =>
          effect[t].call \in calls[head]
    BY <2>2 DEF Answers, EffectsAnswered
  <2>6. QED
    <3>1. Adds(answer, "tool", {}, calls[head])
      BY <2>1, <2>2, <2>3, <2>4, <2>5 DEF Adds
    <3>2. QED
      BY <3>1, AnswersGrow
<1>7. ASSUME NEW n \in NodeId, RestoreResult(n) PROVE Answers'
  <2>1. /\ AddNode(n, head, open, "tool", TRUE) /\ n \in MissingResults /\ ~Exists(n)
        /\ replies' = [replies EXCEPT ![n] = Unanswered(n)] /\ UNCHANGED calls
    BY <1>7 DEF RestoreResult, AddNode, CanAddNode
  <2>2. PICK a \in OwnedNodes(open) :
          /\ Unanswered(n) = calls[a] \ (Answered \cup ElsewhereAnswered(n))
          /\ ResultOf(n) # {}
          /\ \A t \in ResultOf(n) : /\ effect[t].op = open /\ effect[t].assistant = a
                                    /\ effect[t].call \in Unanswered(n)
    BY <2>1, MissingSays
  <2>3. calls' = [calls EXCEPT ![n] = {}] /\ Unanswered(n) \in SUBSET CallId
    BY <2>1, <2>2 DEF Answers, Contents, OwnedNodes
  <2>4. \A m \in OwnedNodes(open) : replies[m] \cap Unanswered(n) = {}
    BY <2>2 DEF Answers, Contents, OwnedNodes, Answered
  <2>5. \A t \in EffectId :
          InBeing(t) /\ effect[t].op = open /\ effect[t].call \in Unanswered(n) =>
            effect[t].result = n
    BY <2>2 DEF ElsewhereAnswered, Mine, EffectsOf, InBeing
  <2>6. \A t \in EffectId : InBeing(t) /\ effect[t].result = n => effect[t].call \in Unanswered(n)
    BY <2>2 DEF ResultOf, InBeing
  <2>7. QED
    <3>1. Adds(n, "tool", {}, Unanswered(n))
      BY <2>1, <2>2, <2>3, <2>4, <2>5, <2>6 DEF Adds
    <3>2. QED
      BY <3>1, AnswersGrow
<1>8. ASSUME NEW n \in NodeId, Reply(n) PROVE Answers'
  <2>1. /\ AddNode(NewNode, head, open, "tool", TRUE) /\ n \in OwnedNodes(open)
        /\ replies' = [replies EXCEPT ![NewNode] = calls[n] \ Answered] /\ UNCHANGED calls
        /\ phase = "r_replies" /\ NewNode \in NodeId /\ ~Exists(NewNode)
    BY <1>8 DEF Reply, AddNode, CanAddNode, Silent
  <2>2. ResultOf(NewNode) = {}
    BY <1>8 DEF Reply, UnusedNodes, NewNode, FreshNode
  <2>3. \A t \in EffectId : ~(InBeing(t) /\ effect[t].result = NewNode)
    BY <2>2 DEF ResultOf, InBeing
  <2>4. /\ calls' = [calls EXCEPT ![NewNode] = {}] /\ calls[n] \ Answered \in SUBSET CallId
    BY <2>1 DEF Answers, Contents, OwnedNodes
  <2>5. \A m \in OwnedNodes(open) : replies[m] \cap (calls[n] \ Answered) = {}
    BY DEF Answers, Contents, OwnedNodes, Answered
  <2>6. ASSUME NEW t \in EffectId, InBeing(t), effect[t].op = open PROVE effect[t].call \in Answered
    <3>1. Exists(effect[t].result)
      BY <2>1, <2>6 DEF ResultsPlaced, MissingResults, Mine, EffectsOf, InBeing
    <3>2. effect[t].call \in replies[effect[t].result]
      BY <2>6, <3>1 DEF Answers, EffectsAnswered
    <3>3. effect[t].result \in OwnedNodes(open) /\ node[effect[t].result].role = "tool"
      BY <2>6, <3>1, ResultIsOwned
    <3>4. QED
      BY <3>2, <3>3 DEF Answered
  <2>7. QED
    <3>1. Adds(NewNode, "tool", {}, calls[n] \ Answered)
      BY <2>1, <2>3, <2>4, <2>5, <2>6 DEF Adds
    <3>2. QED
      BY <3>1, AnswersGrow
<1>9. QED
  BY <1>2, <1>3, <1>4, <1>5, <1>6, <1>7, <1>8, StepKinds DEF Speaks

LEMMA BatchStep ==
  ASSUME TypeOK, Where, PromptPlaced, Path, EffectsRooted, Answers, Batch,
         [SessionNext]_session
  PROVE  Batch'
<1>1. [Next]_journal /\ Where'
  BY SessionIsJournalled, WhereStep
<1>2. CASE phase' \notin Batching
  BY <1>2 DEF Batch
<1>3. CASE Waits /\ phase' \in Batching
  <2>1. phase \in Batching
    BY <1>3 DEF Waits, PlanTools, Batching
  <2>2. open' = open
    BY <1>1, <1>3, <2>1, OpenStays DEF Where, Batching, RunPhases
  <2>3. /\ head \in OwnedNodes(open) /\ todo \subseteq calls[head]
        /\ \A m \in OwnedNodes(open) : replies[m] \cap calls[head] = {}
        /\ UNCHANGED <<node, head, calls, replies>>
    BY <1>3, <2>1 DEF Batch, Waits
  <2>4. ASSUME NEW t \in EffectId, effect'[t].status # "absent"
        PROVE  /\ InBeing(t)
               /\ effect'[t].result = effect[t].result
               /\ effect'[t].assistant = effect[t].assistant
    <3>1. effect[t].status # "absent"
      BY <1>3, <2>4 DEF Waits, NoBirth
    <3>2. QED
      BY <1>1, <3>1, EffectIdentity DEF journal, InBeing
  <2>5. todo' \subseteq todo
    BY <1>3 DEF Waits, PlanTools
  <2>6. /\ head' \in OwnedNodes(open)' /\ todo' \subseteq calls'[head']
        /\ \A m \in OwnedNodes(open)' : replies'[m] \cap calls'[head'] = {}
    BY <2>2, <2>3, <2>5 DEF OwnedNodes, Exists
  <2>7. CASE phase' = phase /\ answer' = answer
    BY <2>1, <2>3, <2>4, <2>6, <2>7 DEF Batch, InBeing
  <2>8. CASE PlanTools
    <3>1. /\ phase = "answered" /\ phase' = "tools" /\ answer' = NewNode
          /\ NewNode \in NodeId /\ ResultOf(NewNode) = {} /\ UNCHANGED effect
      BY <2>8 DEF PlanTools, UnusedNodes, NewNode, FreshNode, journal
    <3>2. \A t \in EffectId : InBeing(t) =>
            effect[t].assistant # head /\ effect[t].result # NewNode
      BY <2>1, <3>1 DEF Batch, ResultOf, InBeing
    <3>3. QED
      BY <2>3, <2>6, <3>1, <3>2 DEF Batch, InBeing
  <2>9. QED
    BY <1>3, <2>7, <2>8 DEF Waits
<1>4. ASSUME NEW called \in SUBSET CallId, Respond(called) PROVE Batch'
  <2>1. run = open
    BY <1>4 DEF Respond, Where, RunPhases
  <2>2. /\ NewNode \in NodeId /\ ~Exists(NewNode)
        /\ node' = [node EXCEPT ![NewNode] =
                      [parent |-> head, op |-> open, role |-> "assistant"]]
        /\ head' = NewNode /\ UNCHANGED <<open, effect, replies>>
        /\ calls' = [calls EXCEPT ![NewNode] = called] /\ todo' = called
        /\ phase' = "answered"
        /\ called \cap UNION {calls[n] : n \in OwnedNodes(open)} = {}
    BY <1>4, <2>1 DEF Respond, AddNode, CanAddNode
  <2>3. head' \in OwnedNodes(open)' /\ calls'[head'] = called
    BY <2>2 DEF OwnedNodes, Exists, TypeOK, Answers, Contents
  <2>4. ASSUME NEW m \in NodeId, node'[m].op = open, NEW c \in replies[m], c \in called
        PROVE  FALSE
    <3>1. Exists(m) /\ m # NewNode
      BY <2>2, <2>4 DEF Answers, Contents
    <3>2. node[m].op = open
      BY <2>2, <2>4, <3>1 DEF TypeOK
    <3>3. PICK k \in NodeId : node[k].op = open /\ c \in calls[k]
      BY <2>4, <3>2 DEF Answers, AnsweredOnce
    <3>4. k \in OwnedNodes(open)
      BY <3>3 DEF OwnedNodes, Answers, Contents
    <3>5. QED
      BY <2>2, <2>4, <3>3, <3>4
  <2>5. \A m \in OwnedNodes(open)' : replies'[m] \cap calls'[head'] = {}
    BY <2>2, <2>3, <2>4 DEF OwnedNodes
  <2>6. \A t \in EffectId : InBeing(t) => effect[t].assistant # NewNode
    BY <2>2 DEF EffectsRooted, OwnedNodes
  <2>7. QED
    BY <2>2, <2>3, <2>5, <2>6 DEF Batch, InBeing
<1>5. ASSUME NEW c \in CallId, NEW policy \in EffectPolicies, PrepareTool(c, policy)
      PROVE  Batch'
  <2>1. /\ PrepareEffect(NewEffect, open, c, policy, answer, head)
        /\ NewEffect \in EffectId /\ effect[NewEffect].status = "absent"
        /\ todo' \subseteq todo /\ phase = "tools"
        /\ UNCHANGED <<node, head, open, calls, replies, phase, answer>>
    BY <1>5, NewIdentifiers DEF PrepareTool, PrepareEffect, Where, RunPhases, text
  <2>2. /\ effect'[NewEffect].result = answer /\ effect'[NewEffect].assistant = head
        /\ \A t \in EffectId : t # NewEffect => effect'[t] = effect[t]
    BY <2>1, OneBirth DEF PrepareEffect, TypeOK
  <2>3. Batch
    OBVIOUS
  <2>4. \A t \in EffectId : effect'[t].status # "absent" =>
          (effect'[t].assistant = head <=> effect'[t].result = answer)
    BY <2>1, <2>2, <2>3 DEF Batch, Batching, InBeing
  <2>5. QED
    BY <2>1, <2>3, <2>4 DEF Batch, Batching, InBeing, OwnedNodes, Exists
<1>6. ASSUME Speaks \/ AnswerCalls \/ \E n \in NodeId : RestoreResult(n) \/ Reply(n)
      PROVE  phase' \notin Batching
  BY <1>6 DEF Speaks, Says, AnswerCalls, Onward, RestoreResult, Reply, Batching
<1>7. QED
  BY <1>2, <1>3, <1>4, <1>5, <1>6, StepKinds

-----------------------------------------------------------------------------
JournalInv == TypeOK /\ RunInv /\ ReservationInv /\ ResultsFollowCalls

SettlingInv ==
  /\ Where /\ PromptPlaced /\ Settling /\ ResultsPlaced
  /\ Path /\ Answers /\ Batch

LEMMA SettlingInvStep ==
  ASSUME JournalInv, SettlingInv, [SessionNext]_session PROVE SettlingInv'
<1> USE DEF JournalInv, SettlingInv, RunInv, ReservationInv
<1>1. Where' /\ PromptPlaced' /\ Settling' /\ Path'
  BY WhereStep, PromptPlacedStep, SettlingStep, PathStep
<1>2. ResultsPlaced' /\ Answers' /\ Batch'
  BY ResultsPlacedStep, AnswersStep, BatchStep
<1>3. QED
  BY <1>1, <1>2

LEMMA SettlingInvariant == SessionSpec => [](JournalInv /\ SettlingInv)
<1>1. Spec => []JournalInv
  BY TypeCorrect, RunInvariant, ReservationsHold, ResultsFollowCallsHolds, PTL DEF JournalInv
<1>2. SessionInit => SettlingInv
  <2> SUFFICES ASSUME SessionInit PROVE SettlingInv
    OBVIOUS
  <2>1. Where /\ PromptPlaced /\ Settling /\ ResultsPlaced /\ Path /\ Batch
    BY DEF SessionInit, AgentInit, Init, Where, PromptPlaced, Settling, ResultsPlaced, Path,
       Batch, RunPhases, PassPhases, RestPhases, PlacedPhases, Batching
  <2>2. Contents /\ AnsweredOnce
    BY DEF SessionInit, AgentInit, Contents, AnsweredOnce
  <2>3. EffectsAnswered
    BY DEF SessionInit, AgentInit, Init, EffectsAnswered, InBeing, NoEffect
  <2>4. QED
    BY <2>1, <2>2, <2>3 DEF SettlingInv, Answers
<1>3. JournalInv /\ SettlingInv /\ [SessionNext]_session => SettlingInv'
  BY SettlingInvStep
<1>4. QED
  BY <1>1, <1>2, <1>3, SessionKeepsJournal, PTL DEF SessionSpec

-----------------------------------------------------------------------------
(* What recovery commits is accepted.                                      *)

(* A node that something reserved and that does not exist may be written   *)
(* below the head, as what it was reserved for.                            *)
LEMMA MessageIsAccepted ==
  ASSUME JournalInv, SettlingInv, phase = "r_queues", NEW e \in ClaimedHere,
         ~Exists(entry[e].target)
  PROVE  CanAddNode(entry[e].target, head, open, "user")
<1> DEFINE n == entry[e].target
<1>1. e \in EntryId /\ entry[e].status = "claimed" /\ entry[e].op = open
  BY DEF ClaimedHere
<1>2. n \in NodeId /\ (head # None => Exists(head))
  BY <1>1 DEF JournalInv, ReservationInv, Reserved, NodesRooted
<1>3. QueueAllowsNode(n, open, "user")
  <2>1. \A f \in QueuedFor(n) : f = e
    BY <1>1 DEF QueuedFor, JournalInv, ReservationInv, TargetsDistinct
  <2>2. QED
    BY <1>1, <2>1 DEF QueueAllowsNode
<1>4. ResultOf(n) = {}
  BY <1>1 DEF ResultOf, JournalInv, ReservationInv, Reserved, InBeing
<1>5. PromptOf(n) = {}
  <2>1. PromptInPlace
    BY DEF SettlingInv, PromptPlaced, PlacedPhases, PassPhases
  <2>2. ASSUME NEW o \in OpId, op[o].status # "absent", op[o].prompt = n PROVE FALSE
    <3>1. o # open /\ n # None
      BY <1>2, <2>1, <2>2, IdAssumption DEF PromptInPlace
    <3>2. op[o].status \in Outcomes
      BY <2>2, <3>1 DEF JournalInv, RunInv, OneOpenRun, TypeOK, Operation
    <3>3. n \in OwnedNodes(o)
      BY <2>2, <3>1, <3>2 DEF JournalInv, RunInv, FinishedRunsAreSettled
    <3>4. QED
      BY <3>3 DEF OwnedNodes
  <2>3. QED
    BY <2>2 DEF PromptOf
<1>6. QED
  BY <1>2, <1>3, <1>4, <1>5 DEF CanAddNode, ToolAllowsNode, PromptAllowsNode

LEMMA ResultIsAccepted ==
  ASSUME JournalInv, SettlingInv, phase = "r_results", NEW n \in MissingResults
  PROVE  CanAddNode(n, head, open, "tool") /\ Unanswered(n) # {}
<1>1. PICK a \in OwnedNodes(open) :
        /\ ResultOf(n) # {}
        /\ \A t \in ResultOf(n) : /\ effect[t].op = open /\ effect[t].assistant = a
                                  /\ effect[t].call \in Unanswered(n)
  BY MissingSays DEF JournalInv, ReservationInv, SettlingInv
<1>2. Unanswered(n) # {}
  BY <1>1
<1>3. PICK t \in EffectId : InBeing(t) /\ effect[t].result = n
  BY <1>1 DEF ResultOf, InBeing
<1>4. n \in NodeId /\ ~Exists(n) /\ (head # None => Exists(head))
  BY <1>3 DEF MissingResults, JournalInv, RunInv, ResultsAreNodes, InBeing, ReservationInv,
     NodesRooted
<1>5. QueuedFor(n) = {} /\ PromptOf(n) = {}
  BY <1>3 DEF QueuedFor, PromptOf, JournalInv, ReservationInv, Reserved
<1>6. DescendsVia(open, head, a)
  BY <1>1 DEF SettlingInv, Path, Where, PassPhases
<1>7. ToolAllowsNode(n, head, open, "tool")
  BY <1>1, <1>6 DEF ToolAllowsNode
<1>8. QED
  BY <1>2, <1>4, <1>5, <1>7 DEF CanAddNode, QueueAllowsNode, PromptAllowsNode

LEMMA FinishIsAccepted ==
  ASSUME JournalInv, SettlingInv, phase = "r_close" PROVE CanFinishRun(open, "cancelled")
<1>1. /\ open \in OpId /\ PromptInPlace /\ op[open].cancelled
      /\ InStatus(Unsettled) = {} /\ ClaimedHere = {} /\ MissingResults = {}
      /\ DescendsVia(open, head, op[open].source)
      /\ \A n \in OwnedNodes(open) : DescendsVia(open, head, n)
  BY DEF JournalInv, TypeOK, SettlingInv, Where, PassPhases, PromptPlaced, PlacedPhases,
     Settling, ResultsPlaced, Path
<1>2. op[open].status # "absent"
  BY <1>1 DEF JournalInv, RunInv, OneOpenRun
<1>3. RunPathComplete(open)
  <2>1. CASE op[open].prompt = None
    BY <1>1, <2>1 DEF RunPathComplete
  <2>2. CASE op[open].prompt # None
    <3>1. /\ op[open].prompt \in OwnedNodes(open)
          /\ DescendsVia(open, op[open].prompt, op[open].source)
      BY <1>1, <1>2, <2>2 DEF PromptInPlace, JournalInv, ReservationInv, PromptsRooted
    <3>2. QED
      BY <1>1, <2>2, <3>1 DEF RunPathComplete
  <2>3. QED
    BY <2>1, <2>2
<1>4. RunSettled(open)
  <2>1. ASSUME NEW t \in EffectsOf(open)
        PROVE  effect[t].status \in Terminal /\ Exists(effect[t].result)
    <3>1. effect[t].status \notin Unsettled /\ Exists(effect[t].result)
      BY <1>1 DEF InStatus, Mine, MissingResults
    <3>2. effect[t].status \in Terminal
      BY <3>1 DEF EffectsOf, JournalInv, TypeOK, Effect
    <3>3. QED
      BY <3>1, <3>2
  <2>2. QED
    BY <1>1, <2>1 DEF RunSettled, ClaimedHere
<1>5. QED
  BY <1>1, <1>3, <1>4 DEF CanFinishRun, IsOpen, Outcomes, PromptInPlace

(* Recovery is not stuck in its last commits: with any number of effects,  *)
(* batches, queued messages and interrupted passes, the reducer accepts    *)
(* the results, the messages and the end of the run that a pass writes     *)
(* once every effect has an outcome (#materializeInterruptedToolResults,   *)
(* #finishInterruptedQueues, recoverInterruptedRun).                       *)
THEOREM RecoveryIsAcceptedHolds == SessionSpec => []RecoveryIsAccepted
<1>1. JournalInv /\ SettlingInv => RecoveryIsAccepted
  BY MessageIsAccepted, ResultIsAccepted, FinishIsAccepted DEF RecoveryIsAccepted
<1>2. QED
  BY <1>1, SettlingInvariant, PTL

(* No call of a run is answered twice, and every effect of a run that is   *)
(* over is answered by the message reserved for it, through any crashes    *)
(* and interrupted passes on the way.                                      *)
THEOREM CallsAnsweredOnceHolds == SessionSpec => []CallsAnsweredOnce
<1>1. ASSUME JournalInv, SettlingInv PROVE CallsAnsweredOnce
  <2>1. \A m, n \in NodeId :
          m # n /\ node[m].op = node[n].op => replies[m] \cap replies[n] = {}
    BY <1>1 DEF SettlingInv, Answers, AnsweredOnce
  <2>2. ASSUME NEW t \in EffectId, effect[t].status # "absent", open # effect[t].op
        PROVE  effect[t].call \in replies[effect[t].result]
    <3>1. effect[t].op \in OpId /\ op[effect[t].op].status # "absent"
      BY <1>1, <2>2 DEF JournalInv, ReservationInv, EffectsRooted, InBeing
    <3>2. op[effect[t].op].status \in Outcomes
      BY <1>1, <2>2, <3>1 DEF JournalInv, RunInv, OneOpenRun, TypeOK, Operation
    <3>3. Exists(effect[t].result)
      BY <1>1, <2>2, <3>1, <3>2 DEF JournalInv, RunInv, FinishedRunsAreSettled, RunSettled,
         EffectsOf
    <3>4. QED
      BY <1>1, <2>2, <3>3 DEF SettlingInv, Answers, EffectsAnswered, InBeing
  <2>3. QED
    BY <2>1, <2>2 DEF CallsAnsweredOnce
<1>2. QED
  BY <1>1, SettlingInvariant, PTL

-----------------------------------------------------------------------------
(* The queues of the process.                                              *)

(* No two messages of a queue are of one entry.                            *)
Apart(q) == \A i, j \in DOMAIN q : q[i].id = q[j].id => i = j

IsQueue(q) == q \in Seq(Message) /\ Apart(q)

LEMMA QueueShape ==
  ASSUME NEW q, IsQueue(q)
  PROVE  /\ Len(q) \in Nat /\ DOMAIN q = 1..Len(q)
         /\ \A i \in 1..Len(q) : q[i] \in Message /\ q[i].id \in EntryId /\ q[i].id \in Held(q)
         /\ Held(q) \subseteq EntryId /\ Items(q) \subseteq Message
         /\ \A m, k \in Items(q) : m.id = k.id => m = k
<1>1. Len(q) \in Nat /\ DOMAIN q = 1..Len(q) /\ \A i \in 1..Len(q) : q[i] \in Message
  BY LenProperties, ElementOfSeq DEF IsQueue
<1>2. QED
  BY <1>1 DEF Held, Items, Message, IsQueue, Apart

LEMMA EmptyQueue == IsQueue(<<>>) /\ Items(<<>>) = {} /\ Held(<<>>) = {}
  BY EmptySeq DEF IsQueue, Apart, Items, Held

LEMMA SelectedQueue ==
  ASSUME NEW q, IsQueue(q), NEW S
  PROVE  /\ IsQueue(Among(q, S)) /\ Items(Among(q, S)) = Items(q) \cap S
         /\ Held(Among(q, S)) \subseteq Held(q)
<1> DEFINE kept == Among(q, S)
<1>1. /\ kept \in Seq(Message) /\ Items(kept) = Items(q) \cap S
      /\ \E at \in [DOMAIN kept -> DOMAIN q] :
           /\ \A i \in DOMAIN kept : kept[i] = q[at[i]]
           /\ \A i, j \in DOMAIN kept : i < j <=> at[i] < at[j]
  BY AmongIs DEF IsQueue
<1> HIDE DEF kept
<1>2. PICK at \in [DOMAIN kept -> DOMAIN q] :
        /\ \A i \in DOMAIN kept : kept[i] = q[at[i]]
        /\ \A i, j \in DOMAIN kept : i < j <=> at[i] < at[j]
  BY <1>1
<1>3. Len(kept) \in Nat /\ DOMAIN kept = 1..Len(kept) /\ DOMAIN q \subseteq Nat
  BY <1>1, QueueShape, LenProperties
<1>4. Apart(kept)
  <2>1. SUFFICES ASSUME NEW i \in DOMAIN kept, NEW j \in DOMAIN kept, kept[i].id = kept[j].id
                 PROVE  i = j
    BY DEF Apart
  <2>2. at[i] = at[j]
    BY <1>2, <2>1 DEF IsQueue, Apart
  <2>3. ~(i < j) /\ ~(j < i) /\ i \in Nat /\ j \in Nat
    BY <1>2, <1>3, <2>2
  <2>4. QED
    BY <2>3
<1>5. QED
  BY <1>1, <1>4 DEF IsQueue, Held, kept

LEMMA SingleQueue ==
  ASSUME NEW m \in Message
  PROVE  IsQueue(<<m>>) /\ Items(<<m>>) = {m} /\ Held(<<m>>) = {m.id}
<1>1. <<m>> \in Seq(Message) /\ DOMAIN <<m>> = 1..1 /\ <<m>>[1] = m
  OBVIOUS
<1>2. Apart(<<m>>)
  BY <1>1 DEF Apart
<1>3. Items(<<m>>) = {m}
  BY <1>1 DEF Items
<1>4. QED
  BY <1>1, <1>2, <1>3 DEF IsQueue, Held

LEMMA JoinedQueues ==
  ASSUME NEW p, NEW q, IsQueue(p), IsQueue(q), Held(p) \cap Held(q) = {}
  PROVE  /\ IsQueue(p \o q) /\ Items(p \o q) = Items(p) \cup Items(q)
         /\ Held(p \o q) = Held(p) \cup Held(q)
<1>1. /\ p \in Seq(Message) /\ q \in Seq(Message) /\ p \o q \in Seq(Message)
      /\ Len(p) \in Nat /\ Len(q) \in Nat /\ Len(p \o q) = Len(p) + Len(q)
      /\ DOMAIN p = 1..Len(p) /\ DOMAIN q = 1..Len(q)
      /\ DOMAIN (p \o q) = 1..(Len(p) + Len(q))
      /\ \A i \in 1..(Len(p) + Len(q)) :
           (p \o q)[i] = IF i <= Len(p) THEN p[i] ELSE q[i - Len(p)]
  BY LenProperties, ConcatProperties DEF IsQueue
<1> DEFINE c == p \o q
<1>2. c \in Seq(Message) /\ DOMAIN c = 1..(Len(p) + Len(q))
  BY <1>1
<1>3. \A i \in DOMAIN p : i \in DOMAIN c /\ c[i] = p[i]
  BY <1>1
<1>4. \A i \in DOMAIN q : i + Len(p) \in DOMAIN c /\ c[i + Len(p)] = q[i]
  BY <1>1
<1>5. \A i \in DOMAIN c : \/ i \in DOMAIN p /\ c[i] = p[i]
                          \/ i - Len(p) \in DOMAIN q /\ c[i] = q[i - Len(p)] /\ i \notin DOMAIN p
  BY <1>1
<1> HIDE DEF c
<1>6. Items(c) = Items(p) \cup Items(q)
  <2>1. \A m \in Items(c) : m \in Items(p) \cup Items(q)
    BY <1>5 DEF Items
  <2>2. \A m \in Items(p) : m \in Items(c)
    BY <1>3 DEF Items
  <2>3. \A m \in Items(q) : m \in Items(c)
    BY <1>4 DEF Items
  <2>4. QED
    BY <2>1, <2>2, <2>3
<1>7. Held(c) = Held(p) \cup Held(q)
  BY <1>6 DEF Held
<1>8. Apart(c)
  <2>1. SUFFICES ASSUME NEW i \in DOMAIN c, NEW j \in DOMAIN c, c[i].id = c[j].id PROVE i = j
    BY DEF Apart
  <2>2. /\ \A k \in DOMAIN p : p[k].id \in Held(p)
        /\ \A k \in DOMAIN q : q[k].id \in Held(q)
    BY DEF Held, Items
  <2>3. CASE i \in DOMAIN p
    <3>1. j \in DOMAIN p /\ c[i] = p[i] /\ c[j] = p[j]
      BY <1>5, <2>1, <2>2, <2>3
    <3>2. QED
      BY <2>1, <2>3, <3>1 DEF IsQueue, Apart
  <2>4. CASE i \notin DOMAIN p
    <3>1. /\ i - Len(p) \in DOMAIN q /\ j - Len(p) \in DOMAIN q
          /\ c[i] = q[i - Len(p)] /\ c[j] = q[j - Len(p)]
      BY <1>5, <2>1, <2>2, <2>4
    <3>2. i - Len(p) = j - Len(p)
      BY <2>1, <3>1 DEF IsQueue, Apart
    <3>3. i \in Nat /\ j \in Nat
      BY <1>1, <1>2
    <3>4. QED
      BY <1>1, <3>2, <3>3
  <2>5. QED
    BY <2>3, <2>4
<1>9. QED
  BY <1>2, <1>6, <1>7, <1>8 DEF IsQueue, c

LEMMA LongerQueue ==
  ASSUME NEW q, IsQueue(q), NEW m \in Message, m.id \notin Held(q)
  PROVE  IsQueue(Append(q, m)) /\ Held(Append(q, m)) = Held(q) \cup {m.id}
<1>1. Append(q, m) = q \o <<m>>
  BY AppendIsConcat DEF IsQueue
<1>2. QED
  BY <1>1, SingleQueue, JoinedQueues

LEMMA ShorterQueue ==
  ASSUME NEW q, IsQueue(q), q # <<>>
  PROVE  /\ Head(q) \in Items(q) /\ Head(q) \in Message
         /\ Head(q).id \in EntryId /\ Head(q).id \in Held(q)
         /\ IsQueue(Tail(q)) /\ Held(Tail(q)) = Held(q) \ {Head(q).id}
<1>1. /\ q \in Seq(Message) /\ Len(q) \in Nat /\ DOMAIN q = 1..Len(q)
      /\ \A i \in 1..Len(q) : q[i] \in Message
  BY LenProperties, ElementOfSeq DEF IsQueue
<1>2. /\ Len(q) # 0 /\ Head(q) = q[1]
      /\ Tail(q) \in Seq(Message) /\ Len(Tail(q)) = Len(q) - 1 /\ DOMAIN Tail(q) = 1..(Len(q) - 1)
      /\ \A i \in 1..(Len(q) - 1) : Tail(q)[i] = q[i + 1]
  BY <1>1, EmptySeq, HeadTailProperties, LenProperties
<1>3. 1 \in DOMAIN q
  BY <1>1, <1>2
<1>4. Head(q) \in Items(q) /\ Head(q) \in Message /\ Head(q).id \in EntryId /\ Head(q).id \in Held(q)
  BY <1>1, <1>2, <1>3 DEF Items, Held, Message
<1> DEFINE t == Tail(q)
<1>5. \A i \in DOMAIN t : i + 1 \in DOMAIN q /\ t[i] = q[i + 1] /\ i + 1 # 1
  BY <1>1, <1>2
<1>6. \A i \in DOMAIN q : i # 1 => i - 1 \in DOMAIN t /\ q[i] = t[i - 1]
  BY <1>1, <1>2
<1>7. t \in Seq(Message) /\ DOMAIN t \subseteq Nat
  BY <1>1, <1>2
<1> HIDE DEF t
<1>8. Apart(t)
  <2>1. SUFFICES ASSUME NEW i \in DOMAIN t, NEW j \in DOMAIN t, t[i].id = t[j].id PROVE i = j
    BY DEF Apart
  <2>2. i + 1 = j + 1
    BY <1>5, <2>1 DEF IsQueue, Apart
  <2>3. QED
    BY <1>7, <2>2
<1>9. Held(t) = Held(q) \ {Head(q).id}
  <2>1. \A i \in DOMAIN t : t[i].id \in Held(q) /\ t[i].id # q[1].id
    BY <1>3, <1>5 DEF IsQueue, Apart, Held, Items
  <2>2. \A i \in DOMAIN q : q[i].id # q[1].id => q[i].id \in Held(t)
    BY <1>6 DEF Held, Items
  <2>3. QED
    BY <1>2, <2>1, <2>2 DEF Held, Items
<1>10. QED
  BY <1>4, <1>7, <1>8, <1>9 DEF IsQueue, t

LEMMA FollowUpQueue ==
  ASSUME NEW q, IsQueue(q)
  PROVE  IsQueue(AsFollowUps(q)) /\ Held(AsFollowUps(q)) = Held(q)
<1> DEFINE f == AsFollowUps(q)
<1>1. Len(q) \in Nat /\ DOMAIN q = 1..Len(q) /\ \A i \in 1..Len(q) : q[i] \in Message
  BY QueueShape
<1>2. /\ f = [i \in DOMAIN q |-> [q[i] EXCEPT !.mode = "follow_up"]]
      /\ DOMAIN f = 1..Len(q)
  BY <1>1 DEF AsFollowUps
<1>3. \A i \in DOMAIN q : f[i] \in Message /\ f[i].id = q[i].id
  BY <1>1, <1>2 DEF Message
<1> HIDE DEF f
<1>4. f \in Seq(Message)
  BY <1>1, <1>2, <1>3, SeqDef
<1>5. Apart(f)
  BY <1>1, <1>2, <1>3 DEF IsQueue, Apart
<1>6. Held(f) = Held(q)
  BY <1>1, <1>2, <1>3 DEF Held, Items
<1>7. QED
  BY <1>4, <1>5, <1>6 DEF IsQueue, f

LEMMA HeldIsFinite ==
  ASSUME NEW q, IsQueue(q)
  PROVE  IsFiniteSet(Held(q)) /\ Held(q) \subseteq Nat /\ Cardinality(Held(q)) = Len(q)
<1> DEFINE ids == [i \in 1..Len(q) |-> q[i].id]
<1>1. /\ Len(q) \in Nat /\ DOMAIN q = 1..Len(q) /\ Held(q) \subseteq EntryId
      /\ \A i \in 1..Len(q) : q[i].id \in Held(q)
  BY QueueShape
<1>2. ids \in [1..Len(q) -> Held(q)]
  BY <1>1
<1>3. \A i, j \in 1..Len(q) : ids[i] = ids[j] => i = j
  BY <1>1 DEF IsQueue, Apart
<1>4. \A e \in Held(q) : \E i \in 1..Len(q) : ids[i] = e
  BY <1>1 DEF Held, Items
<1> HIDE DEF ids
<1>5. ids \in Surjection(1..Len(q), Held(q)) /\ ids \in Injection(1..Len(q), Held(q))
  BY <1>2, <1>3, <1>4 DEF Surjection, Injection, IsInjective
<1>6. IsFiniteSet(1..Len(q)) /\ Cardinality(1..Len(q)) = Len(q)
  BY <1>1, FS_Interval
<1>7. QED
  BY <1>1, <1>5, <1>6, FS_Surjection, EntryAssumption

LEMMA OrderedQueue ==
  ASSUME NEW q \in Seq(Message), IsFiniteSet(Held(q)), Held(q) \subseteq EntryId
  PROVE  IsQueue(DurableOrder(q)) /\ Held(DurableOrder(q)) = Held(q)
<1> DEFINE K == Held(q)
           at == Ascending(K)
           N == Cardinality(K)
           d == DurableOrder(q)
<1>1. /\ N \in Nat /\ at \in [1..N -> K]
      /\ \A i, j \in 1..N : i < j => at[i] < at[j]
      /\ \A k \in K : \E i \in 1..N : at[i] = k
  <2> HIDE DEF K
  <2>1. QED
    BY AscendingIs, EntryAssumption DEF K
<1>2. d = [i \in DOMAIN at |-> CHOOSE m \in Items(q) : m.id = at[i]]
  BY DEF DurableOrder
<1> HIDE DEF at, N, d
<1>3. DOMAIN d = 1..N
  BY <1>1, <1>2
<1>4. \A i \in 1..N : d[i] \in Items(q) /\ d[i].id = at[i]
  <2>1. SUFFICES ASSUME NEW i \in 1..N PROVE d[i] \in Items(q) /\ d[i].id = at[i]
    OBVIOUS
  <2>2. at[i] \in K /\ d[i] = CHOOSE m \in Items(q) : m.id = at[i]
    BY <1>1, <1>2
  <2>3. \E m \in Items(q) : m.id = at[i]
    BY <2>2 DEF Held
  <2>4. QED
    BY <2>2, <2>3
<1>5. Items(q) \subseteq Message
  BY LenProperties, ElementOfSeq DEF Items
<1>6. d \in Seq(Message)
  <2>1. \A i \in 1..N : d[i] \in Message
    BY <1>4, <1>5
  <2>2. d = [i \in 1..N |-> d[i]]
    BY <1>2, <1>3
  <2>3. d \in [1..N -> Message]
    BY <2>1, <2>2
  <2>4. QED
    BY <1>1, <2>3, SeqDef
<1>7. Apart(d)
  <2>1. SUFFICES ASSUME NEW i \in 1..N, NEW j \in 1..N, at[i] = at[j] PROVE i = j
    BY <1>3, <1>4 DEF Apart
  <2>2. at[i] \in Nat /\ at[j] \in Nat
    BY <1>1, EntryAssumption
  <2>3. QED
    BY <1>1, <2>1, <2>2
<1>8. Held(d) = K
  <2>1. \A i \in DOMAIN d : d[i].id \in K
    BY <1>1, <1>3, <1>4
  <2>2. \A k \in K : \E i \in DOMAIN d : d[i].id = k
    BY <1>1, <1>3, <1>4
  <2> HIDE DEF K
  <2>3. QED
    BY <2>1, <2>2 DEF Held, Items
<1>9. QED
  BY <1>6, <1>7, <1>8 DEF IsQueue, d

LEMMA RestoredQueue ==
  ASSUME NEW E, IsFiniteSet(E), E \subseteq EntryId
  PROVE  IsQueue(InMemory(E)) /\ Held(InMemory(E)) = E
<1> DEFINE at == Ascending(E)
           N == Cardinality(E)
           d == InMemory(E)
<1>1. /\ N \in Nat /\ at \in [1..N -> E]
      /\ \A i, j \in 1..N : i < j => at[i] < at[j]
      /\ \A k \in E : \E i \in 1..N : at[i] = k
  BY AscendingIs, EntryAssumption
<1>2. d = [i \in DOMAIN at |-> Restored(at[i])]
  BY DEF InMemory
<1> HIDE DEF at, N, d
<1>3. DOMAIN d = 1..N /\ d = [i \in 1..N |-> Restored(at[i])]
  BY <1>1, <1>2
<1>4. \A i \in 1..N : d[i] \in Message /\ d[i].id = at[i]
  BY <1>1, <1>3 DEF Restored, Message
<1>5. d \in Seq(Message)
  BY <1>1, <1>3, <1>4, SeqDef
<1>6. Apart(d)
  <2>1. SUFFICES ASSUME NEW i \in 1..N, NEW j \in 1..N, at[i] = at[j] PROVE i = j
    BY <1>3, <1>4 DEF Apart
  <2>2. at[i] \in Nat /\ at[j] \in Nat
    BY <1>1, EntryAssumption
  <2>3. QED
    BY <1>1, <2>1, <2>2
<1>7. Held(d) = E
  <2>1. \A i \in DOMAIN d : d[i].id \in E
    BY <1>1, <1>3, <1>4
  <2>2. \A k \in E : \E i \in DOMAIN d : d[i].id = k
    BY <1>1, <1>3, <1>4
  <2>3. QED
    BY <2>1, <2>2 DEF Held, Items
<1>8. QED
  BY <1>5, <1>6, <1>7 DEF IsQueue, d

(* The queues of the process hold different messages, those of the control *)
(* queue and of #pendingQueuedMessages are durably queued, and no message  *)
(* held was never added.                                                   *)
QueuesApart ==
  /\ IsQueue(control) /\ IsQueue(waiting) /\ IsQueue(taken)
  /\ Held(control) \cap Held(waiting) = {}
  /\ Held(taken) \cap (Held(control) \cup Held(waiting)) = {}

HeldAreQueued ==
  /\ Held(control) \cup Held(waiting) \subseteq QueuedEntries
  /\ \A e \in Held(taken) : entry[e].status # "absent"
  /\ IsFiniteSet(QueuedEntries)

Turning == {"closed", "starting", "returned"}

Moments ==
  /\ phase = "returned" => Held(taken) \subseteq QueuedEntries
  /\ phase = "starting" /\ prompt.from = "queue" =>
       /\ prompt.id \in EntryId /\ entry[prompt.id].status # "absent"
       /\ prompt.id \notin Held(control) \cup Held(waiting)
  /\ phase = "closed" => control = <<>> /\ taken = <<>>

MessageInv == QueuesApart /\ HeldAreQueued /\ Moments

(* What a commit does to the entries: nothing, or it ends the wait of one. *)
Leaves(e) ==
  /\ e \in EntryId /\ QueuedEntries' = QueuedEntries \ {e}
  /\ \A f \in EntryId : entry[f].status # "absent" => entry'[f].status # "absent"

LEMMA EntryMoves ==
  ASSUME TypeOK, NEW e
  PROVE  /\ \A x \in {"consumed", "cancelled"} : FinishEntry(e, x) => Leaves(e)
         /\ FinishEntry(e, "consumed") => e \notin QueuedEntries
         /\ \A o : ClaimEntry(e, o) => Leaves(e)
         /\ \A o : AcceptQueuedRun(o, e) => Leaves(e)
<1>1. ASSUME NEW x \in {"claimed", "consumed", "cancelled"}, e \in EntryId,
             entry'[e].status = x, \A f \in EntryId : f # e => entry'[f] = entry[f]
      PROVE  Leaves(e)
  BY <1>1 DEF Leaves, QueuedEntries
<1>2. ASSUME NEW x \in {"consumed", "cancelled"}, FinishEntry(e, x) PROVE Leaves(e)
  <2>1. e \in EntryId /\ entry' = [entry EXCEPT ![e].status = x]
    BY <1>2 DEF FinishEntry, CanConsume, CanCancelEntry
  <2>2. entry'[e].status = x /\ \A f \in EntryId : f # e => entry'[f] = entry[f]
    BY <2>1 DEF TypeOK, Entry
  <2>3. QED
    BY <1>1, <2>1, <2>2
<1>3. ASSUME FinishEntry(e, "consumed") PROVE e \notin QueuedEntries
  BY <1>3 DEF FinishEntry, CanConsume, QueuedEntries
<1>4. ASSUME NEW o, ClaimEntry(e, o) PROVE Leaves(e)
  <2>1. e \in EntryId /\ entry' = [entry EXCEPT ![e] = [@ EXCEPT !.status = "claimed", !.op = o]]
    BY <1>4 DEF ClaimEntry, CanClaim
  <2>2. entry'[e].status = "claimed" /\ \A f \in EntryId : f # e => entry'[f] = entry[f]
    BY <2>1 DEF TypeOK, Entry
  <2>3. QED
    BY <1>1, <2>1, <2>2
<1>5. ASSUME NEW o, AcceptQueuedRun(o, e) PROVE Leaves(e)
  <2>1. e \in EntryId /\ entry' = [entry EXCEPT ![e] = [@ EXCEPT !.status = "claimed", !.op = o]]
    BY <1>5 DEF AcceptQueuedRun
  <2>2. entry'[e].status = "claimed" /\ \A f \in EntryId : f # e => entry'[f] = entry[f]
    BY <2>1 DEF TypeOK, Entry
  <2>3. QED
    BY <1>1, <2>1, <2>2
<1>6. QED
  BY <1>2, <1>3, <1>4, <1>5

LEMMA EntryAdded ==
  ASSUME TypeOK, NEW e, NEW n, NEW k, AddEntry(e, n, k)
  PROVE  /\ e \in EntryId /\ entry[e].status = "absent" /\ e \notin QueuedEntries
         /\ QueuedEntries' = QueuedEntries \cup {e}
         /\ \A f \in EntryId : entry[f].status # "absent" => entry'[f].status # "absent"
<1>1. e \in EntryId /\ entry[e].status = "absent" /\ entry'[e].status = "queued"
  BY DEF AddEntry, TypeOK
<1>2. \A f \in EntryId : f # e => entry'[f] = entry[f]
  BY DEF AddEntry, TypeOK
<1>3. QED
  BY <1>1, <1>2 DEF QueuedEntries

(* A step that leaves the queues alone.                                    *)
Resting ==
  /\ UNCHANGED <<queues, entry>>
  /\ phase' \notin Turning \/ UNCHANGED <<phase, prompt>>

Emptying ==
  /\ UNCHANGED <<control, waiting, entry>> /\ taken' = <<>>
  /\ phase' \notin Turning

Passing(e) ==
  /\ UNCHANGED queues /\ Leaves(e) /\ e \notin Held(control) \cup Held(waiting)
  /\ phase' \notin Turning

LEMMA RestKeeps ==
  ASSUME MessageInv, \/ Resting \/ Emptying \/ \E e : Passing(e)
  PROVE  MessageInv'
<1>1. ASSUME Resting PROVE MessageInv'
  <2>1. UNCHANGED <<control, waiting, taken, entry>>
    BY <1>1 DEF Resting, queues
  <2>2. QueuesApart' /\ HeldAreQueued'
    BY <2>1 DEF MessageInv, QueuesApart, HeldAreQueued, QueuedEntries
  <2>3. Moments'
    BY <1>1, <2>1 DEF Resting, Turning, MessageInv, Moments, QueuedEntries
  <2>4. QED
    BY <2>2, <2>3 DEF MessageInv
<1>2. ASSUME Emptying PROVE MessageInv'
  <2>1. UNCHANGED <<control, waiting, entry>> /\ taken' = <<>> /\ phase' \notin Turning
    BY <1>2 DEF Emptying
  <2>2. IsQueue(taken') /\ Held(taken') = {}
    BY <2>1, EmptyQueue
  <2>3. QueuesApart' /\ HeldAreQueued'
    BY <2>1, <2>2 DEF MessageInv, QueuesApart, HeldAreQueued, QueuedEntries
  <2>4. Moments'
    BY <2>1 DEF Turning, Moments
  <2>5. QED
    BY <2>3, <2>4 DEF MessageInv
<1>3. ASSUME NEW e, Passing(e) PROVE MessageInv'
  <2>1. UNCHANGED <<control, waiting, taken>> /\ phase' \notin Turning
    BY <1>3 DEF Passing, queues
  <2>2. QueuesApart'
    BY <2>1 DEF MessageInv, QueuesApart
  <2>3. Held(taken) \subseteq EntryId
    BY QueueShape DEF MessageInv, QueuesApart
  <2>4. IsFiniteSet(QueuedEntries')
    <3>1. QueuedEntries' \in SUBSET QueuedEntries
      BY <1>3 DEF Passing, Leaves
    <3>2. QED
      BY <3>1, FS_Subset DEF MessageInv, HeldAreQueued
  <2>5. HeldAreQueued'
    <3>1. Held(control') \cup Held(waiting') \subseteq QueuedEntries'
      BY <1>3, <2>1 DEF Passing, Leaves, MessageInv, HeldAreQueued
    <3>2. \A f \in Held(taken') : entry'[f].status # "absent"
      BY <1>3, <2>1, <2>3 DEF Passing, Leaves, MessageInv, HeldAreQueued
    <3>3. QED
      BY <2>4, <3>1, <3>2 DEF HeldAreQueued
  <2>6. Moments'
    BY <2>1 DEF Turning, Moments
  <2>7. QED
    BY <2>2, <2>5, <2>6 DEF MessageInv
<1>4. QED
  BY <1>1, <1>2, <1>3

-----------------------------------------------------------------------------
LEMMA TakeIs ==
  ASSUME IsQueue(control), NEW mode, NEW drain
  PROVE  IsQueue(Take(mode, drain)) /\ Items(Take(mode, drain)) \subseteq Items(control)
<1> DEFINE S == {m \in Items(control) : m.mode = mode}
           chosen == Among(control, S)
<1>1. IsQueue(chosen) /\ Items(chosen) \subseteq Items(control)
  BY SelectedQueue
<1>2. Take(mode, drain) = chosen \/ (chosen # <<>> /\ Take(mode, drain) = <<Head(chosen)>>)
  BY DEF Take, OfMode
<1> HIDE DEF chosen
<1>3. ASSUME chosen # <<>>
      PROVE  IsQueue(<<Head(chosen)>>) /\ Items(<<Head(chosen)>>) \subseteq Items(control)
  BY <1>1, <1>3, ShorterQueue, SingleQueue
<1>4. QED
  BY <1>1, <1>2, <1>3

LEMMA WithoutIs ==
  ASSUME NEW q, NEW gone, IsQueue(q), \A m \in Items(q), k \in Items(gone) : m.id = k.id => m = k
  PROVE  /\ IsQueue(Without(q, gone)) /\ Items(Without(q, gone)) = Items(q) \ Items(gone)
         /\ Held(Without(q, gone)) = Held(q) \ Held(gone)
<1>1. /\ IsQueue(Without(q, gone))
      /\ Items(Without(q, gone)) = Items(q) \cap (Items(q) \ Items(gone))
  BY SelectedQueue DEF Without
<1>2. Items(Without(q, gone)) = Items(q) \ Items(gone)
  BY <1>1
<1>3. QED
  BY <1>1, <1>2 DEF Held

LEMMA OfModeIs ==
  ASSUME NEW q, IsQueue(q), NEW mode
  PROVE  /\ IsQueue(OfMode(q, mode)) /\ Held(OfMode(q, mode)) \subseteq Held(q)
         /\ Items(OfMode(q, mode)) = {m \in Items(q) : m.mode = mode}
<1> DEFINE S == {m \in Items(q) : m.mode = mode}
<1>1. /\ IsQueue(Among(q, S)) /\ Items(Among(q, S)) = Items(q) \cap S
      /\ Held(Among(q, S)) \subseteq Held(q)
  BY SelectedQueue
<1>2. QED
  BY <1>1 DEF OfMode

(* Messages move from the control queue into the hands of the run.         *)
LEMMA TakingKeeps ==
  ASSUME MessageInv, UNCHANGED <<waiting, entry>>, phase' \notin Turning,
         NEW T, IsQueue(T), Held(T) \subseteq Held(control),
         taken' = T \/ taken' = taken \o T,
         IsQueue(control'), Held(control') \subseteq Held(control) \ Held(T)
  PROVE  MessageInv'
<1>1. /\ IsQueue(control) /\ IsQueue(waiting) /\ IsQueue(taken)
      /\ Held(control) \cap Held(waiting) = {}
      /\ Held(taken) \cap (Held(control) \cup Held(waiting)) = {}
  BY DEF MessageInv, QueuesApart
<1>2. IsQueue(taken \o T) /\ Held(taken \o T) = Held(taken) \cup Held(T)
  <2>1. Held(taken) \cap Held(T) = {}
    BY <1>1
  <2>2. QED
    BY <1>1, <2>1, JoinedQueues
<1>3. IsQueue(taken') /\ Held(taken') \subseteq Held(taken) \cup Held(T)
  BY <1>2
<1>4. QueuesApart'
  BY <1>1, <1>3 DEF QueuesApart
<1>5. HeldAreQueued'
  <2>1. Held(T) \subseteq QueuedEntries
    BY DEF MessageInv, HeldAreQueued
  <2>2. \A e \in Held(taken') : entry'[e].status # "absent"
    BY <1>3, <2>1 DEF MessageInv, HeldAreQueued, QueuedEntries
  <2>3. Held(control') \cup Held(waiting') \subseteq QueuedEntries' /\ IsFiniteSet(QueuedEntries')
    BY DEF MessageInv, HeldAreQueued, QueuedEntries
  <2>4. QED
    BY <2>2, <2>3 DEF HeldAreQueued
<1>6. Moments'
  BY DEF Turning, Moments
<1>7. QED
  BY <1>4, <1>5, <1>6 DEF MessageInv

LEMMA TakenFromControl ==
  ASSUME IsQueue(control), NEW T, IsQueue(T), Items(T) \subseteq Items(control),
         NEW q, IsQueue(q), Items(q) \subseteq Items(control)
  PROVE  /\ Held(T) \subseteq Held(control)
         /\ IsQueue(Without(q, T)) /\ Items(Without(q, T)) \subseteq Items(q)
         /\ Held(Without(q, T)) = Held(q) \ Held(T) /\ Held(q) \subseteq Held(control)
<1>1. \A m, k \in Items(control) : m.id = k.id => m = k
  BY QueueShape
<1>2. \A m \in Items(q), k \in Items(T) : m.id = k.id => m = k
  BY <1>1
<1>3. /\ IsQueue(Without(q, T)) /\ Items(Without(q, T)) = Items(q) \ Items(T)
      /\ Held(Without(q, T)) = Held(q) \ Held(T)
  BY <1>2, WithoutIs
<1>4. QED
  BY <1>3 DEF Held

LEMMA TurnMessages ==
  ASSUME TypeOK, MessageInv, TurnStep
  PROVE  MessageInv'
<1> DEFINE S == TakeSteering
           L == Without(control, S)
           F == TakeFollowUps
<1>1. IsQueue(control) /\ IsQueue(taken)
  BY DEF MessageInv, QueuesApart
<1>2. IsQueue(S) /\ Items(S) \subseteq Items(control) /\ IsQueue(F) /\ Items(F) \subseteq Items(control)
  BY <1>1, TakeIs DEF TakeSteering, TakeFollowUps
<1> HIDE DEF S, F
<1>3. /\ Held(S) \subseteq Held(control) /\ IsQueue(L) /\ Items(L) \subseteq Items(control)
      /\ Held(L) = Held(control) \ Held(S)
  BY <1>1, <1>2, TakenFromControl
<1> HIDE DEF L
<1>4. /\ Held(F) \subseteq Held(control) /\ IsQueue(Without(L, F))
      /\ Held(Without(L, F)) \subseteq Held(control) \ Held(F)
  BY <1>1, <1>2, <1>3, TakenFromControl
<1>5. IsQueue(Without(L, <<>>)) /\ Held(Without(L, <<>>)) = Held(L)
  <2>1. \A m \in Items(L), k \in Items(<<>>) : m.id = k.id => m = k
    BY EmptyQueue
  <2>2. QED
    BY <1>3, <2>1, WithoutIs, EmptyQueue
<1>6. ASSUME NEW U, U = S \/ U = taken \o S, Onward(U, L), UNCHANGED <<waiting, entry>>
      PROVE  MessageInv'
  <2>1. phase' \notin Turning
    BY <1>6 DEF Onward, Turning
  <2>2. CASE U = <<>>
    <3>1. taken' = <<>> \o F /\ control' = Without(L, F)
      BY <1>6, <2>2 DEF Onward, F
    <3>2. taken' = F
      BY <1>2, <3>1, ConcatEmptySeq DEF IsQueue
    <3>3. QED
      BY <1>2, <1>4, <1>6, <2>1, <3>1, <3>2, TakingKeeps
  <2>3. CASE U # <<>>
    <3>1. taken' = U \o <<>> /\ control' = Without(L, <<>>)
      BY <1>6, <2>3 DEF Onward
    <3>2. S \in Seq(Message) /\ taken \o S \in Seq(Message)
      BY <1>1, <1>2, ConcatProperties DEF IsQueue
    <3>3. taken' = S \/ taken' = taken \o S
      BY <1>6, <3>1, <3>2, ConcatEmptySeq
    <3>4. QED
      BY <1>2, <1>3, <1>5, <1>6, <2>1, <3>1, <3>3, TakingKeeps
  <2>4. QED
    BY <2>2, <2>3
<1>7. ASSUME taken' = S \/ taken' = taken \o S, control' = L, UNCHANGED <<waiting, entry>>,
             phase' \notin Turning
      PROVE  MessageInv'
  BY <1>2, <1>3, <1>7, TakingKeeps
<1>8. ASSUME TakeTurn \/ Pause \/ PlanTools PROVE MessageInv'
  <2>1. taken' = S /\ control' = L /\ UNCHANGED <<waiting, entry>> /\ phase' \notin Turning
    BY <1>8 DEF TakeTurn, Pause, PlanTools, journal, Turning, S, L
  <2>2. QED
    BY <1>7, <2>1
<1>9. ASSUME AnswerWithoutCalls PROVE MessageInv'
  <2>1. Onward(S, L) /\ UNCHANGED <<waiting, entry>>
    BY <1>9 DEF AnswerWithoutCalls, journal, S, L
  <2>2. QED
    BY <1>6, <2>1
<1>10. ASSUME AnswerCalls PROVE MessageInv'
  <2>1. UNCHANGED <<waiting, entry>>
    BY <1>10 DEF AnswerCalls, AddNode
  <2>2. CASE /\ taken' = taken \o TakeSteering
             /\ control' = Without(control, TakeSteering)
             /\ phase' = "deliver"
    <3>1. taken' = taken \o S /\ control' = L /\ phase' \notin Turning
      BY <2>2 DEF S, L, Turning
    <3>2. QED
      BY <1>7, <2>1, <3>1
  <2>3. CASE Onward(taken \o TakeSteering, Without(control, TakeSteering))
    <3>1. Onward(taken \o S, L)
      BY <2>3 DEF S, L
    <3>2. QED
      BY <1>6, <2>1, <3>1
  <2>4. QED
    BY <1>10, <2>2, <2>3 DEF AnswerCalls
<1>11. ASSUME Ask \/ AttemptFails \/ Retry \/ \E called \in SUBSET CallId : Respond(called)
       PROVE  MessageInv'
  <2>1. Resting
    BY <1>11 DEF Ask, AttemptFails, Retry, Respond, StartStep, StartAttempt, AddNode, Resting,
       Turning, journal
  <2>2. QED
    BY <2>1, RestKeeps
<1>12. QED
  BY <1>8, <1>9, <1>10, <1>11 DEF TurnStep

LEMMA QueueMessages ==
  ASSUME TypeOK, MessageInv, NEW mode \in QueueModes, Queue(mode) PROVE MessageInv'
<1> DEFINE m == [id |-> NewEntry, mode |-> IF mode = "steer" THEN "steer" ELSE "follow_up"]
<1>1. /\ NewEntry \in EntryId /\ entry[NewEntry].status = "absent"
      /\ NewEntry \notin QueuedEntries /\ QueuedEntries' = QueuedEntries \cup {NewEntry}
      /\ \A f \in EntryId : entry[f].status # "absent" => entry'[f].status # "absent"
  BY EntryAdded DEF Queue
<1>2. m \in Message /\ m.id = NewEntry
  BY <1>1 DEF Message
<1>3. /\ \/ control' = Append(control, m) /\ UNCHANGED waiting
         \/ waiting' = Append(waiting, m) /\ UNCHANGED control
      /\ UNCHANGED <<taken, phase, prompt>>
      /\ phase # "closed"
  BY DEF Queue, loop, Usable
<1> HIDE DEF m
<1>4. /\ IsQueue(control) /\ IsQueue(waiting) /\ IsQueue(taken)
      /\ Held(control) \cup Held(waiting) \subseteq QueuedEntries
      /\ NewEntry \notin Held(control) \cup Held(waiting) \cup Held(taken)
      /\ Held(taken) \subseteq EntryId
  BY <1>1, QueueShape DEF MessageInv, QueuesApart, HeldAreQueued
<1>5. /\ IsQueue(Append(control, m)) /\ Held(Append(control, m)) = Held(control) \cup {NewEntry}
      /\ IsQueue(Append(waiting, m)) /\ Held(Append(waiting, m)) = Held(waiting) \cup {NewEntry}
  BY <1>2, <1>4, LongerQueue
<1>6. QueuesApart'
  BY <1>3, <1>4, <1>5 DEF MessageInv, QueuesApart
<1>7. HeldAreQueued'
  <2>1. IsFiniteSet(QueuedEntries')
    BY <1>1, FS_AddElement DEF MessageInv, HeldAreQueued
  <2>2. Held(control') \cup Held(waiting') \subseteq QueuedEntries'
    BY <1>1, <1>3, <1>4, <1>5
  <2>3. \A e \in Held(taken') : entry'[e].status # "absent"
    BY <1>1, <1>3, <1>4 DEF MessageInv, HeldAreQueued
  <2>4. QED
    BY <2>1, <2>2, <2>3 DEF HeldAreQueued
<1>8. Moments'
  <2>1. phase' = "returned" => Held(taken') \subseteq QueuedEntries'
    BY <1>1, <1>3 DEF MessageInv, Moments
  <2>2. phase' = "starting" /\ prompt'.from = "queue" =>
          /\ prompt'.id \in EntryId /\ entry'[prompt'.id].status # "absent"
          /\ prompt'.id \notin Held(control') \cup Held(waiting')
    BY <1>1, <1>3, <1>5 DEF MessageInv, Moments
  <2>3. QED
    BY <1>3, <2>1, <2>2 DEF Moments
<1>9. QED
  BY <1>6, <1>7, <1>8 DEF MessageInv

LEMMA UsersAre ==
  ASSUME NEW q, IsQueue(q)
  PROVE  IsQueue(Users(q)) /\ Items(Users(q)) \subseteq Items(q)
BY SelectedQueue DEF Users

LEMMA DequeueMessages ==
  ASSUME TypeOK, MessageInv, Dequeue PROVE MessageInv'
<1> DEFINE first == Users(waiting) \o Users(control)
           h == Head(first)
<1>1. /\ IsQueue(control) /\ IsQueue(waiting) /\ IsQueue(taken)
      /\ Held(control) \cap Held(waiting) = {}
      /\ Held(taken) \cap (Held(control) \cup Held(waiting)) = {}
      /\ Held(control) \cup Held(waiting) \subseteq QueuedEntries
  BY DEF MessageInv, QueuesApart, HeldAreQueued
<1>2. IsQueue(first) /\ Items(first) \subseteq Items(control) \cup Items(waiting)
  <2>1. /\ IsQueue(Users(control)) /\ Items(Users(control)) \subseteq Items(control)
        /\ IsQueue(Users(waiting)) /\ Items(Users(waiting)) \subseteq Items(waiting)
    BY <1>1, UsersAre
  <2>2. Held(Users(waiting)) \cap Held(Users(control)) = {}
    BY <1>1, <2>1 DEF Held
  <2>3. QED
    BY <2>1, <2>2, JoinedQueues
<1>3. /\ first # <<>> /\ FinishEntry(h.id, "cancelled")
      /\ waiting' = Without(waiting, <<h>>) /\ control' = Without(control, <<h>>)
      /\ UNCHANGED <<taken, phase, prompt>> /\ phase # "closed"
  BY DEF Dequeue, loop, Usable
<1> HIDE DEF first
<1>4. h \in Message /\ h \in Items(control) \cup Items(waiting)
      /\ h.id \in Held(control) \cup Held(waiting)
  <2>1. h \in Items(first) /\ h \in Message
    BY <1>2, <1>3, ShorterQueue
  <2>2. QED
    BY <1>2, <2>1 DEF Held
<1> HIDE DEF h
<1>5. IsQueue(<<h>>) /\ Items(<<h>>) = {h} /\ Held(<<h>>) = {h.id}
  BY <1>4, SingleQueue
<1>6. \A m, k \in Items(control) \cup Items(waiting) : m.id = k.id => m = k
  <2>1. /\ \A m, k \in Items(control) : m.id = k.id => m = k
        /\ \A m, k \in Items(waiting) : m.id = k.id => m = k
    BY <1>1, QueueShape
  <2>2. \A m \in Items(control), k \in Items(waiting) : m.id # k.id
    BY <1>1 DEF Held
  <2>3. QED
    BY <2>1, <2>2
<1>7. /\ IsQueue(control') /\ Held(control') = Held(control) \ {h.id}
      /\ IsQueue(waiting') /\ Held(waiting') = Held(waiting) \ {h.id}
  <2>1. /\ \A m \in Items(control), k \in Items(<<h>>) : m.id = k.id => m = k
        /\ \A m \in Items(waiting), k \in Items(<<h>>) : m.id = k.id => m = k
    BY <1>4, <1>5, <1>6
  <2>2. QED
    BY <1>1, <1>3, <1>5, <2>1, WithoutIs
<1>8. Leaves(h.id)
  BY <1>3, EntryMoves
<1>9. QueuesApart'
  BY <1>1, <1>3, <1>7 DEF QueuesApart
<1>10. HeldAreQueued'
  <2>1. QueuedEntries' \in SUBSET QueuedEntries
    BY <1>8 DEF Leaves
  <2>2. IsFiniteSet(QueuedEntries')
    BY <2>1, FS_Subset DEF MessageInv, HeldAreQueued
  <2>3. Held(control') \cup Held(waiting') \subseteq QueuedEntries'
    BY <1>1, <1>7, <1>8 DEF Leaves
  <2>4. Held(taken) \subseteq EntryId
    BY <1>1, QueueShape
  <2>5. \A e \in Held(taken') : entry'[e].status # "absent"
    BY <1>3, <1>8, <2>4 DEF Leaves, MessageInv, HeldAreQueued
  <2>6. QED
    BY <2>2, <2>3, <2>5 DEF HeldAreQueued
<1>11. Moments'
  <2>1. phase' = "returned" => Held(taken') \subseteq QueuedEntries'
    BY <1>1, <1>3, <1>4, <1>8 DEF Leaves, MessageInv, Moments
  <2>2. phase' = "starting" /\ prompt'.from = "queue" =>
          /\ prompt'.id \in EntryId /\ entry'[prompt'.id].status # "absent"
          /\ prompt'.id \notin Held(control') \cup Held(waiting')
    BY <1>3, <1>7, <1>8 DEF Leaves, MessageInv, Moments
  <2>3. QED
    BY <1>3, <2>1, <2>2 DEF Moments
<1>12. QED
  BY <1>9, <1>10, <1>11 DEF MessageInv

(* A run begins with some of the messages that are not its prompt.         *)
LEMMA BeginMessages ==
  ASSUME MessageInv, NEW p, NEW left, Begin(p, left), IsQueue(left),
         Held(left) \subseteq Held(waiting),
         p.from = "queue" => p.id \in Held(waiting) /\ p.id \notin Held(left)
  PROVE  MessageInv'
<1> DEFINE S == OfMode(left, "steer")
           F == OfMode(left, "follow_up")
<1>1. /\ control' = S /\ waiting' = F
      /\ UNCHANGED <<taken, entry>> /\ phase' = "starting" /\ prompt' = p
  BY DEF Begin, journal
<1>2. /\ IsQueue(S) /\ Held(S) \subseteq Held(left) /\ Items(S) = {m \in Items(left) : m.mode = "steer"}
      /\ IsQueue(F) /\ Held(F) \subseteq Held(left) /\ Items(F) = {m \in Items(left) : m.mode = "follow_up"}
      /\ \A m, k \in Items(left) : m.id = k.id => m = k
  BY OfModeIs, QueueShape
<1> HIDE DEF S, F
<1>3. Held(S) \cap Held(F) = {}
  BY <1>2 DEF Held
<1>4. QueuesApart'
  BY <1>1, <1>2, <1>3 DEF MessageInv, QueuesApart
<1>5. HeldAreQueued'
  BY <1>1, <1>2 DEF MessageInv, HeldAreQueued, QueuedEntries
<1>6. Moments'
  <2>1. p.from = "queue" => p.id \in QueuedEntries /\ p.id \notin Held(S) \cup Held(F)
    BY <1>2 DEF MessageInv, HeldAreQueued
  <2>2. p.from = "queue" =>
          /\ p.id \in EntryId /\ entry'[p.id].status # "absent"
          /\ p.id \notin Held(control') \cup Held(waiting')
    BY <1>1, <2>1 DEF QueuedEntries
  <2>3. QED
    BY <1>1, <2>2 DEF Moments
<1>7. QED
  BY <1>4, <1>5, <1>6 DEF MessageInv

LEMMA HostMessages ==
  ASSUME TypeOK, MessageInv, HostStep PROVE MessageInv'
<1>1. IsQueue(waiting)
  BY DEF MessageInv, QueuesApart
<1>2. ASSUME Prompt PROVE MessageInv'
  <2>1. OwnPrompt.from # "queue"
    BY DEF OwnPrompt
  <2>2. QED
    BY <1>1, <1>2, <2>1, BeginMessages DEF Prompt
<1>3. ASSUME Continue PROVE MessageInv'
  <2>1. CASE node[head].role # "assistant"
    <3>1. NoPrompt.from # "queue"
      BY DEF NoPrompt
    <3>2. QED
      BY <1>1, <1>3, <2>1, <3>1, BeginMessages DEF Continue
  <2>2. CASE node[head].role = "assistant"
    <3> DEFINE U == Users(waiting)
               S == OfMode(U, "steer")
               F == OfMode(U, "follow_up")
               h == Head(S \o F)
               left == Without(waiting, <<h>>)
    <3>1. S \o F # <<>> /\ Begin(QueuePrompt(h.id), left)
      BY <1>3, <2>2 DEF Continue
    <3>2. IsQueue(U) /\ Items(U) \subseteq Items(waiting) /\ \A m, k \in Items(U) : m.id = k.id => m = k
      BY <1>1, UsersAre, QueueShape
    <3> HIDE DEF U
    <3>3. /\ IsQueue(S) /\ Items(S) = {m \in Items(U) : m.mode = "steer"}
          /\ IsQueue(F) /\ Items(F) = {m \in Items(U) : m.mode = "follow_up"}
      BY <3>2, OfModeIs
    <3> HIDE DEF S, F
    <3>4. Held(S) \cap Held(F) = {}
      BY <3>2, <3>3 DEF Held
    <3>5. IsQueue(S \o F) /\ Items(S \o F) \subseteq Items(waiting)
      BY <3>2, <3>3, <3>4, JoinedQueues
    <3>6. h \in Items(waiting) /\ h \in Message
      BY <3>1, <3>5, ShorterQueue
    <3> HIDE DEF h
    <3>7. IsQueue(<<h>>) /\ Items(<<h>>) = {h} /\ Held(<<h>>) = {h.id}
      BY <3>6, SingleQueue
    <3>8. \A m \in Items(waiting), k \in Items(<<h>>) : m.id = k.id => m = k
      BY <1>1, <3>6, <3>7, QueueShape
    <3>9. IsQueue(left) /\ Held(left) = Held(waiting) \ {h.id}
      BY <1>1, <3>7, <3>8, WithoutIs
    <3>10. QueuePrompt(h.id).id = h.id /\ h.id \in Held(waiting)
      BY <3>6 DEF QueuePrompt, Held
    <3> HIDE DEF left
    <3>11. QED
      BY <3>1, <3>9, <3>10, BeginMessages
  <2>3. QED
    BY <2>1, <2>2
<1>4. ASSUME Abort PROVE MessageInv'
  <2>1. Resting
    BY <1>4 DEF Abort, CancelRun, journal, Resting
  <2>2. QED
    BY <2>1, RestKeeps
<1>5. ASSUME CancelRetry PROVE MessageInv'
  <2>1. Emptying
    BY <1>5 DEF CancelRetry, Close, journal, Emptying, Turning
  <2>2. QED
    BY <2>1, RestKeeps
<1>6. QED
  BY <1>2, <1>3, <1>4, <1>5, QueueMessages, DequeueMessages DEF HostStep

LEMMA AcceptMessages ==
  ASSUME TypeOK, MessageInv, AcceptStep PROVE MessageInv'
<1>1. ASSUME Accept PROVE MessageInv'
  <2>1. CASE prompt.from = "queue" /\ AcceptQueuedRun(NewOp, prompt.id)
    <3>1. Leaves(prompt.id) /\ prompt.id \notin Held(control) \cup Held(waiting)
      BY <1>1, <2>1, EntryMoves DEF Accept, MessageInv, Moments
    <3>2. Passing(prompt.id)
      BY <1>1, <3>1 DEF Accept, Passing, Turning
    <3>3. QED
      BY <3>2, RestKeeps
  <2>2. CASE AcceptRun(NewOp, NewNode) \/ AcceptRun(NewOp, None)
    <3>1. Resting
      BY <1>1, <2>2 DEF Accept, AcceptRun, Resting, Turning
    <3>2. QED
      BY <3>1, RestKeeps
  <2>3. QED
    BY <1>1, <2>1, <2>2 DEF Accept
<1>2. ASSUME AcceptRefused \/ StartFails \/ RecordAbort \/ AppendPrompt PROVE MessageInv'
  <2>1. Resting
    BY <1>2 DEF AcceptRefused, StartFails, RecordAbort, AppendPrompt, AddNode, CancelRun,
       journal, loop, Resting, Turning
  <2>2. QED
    BY <2>1, RestKeeps
<1>3. ASSUME ConsumePrompt PROVE MessageInv'
  <2>1. FinishEntry(prompt.id, "consumed") /\ phase' = "deliver" /\ UNCHANGED queues
    BY <1>3 DEF ConsumePrompt
  <2>2. Passing(prompt.id)
    BY <2>1, EntryMoves DEF Passing, Turning, MessageInv, HeldAreQueued
  <2>3. QED
    BY <2>2, RestKeeps
<1>4. QED
  BY <1>1, <1>2, <1>3 DEF AcceptStep

LEMMA DeliverMessages ==
  ASSUME TypeOK, MessageInv, DeliverStep PROVE MessageInv'
<1>1. ASSUME Delivering
      PROVE  /\ Delivered \in Held(taken) /\ Delivered \in EntryId
             /\ Delivered \notin Held(control) \cup Held(waiting)
             /\ IsQueue(Tail(taken)) /\ Held(Tail(taken)) = Held(taken) \ {Delivered}
             /\ phase \notin Turning
  BY <1>1, ShorterQueue DEF Delivering, Delivered, MessageInv, QueuesApart, Turning
<1>2. ASSUME BeginDelivery PROVE MessageInv'
  <2>1. Delivering /\ ClaimEntry(Delivered, run) /\ UNCHANGED <<phase, queues>>
    BY <1>2 DEF BeginDelivery
  <2>2. Passing(Delivered)
    BY <1>1, <2>1, EntryMoves DEF Passing
  <2>3. QED
    BY <2>2, RestKeeps
<1>3. ASSUME ClaimRefused PROVE MessageInv'
  <2>1. Emptying
    BY <1>3 DEF ClaimRefused, Close, journal, Emptying, Turning
  <2>2. QED
    BY <2>1, RestKeeps
<1>4. ASSUME AppendDelivery \/ AllDelivered PROVE MessageInv'
  <2>1. Resting
    BY <1>4 DEF AppendDelivery, AllDelivered, AddNode, journal, loop, Resting, Turning
  <2>2. QED
    BY <2>1, RestKeeps
<1>5. ASSUME EndDelivery PROVE MessageInv'
  <2>1. /\ Delivering /\ FinishEntry(Delivered, "consumed") /\ taken' = Tail(taken)
        /\ UNCHANGED <<phase, control, waiting>>
    BY <1>5 DEF EndDelivery
  <2>2. Leaves(Delivered)
    BY <2>1, EntryMoves
  <2>3. /\ IsQueue(control) /\ IsQueue(waiting) /\ IsQueue(taken)
        /\ Held(control) \cap Held(waiting) = {}
        /\ Held(taken) \cap (Held(control) \cup Held(waiting)) = {}
        /\ Held(taken) \subseteq EntryId
    BY QueueShape DEF MessageInv, QueuesApart
  <2>4. QueuesApart'
    BY <1>1, <2>1, <2>3 DEF QueuesApart
  <2>5. HeldAreQueued'
    <3>1. QueuedEntries' \in SUBSET QueuedEntries
      BY <2>2 DEF Leaves
    <3>2. IsFiniteSet(QueuedEntries')
      BY <3>1, FS_Subset DEF MessageInv, HeldAreQueued
    <3>3. Held(control') \cup Held(waiting') \subseteq QueuedEntries'
      BY <1>1, <2>1, <2>2 DEF Leaves, MessageInv, HeldAreQueued
    <3>4. \A e \in Held(taken') : entry'[e].status # "absent"
      BY <1>1, <2>1, <2>2, <2>3 DEF Leaves, MessageInv, HeldAreQueued
    <3>5. QED
      BY <3>2, <3>3, <3>4 DEF HeldAreQueued
  <2>6. Moments'
    BY <1>1, <2>1 DEF Moments, Turning
  <2>7. QED
    BY <2>4, <2>5, <2>6 DEF MessageInv
<1>6. QED
  BY <1>2, <1>3, <1>4, <1>5 DEF DeliverStep

LEMMA ToolMessages ==
  ASSUME MessageInv, ToolStep \/ FaultStep PROVE MessageInv'
<1>1. ASSUME \/ \E c \in CallId : RefuseTool(c) \/ \E policy \in EffectPolicies : PrepareTool(c, policy)
             \/ \E t \in EffectId : DispatchTool(t) \/ CallTool(t) \/ ToolNotCalled(t)
      PROVE  Resting
  BY <1>1 DEF RefuseTool, PrepareTool, DispatchTool, CallTool, ToolNotCalled, PrepareEffect,
     DispatchEffect, FinishEffect, Become, journal, loop, Resting
<1>2. ASSUME NEW t \in EffectId, NEW result, ToolReturns(t, result) PROVE Resting \/ Emptying
  <2>1. UNCHANGED entry
    BY <1>2 DEF ToolReturns, FinishEffect, Become, journal
  <2>2. QED
    BY <1>2, <2>1 DEF ToolReturns, Close, loop, queues, Resting, Emptying, Turning
<1>3. ASSUME FaultStep PROVE Emptying
  BY <1>3 DEF FaultStep, NoticeAbort, Throw, ProviderFails, StepLimit, Close, journal,
     Emptying, Turning
<1>4. QED
  BY <1>1, <1>2, <1>3, RestKeeps DEF ToolStep

(* What is left over when a run has returned, in the order of the entries. *)
LEMMA UndeliveredIs ==
  ASSUME MessageInv, phase = "returned"
  PROVE  /\ IsQueue(Undelivered) /\ Held(Undelivered) \subseteq QueuedEntries
         /\ Held(Undelivered) = Held(taken) \cup Held(control) \cup Held(waiting)
<1> DEFINE q == taken \o control \o waiting
<1>1. /\ IsQueue(control) /\ IsQueue(waiting) /\ IsQueue(taken)
      /\ Held(control) \cap Held(waiting) = {}
      /\ Held(taken) \cap (Held(control) \cup Held(waiting)) = {}
      /\ Held(control) \cup Held(waiting) \subseteq QueuedEntries
      /\ Held(taken) \subseteq QueuedEntries
  BY DEF MessageInv, QueuesApart, HeldAreQueued, Moments
<1>2. IsQueue(taken \o control) /\ Held(taken \o control) = Held(taken) \cup Held(control)
  <2>1. Held(taken) \cap Held(control) = {}
    BY <1>1
  <2>2. QED
    BY <1>1, <2>1, JoinedQueues
<1>3. IsQueue(q) /\ Held(q) = Held(taken) \cup Held(control) \cup Held(waiting)
  <2>1. Held(taken \o control) \cap Held(waiting) = {}
    BY <1>1, <1>2
  <2>2. QED
    BY <1>1, <1>2, <2>1, JoinedQueues
<1> HIDE DEF q
<1>4. q \in Seq(Message) /\ IsFiniteSet(Held(q)) /\ Held(q) \subseteq EntryId
  BY <1>3, HeldIsFinite, QueueShape DEF IsQueue
<1>5. Undelivered = DurableOrder(q)
  BY DEF Undelivered, q
<1>6. QED
  BY <1>1, <1>3, <1>4, <1>5, OrderedQueue

(* The messages are handed out anew, when nothing happens to the entries.  *)
LEMMA HandedOut ==
  ASSUME MessageInv, UNCHANGED entry,
         IsQueue(control'), IsQueue(waiting'), IsQueue(taken'),
         Held(control') \cap Held(waiting') = {},
         Held(taken') \cap (Held(control') \cup Held(waiting')) = {},
         Held(control') \cup Held(waiting') \cup Held(taken') \subseteq QueuedEntries
  PROVE  QueuesApart' /\ HeldAreQueued' /\ QueuedEntries' = QueuedEntries
<1>1. QueuedEntries' = QueuedEntries
  BY DEF QueuedEntries
<1>2. \A e \in Held(taken') : entry'[e].status # "absent"
  BY DEF QueuedEntries
<1>3. IsFiniteSet(QueuedEntries)
  BY DEF MessageInv, HeldAreQueued
<1>4. QED
  BY <1>1, <1>2, <1>3 DEF QueuesApart, HeldAreQueued

LEMMA NextPromptMessages ==
  ASSUME TypeOK, MessageInv, NextPrompt PROVE MessageInv'
<1> DEFINE U == Undelivered
           next == IF FollowUpMode = "all" THEN U ELSE <<Head(U)>>
           left == Without(U, next)
           S == OfMode(left, "steer")
           F == OfMode(left, "follow_up")
<1>1. /\ phase = "returned" /\ U # <<>> /\ UNCHANGED entry
      /\ phase' = "starting" /\ prompt' = QueuePrompt(Head(next).id) /\ taken' = Tail(next)
      /\ control' = S /\ waiting' = F
  BY DEF NextPrompt, journal
<1>2. IsQueue(U) /\ Held(U) \subseteq QueuedEntries
  BY <1>1, UndeliveredIs
<1>3. next = U \/ next = <<Head(U)>>
  OBVIOUS
<1> HIDE DEF U
<1>4. IsQueue(next) /\ next # <<>> /\ Items(next) \subseteq Items(U)
  <2>1. CASE next = U
    BY <1>1, <1>2, <2>1
  <2>2. CASE next = <<Head(U)>>
    <3>1. Head(U) \in Items(U) /\ Head(U) \in Message
      BY <1>1, <1>2, ShorterQueue
    <3>2. QED
      BY <2>2, <3>1, SingleQueue
  <2>3. QED
    BY <1>3, <2>1, <2>2
<1> HIDE DEF next
<1>5. /\ Head(next).id \in EntryId /\ Head(next).id \in Held(next) /\ IsQueue(Tail(next))
      /\ Held(Tail(next)) = Held(next) \ {Head(next).id} /\ Held(next) \subseteq Held(U)
  BY <1>4, ShorterQueue DEF Held
<1>6. IsQueue(left) /\ Held(left) = Held(U) \ Held(next)
  <2>1. \A m \in Items(U), k \in Items(next) : m.id = k.id => m = k
    BY <1>2, <1>4, QueueShape
  <2>2. QED
    BY <1>2, <1>4, <2>1, WithoutIs
<1> HIDE DEF left
<1>7. /\ IsQueue(S) /\ Held(S) \subseteq Held(left) /\ Items(S) = {m \in Items(left) : m.mode = "steer"}
      /\ IsQueue(F) /\ Held(F) \subseteq Held(left) /\ Items(F) = {m \in Items(left) : m.mode = "follow_up"}
      /\ \A m, k \in Items(left) : m.id = k.id => m = k
  BY <1>6, OfModeIs, QueueShape
<1> HIDE DEF S, F
<1>8. Held(S) \cap Held(F) = {}
  BY <1>7 DEF Held
<1>9. QueuesApart' /\ HeldAreQueued' /\ QueuedEntries' = QueuedEntries
  BY <1>1, <1>2, <1>5, <1>6, <1>7, <1>8, HandedOut
<1>10. Moments'
  <2>1. prompt'.id = Head(next).id
    BY <1>1 DEF QueuePrompt
  <2>2. prompt'.id \in QueuedEntries /\ prompt'.id \notin Held(control') \cup Held(waiting')
    BY <1>1, <1>2, <1>5, <1>6, <1>7, <2>1
  <2>3. prompt'.id \in EntryId /\ entry'[prompt'.id].status # "absent"
    BY <1>1, <2>2 DEF QueuedEntries
  <2>4. QED
    BY <1>1, <2>2, <2>3 DEF Moments
<1>11. QED
  BY <1>9, <1>10 DEF MessageInv

LEMMA FinishMessages ==
  ASSUME TypeOK, MessageInv, FinishStep PROVE MessageInv'
<1>0. /\ IsQueue(control) /\ IsQueue(waiting) /\ IsQueue(taken)
      /\ Held(control) \cap Held(waiting) = {}
      /\ Held(taken) \cap (Held(control) \cup Held(waiting)) = {}
      /\ Held(control) \cup Held(waiting) \subseteq QueuedEntries
      /\ IsQueue(<<>>) /\ Held(<<>>) = {}
  BY EmptyQueue DEF MessageInv, QueuesApart, HeldAreQueued
<1>1. ASSUME \/ BeginFinish \/ FinishCancels \/ FinishLeavesOpen \/ CompletionRefused
             \/ FinishCommits
      PROVE  MessageInv'
  <2>1. Resting
    BY <1>1 DEF BeginFinish, FinishCancels, FinishLeavesOpen, CompletionRefused, FinishCommits,
       CancelRun, FinishRun, journal, loop, Resting, Turning
  <2>2. QED
    BY <2>1, RestKeeps
<1>2. ASSUME FinishDropsClaim PROVE MessageInv'
  <2>1. PICK e \in Stranded : FinishEntry(e, "cancelled")
    BY <1>2 DEF FinishDropsClaim
  <2>2. e \notin QueuedEntries
    BY <2>1 DEF Stranded, QueuedEntries
  <2>3. UNCHANGED queues /\ phase' \notin Turning
    BY <1>2 DEF FinishDropsClaim, Turning
  <2>4. Passing(e)
    BY <1>0, <2>1, <2>2, <2>3, EntryMoves DEF Passing
  <2>5. QED
    BY <2>4, RestKeeps
<1>3. ASSUME ReturnRun PROVE MessageInv'
  <2>1. CASE outcome = "thrown"
    <3>1. Resting
      BY <1>3, <2>1 DEF ReturnRun, journal, Resting, Turning
    <3>2. QED
      BY <3>1, RestKeeps
  <2>2. CASE outcome # "thrown"
    <3>1. /\ taken' = AsFollowUps(control) /\ control' = <<>> /\ UNCHANGED <<waiting, entry>>
          /\ phase' = "returned"
      BY <1>3, <2>2 DEF ReturnRun, journal
    <3>2. IsQueue(AsFollowUps(control)) /\ Held(AsFollowUps(control)) = Held(control)
      BY <1>0, FollowUpQueue
    <3>3. QueuesApart' /\ HeldAreQueued' /\ QueuedEntries' = QueuedEntries
      BY <1>0, <3>1, <3>2, HandedOut
    <3>4. Moments'
      BY <1>0, <3>1, <3>2, <3>3 DEF Moments
    <3>5. QED
      BY <3>3, <3>4 DEF MessageInv
  <2>3. QED
    BY <2>1, <2>2
<1>4. ASSUME EndCancelled PROVE MessageInv'
  <2>1. /\ control' = taken \o control /\ taken' = <<>> /\ UNCHANGED <<waiting, entry>>
        /\ phase = "returned" /\ phase' = "settling"
    BY <1>4 DEF EndCancelled, journal
  <2>2. Held(taken) \subseteq QueuedEntries
    BY <2>1 DEF MessageInv, Moments
  <2>3. IsQueue(taken \o control) /\ Held(taken \o control) = Held(taken) \cup Held(control)
    <3>1. Held(taken) \cap Held(control) = {}
      BY <1>0
    <3>2. QED
      BY <1>0, <3>1, JoinedQueues
  <2>4. QueuesApart' /\ HeldAreQueued'
    BY <1>0, <2>1, <2>2, <2>3, HandedOut
  <2>5. Moments'
    BY <2>1 DEF Moments
  <2>6. QED
    BY <2>4, <2>5 DEF MessageInv
<1>5. ASSUME EndCall PROVE MessageInv'
  <2>1. /\ control' = Undelivered /\ taken' = <<>> /\ waiting' = <<>> /\ UNCHANGED entry
        /\ phase = "returned" /\ phase' = "settling"
    BY <1>5 DEF EndCall, journal
  <2>2. IsQueue(Undelivered) /\ Held(Undelivered) \subseteq QueuedEntries
    BY <2>1, UndeliveredIs
  <2>3. QueuesApart' /\ HeldAreQueued'
    BY <1>0, <2>1, <2>2, HandedOut
  <2>4. Moments'
    BY <2>1 DEF Moments
  <2>5. QED
    BY <2>3, <2>4 DEF MessageInv
<1>6. ASSUME Settle PROVE MessageInv'
  <2>1. /\ waiting' = waiting \/ waiting' = DurableOrder(waiting \o control)
        /\ control' = <<>> /\ taken' = <<>> /\ UNCHANGED entry /\ phase' = "idle"
    BY <1>6 DEF Settle, journal
  <2>2. IsQueue(waiting \o control) /\ Held(waiting \o control) = Held(waiting) \cup Held(control)
    BY <1>0, JoinedQueues
  <2>3. /\ waiting \o control \in Seq(Message) /\ IsFiniteSet(Held(waiting \o control))
        /\ Held(waiting \o control) \subseteq EntryId
    BY <2>2, HeldIsFinite, QueueShape DEF IsQueue
  <2>4. /\ IsQueue(DurableOrder(waiting \o control))
        /\ Held(DurableOrder(waiting \o control)) = Held(waiting) \cup Held(control)
    BY <2>2, <2>3, OrderedQueue
  <2>5. QueuesApart' /\ HeldAreQueued'
    BY <1>0, <2>1, <2>4, HandedOut
  <2>6. Moments'
    BY <2>1 DEF Moments
  <2>7. QED
    BY <2>5, <2>6 DEF MessageInv
<1>7. QED
  BY <1>1, <1>2, <1>3, <1>4, <1>5, <1>6, NextPromptMessages DEF FinishStep

LEMMA PassMessages ==
  ASSUME TypeOK, MessageInv, PassStep \/ RecoverStep \/ RecoveryAborted PROVE MessageInv'
<1>1. ASSUME \/ RestorePrompt \/ PromptRefused \/ EndDoubt \/ EndRepeat \/ EndReconcile
             \/ RecoverStep \/ RecoveryAborted
      PROVE  Resting
  BY <1>1 DEF RestorePrompt, PromptRefused, EndDoubt, EndRepeat, EndReconcile, RecoverStep,
     Recover, RecoveryAborted, To, Leave, AddNode, still, loop, journal, Resting, Turning
<1>2. ASSUME EffectRecovery PROVE Resting
  BY <1>2 DEF EffectRecovery, Doubt, DoubtRefused, GiveUp, Repeat, Reconcile, Resolve, To,
     Leave, MarkInDoubt, DispatchEffect, StartRecovery, ResolveEffect, Become, still, loop,
     journal, Resting, Turning
<1>3. ASSUME CallRecovery PROVE Resting
  BY <1>3 DEF CallRecovery, RepeatCall, RepeatLost, StillInDoubt, RepeatReturns, Reconciled,
     MarkInDoubt, FinishEffect, ReconcileEffect, Become, still, loop, journal, Resting, Turning
<1>4. ASSUME NEW e \in EntryId, ConsumeMessage(e) PROVE Passing(e)
  <2>1. FinishEntry(e, "consumed") /\ UNCHANGED queues /\ phase' \notin Turning
    BY <1>4 DEF ConsumeMessage, To, still, Turning
  <2>2. QED
    BY <2>1, EntryMoves DEF Passing, MessageInv, HeldAreQueued
<1>5. ASSUME SettleRecovery, ~(\E e \in EntryId : ConsumeMessage(e)) PROVE Resting
  BY <1>5 DEF SettleRecovery, RestoreResult, Reply, RestoreMessage,
     RecoveryCancels, AlreadyCancelled, StaysBlocked, AllResolved, EndResults, EndReplies,
     EndQueues, RecoveryFinishes, To, Leave, AddNode, CancelRun, FinishRun,
     still, loop, journal, Resting, Turning
<1>6. QED
  BY <1>1, <1>2, <1>3, <1>4, <1>5, RestKeeps DEF PassStep

LEMMA MessageStep ==
  ASSUME TypeOK, MessageInv, [SessionNext]_session PROVE MessageInv'
<1>1. ASSUME Crash PROVE MessageInv'
  <2>1. /\ control' = <<>> /\ waiting' = <<>> /\ taken' = <<>> /\ phase' = "closed"
        /\ UNCHANGED entry
    BY <1>1 DEF Crash, journal
  <2>2. QueuesApart' /\ HeldAreQueued'
    BY <2>1, EmptyQueue, HandedOut
  <2>3. Moments'
    BY <2>1 DEF Moments
  <2>4. QED
    BY <2>2, <2>3 DEF MessageInv
<1>2. ASSUME Reopen PROVE MessageInv'
  <2>1. /\ waiting' = InMemory(QueuedEntries) /\ control' = <<>> /\ taken' = <<>>
        /\ phase' = "idle" /\ UNCHANGED entry
    BY <1>2 DEF Reopen, journal, MessageInv, Moments
  <2>2. IsFiniteSet(QueuedEntries) /\ QueuedEntries \subseteq EntryId
    BY DEF MessageInv, HeldAreQueued, QueuedEntries
  <2>3. IsQueue(InMemory(QueuedEntries)) /\ Held(InMemory(QueuedEntries)) = QueuedEntries
    BY <2>2, RestoredQueue
  <2>4. QueuesApart' /\ HeldAreQueued'
    BY <2>1, <2>3, EmptyQueue, HandedOut
  <2>5. Moments'
    BY <2>1 DEF Moments
  <2>6. QED
    BY <2>4, <2>5 DEF MessageInv
<1>3. ASSUME UNCHANGED session PROVE MessageInv'
  <2>1. Resting
    BY <1>3 DEF session, agent, journal, loop, Resting
  <2>2. QED
    BY <2>1, RestKeeps
<1>4. QED
  BY <1>1, <1>2, <1>3, HostMessages, AcceptMessages, DeliverMessages, TurnMessages,
     ToolMessages, FinishMessages, PassMessages DEF SessionNext, ProcessStep, RunLoopStep

LEMMA MessageInvariant == SessionSpec => [](TypeOK /\ MessageInv)
<1>1. SessionInit => TypeOK /\ MessageInv
  <2>1. SUFFICES ASSUME SessionInit PROVE TypeOK /\ MessageInv
    OBVIOUS
  <2>2. /\ Init /\ phase = "idle"
        /\ control = <<>> /\ waiting = <<>> /\ taken = <<>>
    BY <2>1 DEF SessionInit, AgentInit
  <2>3. TypeOK
    BY <2>2, InitialType
  <2>4. QueuedEntries = {}
    BY <2>2 DEF Init, NoEntry, QueuedEntries
  <2>5. QED
    BY <2>2, <2>3, <2>4, EmptyQueue, FS_EmptySet
       DEF MessageInv, QueuesApart, HeldAreQueued, Moments
<1>2. TypeOK /\ MessageInv /\ [SessionNext]_session => TypeOK' /\ MessageInv'
  BY MessageStep, SessionIsJournalled, TypeStep
<1>3. QED
  BY <1>1, <1>2, PTL DEF SessionSpec

(* A queued message is in one place of the process only, once, and what    *)
(* the control queue and #pendingQueuedMessages hold is still to be        *)
(* claimed: through every drain of a queue, return of a run, crash and     *)
(* reopening.                                                              *)
THEOREM HeldOnceHolds == SessionSpec => []HeldOnce
<1>1. MessageInv => HeldOnce
  <2>1. SUFFICES ASSUME MessageInv PROVE HeldOnce
    OBVIOUS
  <2>2. /\ IsQueue(control) /\ IsQueue(waiting) /\ IsQueue(taken)
        /\ Held(control) \cap Held(waiting) = {}
        /\ Held(taken) \cap (Held(control) \cup Held(waiting)) = {}
        /\ Held(control) \cup Held(waiting) \subseteq QueuedEntries
    BY <2>1 DEF MessageInv, QueuesApart, HeldAreQueued
  <2>3. /\ Cardinality(Held(control)) = Len(control)
        /\ Cardinality(Held(waiting)) = Len(waiting)
        /\ Cardinality(Held(taken)) = Len(taken)
    BY <2>2, HeldIsFinite
  <2>4. \A q \in {control, waiting, taken} : Cardinality(Held(q)) = Len(q)
    BY <2>3
  <2>5. QED
    BY <2>2, <2>4 DEF HeldOnce
<1>2. QED
  BY <1>1, MessageInvariant, PTL

-----------------------------------------------------------------------------
(* Queues in the order of their entries.                                   *)

InOrder(q)   == \A i, j \in DOMAIN q : i < j => q[i].id < q[j].id
Before(E, F) == \A e \in E, f \in F : e < f

LEMMA IdsAreNumbers ==
  ASSUME NEW q, IsQueue(q)
  PROVE  /\ Held(q) \subseteq Nat /\ DOMAIN q \subseteq Nat
         /\ \A i \in DOMAIN q : q[i].id \in Nat /\ q[i].id \in Held(q)
<1>1. /\ Len(q) \in Nat /\ DOMAIN q = 1..Len(q) /\ Held(q) \subseteq EntryId
      /\ \A i \in 1..Len(q) : q[i].id \in Held(q)
  BY QueueShape
<1>2. \A i \in DOMAIN q : i \in Nat
  BY <1>1
<1>3. \A e \in Held(q) : e \in Nat
  BY <1>1, EntryAssumption
<1>4. QED
  BY <1>1, <1>2, <1>3

LEMMA NothingHeld ==
  ASSUME NEW q, IsQueue(q), Items(q) = {} \/ Held(q) = {}
  PROVE  q = <<>>
<1>1. q \in Seq(Message) /\ Len(q) \in Nat /\ DOMAIN q = 1..Len(q)
  BY LenProperties DEF IsQueue
<1>2. \A i \in DOMAIN q : q[i] \in Items(q) /\ q[i].id \in Held(q)
  BY DEF Items, Held
<1>3. 1 \notin 1..Len(q)
  BY <1>1, <1>2
<1>4. Len(q) = 0
  BY <1>1, <1>3
<1>5. QED
  BY <1>1, <1>4, EmptySeq

LEMMA SelectedInOrder ==
  ASSUME NEW q, IsQueue(q), InOrder(q), NEW S
  PROVE  InOrder(Among(q, S))
<1> DEFINE kept == Among(q, S)
<1>1. /\ kept \in Seq(Message)
      /\ \E at \in [DOMAIN kept -> DOMAIN q] :
           /\ \A i \in DOMAIN kept : kept[i] = q[at[i]]
           /\ \A i, j \in DOMAIN kept : i < j <=> at[i] < at[j]
  BY AmongIs DEF IsQueue
<1> HIDE DEF kept
<1>2. PICK at \in [DOMAIN kept -> DOMAIN q] :
        /\ \A i \in DOMAIN kept : kept[i] = q[at[i]]
        /\ \A i, j \in DOMAIN kept : i < j <=> at[i] < at[j]
  BY <1>1
<1>3. SUFFICES ASSUME NEW i \in DOMAIN kept, NEW j \in DOMAIN kept, i < j
               PROVE  kept[i].id < kept[j].id
  BY DEF InOrder, kept
<1>4. at[i] \in DOMAIN q /\ at[j] \in DOMAIN q /\ at[i] < at[j]
  BY <1>2, <1>3
<1>5. q[at[i]].id < q[at[j]].id
  BY <1>4 DEF InOrder
<1>6. QED
  BY <1>2, <1>5

LEMMA LongerInOrder ==
  ASSUME NEW q, IsQueue(q), InOrder(q), NEW m \in Message, Before(Held(q), {m.id})
  PROVE  InOrder(Append(q, m))
<1> DEFINE l == Append(q, m)
<1>1. /\ Len(q) \in Nat /\ DOMAIN q = 1..Len(q) /\ DOMAIN l = 1..(Len(q) + 1)
      /\ \A i \in 1..Len(q) : l[i] = q[i]
      /\ l[Len(q) + 1] = m
  BY AppendProperties, LenProperties DEF IsQueue
<1> HIDE DEF l
<1>2. \A i \in DOMAIN q : q[i].id < m.id
  BY DEF Before, Held, Items
<1>3. SUFFICES ASSUME NEW i \in DOMAIN l, NEW j \in DOMAIN l, i < j PROVE l[i].id < l[j].id
  BY DEF InOrder, l
<1>4. i \in DOMAIN q
  BY <1>1, <1>3
<1>5. CASE j \in DOMAIN q
  BY <1>1, <1>3, <1>4, <1>5 DEF InOrder
<1>6. CASE j \notin DOMAIN q
  BY <1>1, <1>2, <1>4, <1>6
<1>7. QED
  BY <1>5, <1>6

LEMMA ShorterInOrder ==
  ASSUME NEW q, IsQueue(q), InOrder(q), q # <<>>
  PROVE  InOrder(Tail(q)) /\ Before({Head(q).id}, Held(Tail(q)))
<1> DEFINE t == Tail(q)
<1>1. /\ q \in Seq(Message) /\ Len(q) \in Nat /\ DOMAIN q = 1..Len(q) /\ Len(q) # 0
  BY LenProperties, EmptySeq DEF IsQueue
<1>2. /\ Head(q) = q[1] /\ t \in Seq(Message) /\ DOMAIN t = 1..(Len(q) - 1)
      /\ \A i \in 1..(Len(q) - 1) : t[i] = q[i + 1]
  BY <1>1, HeadTailProperties, LenProperties
<1>3. \A i \in DOMAIN t : i + 1 \in DOMAIN q /\ t[i] = q[i + 1] /\ 1 < i + 1
  BY <1>1, <1>2
<1>4. 1 \in DOMAIN q /\ DOMAIN t \subseteq Nat
  BY <1>1, <1>2
<1> HIDE DEF t
<1>5. \A i \in DOMAIN t : q[1].id < t[i].id
  BY <1>3, <1>4 DEF InOrder
<1>6. InOrder(t)
  <2>1. SUFFICES ASSUME NEW i \in DOMAIN t, NEW j \in DOMAIN t, i < j PROVE t[i].id < t[j].id
    BY DEF InOrder
  <2>2. i + 1 \in DOMAIN q /\ j + 1 \in DOMAIN q /\ i + 1 < j + 1
    BY <1>3, <1>4, <2>1
  <2>3. q[i + 1].id < q[j + 1].id
    BY <2>2 DEF InOrder
  <2>4. QED
    BY <1>3, <2>3
<1>7. Before({Head(q).id}, Held(t))
  BY <1>2, <1>5 DEF Before, Held, Items
<1>8. QED
  BY <1>6, <1>7 DEF t

LEMMA DurableIsInOrder ==
  ASSUME NEW q \in Seq(Message), IsFiniteSet(Held(q)), Held(q) \subseteq EntryId
  PROVE  InOrder(DurableOrder(q)) /\ Items(DurableOrder(q)) \subseteq Items(q)
<1> DEFINE K == Held(q)
           at == Ascending(K)
           N == Cardinality(K)
           d == DurableOrder(q)
<1>1. /\ N \in Nat /\ at \in [1..N -> K]
      /\ \A i, j \in 1..N : i < j => at[i] < at[j]
  <2> HIDE DEF K
  <2>1. QED
    BY AscendingIs, EntryAssumption DEF K
<1>2. d = [i \in DOMAIN at |-> CHOOSE m \in Items(q) : m.id = at[i]]
  BY DEF DurableOrder
<1> HIDE DEF at, N, d
<1>3. DOMAIN d = 1..N
  BY <1>1, <1>2
<1>4. \A i \in 1..N : d[i] \in Items(q) /\ d[i].id = at[i]
  <2>1. SUFFICES ASSUME NEW i \in 1..N PROVE d[i] \in Items(q) /\ d[i].id = at[i]
    OBVIOUS
  <2>2. at[i] \in K /\ d[i] = CHOOSE m \in Items(q) : m.id = at[i]
    BY <1>1, <1>2
  <2>3. \E m \in Items(q) : m.id = at[i]
    BY <2>2 DEF Held
  <2>4. QED
    BY <2>2, <2>3
<1>5. InOrder(d)
  BY <1>1, <1>3, <1>4 DEF InOrder
<1>6. Items(d) \subseteq Items(q)
  <2>1. \A i \in DOMAIN d : d[i] \in Items(q)
    BY <1>3, <1>4
  <2>2. QED
    BY <2>1 DEF Items
<1>7. QED
  BY <1>5, <1>6 DEF d

LEMMA RestoredIsInOrder ==
  ASSUME NEW E, IsFiniteSet(E), E \subseteq EntryId
  PROVE  /\ InOrder(InMemory(E))
         /\ \A m \in Items(InMemory(E)) : \E e \in E : m = Restored(e)
<1> DEFINE at == Ascending(E)
           N == Cardinality(E)
           d == InMemory(E)
<1>1. /\ N \in Nat /\ at \in [1..N -> E]
      /\ \A i, j \in 1..N : i < j => at[i] < at[j]
  BY AscendingIs, EntryAssumption
<1>2. d = [i \in DOMAIN at |-> Restored(at[i])]
  BY DEF InMemory
<1> HIDE DEF at, N, d
<1>3. DOMAIN d = 1..N /\ \A i \in 1..N : at[i] \in E /\ d[i] = Restored(at[i])
  BY <1>1, <1>2
<1>4. \A i \in 1..N : d[i].id = at[i]
  BY <1>3 DEF Restored
<1>5. InOrder(d)
  BY <1>1, <1>3, <1>4 DEF InOrder
<1>6. QED
  BY <1>3, <1>5 DEF Items, d

(* A set of numbers has a smallest.                                        *)
LEMMA SmallestIs ==
  ASSUME NEW E \in SUBSET Nat, E # {}
  PROVE  \E e \in E : \A f \in E : e <= f
<1>1. PICK e \in E : \A f \in E : ~(<<f, e>> \in OpToRel(<, Nat))
  BY WFMin, NatLessThanWellFounded
<1>2. \A f \in E : <<f, e>> \in Nat \X Nat /\ (f < e => <<f, e>> \in OpToRel(<, Nat))
  BY DEF OpToRel
<1>3. \A f \in E : ~(f < e)
  BY <1>1, <1>2
<1>4. QED
  BY <1>3

-----------------------------------------------------------------------------
(* Entries are added by the calls that queue a message and by nothing else.*)
Unborn ==
  \A e \in EntryId : entry'[e].status # "absent" => entry[e].status # "absent"

LEMMA EntriesMove ==
  ASSUME TypeOK,
         \/ UNCHANGED entry
         \/ \E e, o : ClaimEntry(e, o) \/ AcceptQueuedRun(o, e)
         \/ \E e, x : FinishEntry(e, x)
  PROVE  Unborn
<1>1. ASSUME NEW e \in EntryId, entry[e].status # "absent", NEW v,
             entry' = [entry EXCEPT ![e] = v]
      PROVE  Unborn
  BY <1>1 DEF Unborn, TypeOK
<1>2. ASSUME NEW e, NEW o, ClaimEntry(e, o) \/ AcceptQueuedRun(o, e) PROVE Unborn
  BY <1>1, <1>2 DEF ClaimEntry, CanClaim, AcceptQueuedRun
<1>3. ASSUME NEW e, NEW x, FinishEntry(e, x) PROVE Unborn
  BY <1>1, <1>3 DEF FinishEntry, CanConsume, CanCancelEntry
<1>4. CASE UNCHANGED entry
  BY <1>4 DEF Unborn
<1>5. QED
  BY <1>2, <1>3, <1>4

LEMMA RunLoopBirths == ASSUME TypeOK, RunLoopStep PROVE Unborn
<1>1. ASSUME AcceptStep PROVE Unborn
  <2>1. CASE Accept
    BY <2>1, EntriesMove DEF Accept, AcceptRun
  <2>2. CASE ConsumePrompt
    BY <2>2, EntriesMove DEF ConsumePrompt
  <2>3. CASE AcceptRefused \/ StartFails \/ RecordAbort \/ AppendPrompt
    <3>1. UNCHANGED entry
      BY <2>3 DEF AcceptRefused, StartFails, RecordAbort, AppendPrompt, AddNode, CancelRun, journal
    <3>2. QED
      BY <3>1, EntriesMove
  <2>4. QED
    BY <1>1, <2>1, <2>2, <2>3 DEF AcceptStep
<1>2. ASSUME DeliverStep PROVE Unborn
  <2>1. CASE BeginDelivery
    BY <2>1, EntriesMove DEF BeginDelivery
  <2>2. CASE EndDelivery
    BY <2>2, EntriesMove DEF EndDelivery
  <2>3. CASE ClaimRefused \/ AppendDelivery \/ AllDelivered
    <3>1. UNCHANGED entry
      BY <2>3 DEF ClaimRefused, AppendDelivery, AllDelivered, AddNode, journal
    <3>2. QED
      BY <3>1, EntriesMove
  <2>4. QED
    BY <1>2, <2>1, <2>2, <2>3 DEF DeliverStep
<1>3. ASSUME TurnStep PROVE Unborn
  <2>1. UNCHANGED entry
    BY <1>3 DEF TurnStep, TakeTurn, Ask, AttemptFails, Retry, Respond, AnswerWithoutCalls, Pause,
       PlanTools, AnswerCalls, StartStep, StartAttempt, AddNode, journal
  <2>2. QED
    BY <2>1, EntriesMove
<1>4. ASSUME ToolStep \/ FaultStep PROVE Unborn
  <2>1. UNCHANGED entry
    BY <1>4 DEF ToolStep, RefuseTool, PrepareTool, DispatchTool, CallTool, ToolNotCalled,
       ToolReturns, PrepareEffect, DispatchEffect, FinishEffect, Become, FaultStep, NoticeAbort,
       Throw, ProviderFails, StepLimit, journal
  <2>2. QED
    BY <2>1, EntriesMove
<1>5. ASSUME FinishStep PROVE Unborn
  <2>1. CASE FinishDropsClaim
    BY <2>1, EntriesMove DEF FinishDropsClaim
  <2>2. CASE ~FinishDropsClaim
    <3>1. UNCHANGED entry
      BY <1>5, <2>2 DEF FinishStep, BeginFinish, FinishCancels, FinishLeavesOpen,
         CompletionRefused, FinishCommits, ReturnRun, EndCancelled, EndCall, NextPrompt, Settle,
         CancelRun, FinishRun, journal
    <3>2. QED
      BY <3>1, EntriesMove
  <2>3. QED
    BY <2>1, <2>2
<1>6. QED
  BY <1>1, <1>2, <1>3, <1>4, <1>5 DEF RunLoopStep

LEMMA PassBirths == ASSUME TypeOK, PassStep PROVE Unborn
<1>1. ASSUME \/ RestorePrompt \/ PromptRefused \/ EndDoubt \/ EndRepeat \/ EndReconcile
      PROVE  UNCHANGED entry
  BY <1>1 DEF RestorePrompt, PromptRefused, EndDoubt, EndRepeat, EndReconcile, AddNode, journal
<1>2. ASSUME EffectRecovery \/ CallRecovery PROVE UNCHANGED entry
  BY <1>2 DEF EffectRecovery, Doubt, DoubtRefused, GiveUp, Repeat, Reconcile, Resolve,
     CallRecovery, RepeatCall, RepeatLost, StillInDoubt, RepeatReturns, Reconciled,
     MarkInDoubt, DispatchEffect, FinishEffect, StartRecovery, ResolveEffect, ReconcileEffect,
     Become, journal
<1>3. ASSUME NEW e \in EntryId, ConsumeMessage(e) PROVE Unborn
  BY <1>3, EntriesMove DEF ConsumeMessage
<1>4. ASSUME SettleRecovery, ~(\E e \in EntryId : ConsumeMessage(e)) PROVE UNCHANGED entry
  BY <1>4 DEF SettleRecovery, RestoreResult, Reply, RestoreMessage,
     RecoveryCancels, AlreadyCancelled, StaysBlocked, AllResolved, EndResults, EndReplies,
     EndQueues, RecoveryFinishes, AddNode, CancelRun, FinishRun, journal
<1>5. QED
  BY <1>1, <1>2, <1>3, <1>4, EntriesMove DEF PassStep

LEMMA Births ==
  ASSUME TypeOK, [SessionNext]_session
  PROVE  Unborn \/ \E mode \in QueueModes : Queue(mode)
<1>1. ASSUME RecoverStep \/ RecoveryAborted \/ Crash \/ Reopen \/ UNCHANGED session
      PROVE  UNCHANGED entry
  BY <1>1 DEF RecoverStep, Recover, RecoveryAborted, Crash, Reopen, session, agent, journal
<1>2. ASSUME Prompt \/ Continue \/ Abort \/ CancelRetry PROVE UNCHANGED entry
  BY <1>2 DEF Prompt, Continue, Begin, Abort, CancelRetry, CancelRun, journal
<1>3. ASSUME Dequeue PROVE Unborn
  BY <1>3, EntriesMove DEF Dequeue
<1>4. QED
  BY <1>1, <1>2, <1>3, EntriesMove, RunLoopBirths, PassBirths DEF SessionNext, HostStep, ProcessStep

(* What was added earlier has the smaller number, and is listed before; a  *)
(* process that only queues follow-ups adds nothing else.                  *)
Ascends(s) == \A i, j \in DOMAIN s : i < j => s[i] < s[j]

EntriesInOrder ==
  /\ \A e, f \in EntryId : entry[e].status # "absent" /\ entry[f].status = "absent" => e < f
  /\ \A e \in EntryId : entry[e].status # "absent" => entry[e].kind = "follow_up"
  /\ Ascends(pending["follow_up"])

LEMMA LongerAscends ==
  ASSUME NEW s \in Seq(EntryId), Ascends(s), NEW e \in EntryId, \A i \in DOMAIN s : s[i] < e
  PROVE  Ascends(Append(s, e))
<1> DEFINE l == Append(s, e)
<1>1. /\ Len(s) \in Nat /\ DOMAIN s = 1..Len(s) /\ DOMAIN l = 1..(Len(s) + 1)
      /\ \A i \in 1..Len(s) : l[i] = s[i]
      /\ l[Len(s) + 1] = e
  BY AppendProperties, LenProperties
<1> HIDE DEF l
<1>2. SUFFICES ASSUME NEW i \in DOMAIN l, NEW j \in DOMAIN l, i < j PROVE l[i] < l[j]
  BY DEF Ascends, l
<1>3. i \in DOMAIN s
  BY <1>1, <1>2
<1>4. CASE j \in DOMAIN s
  BY <1>1, <1>2, <1>3, <1>4 DEF Ascends
<1>5. CASE j \notin DOMAIN s
  BY <1>1, <1>3, <1>5
<1>6. QED
  BY <1>4, <1>5

LEMMA DroppedAscends ==
  ASSUME NEW s \in Seq(EntryId), Ascends(s), NEW d \in DOMAIN s
  PROVE  Ascends(DropAt(s, d))
<1> DEFINE l == DropAt(s, d)
<1>1. /\ Len(s) \in Nat /\ DOMAIN s = 1..Len(s)
      /\ DOMAIN l = 1..(Len(s) - 1)
      /\ \A j \in DOMAIN l : l[j] = IF j < d THEN s[j] ELSE s[j + 1]
  BY LenProperties, DropAtElements
<1> HIDE DEF l
<1>2. SUFFICES ASSUME NEW i \in DOMAIN l, NEW j \in DOMAIN l, i < j PROVE l[i] < l[j]
  BY DEF Ascends, l
<1>3. i \in DOMAIN s /\ i + 1 \in DOMAIN s /\ j \in DOMAIN s /\ j + 1 \in DOMAIN s /\ i + 1 < j + 1
  BY <1>1, <1>2
<1>4. /\ s[i] < s[j] /\ s[i + 1] < s[j + 1]
      /\ i < j + 1 => s[i] < s[j + 1]
  BY <1>2, <1>3 DEF Ascends
<1>5. i < j + 1 /\ (j < d => i < d) /\ d \in Nat
  BY <1>1, <1>2, <1>3
<1>6. QED
  BY <1>1, <1>2, <1>4, <1>5

LEMMA QueuedIsNew ==
  ASSUME TypeOK, EntriesInOrder, NEW mode, Queue(mode)
  PROVE  /\ NewEntry \in EntryId /\ entry[NewEntry].status = "absent"
         /\ \A e \in EntryId : entry[e].status # "absent" => e < NewEntry
         /\ \A e \in EntryId : entry[e].status = "absent" /\ e # NewEntry => NewEntry < e
<1>1. NewEntry \in EntryId /\ entry[NewEntry].status = "absent"
  BY DEF Queue, AddEntry
<1>2. UnusedEntries \in SUBSET Nat /\ UnusedEntries # {}
  BY <1>1, EntryAssumption DEF UnusedEntries
<1>3. \E e \in UnusedEntries : \A f \in UnusedEntries : e <= f
  BY <1>2, SmallestIs
<1>4. \A f \in UnusedEntries : NewEntry <= f
  BY <1>3 DEF NewEntry
<1>5. \A e \in EntryId : entry[e].status = "absent" /\ e # NewEntry => NewEntry < e
  <2>1. SUFFICES ASSUME NEW e \in EntryId, entry[e].status = "absent", e # NewEntry
                 PROVE  NewEntry < e
    OBVIOUS
  <2>2. NewEntry <= e
    BY <1>4, <2>1 DEF UnusedEntries
  <2>3. e \in Nat /\ NewEntry \in Nat
    BY <1>1, EntryAssumption
  <2>4. QED
    BY <2>1, <2>2, <2>3
<1>6. QED
  BY <1>1, <1>5 DEF EntriesInOrder

LEMMA PendingAreAdded ==
  ASSUME TypeOK, PendingIsOwed, NEW i \in DOMAIN pending["follow_up"]
  PROVE  /\ pending["follow_up"][i] \in EntryId
         /\ entry[pending["follow_up"][i]].kind = "follow_up"
         /\ entry[pending["follow_up"][i]].status \in {"queued", "claimed"}
<1>1. "follow_up" \in Kinds
  BY DEF Kinds
<1>2. {pending["follow_up"][j] : j \in DOMAIN pending["follow_up"]} =
        {e \in EntryId : entry[e].kind = "follow_up" /\ entry[e].status \in {"queued", "claimed"}}
  BY <1>1 DEF PendingIsOwed
<1>3. QED
  BY <1>2

LEMMA EntriesInOrderStep ==
  ASSUME QueueModes \subseteq {"follow_up"}, TypeOK, PendingIsOwed, EntriesInOrder,
         [SessionNext]_session
  PROVE  EntriesInOrder'
<1>1. pending["follow_up"] \in Seq(EntryId) /\ pending \in [Kinds -> Seq(EntryId)]
  BY DEF TypeOK, Kinds
<1>2. ASSUME Queue("follow_up") PROVE EntriesInOrder'
  <2>1. AddEntry(NewEntry, NewNode, "follow_up")
    BY <1>2 DEF Queue
  <2>2. /\ NewEntry \in EntryId /\ entry[NewEntry].status = "absent"
        /\ \A e \in EntryId : entry[e].status # "absent" => e < NewEntry
        /\ \A e \in EntryId : entry[e].status = "absent" /\ e # NewEntry => NewEntry < e
    BY <1>2, QueuedIsNew
  <2>3. /\ entry'[NewEntry].status = "queued" /\ entry'[NewEntry].kind = "follow_up"
        /\ \A e \in EntryId : e # NewEntry => entry'[e] = entry[e]
    BY <2>1 DEF AddEntry, TypeOK
  <2>4. pending'["follow_up"] = Append(pending["follow_up"], NewEntry)
    BY <1>1, <2>1 DEF AddEntry, Kinds
  <2>5. \A i \in DOMAIN pending["follow_up"] : pending["follow_up"][i] < NewEntry
    <3>1. SUFFICES ASSUME NEW i \in DOMAIN pending["follow_up"]
                   PROVE  pending["follow_up"][i] < NewEntry
      OBVIOUS
    <3>2. /\ pending["follow_up"][i] \in EntryId
          /\ entry[pending["follow_up"][i]].status \in {"queued", "claimed"}
      BY PendingAreAdded
    <3>3. QED
      BY <2>2, <3>2
  <2>6. Ascends(pending'["follow_up"])
    BY <1>1, <2>2, <2>4, <2>5, LongerAscends DEF EntriesInOrder
  <2>7. \A e, f \in EntryId : entry'[e].status # "absent" /\ entry'[f].status = "absent" => e < f
    <3>1. SUFFICES ASSUME NEW e \in EntryId, NEW f \in EntryId,
                          entry'[e].status # "absent", entry'[f].status = "absent"
                   PROVE  e < f
      OBVIOUS
    <3>2. f # NewEntry /\ entry[f].status = "absent"
      BY <2>3, <3>1
    <3>3. CASE e = NewEntry
      BY <2>2, <3>2, <3>3
    <3>4. CASE e # NewEntry
      BY <2>3, <3>1, <3>2, <3>4 DEF EntriesInOrder
    <3>5. QED
      BY <3>3, <3>4
  <2>8. \A e \in EntryId : entry'[e].status # "absent" => entry'[e].kind = "follow_up"
    BY <2>3 DEF EntriesInOrder
  <2>9. QED
    BY <2>6, <2>7, <2>8 DEF EntriesInOrder
<1>3. ASSUME Unborn,
             \A e \in EntryId :
               /\ entry'[e].kind = entry[e].kind
               /\ entry[e].status # "absent" => entry'[e].status # "absent",
             Ascends(pending'["follow_up"])
      PROVE  EntriesInOrder'
  <2>1. \A e \in EntryId : entry'[e].status = "absent" <=> entry[e].status = "absent"
    BY <1>3 DEF Unborn
  <2>2. QED
    BY <1>3, <2>1 DEF EntriesInOrder
<1>4. ASSUME Unborn, Next PROVE EntriesInOrder'
  <2>1. CASE UNCHANGED <<pending, entry>>
    BY <2>1 DEF EntriesInOrder
  <2>2. ASSUME NEW e \in EntryId, NEW n \in NodeId, NEW k \in Kinds, AddEntry(e, n, k)
        PROVE  FALSE
    BY <1>4, <2>2 DEF AddEntry, Unborn, TypeOK
  <2>3. ASSUME NEW e \in EntryId, NEW o \in OpId,
               entry[e].status = "queued",
               entry' = [entry EXCEPT ![e] = [@ EXCEPT !.status = "claimed", !.op = o]],
               UNCHANGED pending
        PROVE  EntriesInOrder'
    <3>1. \A f \in EntryId :
            /\ entry'[f].kind = entry[f].kind
            /\ entry[f].status # "absent" => entry'[f].status # "absent"
      BY <2>3 DEF TypeOK, Entry
    <3>2. Ascends(pending'["follow_up"])
      BY <2>3 DEF EntriesInOrder
    <3>3. QED
      BY <1>3, <1>4, <3>1, <3>2
  <2>4. ASSUME NEW e \in EntryId, NEW how \in {"consumed", "cancelled"},
               FinishEntry(e, how)
        PROVE  EntriesInOrder'
    <3>1. \A f \in EntryId :
            /\ entry'[f].kind = entry[f].kind
            /\ entry[f].status # "absent" => entry'[f].status # "absent"
      BY <2>4 DEF FinishEntry, TypeOK, Entry
    <3>2. Ascends(pending'["follow_up"])
      <4>1. entry[e].kind \in Kinds
        BY DEF TypeOK, Entry
      <4>2. PICK i \in DOMAIN pending[entry[e].kind] :
              pending' = [pending EXCEPT ![entry[e].kind] = DropAt(@, i)]
        BY <2>4 DEF FinishEntry
      <4>3. CASE entry[e].kind = "follow_up"
        <5>1. pending'["follow_up"] = DropAt(pending["follow_up"], i) /\ i \in DOMAIN pending["follow_up"]
          BY <1>1, <4>1, <4>2, <4>3
        <5>2. QED
          BY <1>1, <5>1, DroppedAscends DEF EntriesInOrder
      <4>4. CASE entry[e].kind # "follow_up"
        <5>1. pending'["follow_up"] = pending["follow_up"]
          BY <1>1, <4>1, <4>2, <4>4 DEF Kinds
        <5>2. QED
          BY <5>1 DEF EntriesInOrder
      <4>5. QED
        BY <4>3, <4>4
    <3>3. QED
      BY <1>3, <1>4, <3>1, <3>2
  <2>5. QED
    BY <1>4, <2>1, <2>2, <2>3, <2>4, QueueCases
<1>5. CASE UNCHANGED journal
  BY <1>5 DEF journal, EntriesInOrder
<1>6. QED
  BY <1>2, <1>4, <1>5, Births, SessionIsJournalled

(* The oldest message that is owed is listed first.                        *)
LEMMA OldestIsFirst ==
  ASSUME TypeOK, PendingIsOwed, EntriesInOrder, NEW e \in QueuedEntries,
         \A f \in EntryId : entry[f].status \in {"queued", "claimed"} => e <= f
  PROVE  First(entry[e].kind, e)
<1> DEFINE s == pending["follow_up"]
<1>1. /\ e \in EntryId /\ entry[e].status = "queued" /\ entry[e].kind = "follow_up"
  BY DEF QueuedEntries, EntriesInOrder
<1>2. s \in Seq(EntryId) /\ Len(s) \in Nat /\ DOMAIN s = 1..Len(s)
  BY LenProperties DEF TypeOK, Kinds
<1>3. PICK i \in DOMAIN s : s[i] = e
  <2>1. "follow_up" \in Kinds
    BY DEF Kinds
  <2>2. e \in {s[i] : i \in DOMAIN s}
    BY <1>1, <2>1 DEF PendingIsOwed
  <2>3. QED
    BY <2>2
<1>4. 1 \in DOMAIN s /\ 1 <= i /\ i \in Nat
  BY <1>2
<1>5. s[1] \in EntryId /\ entry[s[1]].status \in {"queued", "claimed"}
  BY <1>4, PendingAreAdded
<1>6. e <= s[1] /\ e \in Nat /\ s[1] \in Nat
  BY <1>1, <1>5, EntryAssumption
<1>7. 1 < i => s[1] < e
  BY <1>3, <1>4 DEF EntriesInOrder, Ascends
<1>8. i = 1
  BY <1>4, <1>6, <1>7
<1>9. s # <<>>
  BY <1>2, <1>4, EmptySeq
<1>10. QED
  BY <1>1, <1>3, <1>8, <1>9 DEF First

(* An entry that is queued was queued before or is added.                  *)
LEMMA StillQueued ==
  ASSUME TypeOK, Next, NEW e \in EntryId, entry'[e].status = "queued"
  PROVE  \/ entry[e].status = "queued" /\ entry'[e].target = entry[e].target
         \/ \E f \in EntryId, n \in NodeId, k \in Kinds : AddEntry(f, n, k)
<1>1. CASE UNCHANGED <<pending, entry>>
  BY <1>1
<1>2. ASSUME NEW f \in EntryId, NEW x \in {"claimed", "consumed", "cancelled"},
             entry'[f].status = x, f # e => entry'[e] = entry[e]
      PROVE  entry[e].status = "queued" /\ entry'[e].target = entry[e].target
  BY <1>2
<1>3. ASSUME NEW f \in EntryId, NEW o \in OpId,
             entry' = [entry EXCEPT ![f] = [@ EXCEPT !.status = "claimed", !.op = o]]
      PROVE  entry[e].status = "queued" /\ entry'[e].target = entry[e].target
  <2>1. entry'[f].status = "claimed" /\ (f # e => entry'[e] = entry[e])
    BY <1>3 DEF TypeOK, Entry
  <2>2. QED
    BY <1>2, <2>1
<1>4. ASSUME NEW f \in EntryId, NEW how \in {"consumed", "cancelled"}, FinishEntry(f, how)
      PROVE  entry[e].status = "queued" /\ entry'[e].target = entry[e].target
  <2>1. entry' = [entry EXCEPT ![f].status = how]
    BY <1>4 DEF FinishEntry
  <2>2. entry'[f].status = how /\ (f # e => entry'[e] = entry[e])
    BY <2>1 DEF TypeOK, Entry
  <2>3. QED
    BY <1>2, <2>2
<1>5. QED
  BY <1>1, <1>3, <1>4, QueueCases

(* The message a queue entry reserves is the prompt of no run before the   *)
(* entry is claimed.                                                       *)
Unprompted == \A e \in QueuedEntries : PromptOf(entry[e].target) = {}

LEMMA UnpromptedStep ==
  ASSUME TypeOK, OneOpenRun, Reserved, TargetsDistinct, Unprompted, [Next]_journal
  PROVE  Unprompted'
<1>1. SUFFICES ASSUME Next, NEW e \in EntryId, entry'[e].status = "queued",
                      NEW o \in OpId, op'[o].status # "absent", op'[o].prompt = entry'[e].target
               PROVE  FALSE
  BY DEF Unprompted, QueuedEntries, PromptOf, journal
<1>2. CASE UNCHANGED op
  <2>1. CASE entry[e].status = "queued"
    <3>1. entry'[e].target = entry[e].target
      BY <1>1, <2>1, StillQueued DEF AddEntry, TypeOK
    <3>2. QED
      BY <1>1, <1>2, <2>1, <3>1 DEF Unprompted, QueuedEntries, PromptOf
  <2>2. CASE entry[e].status # "queued"
    <3>1. PICK f \in EntryId, n \in NodeId, k \in Kinds : AddEntry(f, n, k)
      BY <1>1, <2>2, StillQueued
    <3>2. f = e /\ entry'[e].target = n /\ PromptOf(n) = {}
      BY <1>1, <2>2, <3>1 DEF AddEntry, FreshNode, TypeOK
    <3>3. QED
      BY <1>1, <1>2, <3>2 DEF PromptOf
  <2>3. QED
    BY <2>1, <2>2
<1>3. CASE op' # op
  <2>1. PICK x \in OpId :
          \/ \E q \in NodeId \cup {None} : AcceptRun(x, q)
          \/ \E f \in EntryId : AcceptQueuedRun(x, f)
          \/ SelectStep(x) \/ StartStep(x)
          \/ \E s \in 0..op[x].selected, a \in 1..MaxAttempts : StartAttempt(x, s, a)
          \/ CancelRun(x)
          \/ \E how \in Outcomes : FinishRun(x, how)
    BY <1>1, <1>3, NodeStepFrame, QueueStepFrame, EffectStepFrame DEF Next, RunStep
  <2>2. ASSUME NEW q \in NodeId \cup {None}, AcceptRun(x, q) PROVE FALSE
    <3>1. entry' = entry /\ op' = [op EXCEPT ![x] = Accepted(q)]
      BY <2>2 DEF AcceptRun
    <3>2. o = x
      BY <1>1, <3>1 DEF Unprompted, QueuedEntries, PromptOf, TypeOK
    <3>3. op'[o].prompt = q /\ q = entry[e].target
      BY <1>1, <3>1, <3>2 DEF Accepted, NoOperation, TypeOK
    <3>4. q # None => QueuedFor(q) = {}
      BY <2>2 DEF AcceptRun, FreshNode
    <3>5. q = None
      BY <1>1, <3>1, <3>3, <3>4 DEF QueuedFor
    <3>6. entry[e].target \in NodeId
      BY <1>1, <3>1 DEF Reserved
    <3>7. QED
      BY <3>3, <3>5, <3>6, IdAssumption
  <2>3. ASSUME NEW f \in EntryId, AcceptQueuedRun(x, f) PROVE FALSE
    <3>1. /\ entry[f].status = "queued" /\ op' = [op EXCEPT ![x] = Accepted(entry[f].target)]
          /\ entry' = [entry EXCEPT ![f] = [@ EXCEPT !.status = "claimed", !.op = x]]
      BY <2>3 DEF AcceptQueuedRun
    <3>2. e # f /\ entry'[e] = entry[e] /\ entry[e].status = "queued"
      BY <1>1, <3>1 DEF TypeOK, Entry
    <3>3. o = x
      BY <1>1, <3>1, <3>2 DEF Unprompted, QueuedEntries, PromptOf, TypeOK
    <3>4. op'[o].prompt = entry[f].target
      BY <3>1, <3>3 DEF Accepted, NoOperation, TypeOK
    <3>5. QED
      BY <1>1, <3>1, <3>2, <3>4 DEF TargetsDistinct
  <2>4. ASSUME \/ SelectStep(x) \/ StartStep(x)
               \/ \E s \in 0..op[x].selected, a \in 1..MaxAttempts : StartAttempt(x, s, a)
               \/ CancelRun(x)
               \/ \E how \in Outcomes : FinishRun(x, how)
        PROVE  FALSE
    <3>1. entry' = entry /\ open = x
      BY <2>4 DEF SelectStep, CanSelectStep, StartStep, StartAttempt, CancelRun, FinishRun,
         CanFinishRun, IsOpen
    <3>2. op[x].status # "absent"
      BY <3>1 DEF OneOpenRun
    <3>3. op'[o].prompt = op[o].prompt /\ (o # x => op'[o] = op[o])
      <4>1. CASE SelectStep(x) \/ StartStep(x) \/ CancelRun(x)
        <5>1. PICK v : op' = [op EXCEPT ![x] = v] /\ v.prompt = op[x].prompt
          <6>1. op[x] \in Operation
            BY DEF TypeOK
          <6>2. QED
            BY <4>1, <6>1 DEF SelectStep, StartStep, CancelRun, Operation
        <5>2. QED
          BY <5>1 DEF TypeOK
      <4>2. ASSUME NEW s, NEW a, StartAttempt(x, s, a)
            PROVE  op'[o].prompt = op[o].prompt /\ (o # x => op'[o] = op[o])
        <5>1. op' = [op EXCEPT ![x] = [@ EXCEPT !.step = s, !.attempt = a, !.status = "running"]]
          BY <4>2 DEF StartAttempt
        <5>2. QED
          BY <5>1 DEF TypeOK, Operation
      <4>3. ASSUME NEW how, FinishRun(x, how)
            PROVE  op'[o].prompt = op[o].prompt /\ (o # x => op'[o] = op[o])
        <5>1. op' = [op EXCEPT ![x].status = how]
          BY <4>3 DEF FinishRun
        <5>2. QED
          BY <5>1 DEF TypeOK, Operation
      <4>4. QED
        BY <2>4, <4>1, <4>2, <4>3
    <3>4. QED
      BY <1>1, <3>1, <3>2, <3>3 DEF Unprompted, QueuedEntries, PromptOf
  <2>5. QED
    BY <2>1, <2>2, <2>3, <2>4
<1>4. QED
  BY <1>2, <1>3

-----------------------------------------------------------------------------
(* A host that queues follow-ups only, nothing that throws, and either     *)
(* messages that are delivered one at a time or no abort.  None of it can  *)
(* be left out: steering that is left over waits as a follow-up under a    *)
(* durable kind that is not its own; a hook that throws before the run is  *)
(* accepted forgets the queued prompt it had started from; and an abort    *)
(* forgets what the run took together with the message it delivers first.  *)
FollowUpsAlone ==
  /\ QueueModes \subseteq {"follow_up"}
  /\ MaxThrows = 0
  /\ FollowUpMode = "one-at-a-time" \/ MaxAborts = 0

Calm ==
  /\ throws = 0 /\ customs = {}
  /\ MaxAborts = 0 => aborts = 0 /\ ~aborted

LEMMA CalmRests ==
  ASSUME Calm, UNCHANGED <<throws, customs>>,
         \/ UNCHANGED <<aborts, aborted>>
         \/ aborts' = aborts /\ ~aborted'
         \/ MaxAborts # 0
  PROVE  Calm'
  BY DEF Calm

LEMMA CalmStep ==
  ASSUME FollowUpsAlone, Calm, [SessionNext]_session
  PROVE  Calm'
<1> USE DEF FollowUpsAlone
<1>1. ASSUME NEW mode \in QueueModes, Queue(mode) PROVE Calm'
  <2>1. mode # "custom"
    OBVIOUS
  <2>2. UNCHANGED <<throws, customs, aborts, aborted>>
    BY <1>1, <2>1 DEF Queue, counts, loop
  <2>3. QED
    BY <2>2, CalmRests
<1>2. ASSUME Abort PROVE Calm'
  <2>1. MaxAborts # 0
    BY <1>2 DEF Abort, Calm
  <2>2. QED
    BY <1>2, <2>1, CalmRests DEF Abort, text
<1>3. ASSUME RecoveryAborted PROVE Calm'
  <2>1. MaxAborts # 0
    BY <1>3 DEF RecoveryAborted, Calm
  <2>2. QED
    BY <1>3, <2>1, CalmRests DEF RecoveryAborted, Leave, text
<1>4. ASSUME Dequeue \/ Prompt \/ Continue \/ CancelRetry PROVE Calm'
  BY <1>4, CalmRests DEF Dequeue, Prompt, Continue, Begin, CancelRetry, Close, counts, loop, text
<1>5. ASSUME StartFails \/ Throw \/ RepeatLost \/ \E t : ToolNotCalled(t) PROVE FALSE
  BY <1>5 DEF StartFails, Throw, RepeatLost, ToolNotCalled, Calm
<1>6. ASSUME AcceptStep PROVE Calm'
  BY <1>5, <1>6, CalmRests DEF AcceptStep, Accept, AcceptRefused, RecordAbort, AppendPrompt,
     ConsumePrompt, counts, loop, text
<1>7. ASSUME DeliverStep PROVE Calm'
  BY <1>7, CalmRests DEF DeliverStep, BeginDelivery, ClaimRefused, AppendDelivery, EndDelivery,
     AllDelivered, Close, counts, loop, text
<1>8. ASSUME TurnStep PROVE Calm'
  BY <1>8, CalmRests DEF TurnStep, TakeTurn, Ask, AttemptFails, Retry, Respond,
     AnswerWithoutCalls, Onward, Pause, PlanTools, AnswerCalls, counts, loop, text
<1>9. ASSUME ToolStep PROVE Calm'
  BY <1>5, <1>9, CalmRests DEF ToolStep, RefuseTool, PrepareTool, DispatchTool, CallTool,
     ToolReturns, Close, counts, loop, text
<1>10. ASSUME FaultStep PROVE Calm'
  BY <1>5, <1>10, CalmRests DEF FaultStep, NoticeAbort, ProviderFails, StepLimit, Close, counts, text
<1>11. ASSUME FinishStep PROVE Calm'
  BY <1>11, CalmRests DEF FinishStep, BeginFinish, FinishCancels, FinishDropsClaim,
     FinishLeavesOpen, CompletionRefused, FinishCommits, ReturnRun, EndCancelled, EndCall,
     NextPrompt, Settle, counts, loop, text
<1>12. ASSUME PassStep PROVE Calm'
  <2>1. UNCHANGED <<throws, customs, aborts, aborted>>
    <3>1. CASE \/ RestorePrompt \/ PromptRefused \/ EndDoubt \/ EndRepeat \/ EndReconcile
      BY <3>1 DEF RestorePrompt, PromptRefused, EndDoubt, EndRepeat, EndReconcile, To, Leave,
         still, text, loop
    <3>2. CASE EffectRecovery
      BY <3>2 DEF EffectRecovery, Doubt, DoubtRefused, GiveUp, Repeat, Reconcile, Resolve, To,
         Leave, still, text, loop
    <3>3. CASE CallRecovery
      BY <1>5, <3>3 DEF CallRecovery, RepeatCall, StillInDoubt, RepeatReturns, Reconciled,
         still, text, loop, counts
    <3>4. CASE SettleRecovery
      BY <3>4 DEF SettleRecovery, RestoreResult, Reply, RestoreMessage, ConsumeMessage,
         RecoveryCancels, AlreadyCancelled, StaysBlocked, AllResolved, EndResults, EndReplies,
         EndQueues, RecoveryFinishes, To, Leave, still, text, loop, counts
    <3>5. QED
      BY <1>12, <3>1, <3>2, <3>3, <3>4 DEF PassStep
  <2>2. QED
    BY <2>1, CalmRests
<1>13. ASSUME RecoverStep \/ Crash \/ Reopen \/ UNCHANGED session PROVE Calm'
  BY <1>13, CalmRests DEF RecoverStep, Recover, Crash, Reopen, session, agent, still, text, loop,
     counts
<1>14. QED
  BY <1>1, <1>2, <1>3, <1>4, <1>6, <1>7, <1>8, <1>9, <1>10, <1>11, <1>12, <1>13
     DEF SessionNext, HostStep, ProcessStep, RunLoopStep

OnlyFollowUps(q) == \A m \in Items(q) : m.mode = "follow_up"

(* The queued message a run is about to start from.                        *)
Prompted == IF phase = "starting" /\ prompt.from = "queue" THEN {prompt.id} ELSE {}

HandPhases == {"starting", "accepted", "consume", "deliver"}

(* The messages of the process form one line, in the order of their        *)
(* entries: the prompt to be, what has been taken, what waits.  All that   *)
(* is durably queued is in it.                                             *)
LineInv ==
  /\ OnlyFollowUps(control) /\ OnlyFollowUps(waiting) /\ OnlyFollowUps(taken)
  /\ InOrder(waiting) /\ InOrder(taken)
  /\ Before(Held(taken), Held(waiting))
  /\ Before(Prompted, Held(taken) \cup Held(waiting))
  /\ Prompted \subseteq QueuedEntries
  /\ phase # "closed" =>
       QueuedEntries \subseteq Held(waiting) \cup Held(control) \cup Held(taken) \cup Prompted
  /\ control # <<>> => phase = "settling"
  /\ taken # <<>> => phase \in HandPhases /\ FollowUpMode # "one-at-a-time"

(* What the run has claimed, and the end of a run that is not cancelled.   *)
ClaimedEntries == {e \in EntryId : entry[e].status = "claimed"}

ClaimsInv ==
  /\ phase \in {"accepted", "consume"} =>
       \A e \in ClaimedEntries : prompt.from = "queue" /\ e = prompt.id
  /\ phase = "deliver" => \A e \in ClaimedEntries : taken # <<>> /\ e = Head(taken).id
  /\ phase \in {"turn", "steering", "asking", "failing", "answered", "tools"} => ClaimedEntries = {}
  /\ phase \in {"closing", "finishing"} /\ outcome # "cancelled" =>
       ClaimedEntries = {} /\ PromptInPlace
  /\ phase \in {"ended", "returned"} /\ outcome # "cancelled" => open = None
  /\ phase = "starting" => open = None

LEMMA OldestPrompt ==
  ASSUME FollowUpsAlone, TypeOK, PendingIsOwed, ClaimsInOrder, EntriesInOrder, Unprompted,
         MessageInv, LineInv, ClaimsInv, AcceptRefused
  PROVE  FALSE
<1> DEFINE e == prompt.id
<1>1. phase = "starting" /\ open = None
  BY DEF AcceptRefused, ClaimsInv
<1>2. prompt.from = "queue" /\ ~CanAcceptQueued(e)
  BY <1>1 DEF AcceptRefused
<1>3. Prompted = {e} /\ e \in QueuedEntries /\ entry[e].status = "queued" /\ e \in EntryId
  BY <1>1, <1>2 DEF Prompted, LineInv, QueuedEntries
<1>4. \A f \in EntryId : entry[f].status \in {"queued", "claimed"} => e <= f
  <2>1. SUFFICES ASSUME NEW f \in EntryId, entry[f].status \in {"queued", "claimed"} PROVE e <= f
    OBVIOUS
  <2>2. f \in QueuedEntries
    BY <1>1, <2>1 DEF ClaimsInOrder, QueuedEntries
  <2>3. f \in Held(waiting) \cup Held(control) \cup Held(taken) \cup {e}
    BY <1>1, <1>3, <2>2 DEF LineInv
  <2>4. Held(control) = {}
    <3>1. control = <<>>
      BY <1>1 DEF LineInv
    <3>2. QED
      BY <3>1, EmptyQueue
  <2>5. f # e => e < f
    BY <1>3, <2>3, <2>4 DEF LineInv, Before
  <2>6. e \in Nat /\ f \in Nat
    BY <1>3, <2>1, EntryAssumption
  <2>7. QED
    BY <2>5, <2>6
<1>5. First(entry[e].kind, e)
  BY <1>3, <1>4, OldestIsFirst
<1>6. PromptOf(entry[e].target) = {}
  BY <1>3 DEF Unprompted
<1>7. QED
  BY <1>1, <1>2, <1>3, <1>5, <1>6 DEF CanAcceptQueued

LEMMA OldestDelivered ==
  ASSUME FollowUpsAlone, TypeOK, PendingIsOwed, EntriesInOrder, Unprompted, Where,
         MessageInv, LineInv, ClaimsInv, ClaimRefused
  PROVE  FALSE
<1> DEFINE e == Delivered
<1>1. Delivering /\ taken # <<>> /\ phase = "deliver" /\ entry[e].status = "queued"
  BY DEF ClaimRefused, Delivering, LineInv, HandPhases
<1>2. IsQueue(taken) /\ e \in Held(taken) /\ e \in EntryId
      /\ Held(taken) = Held(Tail(taken)) \cup {e}
      /\ Before({e}, Held(Tail(taken)))
  BY <1>1, ShorterQueue, ShorterInOrder DEF Delivered, MessageInv, QueuesApart, LineInv
<1>3. \A f \in EntryId : entry[f].status \in {"queued", "claimed"} => e <= f
  <2>1. SUFFICES ASSUME NEW f \in EntryId, entry[f].status \in {"queued", "claimed"} PROVE e <= f
    OBVIOUS
  <2>2. f \in QueuedEntries
    BY <1>1, <2>1 DEF ClaimsInv, QueuedEntries, ClaimedEntries, Delivered
  <2>3. Prompted = {}
    BY <1>1 DEF Prompted
  <2>4. Held(control) = {}
    <3>1. control = <<>>
      BY <1>1 DEF LineInv
    <3>2. QED
      BY <3>1, EmptyQueue
  <2>5. f \in Held(waiting) \cup Held(taken)
    BY <1>1, <2>2, <2>3, <2>4 DEF LineInv
  <2>6. f # e => e < f
    BY <1>2, <2>5 DEF LineInv, Before
  <2>7. e \in Nat /\ f \in Nat
    BY <1>2, <2>1, EntryAssumption
  <2>8. QED
    BY <2>6, <2>7
<1>4. e \in QueuedEntries
  BY <1>1, <1>2 DEF QueuedEntries
<1> HIDE DEF e
<1>5. First(entry[e].kind, e)
  BY <1>3, <1>4, OldestIsFirst
<1>6. PromptOf(entry[e].target) = {}
  BY <1>4 DEF Unprompted
<1>7. open # None /\ run = open
  BY <1>1 DEF Where, RunPhases
<1>8. IsOpen(run)
  BY <1>7 DEF IsOpen, TypeOK
<1>9. CanClaim(e, run)
  BY <1>4, <1>5, <1>6, <1>8 DEF CanClaim, QueuedEntries
<1>10. QED
  BY <1>9 DEF ClaimRefused, e

LEMMA TailItems ==
  ASSUME NEW q, IsQueue(q), q # <<>>
  PROVE  Items(Tail(q)) \subseteq Items(q)
<1> DEFINE t == Tail(q)
<1>1. /\ q \in Seq(Message) /\ Len(q) \in Nat /\ DOMAIN q = 1..Len(q) /\ Len(q) # 0
  BY LenProperties, EmptySeq DEF IsQueue
<1>2. /\ t \in Seq(Message) /\ DOMAIN t = 1..(Len(q) - 1)
      /\ \A i \in 1..(Len(q) - 1) : t[i] = q[i + 1]
  BY <1>1, HeadTailProperties, LenProperties
<1>3. \A i \in DOMAIN t : i + 1 \in DOMAIN q /\ t[i] = q[i + 1]
  BY <1>1, <1>2
<1> HIDE DEF t
<1>4. \A i \in DOMAIN t : t[i] \in Items(q)
  BY <1>3 DEF Items
<1>5. QED
  BY <1>4 DEF Items, t

LEMMA LineRests ==
  ASSUME LineInv, UNCHANGED <<control, waiting, taken>>,
         \/ UNCHANGED <<phase, prompt>> /\ QueuedEntries' = QueuedEntries
         \/ /\ phase \notin {"closed", "settling"} /\ phase' # "starting"
            /\ QueuedEntries' \subseteq QueuedEntries /\ Prompted \cap QueuedEntries' = {}
            /\ taken # <<>> => phase' \in HandPhases
  PROVE  LineInv'
<1>1. CASE UNCHANGED <<phase, prompt>> /\ QueuedEntries' = QueuedEntries
  <2>1. Prompted' = Prompted
    BY <1>1 DEF Prompted
  <2>2. QED
    BY <1>1, <2>1 DEF LineInv
<1>2. CASE /\ phase \notin {"closed", "settling"} /\ phase' # "starting"
           /\ QueuedEntries' \subseteq QueuedEntries /\ Prompted \cap QueuedEntries' = {}
           /\ taken # <<>> => phase' \in HandPhases
  <2>1. Prompted' = {}
    BY <1>2 DEF Prompted
  <2>2. control = <<>>
    BY <1>2 DEF LineInv
  <2>3. QueuedEntries' \subseteq Held(waiting) \cup Held(control) \cup Held(taken)
    BY <1>2 DEF LineInv
  <2>4. Before(Prompted', Held(taken') \cup Held(waiting')) /\ Prompted' \subseteq QueuedEntries'
    BY <2>1 DEF Before
  <2>5. QED
    BY <1>2, <2>1, <2>2, <2>3, <2>4 DEF LineInv
<1>3. QED
  BY <1>1, <1>2

(* A commit that does not touch an entry leaves the durable queue alone.   *)
LEMMA QueueRests == ASSUME UNCHANGED entry PROVE QueuedEntries' = QueuedEntries
  BY DEF QueuedEntries

(* Outside a run that starts, nothing is prompted.                         *)
LEMMA LineMoves ==
  ASSUME LineInv, UNCHANGED <<control, waiting, taken>>,
         phase \notin {"closed", "settling", "starting"}, phase' # "starting",
         QueuedEntries' \subseteq QueuedEntries,
         taken = <<>> \/ phase' \in HandPhases
  PROVE  LineInv'
<1>1. Prompted = {}
  BY DEF Prompted
<1>2. QED
  BY <1>1, LineRests

LEMMA AcceptLine ==
  ASSUME FollowUpsAlone, TypeOK, MessageInv, Calm, LineInv, AcceptStep, ~AcceptRefused
  PROVE  LineInv'
<1>1. ASSUME Accept PROVE LineInv'
  <2>1. phase = "starting" /\ phase' = "accepted" /\ UNCHANGED <<control, waiting, taken>>
    BY <1>1 DEF Accept, queues
  <2>2. QueuedEntries' \subseteq QueuedEntries /\ Prompted \cap QueuedEntries' = {}
    <3>1. CASE prompt.from = "queue"
      <4>1. AcceptQueuedRun(NewOp, prompt.id)
        BY <1>1, <3>1 DEF Accept
      <4>2. QueuedEntries' = QueuedEntries \ {prompt.id}
        BY <4>1, EntryMoves DEF Leaves
      <4>3. QED
        BY <4>2 DEF Prompted
    <3>2. CASE prompt.from # "queue"
      <4>1. UNCHANGED entry
        BY <1>1, <3>2 DEF Accept, AcceptRun
      <4>2. QED
        BY <3>2, <4>1, QueueRests DEF Prompted
    <3>3. QED
      BY <3>1, <3>2
  <2>3. QED
    BY <2>1, <2>2, LineRests DEF HandPhases
<1>2. ASSUME StartFails PROVE FALSE
  BY <1>2 DEF StartFails, Calm, FollowUpsAlone
<1>3. ASSUME RecordAbort \/ AppendPrompt PROVE LineInv'
  <2>1. phase = "accepted" /\ UNCHANGED <<control, waiting, taken>> /\ UNCHANGED entry
    BY <1>3 DEF RecordAbort, AppendPrompt, AddNode, CancelRun, journal, queues
  <2>2. phase' \in {"accepted", "consume", "deliver"}
    BY <1>3 DEF RecordAbort, AppendPrompt
  <2>3. QED
    BY <2>1, <2>2, QueueRests, LineMoves DEF HandPhases
<1>4. ASSUME ConsumePrompt PROVE LineInv'
  <2>1. /\ phase = "consume" /\ phase' = "deliver" /\ FinishEntry(prompt.id, "consumed")
        /\ UNCHANGED <<control, waiting, taken>>
    BY <1>4 DEF ConsumePrompt, queues
  <2>2. QueuedEntries' \subseteq QueuedEntries
    BY <2>1, EntryMoves DEF Leaves
  <2>3. QED
    BY <2>1, <2>2, LineMoves DEF HandPhases
<1>5. QED
  BY <1>1, <1>2, <1>3, <1>4 DEF AcceptStep

LEMMA DeliverLine ==
  ASSUME TypeOK, MessageInv, LineInv, DeliverStep, ~ClaimRefused
  PROVE  LineInv'
<1>1. ASSUME BeginDelivery \/ AppendDelivery PROVE LineInv'
  <2>1. /\ UNCHANGED <<phase, prompt>> /\ UNCHANGED <<control, waiting, taken>>
        /\ phase \in {"steering", "deliver"} /\ taken # <<>>
    BY <1>1 DEF BeginDelivery, AppendDelivery, Delivering, queues, loop
  <2>2. phase' \in HandPhases
    BY <2>1 DEF LineInv
  <2>3. QueuedEntries' \subseteq QueuedEntries
    <3>1. CASE BeginDelivery
      BY <3>1, EntryMoves DEF BeginDelivery, Leaves
    <3>2. CASE AppendDelivery
      BY <3>2, QueueRests DEF AppendDelivery, AddNode
    <3>3. QED
      BY <1>1, <3>1, <3>2
  <2>4. QED
    BY <2>1, <2>2, <2>3, LineMoves
<1>2. ASSUME EndDelivery PROVE LineInv'
  <2>1. /\ UNCHANGED <<phase, prompt, control, waiting>> /\ taken' = Tail(taken)
        /\ phase \in {"steering", "deliver"} /\ taken # <<>>
        /\ FinishEntry(Delivered, "consumed")
    BY <1>2 DEF EndDelivery, Delivering, loop
  <2>2. /\ phase \in HandPhases /\ FollowUpMode # "one-at-a-time" /\ control = <<>>
    BY <2>1 DEF LineInv
  <2>3. Prompted = {} /\ Prompted' = {}
    BY <2>1 DEF Prompted
  <2>4. /\ IsQueue(taken) /\ Head(taken).id = Delivered
        /\ Held(Tail(taken)) = Held(taken) \ {Delivered} /\ IsQueue(Tail(taken))
        /\ InOrder(Tail(taken))
    BY <2>1, ShorterQueue, ShorterInOrder DEF Delivered, MessageInv, QueuesApart, LineInv
  <2>5. Items(Tail(taken)) \subseteq Items(taken)
    BY <2>1, <2>4, TailItems
  <2>6. QueuedEntries' = QueuedEntries /\ Delivered \notin QueuedEntries
    BY <2>1, EntryMoves DEF Leaves
  <2>7. OnlyFollowUps(taken')
    BY <2>1, <2>5 DEF LineInv, OnlyFollowUps
  <2>8. /\ Before(Held(taken'), Held(waiting'))
        /\ Before(Prompted', Held(taken') \cup Held(waiting'))
    BY <2>1, <2>3, <2>4 DEF LineInv, Before
  <2>9. QueuedEntries' \subseteq Held(waiting') \cup Held(control') \cup Held(taken') \cup Prompted'
    BY <2>1, <2>2, <2>3, <2>4, <2>6 DEF LineInv
  <2>10. QED
    BY <2>1, <2>2, <2>3, <2>4, <2>7, <2>8, <2>9 DEF LineInv
<1>3. ASSUME AllDelivered PROVE LineInv'
  <2>1. /\ phase = "deliver" /\ taken = <<>> /\ phase' = "turn" /\ UNCHANGED entry
        /\ UNCHANGED <<control, waiting, taken>>
    BY <1>3 DEF AllDelivered, journal, queues
  <2>2. QED
    BY <2>1, QueueRests, LineMoves
<1>4. QED
  BY <1>1, <1>2, <1>3 DEF DeliverStep

(* A control queue that is empty gives nothing.                            *)
LEMMA NothingTaken ==
  ASSUME control = <<>>, IsQueue(control)
  PROVE  /\ TakeSteering = <<>> /\ TakeFollowUps = <<>>
         /\ \A q : Without(<<>>, q) = <<>>
<1>1. ASSUME NEW mode, NEW drain PROVE Take(mode, drain) = <<>>
  <2>1. IsQueue(Take(mode, drain)) /\ Items(Take(mode, drain)) \subseteq {}
    BY TakeIs, EmptyQueue
  <2>2. QED
    BY <2>1, NothingHeld
<1>2. ASSUME NEW q PROVE Without(<<>>, q) = <<>>
  <2>1. IsQueue(Without(<<>>, q)) /\ Items(Without(<<>>, q)) = {}
    BY EmptyQueue, SelectedQueue DEF Without
  <2>2. QED
    BY <2>1, NothingHeld
<1>3. QED
  BY <1>1, <1>2 DEF TakeSteering, TakeFollowUps

LEMMA TurnLine ==
  ASSUME MessageInv, LineInv, TurnStep
  PROVE  LineInv' /\ UNCHANGED <<control, waiting, taken>> /\ taken = <<>>
<1>1. /\ phase \in {"turn", "steering", "asking", "failing", "answered", "tools"}
      /\ phase' \notin {"starting"}
  BY DEF TurnStep, TakeTurn, Ask, AttemptFails, Retry, Respond, AnswerWithoutCalls, Onward, Pause,
     PlanTools, AnswerCalls
<1>2. control = <<>> /\ taken = <<>> /\ IsQueue(control)
  BY <1>1 DEF LineInv, HandPhases, MessageInv, QueuesApart
<1>3. TakeSteering = <<>> /\ TakeFollowUps = <<>> /\ \A q : Without(<<>>, q) = <<>>
  BY <1>2, NothingTaken
<1>4. <<>> \o <<>> = <<>>
  OBVIOUS
<1>5. ASSUME Onward(<<>>, <<>>) PROVE taken' = <<>> /\ control' = <<>>
  BY <1>3, <1>4, <1>5 DEF Onward
<1>6. UNCHANGED <<control, waiting, taken>>
  <2>1. CASE TakeTurn \/ Pause \/ PlanTools
    BY <1>2, <1>3, <2>1 DEF TakeTurn, Pause, PlanTools
  <2>2. CASE AnswerWithoutCalls
    <3>1. Onward(<<>>, <<>>) /\ UNCHANGED waiting
      BY <1>2, <1>3, <2>2 DEF AnswerWithoutCalls
    <3>2. QED
      BY <1>2, <1>5, <3>1
  <2>3. CASE AnswerCalls
    <3>1. /\ UNCHANGED waiting
          /\ Onward(<<>>, <<>>) \/ (taken' = <<>> /\ control' = <<>>)
      BY <1>2, <1>3, <1>4, <2>3 DEF AnswerCalls
    <3>2. QED
      BY <1>2, <1>5, <3>1
  <2>4. CASE Ask \/ AttemptFails \/ Retry \/ \E called \in SUBSET CallId : Respond(called)
    BY <2>4 DEF Ask, AttemptFails, Retry, Respond, queues
  <2>5. QED
    BY <2>1, <2>2, <2>3, <2>4 DEF TurnStep
<1>7. UNCHANGED entry
  BY DEF TurnStep, TakeTurn, Ask, AttemptFails, Retry, Respond, AnswerWithoutCalls, Pause,
     PlanTools, AnswerCalls, StartStep, StartAttempt, AddNode, journal
<1>8. QED
  BY <1>1, <1>2, <1>6, <1>7, QueueRests, LineMoves

LEMMA ToolLine ==
  ASSUME FollowUpsAlone, MessageInv, Calm, LineInv, ToolStep \/ FaultStep
  PROVE  LineInv'
<1>1. ASSUME taken = <<>>, phase \notin {"closed", "settling", "starting"}, phase' = "closing",
             taken' = <<>>, UNCHANGED <<control, waiting, entry>>
      PROVE  LineInv'
  BY <1>1, QueueRests, LineMoves
<1>2. ASSUME UNCHANGED <<phase, prompt, control, waiting, taken, entry>> PROVE LineInv'
  BY <1>2, QueueRests, LineRests
<1>3. ASSUME aborted PROVE taken = <<>>
  BY <1>3 DEF Calm, LineInv, FollowUpsAlone
<1>4. ASSUME \/ \E c \in CallId : RefuseTool(c) \/ \E policy \in EffectPolicies : PrepareTool(c, policy)
             \/ \E t \in EffectId : DispatchTool(t) \/ CallTool(t) \/ ToolNotCalled(t)
      PROVE  LineInv'
  <2>1. UNCHANGED <<phase, prompt, control, waiting, taken, entry>>
    BY <1>4 DEF RefuseTool, PrepareTool, DispatchTool, CallTool, ToolNotCalled, PrepareEffect,
       DispatchEffect, FinishEffect, Become, journal, loop, queues
  <2>2. QED
    BY <1>2, <2>1
<1>5. ASSUME NEW t \in EffectId, NEW result, ToolReturns(t, result) PROVE LineInv'
  <2>1. UNCHANGED entry
    BY <1>5 DEF ToolReturns, FinishEffect, Become, journal
  <2>2. CASE phase = "tools" /\ aborted /\ t \in Executing
    <3>1. phase' = "closing" /\ taken' = <<>> /\ UNCHANGED <<control, waiting>>
      BY <1>5, <2>2 DEF ToolReturns, Close
    <3>2. QED
      BY <1>1, <1>3, <2>1, <2>2, <3>1
  <2>3. CASE ~(phase = "tools" /\ aborted /\ t \in Executing)
    <3>1. UNCHANGED <<phase, prompt, control, waiting, taken>>
      BY <1>5, <2>3 DEF ToolReturns, loop, queues
    <3>2. QED
      BY <1>2, <2>1, <3>1
  <2>4. QED
    BY <2>2, <2>3
<1>6. ASSUME Throw PROVE FALSE
  BY <1>6 DEF Throw, Calm, FollowUpsAlone
<1>7. ASSUME NoticeAbort \/ ProviderFails \/ StepLimit PROVE LineInv'
  <2>1. /\ phase \in {"accepted", "deliver", "turn", "steering", "asking", "failing", "answered", "tools"}
        /\ phase' = "closing" /\ taken' = <<>> /\ UNCHANGED <<control, waiting, entry>>
        /\ aborted \/ phase \in {"turn", "failing"}
    BY <1>7 DEF NoticeAbort, ProviderFails, StepLimit, InRun, Close, journal
  <2>2. taken = <<>>
    BY <1>3, <2>1 DEF LineInv, HandPhases
  <2>3. QED
    BY <1>1, <2>1, <2>2
<1>8. QED
  BY <1>4, <1>5, <1>6, <1>7 DEF ToolStep, FaultStep

(* The messages that wait are handed out anew, all of them follow-ups.     *)
LEMMA LineHandedOut ==
  ASSUME UNCHANGED entry,
         IsQueue(waiting'), IsQueue(taken'), IsQueue(control'),
         OnlyFollowUps(control'), OnlyFollowUps(waiting'), OnlyFollowUps(taken'),
         InOrder(waiting'), InOrder(taken'),
         Before(Held(taken'), Held(waiting')),
         Before(Prompted', Held(taken') \cup Held(waiting')),
         Prompted' \subseteq QueuedEntries,
         QueuedEntries \subseteq Held(waiting') \cup Held(control') \cup Held(taken') \cup Prompted',
         control' # <<>> => phase' = "settling",
         taken' # <<>> => phase' \in HandPhases /\ FollowUpMode # "one-at-a-time"
  PROVE  LineInv'
<1>1. QueuedEntries' = QueuedEntries
  BY QueueRests
<1>2. QED
  BY <1>1 DEF LineInv

LEMMA NothingIsInLine ==
  /\ IsQueue(<<>>) /\ OnlyFollowUps(<<>>) /\ InOrder(<<>>) /\ Held(<<>>) = {}
  /\ \A E : Before({}, E) /\ Before(E, {})
<1>1. IsQueue(<<>>) /\ Items(<<>>) = {} /\ Held(<<>>) = {}
  BY EmptyQueue
<1>2. InOrder(<<>>)
  BY EmptySeq DEF InOrder
<1>3. QED
  BY <1>1, <1>2 DEF OnlyFollowUps, Before

(* The modes a run begins with, when only follow-ups wait.                 *)
LEMMA SplitLine ==
  ASSUME NEW q, IsQueue(q), OnlyFollowUps(q), InOrder(q)
  PROVE  /\ OfMode(q, "steer") = <<>>
         /\ IsQueue(OfMode(q, "follow_up")) /\ Items(OfMode(q, "follow_up")) = Items(q)
         /\ OnlyFollowUps(OfMode(q, "follow_up")) /\ InOrder(OfMode(q, "follow_up"))
<1>1. /\ IsQueue(OfMode(q, "steer")) /\ Items(OfMode(q, "steer")) = {m \in Items(q) : m.mode = "steer"}
      /\ IsQueue(OfMode(q, "follow_up"))
      /\ Items(OfMode(q, "follow_up")) = {m \in Items(q) : m.mode = "follow_up"}
  BY OfModeIs
<1>2. Items(OfMode(q, "steer")) = {} /\ Items(OfMode(q, "follow_up")) = Items(q)
  BY <1>1 DEF OnlyFollowUps
<1>3. OfMode(q, "steer") = <<>>
  BY <1>1, <1>2, NothingHeld
<1>4. InOrder(OfMode(q, "follow_up"))
  BY SelectedInOrder DEF OfMode
<1>5. QED
  BY <1>1, <1>2, <1>3, <1>4 DEF OnlyFollowUps

(* The head of a queue, and what is left without it.                       *)
LEMMA FirstOfLine ==
  ASSUME NEW q, IsQueue(q), InOrder(q), q # <<>>, NEW r, IsQueue(r), InOrder(r),
         Items(r) = Items(q)
  PROVE  LET h == Head(q) IN
         LET left == Without(r, <<h>>) IN
           /\ h \in Message /\ h \in Items(q) /\ h.id \in Held(q)
           /\ IsQueue(left) /\ InOrder(left) /\ Items(left) \subseteq Items(q)
           /\ Held(left) = Held(q) \ {h.id} /\ Before({h.id}, Held(left))
<1> DEFINE h == Head(q)
           left == Without(r, <<h>>)
<1>1. /\ h \in Items(q) /\ h \in Message /\ h.id \in Held(q)
      /\ Held(Tail(q)) = Held(q) \ {h.id} /\ Before({h.id}, Held(Tail(q)))
  BY ShorterQueue, ShorterInOrder
<1> HIDE DEF h
<1>2. IsQueue(<<h>>) /\ Items(<<h>>) = {h} /\ Held(<<h>>) = {h.id}
  BY <1>1, SingleQueue
<1>3. \A m \in Items(r), k \in Items(<<h>>) : m.id = k.id => m = k
  BY <1>1, <1>2, QueueShape
<1>4. /\ IsQueue(left) /\ Items(left) = Items(r) \ {h} /\ Held(left) = Held(r) \ {h.id}
  BY <1>2, <1>3, WithoutIs
<1>5. Held(r) = Held(q)
  BY DEF Held
<1>6. InOrder(left)
  BY SelectedInOrder DEF Without
<1>7. QED
  BY <1>1, <1>4, <1>5, <1>6 DEF h

LEMMA BeginLine ==
  ASSUME MessageInv, LineInv, NEW p, NEW left, Begin(p, left), IsQueue(left), InOrder(left),
         Items(left) \subseteq Items(waiting),
         \/ p.from # "queue" /\ Held(left) = Held(waiting)
         \/ /\ p.from = "queue" /\ p.id \in Held(waiting)
            /\ Held(left) = Held(waiting) \ {p.id} /\ Before({p.id}, Held(left))
  PROVE  LineInv'
<1> DEFINE F == OfMode(left, "follow_up")
<1>1. OnlyFollowUps(left)
  BY DEF LineInv, OnlyFollowUps
<1>2. /\ control' = OfMode(left, "steer") /\ waiting' = F
      /\ phase = "idle" /\ phase' = "starting" /\ prompt' = p /\ UNCHANGED <<taken, entry>>
  BY DEF Begin, journal
<1>3. /\ OfMode(left, "steer") = <<>> /\ IsQueue(F) /\ Items(F) = Items(left)
      /\ OnlyFollowUps(F) /\ InOrder(F)
  BY <1>1, SplitLine
<1>4. Held(F) = Held(left)
  BY <1>3 DEF Held
<1> HIDE DEF F
<1>5. taken = <<>> /\ control = <<>> /\ Prompted = {}
  BY <1>2 DEF LineInv, HandPhases, Prompted
<1>6. /\ IsQueue(<<>>) /\ OnlyFollowUps(<<>>) /\ InOrder(<<>>) /\ Held(<<>>) = {}
      /\ \A E : Before({}, E) /\ Before(E, {})
  BY NothingIsInLine
<1>7. QueuedEntries \subseteq Held(waiting) /\ Held(waiting) \subseteq QueuedEntries
  BY <1>2, <1>5, <1>6 DEF LineInv, MessageInv, HeldAreQueued
<1>8. /\ Before(Prompted', Held(left)) /\ Prompted' \subseteq QueuedEntries
      /\ QueuedEntries \subseteq Held(left) \cup Prompted'
  <2>1. CASE p.from # "queue"
    BY <1>2, <1>6, <1>7, <2>1 DEF Prompted
  <2>2. CASE p.from = "queue"
    BY <1>2, <1>7, <2>2 DEF Prompted
  <2>3. QED
    BY <2>1, <2>2
<1>9. QED
  BY <1>2, <1>3, <1>4, <1>5, <1>6, <1>8, LineHandedOut

LEMMA QueueLine ==
  ASSUME FollowUpsAlone, TypeOK, EntriesInOrder, MessageInv, LineInv,
         NEW mode \in QueueModes, Queue(mode)
  PROVE  LineInv'
<1> DEFINE m == [id |-> NewEntry, mode |-> "follow_up"]
<1>1. /\ NewEntry \in EntryId /\ entry[NewEntry].status = "absent"
      /\ \A e \in EntryId : entry[e].status # "absent" => e < NewEntry
  BY QueuedIsNew
<1>2. NewEntry \notin QueuedEntries /\ QueuedEntries' = QueuedEntries \cup {NewEntry}
  BY EntryAdded DEF Queue
<1>3. mode = "follow_up"
  BY DEF FollowUpsAlone
<1>4. /\ waiting' = Append(waiting, m) /\ UNCHANGED <<control, taken, phase, prompt>>
      /\ phase # "closed"
  BY <1>3 DEF Queue, loop, Usable
<1>5. m \in Message /\ m.id = NewEntry /\ m.mode = "follow_up"
  BY <1>1 DEF Message
<1> HIDE DEF m
<1>6. /\ IsQueue(waiting) /\ InOrder(waiting) /\ OnlyFollowUps(waiting)
      /\ Held(waiting) \subseteq QueuedEntries
      /\ \A e \in Held(taken) : e \in EntryId /\ entry[e].status # "absent"
  BY QueueShape DEF MessageInv, QueuesApart, HeldAreQueued, LineInv
<1>7. Before(Held(waiting), {NewEntry}) /\ Before(Held(taken), {NewEntry})
      /\ Before(Prompted, {NewEntry})
  <2>1. \A e \in QueuedEntries : e < NewEntry
    BY <1>1 DEF QueuedEntries
  <2>2. Prompted \subseteq QueuedEntries
    BY DEF LineInv
  <2>3. QED
    BY <1>1, <1>6, <2>1, <2>2 DEF Before
<1>8. NewEntry \notin Held(waiting)
  BY <1>2, <1>6
<1>9. IsQueue(waiting') /\ Held(waiting') = Held(waiting) \cup {NewEntry}
  BY <1>4, <1>5, <1>6, <1>8, LongerQueue
<1>10. OnlyFollowUps(waiting')
  <2>1. waiting' = waiting \o <<m>>
    BY <1>4, <1>5, <1>6, AppendIsConcat DEF IsQueue
  <2>2. IsQueue(<<m>>) /\ Items(<<m>>) = {m} /\ Held(<<m>>) = {NewEntry}
    BY <1>5, SingleQueue
  <2>3. Items(waiting') = Items(waiting) \cup {m}
    BY <1>6, <1>8, <2>1, <2>2, JoinedQueues
  <2>4. QED
    BY <1>5, <1>6, <2>3 DEF OnlyFollowUps
<1>11. InOrder(waiting')
  BY <1>4, <1>5, <1>6, <1>7, LongerInOrder
<1>12. Prompted' = Prompted
  BY <1>4 DEF Prompted
<1>13. /\ Before(Held(taken'), Held(waiting'))
       /\ Before(Prompted', Held(taken') \cup Held(waiting'))
  BY <1>4, <1>7, <1>9, <1>12 DEF LineInv, Before
<1>14. /\ Prompted' \subseteq QueuedEntries'
       /\ QueuedEntries' \subseteq Held(waiting') \cup Held(control') \cup Held(taken') \cup Prompted'
  BY <1>2, <1>4, <1>9, <1>12 DEF LineInv
<1>15. QED
  BY <1>4, <1>10, <1>11, <1>13, <1>14 DEF LineInv

(* What the user takes back is in one of the two queues and leaves both.   *)
LEMMA TakenBack ==
  ASSUME TypeOK, MessageInv, Dequeue
  PROVE  \E h \in Message :
           /\ FinishEntry(h.id, "cancelled") /\ Leaves(h.id)
           /\ h.id \in Held(control) \cup Held(waiting)
           /\ waiting' = Without(waiting, <<h>>) /\ control' = Without(control, <<h>>)
           /\ Held(control') = Held(control) \ {h.id} /\ Items(control') \subseteq Items(control)
           /\ Held(waiting') = Held(waiting) \ {h.id} /\ Items(waiting') \subseteq Items(waiting)
           /\ IsQueue(control') /\ IsQueue(waiting')
<1> DEFINE first == Users(waiting) \o Users(control)
           h == Head(first)
<1>1. /\ IsQueue(control) /\ IsQueue(waiting)
      /\ Held(control) \cap Held(waiting) = {}
  BY DEF MessageInv, QueuesApart
<1>2. IsQueue(first) /\ Items(first) \subseteq Items(control) \cup Items(waiting)
  <2>1. /\ IsQueue(Users(control)) /\ Items(Users(control)) \subseteq Items(control)
        /\ IsQueue(Users(waiting)) /\ Items(Users(waiting)) \subseteq Items(waiting)
    BY <1>1, UsersAre
  <2>2. Held(Users(waiting)) \cap Held(Users(control)) = {}
    BY <1>1, <2>1 DEF Held
  <2>3. QED
    BY <2>1, <2>2, JoinedQueues
<1>3. /\ first # <<>> /\ FinishEntry(h.id, "cancelled")
      /\ waiting' = Without(waiting, <<h>>) /\ control' = Without(control, <<h>>)
  BY DEF Dequeue
<1> HIDE DEF first
<1>4. h \in Message /\ h \in Items(control) \cup Items(waiting)
      /\ h.id \in Held(control) \cup Held(waiting)
  <2>1. h \in Items(first) /\ h \in Message
    BY <1>2, <1>3, ShorterQueue
  <2>2. QED
    BY <1>2, <2>1 DEF Held
<1> HIDE DEF h
<1>5. IsQueue(<<h>>) /\ Items(<<h>>) = {h} /\ Held(<<h>>) = {h.id}
  BY <1>4, SingleQueue
<1>6. \A m, k \in Items(control) \cup Items(waiting) : m.id = k.id => m = k
  <2>1. /\ \A m, k \in Items(control) : m.id = k.id => m = k
        /\ \A m, k \in Items(waiting) : m.id = k.id => m = k
    BY <1>1, QueueShape
  <2>2. \A m \in Items(control), k \in Items(waiting) : m.id # k.id
    BY <1>1 DEF Held
  <2>3. QED
    BY <2>1, <2>2
<1>7. /\ IsQueue(control') /\ Held(control') = Held(control) \ {h.id}
      /\ IsQueue(waiting') /\ Held(waiting') = Held(waiting) \ {h.id}
      /\ Items(control') \subseteq Items(control) /\ Items(waiting') \subseteq Items(waiting)
  <2>1. /\ \A m \in Items(control), k \in Items(<<h>>) : m.id = k.id => m = k
        /\ \A m \in Items(waiting), k \in Items(<<h>>) : m.id = k.id => m = k
    BY <1>4, <1>5, <1>6
  <2>2. QED
    BY <1>1, <1>3, <1>5, <2>1, WithoutIs
<1>8. Leaves(h.id)
  BY <1>3, EntryMoves
<1>9. QED
  BY <1>3, <1>4, <1>7, <1>8

LEMMA DequeueLine ==
  ASSUME TypeOK, MessageInv, LineInv, Dequeue PROVE LineInv'
<1>1. PICK h \in Message :
        /\ FinishEntry(h.id, "cancelled") /\ Leaves(h.id)
        /\ h.id \in Held(control) \cup Held(waiting)
        /\ waiting' = Without(waiting, <<h>>) /\ control' = Without(control, <<h>>)
        /\ Held(control') = Held(control) \ {h.id} /\ Items(control') \subseteq Items(control)
        /\ Held(waiting') = Held(waiting) \ {h.id} /\ Items(waiting') \subseteq Items(waiting)
        /\ IsQueue(control') /\ IsQueue(waiting')
  BY TakenBack
<1>2. UNCHANGED <<taken, phase, prompt>> /\ phase # "closed"
  BY DEF Dequeue, loop, Usable
<1>3. Prompted' = Prompted /\ h.id \notin Prompted
  BY <1>1, <1>2 DEF Prompted, MessageInv, Moments
<1>4. OnlyFollowUps(control') /\ OnlyFollowUps(waiting')
  BY <1>1 DEF LineInv, OnlyFollowUps
<1>5. InOrder(waiting')
  <2>1. IsQueue(waiting) /\ InOrder(waiting)
    BY DEF LineInv, MessageInv, QueuesApart
  <2>2. QED
    BY <1>1, <2>1, SelectedInOrder DEF Without
<1>6. Before(Held(taken'), Held(waiting')) /\ Before(Prompted', Held(taken') \cup Held(waiting'))
  BY <1>1, <1>2, <1>3 DEF LineInv, Before
<1>7. /\ Prompted' \subseteq QueuedEntries'
      /\ QueuedEntries' \subseteq Held(waiting') \cup Held(control') \cup Held(taken') \cup Prompted'
  BY <1>1, <1>2, <1>3 DEF LineInv, Leaves
<1>8. control' # <<>> => phase' = "settling"
  <2>1. ASSUME control = <<>> PROVE control' = <<>>
    BY <1>1, <2>1, EmptyQueue, NothingHeld
  <2>2. QED
    BY <1>2, <2>1 DEF LineInv
<1>9. QED
  BY <1>2, <1>4, <1>5, <1>6, <1>7, <1>8 DEF LineInv

LEMMA ContinueLine ==
  ASSUME Calm, MessageInv, LineInv, Continue PROVE LineInv'
<1>1. /\ IsQueue(waiting) /\ InOrder(waiting) /\ OnlyFollowUps(waiting)
  BY DEF MessageInv, QueuesApart, LineInv
<1>2. CASE node[head].role # "assistant"
  <2>1. NoPrompt.from # "queue"
    BY DEF NoPrompt
  <2>2. Begin(NoPrompt, waiting)
    BY <1>2 DEF Continue
  <2>3. QED
    BY <1>1, <2>1, <2>2, BeginLine
<1>3. CASE node[head].role = "assistant"
  <2> DEFINE U == Users(waiting)
             S == OfMode(U, "steer")
             F == OfMode(U, "follow_up")
             h == Head(F)
             left == Without(waiting, <<h>>)
  <2>1. S \o F # <<>> /\ Begin(QueuePrompt(Head(S \o F).id), Without(waiting, <<Head(S \o F)>>))
    BY <1>3 DEF Continue
  <2>2. IsQueue(U) /\ InOrder(U) /\ Items(U) = Items(waiting) /\ OnlyFollowUps(U)
    <3>1. IsQueue(U) /\ Items(U) = Items(waiting) \cap {m \in Items(waiting) : m.id \notin customs}
      BY <1>1, SelectedQueue DEF Users
    <3>2. Items(U) = Items(waiting)
      BY <3>1 DEF Calm
    <3>3. InOrder(U)
      BY <1>1, SelectedInOrder DEF Users
    <3>4. QED
      BY <1>1, <3>1, <3>2, <3>3 DEF OnlyFollowUps
  <2> HIDE DEF U
  <2>3. S = <<>> /\ IsQueue(F) /\ InOrder(F) /\ Items(F) = Items(waiting)
    BY <2>2, SplitLine
  <2> HIDE DEF S, F
  <2>4. S \o F = F
    <3>1. F \in Seq(Message)
      BY <2>3 DEF IsQueue
    <3>2. QED
      BY <2>3, <3>1, ConcatEmptySeq
  <2>5. F # <<>> /\ Begin(QueuePrompt(h.id), left)
    BY <2>1, <2>4
  <2>6. /\ h.id \in Held(F)
        /\ IsQueue(left) /\ InOrder(left) /\ Items(left) \subseteq Items(F)
        /\ Held(left) = Held(F) \ {h.id} /\ Before({h.id}, Held(left))
    BY <1>1, <2>3, <2>5, FirstOfLine
  <2>7. Held(F) = Held(waiting)
    BY <2>3 DEF Held
  <2>8. QueuePrompt(h.id).from = "queue" /\ QueuePrompt(h.id).id = h.id
    BY DEF QueuePrompt
  <2> HIDE DEF h, left
  <2>9. QED
    BY <2>3, <2>5, <2>6, <2>7, <2>8, BeginLine
<1>4. QED
  BY <1>2, <1>3

LEMMA HostLine ==
  ASSUME FollowUpsAlone, TypeOK, EntriesInOrder, Calm, MessageInv, LineInv, HostStep
  PROVE  LineInv'
<1>1. ASSUME Prompt PROVE LineInv'
  <2>1. OwnPrompt.from # "queue"
    BY DEF OwnPrompt
  <2>2. IsQueue(waiting) /\ InOrder(waiting)
    BY DEF MessageInv, QueuesApart, LineInv
  <2>3. QED
    BY <1>1, <2>1, <2>2, BeginLine DEF Prompt
<1>2. ASSUME Abort PROVE LineInv'
  <2>1. UNCHANGED <<phase, prompt, control, waiting, taken, entry>>
    BY <1>2 DEF Abort, CancelRun, journal, queues
  <2>2. QED
    BY <2>1, QueueRests, LineRests
<1>3. ASSUME CancelRetry PROVE LineInv'
  <2>1. phase = "failing" /\ phase' = "closing" /\ taken' = <<>> /\ UNCHANGED <<control, waiting, entry>>
    BY <1>3 DEF CancelRetry, Close, journal
  <2>2. taken = <<>>
    BY <2>1 DEF LineInv, HandPhases
  <2>3. QED
    BY <2>1, <2>2, QueueRests, LineMoves
<1>4. QED
  BY <1>1, <1>2, <1>3, QueueLine, DequeueLine, ContinueLine DEF HostStep

(* A run that has returned left nothing in the hands of the process.       *)
LEMMA ReturnedLine ==
  ASSUME MessageInv, LineInv, phase = "returned"
  PROVE  /\ taken = <<>> /\ control = <<>>
         /\ IsQueue(Undelivered) /\ InOrder(Undelivered) /\ OnlyFollowUps(Undelivered)
         /\ Held(Undelivered) = QueuedEntries
<1>1. taken = <<>> /\ control = <<>> /\ Prompted = {}
  BY DEF LineInv, HandPhases, Prompted
<1>2. /\ IsQueue(waiting) /\ OnlyFollowUps(waiting) /\ Held(<<>>) = {}
  BY EmptyQueue DEF LineInv, MessageInv, QueuesApart
<1>3. taken \o control \o waiting = waiting
  <2>1. <<>> \o <<>> = <<>>
    OBVIOUS
  <2>2. waiting \in Seq(Message)
    BY <1>2 DEF IsQueue
  <2>3. <<>> \o waiting = waiting
    BY <2>2, ConcatEmptySeq
  <2>4. QED
    BY <1>1, <2>1, <2>3
<1>4. waiting \in Seq(Message) /\ IsFiniteSet(Held(waiting)) /\ Held(waiting) \subseteq EntryId
  BY <1>2, HeldIsFinite, QueueShape DEF IsQueue
<1>5. InOrder(Undelivered) /\ Items(Undelivered) \subseteq Items(waiting)
  BY <1>3, <1>4, DurableIsInOrder DEF Undelivered
<1>6. /\ IsQueue(Undelivered) /\ Held(Undelivered) \subseteq QueuedEntries
      /\ Held(Undelivered) = Held(taken) \cup Held(control) \cup Held(waiting)
  BY UndeliveredIs
<1>7. QueuedEntries \subseteq Held(waiting)
  BY <1>1, <1>2 DEF LineInv
<1>8. QED
  BY <1>1, <1>2, <1>5, <1>6, <1>7 DEF OnlyFollowUps

LEMMA NextPromptLine ==
  ASSUME FollowUpsAlone, TypeOK, MessageInv, LineInv, NextPrompt PROVE LineInv'
<1> DEFINE U == Undelivered
           next == IF FollowUpMode = "all" THEN U ELSE <<Head(U)>>
           left == Without(U, next)
           h == Head(U)
<1>1. /\ phase = "returned" /\ U # <<>> /\ UNCHANGED entry
      /\ phase' = "starting" /\ prompt' = QueuePrompt(Head(next).id) /\ taken' = Tail(next)
      /\ control' = OfMode(left, "steer") /\ waiting' = OfMode(left, "follow_up")
  BY DEF NextPrompt, journal
<1>2. IsQueue(U) /\ InOrder(U) /\ OnlyFollowUps(U) /\ Held(U) = QueuedEntries
  BY <1>1, ReturnedLine
<1> HIDE DEF U
<1>3. /\ h \in Message /\ h.id \in Held(U) /\ IsQueue(Tail(U)) /\ InOrder(Tail(U))
      /\ Held(Tail(U)) = Held(U) \ {h.id} /\ Items(Tail(U)) \subseteq Items(U)
      /\ Before({h.id}, Held(Tail(U)))
  BY <1>1, <1>2, ShorterQueue, ShorterInOrder, TailItems
<1>4. /\ IsQueue(<<>>) /\ OnlyFollowUps(<<>>) /\ InOrder(<<>>) /\ Held(<<>>) = {}
      /\ \A E : Before({}, E) /\ Before(E, {})
  BY NothingIsInLine
<1>5. CASE FollowUpMode = "all"
  <2>1. next = U /\ Head(next) = h
    BY <1>5
  <2>2. left = <<>>
    <3>1. \A m, k \in Items(U) : m.id = k.id => m = k
      BY <1>2, QueueShape
    <3>2. IsQueue(Without(U, U)) /\ Items(Without(U, U)) = Items(U) \ Items(U)
      BY <1>2, <3>1, WithoutIs
    <3>3. Without(U, U) = <<>>
      BY <3>2, NothingHeld
    <3>4. QED
      BY <2>1, <3>3
  <2> HIDE DEF next, left, h
  <2>3. /\ OfMode(left, "steer") = <<>>
        /\ IsQueue(OfMode(left, "follow_up")) /\ Items(OfMode(left, "follow_up")) = Items(left)
    BY <1>4, <2>2, SplitLine
  <2>4. OfMode(left, "follow_up") = <<>>
    BY <2>2, <2>3, EmptyQueue, NothingHeld
  <2>5. /\ Prompted' = {h.id} /\ taken' = Tail(U) /\ control' = <<>> /\ waiting' = <<>>
    BY <1>1, <2>1, <2>3, <2>4 DEF Prompted, QueuePrompt
  <2>6. OnlyFollowUps(Tail(U))
    BY <1>2, <1>3 DEF OnlyFollowUps
  <2>7. /\ Before(Prompted', Held(taken') \cup Held(waiting')) /\ Prompted' \subseteq QueuedEntries
        /\ QueuedEntries \subseteq Held(waiting') \cup Held(control') \cup Held(taken') \cup Prompted'
    BY <1>2, <1>3, <1>4, <2>5
  <2>8. phase' \in HandPhases /\ FollowUpMode # "one-at-a-time"
    BY <1>1, <1>5 DEF HandPhases
  <2>9. QED
    BY <1>1, <1>3, <1>4, <2>5, <2>6, <2>7, <2>8, LineHandedOut
<1>6. CASE FollowUpMode # "all"
  <2>1. next = <<h>> /\ Head(next) = h /\ Tail(next) = <<>> /\ left = Without(U, <<h>>)
    BY <1>6
  <2>2. /\ IsQueue(left) /\ InOrder(left) /\ Items(left) \subseteq Items(U)
        /\ Held(left) = Held(U) \ {h.id} /\ Before({h.id}, Held(left))
    BY <1>1, <1>2, <2>1, FirstOfLine
  <2> DEFINE F == OfMode(left, "follow_up")
  <2> HIDE DEF next, left, h
  <2>3. OnlyFollowUps(left)
    BY <1>2, <2>2 DEF OnlyFollowUps
  <2>4. /\ OfMode(left, "steer") = <<>> /\ IsQueue(F) /\ Items(F) = Items(left)
        /\ OnlyFollowUps(F) /\ InOrder(F)
    BY <2>2, <2>3, SplitLine
  <2>5. Held(F) = Held(left)
    BY <2>4 DEF Held
  <2>6. /\ Prompted' = {h.id} /\ taken' = <<>> /\ control' = <<>> /\ waiting' = F
    BY <1>1, <2>1, <2>4 DEF Prompted, QueuePrompt
  <2> HIDE DEF F
  <2>7. /\ Before(Prompted', Held(taken') \cup Held(waiting')) /\ Prompted' \subseteq QueuedEntries
        /\ QueuedEntries \subseteq Held(waiting') \cup Held(control') \cup Held(taken') \cup Prompted'
    BY <1>2, <1>3, <1>4, <2>2, <2>5, <2>6
  <2>8. QED
    BY <1>1, <1>4, <2>4, <2>6, <2>7, LineHandedOut
<1>7. QED
  BY <1>5, <1>6

LEMMA FinishLine ==
  ASSUME FollowUpsAlone, TypeOK, MessageInv, LineInv, FinishStep PROVE LineInv'
<1>0. /\ IsQueue(<<>>) /\ OnlyFollowUps(<<>>) /\ InOrder(<<>>) /\ Held(<<>>) = {}
      /\ \A E : Before({}, E) /\ Before(E, {})
  BY NothingIsInLine
<1>1. ASSUME \/ BeginFinish \/ FinishCancels \/ FinishDropsClaim \/ FinishLeavesOpen
             \/ CompletionRefused \/ FinishCommits
      PROVE  LineInv'
  <2>1. /\ phase \in {"closing", "finishing"} /\ phase' # "starting"
        /\ UNCHANGED <<control, waiting, taken>>
    BY <1>1 DEF BeginFinish, FinishCancels, FinishDropsClaim, FinishLeavesOpen,
       CompletionRefused, FinishCommits, queues
  <2>2. QueuedEntries' \subseteq QueuedEntries
    <3>1. CASE FinishDropsClaim
      BY <3>1, EntryMoves DEF FinishDropsClaim, Leaves
    <3>2. CASE ~FinishDropsClaim
      <4>1. UNCHANGED entry
        BY <1>1, <3>2 DEF BeginFinish, FinishCancels, FinishLeavesOpen, CompletionRefused,
           FinishCommits, CancelRun, FinishRun, journal
      <4>2. QED
        BY <4>1, QueueRests
    <3>3. QED
      BY <3>1, <3>2
  <2>3. taken = <<>>
    BY <2>1 DEF LineInv, HandPhases
  <2>4. QED
    BY <2>1, <2>2, <2>3, LineMoves
<1>2. ASSUME ReturnRun PROVE LineInv'
  <2>1. /\ phase = "ended" /\ phase' \in {"settling", "returned"} /\ UNCHANGED <<waiting, entry>>
        /\ \/ UNCHANGED <<control, taken>>
           \/ taken' = AsFollowUps(control) /\ control' = <<>>
    BY <1>2 DEF ReturnRun, journal, queues
  <2>2. taken = <<>> /\ control = <<>>
    BY <2>1 DEF LineInv, HandPhases
  <2>3. AsFollowUps(<<>>) = <<>>
    BY <1>0, FollowUpQueue, NothingHeld
  <2>4. UNCHANGED <<control, waiting, taken>>
    BY <2>1, <2>2, <2>3
  <2>5. QED
    BY <2>1, <2>2, <2>4, QueueRests, LineMoves
<1>3. ASSUME EndCancelled PROVE LineInv'
  <2>1. /\ phase = "returned" /\ phase' = "settling" /\ UNCHANGED <<waiting, entry>>
        /\ control' = taken \o control /\ taken' = <<>>
    BY <1>3 DEF EndCancelled, journal
  <2>2. taken = <<>> /\ control = <<>>
    BY <2>1 DEF LineInv, HandPhases
  <2>3. <<>> \o <<>> = <<>>
    OBVIOUS
  <2>4. UNCHANGED <<control, waiting, taken>>
    BY <2>1, <2>2, <2>3
  <2>5. QED
    BY <2>1, <2>2, <2>4, QueueRests, LineMoves
<1>4. ASSUME EndCall PROVE LineInv'
  <2>1. /\ phase = "returned" /\ phase' = "settling" /\ UNCHANGED entry
        /\ control' = Undelivered /\ taken' = <<>> /\ waiting' = <<>>
    BY <1>4 DEF EndCall, journal
  <2>2. IsQueue(Undelivered) /\ OnlyFollowUps(Undelivered) /\ Held(Undelivered) = QueuedEntries
    BY <2>1, ReturnedLine
  <2>3. Prompted' = {}
    BY <2>1 DEF Prompted
  <2>4. QED
    BY <1>0, <2>1, <2>2, <2>3, LineHandedOut
<1>5. ASSUME Settle PROVE LineInv'
  <2>1. /\ phase = "settling" /\ phase' = "idle" /\ UNCHANGED entry
        /\ waiting' = IF control = <<>> THEN waiting ELSE DurableOrder(waiting \o control)
        /\ control' = <<>> /\ taken' = <<>>
    BY <1>5 DEF Settle, journal
  <2>2. taken = <<>> /\ Prompted = {} /\ Prompted' = {}
    BY <2>1 DEF LineInv, HandPhases, Prompted
  <2>3. /\ IsQueue(waiting) /\ IsQueue(control) /\ Held(control) \cap Held(waiting) = {}
        /\ InOrder(waiting) /\ OnlyFollowUps(waiting) /\ OnlyFollowUps(control)
    BY DEF MessageInv, QueuesApart, LineInv
  <2>4. QueuedEntries \subseteq Held(waiting) \cup Held(control)
    BY <1>0, <2>1, <2>2 DEF LineInv
  <2> DEFINE q == waiting \o control
  <2>5. /\ IsQueue(q) /\ Held(q) = Held(waiting) \cup Held(control)
        /\ Items(q) = Items(waiting) \cup Items(control)
    BY <2>3, JoinedQueues
  <2> HIDE DEF q
  <2>6. q \in Seq(Message) /\ IsFiniteSet(Held(q)) /\ Held(q) \subseteq EntryId
    BY <2>5, HeldIsFinite, QueueShape DEF IsQueue
  <2>7. /\ IsQueue(DurableOrder(q)) /\ Held(DurableOrder(q)) = Held(q)
        /\ InOrder(DurableOrder(q)) /\ Items(DurableOrder(q)) \subseteq Items(q)
    BY <2>6, OrderedQueue, DurableIsInOrder
  <2>8. /\ IsQueue(waiting') /\ InOrder(waiting') /\ QueuedEntries \subseteq Held(waiting')
        /\ OnlyFollowUps(waiting')
    <3>1. CASE control = <<>>
      BY <1>0, <2>1, <2>3, <2>4, <3>1
    <3>2. CASE control # <<>>
      <4>1. waiting' = DurableOrder(q)
        BY <2>1, <3>2 DEF q
      <4>2. QED
        BY <2>3, <2>4, <2>5, <2>7, <4>1 DEF OnlyFollowUps
    <3>3. QED
      BY <3>1, <3>2
  <2>9. QED
    BY <1>0, <2>1, <2>2, <2>8, LineHandedOut
<1>6. QED
  BY <1>1, <1>2, <1>3, <1>4, <1>5, NextPromptLine DEF FinishStep

LEMMA PassLine ==
  ASSUME TypeOK, MessageInv, LineInv, PassStep \/ RecoverStep \/ RecoveryAborted
  PROVE  LineInv'
<1>1. ASSUME UNCHANGED <<queues, entry>>, phase' # "starting",
             phase \notin {"closed", "settling"} \cup HandPhases
      PROVE  LineInv'
  <2>1. taken = <<>> /\ UNCHANGED <<control, waiting, taken>>
    BY <1>1 DEF LineInv, queues
  <2>2. QED
    BY <1>1, <2>1, QueueRests, LineMoves DEF HandPhases
<1> USE DEF HandPhases
<1>2. ASSUME \/ RestorePrompt \/ PromptRefused \/ EndDoubt \/ EndRepeat \/ EndReconcile
             \/ RecoverStep \/ RecoveryAborted
      PROVE  LineInv'
  <2>1. /\ UNCHANGED <<queues, entry>> /\ phase' # "starting"
        /\ phase \notin {"closed", "settling"} \cup HandPhases
    BY <1>2 DEF RestorePrompt, PromptRefused, EndDoubt, EndRepeat, EndReconcile, RecoverStep,
       Recover, RecoveryAborted, To, Leave, AddNode, still, loop, journal
  <2>2. QED
    BY <1>1, <2>1
<1>3. ASSUME EffectRecovery \/ CallRecovery PROVE LineInv'
  <2>1. /\ UNCHANGED <<queues, entry>> /\ phase' # "starting"
        /\ phase \notin {"closed", "settling"} \cup HandPhases
    <3>1. CASE EffectRecovery
      BY <3>1 DEF EffectRecovery, Doubt, DoubtRefused, GiveUp, Repeat, Reconcile, Resolve, To,
         Leave, MarkInDoubt, DispatchEffect, StartRecovery, ResolveEffect, Become, still, journal
    <3>2. CASE CallRecovery
      BY <3>2 DEF CallRecovery, RepeatCall, RepeatLost, StillInDoubt, RepeatReturns, Reconciled,
         MarkInDoubt, FinishEffect, ReconcileEffect, Become, still, journal
    <3>3. QED
      BY <1>3, <3>1, <3>2
  <2>2. QED
    BY <1>1, <2>1
<1>4. ASSUME NEW e \in EntryId, ConsumeMessage(e) PROVE LineInv'
  <2>1. /\ FinishEntry(e, "consumed") /\ UNCHANGED <<control, waiting, taken>>
        /\ phase = "r_queues" /\ phase' = "r_queues"
    BY <1>4 DEF ConsumeMessage, To, still, queues
  <2>2. QueuedEntries' \subseteq QueuedEntries
    BY <2>1, EntryMoves DEF Leaves
  <2>3. taken = <<>>
    BY <2>1 DEF LineInv
  <2>4. QED
    BY <2>1, <2>2, <2>3, LineMoves
<1>5. ASSUME SettleRecovery, ~(\E e \in EntryId : ConsumeMessage(e)) PROVE LineInv'
  <2>1. /\ UNCHANGED <<queues, entry>> /\ phase' # "starting"
        /\ phase \notin {"closed", "settling"} \cup HandPhases
    BY <1>5 DEF SettleRecovery, RestoreResult, Reply, RestoreMessage,
       RecoveryCancels, AlreadyCancelled, StaysBlocked, AllResolved, EndResults, EndReplies,
       EndQueues, RecoveryFinishes, To, Leave, AddNode, CancelRun, FinishRun, still, journal
  <2>2. QED
    BY <1>1, <2>1
<1>6. QED
  BY <1>2, <1>3, <1>4, <1>5 DEF PassStep

LEMMA LineStep ==
  ASSUME FollowUpsAlone, TypeOK, EntriesInOrder, Calm, MessageInv, LineInv,
         ~AcceptRefused, ~ClaimRefused, [SessionNext]_session
  PROVE  LineInv'
<1>0. /\ IsQueue(<<>>) /\ OnlyFollowUps(<<>>) /\ InOrder(<<>>) /\ Held(<<>>) = {}
      /\ \A E : Before({}, E) /\ Before(E, {})
  BY NothingIsInLine
<1>1. ASSUME Crash PROVE LineInv'
  <2>1. control' = <<>> /\ waiting' = <<>> /\ taken' = <<>> /\ phase' = "closed"
    BY <1>1 DEF Crash
  <2>2. Prompted' = {}
    BY <2>1 DEF Prompted
  <2>3. QED
    BY <1>0, <2>1, <2>2 DEF LineInv
<1>2. ASSUME Reopen PROVE LineInv'
  <2>1. /\ waiting' = InMemory(QueuedEntries) /\ control' = <<>> /\ taken' = <<>>
        /\ phase' = "idle" /\ UNCHANGED entry
    BY <1>2 DEF Reopen, journal, MessageInv, Moments
  <2>2. IsFiniteSet(QueuedEntries) /\ QueuedEntries \subseteq EntryId
    BY DEF MessageInv, HeldAreQueued, QueuedEntries
  <2>3. /\ IsQueue(InMemory(QueuedEntries)) /\ Held(InMemory(QueuedEntries)) = QueuedEntries
        /\ InOrder(InMemory(QueuedEntries))
        /\ \A m \in Items(InMemory(QueuedEntries)) : \E e \in QueuedEntries : m = Restored(e)
    BY <2>2, RestoredQueue, RestoredIsInOrder
  <2>4. OnlyFollowUps(waiting')
    <3>1. \A e \in QueuedEntries : Restored(e).mode = "follow_up"
      BY DEF EntriesInOrder, QueuedEntries, Restored
    <3>2. QED
      BY <2>1, <2>3, <3>1 DEF OnlyFollowUps
  <2>5. Prompted' = {}
    BY <2>1 DEF Prompted
  <2>6. QED
    BY <1>0, <2>1, <2>3, <2>4, <2>5, LineHandedOut
<1>3. ASSUME UNCHANGED session PROVE LineInv'
  <2>1. UNCHANGED <<phase, prompt, control, waiting, taken, entry>>
    BY <1>3 DEF session, agent, journal, loop, queues
  <2>2. QED
    BY <2>1, QueueRests, LineRests
<1>4. QED
  BY <1>1, <1>2, <1>3, HostLine, AcceptLine, DeliverLine, TurnLine, ToolLine, FinishLine, PassLine
     DEF SessionNext, ProcessStep, RunLoopStep

-----------------------------------------------------------------------------
(* The effects of the open run.  Outside of a batch each has its outcome   *)
(* and its result message, and so has the run that ends of its own accord; *)
(* within one, those that are not over are about to be called or running.  *)

Done(t) == effect[t].status \in Terminal /\ Exists(effect[t].result)

LoopPhases ==
  {"accepted", "consume", "deliver", "turn", "steering", "asking", "failing", "answered"}

Ending == phase \in {"closing", "finishing"} /\ outcome # "cancelled"

EffectsNow ==
  /\ phase \in LoopPhases \/ Ending => \A t \in Mine : Done(t)
  /\ phase = "tools" => \A t \in Mine :
       /\ Done(t) \/ effect[t].result = answer
       /\ \/ effect[t].status \in Terminal
          \/ effect[t].status = "prepared" /\ t \in due
          \/ effect[t].status = "dispatched" /\ t \in due \cup running

LEMMA DoneStays ==
  ASSUME TypeOK, [Next]_journal, NEW t \in EffectId, effect[t].status # "absent"
  PROVE  /\ effect[t].status \in Terminal => effect'[t].status \in Terminal
         /\ effect'[t].result = effect[t].result /\ effect'[t].op = effect[t].op
         /\ Done(t) => Done(t)'
<1>1. CASE Next
  <2>1. /\ effect'[t].result = effect[t].result /\ effect'[t].op = effect[t].op
        /\ effect[t].status \in Terminal => effect'[t] = effect[t]
    BY <1>1, EffectIdentity
  <2>2. \A n : Exists(n) => Exists(n)'
    BY <1>1, NodesAreFinal DEF Exists
  <2>3. QED
    BY <2>1, <2>2 DEF Done
<1>2. CASE UNCHANGED journal
  BY <1>2 DEF journal, Done, Exists
<1>3. QED
  BY <1>1, <1>2

(* A step that prepares nothing adds nothing to the effects of the run.    *)
LEMMA MineStays ==
  ASSUME TypeOK, [Next]_journal, NoBirth, open' = open, NEW t \in Mine'
  PROVE  t \in Mine /\ t \in EffectId /\ effect[t].status # "absent"
<1>1. t \in EffectId /\ effect'[t].status # "absent" /\ effect'[t].op = open'
  BY DEF Mine, EffectsOf
<1>2. effect[t].status # "absent"
  BY <1>1 DEF NoBirth
<1>3. effect[t].op = effect'[t].op
  BY <1>1, <1>2, DoneStays
<1>4. QED
  BY <1>1, <1>2, <1>3 DEF Mine, EffectsOf

LEMMA AllStayDone ==
  ASSUME TypeOK, [Next]_journal, NoBirth, open' = open, \A t \in Mine : Done(t)
  PROVE  \A t \in Mine' : Done(t)'
<1>1. SUFFICES ASSUME NEW t \in Mine' PROVE Done(t)'
  OBVIOUS
<1>2. t \in Mine /\ t \in EffectId /\ effect[t].status # "absent"
  BY MineStays
<1>3. QED
  BY <1>2, DoneStays

(* How the process gets to where the effects have to be over ...           *)
LEMMA LoopFrom ==
  ASSUME FollowUpsAlone, Calm, [SessionNext]_session, phase' \in LoopPhases \/ Ending'
  PROVE  phase \in LoopPhases \/ Ending \/ Accept \/ AnswerCalls
<1> USE DEF LoopPhases, Ending
<1>1. ASSUME HostStep PROVE phase \in LoopPhases \/ Ending
  BY <1>1 DEF HostStep, Queue, Dequeue, Prompt, Continue, Begin, Abort, CancelRetry, Close, loop
<1>2. ASSUME \/ RecoverStep \/ RecoveryAborted \/ Crash \/ Reopen \/ UNCHANGED session
      PROVE  phase \in LoopPhases \/ Ending
  BY <1>2 DEF RecoverStep, Recover, RecoveryAborted, Leave, Crash, Reopen, session, agent, loop
<1>3. ASSUME AcceptStep PROVE phase \in LoopPhases \/ Accept
  BY <1>3 DEF AcceptStep, AcceptRefused, StartFails, RecordAbort, AppendPrompt, ConsumePrompt
<1>4. ASSUME DeliverStep PROVE phase \in LoopPhases
  BY <1>4 DEF DeliverStep, Delivering, BeginDelivery, ClaimRefused, AppendDelivery,
     EndDelivery, AllDelivered
<1>5. ASSUME TurnStep PROVE phase \in LoopPhases \/ AnswerCalls
  BY <1>5 DEF TurnStep, TakeTurn, Ask, AttemptFails, Retry, Respond, AnswerWithoutCalls,
     Onward, Pause, PlanTools
<1>6. ASSUME ToolStep PROVE phase \in LoopPhases \/ Ending
  BY <1>6 DEF ToolStep, RefuseTool, PrepareTool, DispatchTool, CallTool, ToolNotCalled,
     ToolReturns, Close, loop
<1>7. ASSUME FaultStep PROVE phase \in LoopPhases
  BY <1>7 DEF FaultStep, NoticeAbort, Throw, ProviderFails, StepLimit, Close, FollowUpsAlone,
     Calm
<1>8. ASSUME FinishStep PROVE Ending
  BY <1>8 DEF FinishStep, BeginFinish, FinishCancels, FinishDropsClaim, FinishLeavesOpen,
     CompletionRefused, FinishCommits, ReturnRun, EndCancelled, EndCall, NextPrompt, Settle,
     loop
<1>9. ASSUME PassStep PROVE FALSE
  BY <1>9 DEF PassStep, RestorePrompt, PromptRefused, EndDoubt, EndRepeat, EndReconcile, To,
     Leave, EffectRecovery, Doubt, DoubtRefused, GiveUp, Repeat, Reconcile, Resolve,
     CallRecovery, RepeatCall, RepeatLost, StillInDoubt, RepeatReturns, Reconciled,
     SettleRecovery, RestoreResult, Reply, RestoreMessage, ConsumeMessage, RecoveryCancels,
     AlreadyCancelled, StaysBlocked, AllResolved, EndResults, EndReplies, EndQueues,
     RecoveryFinishes
<1>10. QED
  BY <1>1, <1>2, <1>3, <1>4, <1>5, <1>6, <1>7, <1>8, <1>9 DEF SessionNext, ProcessStep, RunLoopStep

(* ... and how to a batch, and through it.                                 *)
LEMMA BatchFrom ==
  ASSUME [SessionNext]_session, phase' = "tools"
  PROVE  \/ PlanTools
         \/ phase = "tools" /\ UNCHANGED <<effect, answer, due, running>>
         \/ phase = "tools" /\ UNCHANGED <<answer, due, running>> /\ CancelRun(run)
         \/ phase = "tools" /\ ToolStep
<1>1. ASSUME HostStep
      PROVE  phase = "tools" /\ UNCHANGED <<answer, due, running>>
             /\ (UNCHANGED effect \/ CancelRun(run))
  <2>1. ASSUME NEW mode \in QueueModes, Queue(mode)
        PROVE  phase = "tools" /\ UNCHANGED <<effect, answer, due, running>>
    BY <1>1, <2>1 DEF Queue, AddEntry, tools
  <2>2. ASSUME Dequeue PROVE phase = "tools" /\ UNCHANGED <<effect, answer, due, running>>
    BY <2>2 DEF Dequeue, FinishEntry, tools
  <2>3. ~(Prompt \/ Continue \/ CancelRetry)
    BY DEF Prompt, Continue, Begin, CancelRetry, Close
  <2>4. ASSUME Abort
        PROVE  phase = "tools" /\ UNCHANGED <<answer, due, running>>
               /\ (UNCHANGED effect \/ CancelRun(run))
    BY <2>4 DEF Abort, tools, journal
  <2>5. QED
    BY <1>1, <2>1, <2>2, <2>3, <2>4 DEF HostStep
<1>2. ASSUME \/ RecoverStep \/ RecoveryAborted \/ Crash \/ Reopen \/ UNCHANGED session
      PROVE  phase = "tools" /\ UNCHANGED <<effect, answer, due, running>>
  BY <1>2 DEF RecoverStep, Recover, RecoveryAborted, Leave, Crash, Reopen, session, agent, tools,
     journal
<1>3. ASSUME AcceptStep \/ DeliverStep PROVE FALSE
  BY <1>3 DEF AcceptStep, Accept, AcceptRefused, StartFails, RecordAbort, AppendPrompt,
     ConsumePrompt, DeliverStep, Delivering, BeginDelivery, ClaimRefused, AppendDelivery,
     EndDelivery, AllDelivered, Close
<1>4. ASSUME TurnStep PROVE PlanTools
  BY <1>4 DEF TurnStep, TakeTurn, Ask, AttemptFails, Retry, Respond, AnswerWithoutCalls,
     Onward, Pause, AnswerCalls
<1>5. ASSUME ToolStep PROVE phase = "tools"
  BY <1>5 DEF ToolStep, RefuseTool, PrepareTool, DispatchTool, CallTool, ToolNotCalled,
     ToolReturns, Close
<1>6. ASSUME FaultStep \/ FinishStep PROVE FALSE
  BY <1>6 DEF FaultStep, NoticeAbort, Throw, ProviderFails, StepLimit, Close, FinishStep,
     BeginFinish, FinishCancels, FinishDropsClaim, FinishLeavesOpen, CompletionRefused,
     FinishCommits, ReturnRun, EndCancelled, EndCall, NextPrompt, Settle
<1>7. ASSUME PassStep PROVE FALSE
  BY <1>7 DEF PassStep, RestorePrompt, PromptRefused, EndDoubt, EndRepeat, EndReconcile, To,
     Leave, EffectRecovery, Doubt, DoubtRefused, GiveUp, Repeat, Reconcile, Resolve,
     CallRecovery, RepeatCall, RepeatLost, StillInDoubt, RepeatReturns, Reconciled,
     SettleRecovery, RestoreResult, Reply, RestoreMessage, ConsumeMessage, RecoveryCancels,
     AlreadyCancelled, StaysBlocked, AllResolved, EndResults, EndReplies, EndQueues,
     RecoveryFinishes
<1>8. QED
  BY <1>1, <1>2, <1>3, <1>4, <1>5, <1>6, <1>7 DEF SessionNext, ProcessStep, RunLoopStep

(* What a step does to one effect of the batch that is not over.           *)
Keeps(t) ==
  /\ effect'[t].result = effect[t].result /\ answer' = answer
  /\ \/ effect'[t].status \in Terminal
     \/ effect'[t].status = "prepared" /\ t \in due'
     \/ effect'[t].status = "dispatched" /\ t \in due' \cup running'

LEMMA ToolKeeps ==
  ASSUME TypeOK, Where, EffectsNow, Calm, FollowUpsAlone, [Next]_journal, ToolStep,
         phase = "tools", phase' = "tools", NEW t \in Mine
  PROVE  Keeps(t)
<1>0. /\ t \in EffectId /\ effect[t].status # "absent" /\ effect[t].op = open
      /\ run = open /\ effect \in [EffectId -> Effect] /\ effect[t] \in Effect
  BY DEF Mine, EffectsOf, Where, RunPhases, TypeOK
<1>1. \/ effect[t].status \in Terminal
      \/ effect[t].status = "prepared" /\ t \in due
      \/ effect[t].status = "dispatched" /\ t \in due \cup running
  BY DEF EffectsNow
<1>2. /\ effect'[t].result = effect[t].result
      /\ effect[t].status \in Terminal => effect'[t].status \in Terminal
  BY <1>0, DoneStays
<1>3. ASSUME NEW c \in CallId, RefuseTool(c) PROVE Keeps(t)
  <2>1. UNCHANGED <<effect, answer, due, running>>
    BY <1>3 DEF RefuseTool, journal
  <2>2. QED
    BY <1>1, <2>1 DEF Keeps
<1>4. ASSUME NEW c \in CallId, NEW policy \in EffectPolicies, PrepareTool(c, policy) PROVE Keeps(t)
  <2>1. /\ due' = due \cup {NewEffect} /\ UNCHANGED <<answer, running>>
        /\ PrepareEffect(NewEffect, run, c, policy, answer, head) /\ NewEffect \in EffectId
    BY <1>4, NewIdentifiers DEF PrepareTool
  <2>2. effect'[t] = effect[t]
    BY <1>0, <2>1, OneBirth DEF PrepareEffect
  <2>3. QED
    BY <1>1, <2>1, <2>2 DEF Keeps
<1>5. ASSUME NEW u \in EffectId, DispatchTool(u) PROVE Keeps(t)
  <2>1. /\ UNCHANGED <<answer, due, running>> /\ DispatchEffect(u) /\ u \in due
    BY <1>5 DEF DispatchTool, tools
  <2>2. (u # t => effect'[t] = effect[t]) /\ effect'[u].status = "dispatched"
    BY <1>0, <2>1 DEF DispatchEffect, Effect
  <2>3. QED
    BY <1>1, <1>2, <2>1, <2>2 DEF Keeps
<1>6. ASSUME NEW u \in EffectId, CallTool(u) PROVE Keeps(t)
  <2>1. /\ due' = due \ {u} /\ running' = running \cup {u} /\ UNCHANGED <<effect, answer>>
        /\ effect[u].status = "dispatched"
    BY <1>6 DEF CallTool, journal
  <2>2. t = u => effect[t].status = "dispatched"
    BY <2>1
  <2>3. QED
    BY <1>1, <2>1, <2>2 DEF Keeps, Terminal
<1>7. ASSUME NEW u \in EffectId, ToolNotCalled(u) PROVE FALSE
  BY <1>7 DEF ToolNotCalled, Calm, FollowUpsAlone
<1>8. ASSUME NEW u \in EffectId, NEW result, ToolReturns(u, result) PROVE Keeps(t)
  <2>1. /\ running' = running \ {u} /\ UNCHANGED <<answer, due>>
        /\ IF Live(u) /\ effect[u].status = "dispatched"
           THEN FinishEffect(u, result)
           ELSE UNCHANGED journal
    BY <1>8 DEF ToolReturns, Close
  <2>2. u # t => effect'[t] = effect[t]
    BY <1>0, <2>1 DEF FinishEffect, Become, journal
  <2>3. ASSUME u = t PROVE Keeps(t)
    <3>1. CASE effect[t].status = "dispatched"
      <4>1. FinishEffect(t, result)
        BY <1>0, <2>1, <2>3, <3>1 DEF Live
      <4>2. effect'[t].status \in Terminal
        BY <1>0, <4>1 DEF FinishEffect, Become, Effect, Terminal
      <4>3. QED
        BY <1>2, <2>1, <4>2 DEF Keeps
    <3>2. CASE effect[t].status # "dispatched"
      <4>1. UNCHANGED effect
        BY <2>1, <2>3, <3>2 DEF journal
      <4>2. QED
        BY <1>1, <2>1, <3>2, <4>1 DEF Keeps
    <3>3. QED
      BY <3>1, <3>2
  <2>4. QED
    BY <1>1, <2>1, <2>2, <2>3 DEF Keeps
<1>9. QED
  BY <1>3, <1>4, <1>5, <1>6, <1>7, <1>8 DEF ToolStep

LEMMA EffectsNowStep ==
  ASSUME FollowUpsAlone, TypeOK, OneOpenRun, EffectsRooted, Where, PromptPlaced, Path, Calm,
         EffectsNow, [SessionNext]_session
  PROVE  EffectsNow'
<1>1. [Next]_journal /\ Where' /\ TypeOK'
  BY SessionIsJournalled, WhereStep, TypeStep
<1>2. ASSUME phase' \in LoopPhases \/ Ending' PROVE \A t \in Mine' : Done(t)'
  <2>1. open' # None
    BY <1>1, <1>2 DEF Where, RunPhases, LoopPhases, Ending
  <2>2. ASSUME Accept PROVE \A t \in Mine' : Done(t)'
    <3>1. open' = NewOp /\ UNCHANGED effect /\ op[NewOp].status = "absent" /\ NewOp \in OpId
      BY <2>2, NewIdentifiers DEF Accept, AcceptRun, AcceptQueuedRun
    <3>2. Mine' = {}
      BY <3>1 DEF Mine, EffectsOf, EffectsRooted, InBeing
    <3>3. QED
      BY <3>2
  <2>3. ASSUME AnswerCalls PROVE \A t \in Mine' : Done(t)'
    <3>1. /\ phase = "tools" /\ due = {} /\ running \cap Mine = {} /\ open = run
      BY <2>3 DEF AnswerCalls, Executing, Mine, Where, RunPhases
    <3>2. /\ UNCHANGED <<effect, open>> /\ answer \in NodeId /\ node'[answer].role = "tool"
          /\ \A n \in NodeId : n # answer => node'[n] = node[n]
      BY <2>3, <3>1 DEF AnswerCalls, AddNode, CanAddNode, TypeOK
    <3>3. Mine' = Mine
      BY <3>2 DEF Mine, EffectsOf
    <3>4. ASSUME NEW t \in Mine PROVE Done(t)'
      <4>1. effect[t].status \in Terminal
        BY <3>1 DEF EffectsNow
      <4>2. Done(t) \/ effect[t].result = answer
        BY <3>1 DEF EffectsNow
      <4>3. Exists(effect[t].result)'
        BY <3>2, <4>2 DEF Done, Exists
      <4>4. QED
        BY <3>2, <4>1, <4>3 DEF Done
    <3>5. QED
      BY <3>3, <3>4
  <2>4. ASSUME phase \in LoopPhases \/ Ending, ~AnswerCalls PROVE \A t \in Mine' : Done(t)'
    <3>1. open # None /\ \A t \in Mine : Done(t)
      BY <2>4 DEF EffectsNow, Where, RunPhases, LoopPhases, Ending
    <3>2. open' = open
      BY <1>1, <2>1, <3>1, OpenStays
    <3>3. CASE NoBirth
      BY <1>1, <3>1, <3>2, <3>3, AllStayDone
    <3>4. CASE ~NoBirth
      <4>1. ~(\E c \in CallId, policy \in EffectPolicies : PrepareTool(c, policy))
        BY <1>2 DEF PrepareTool, LoopPhases, Ending
      <4>2. ~(Speaks \/ (\E called \in SUBSET CallId : Respond(called))
              \/ \E n \in NodeId : RestoreResult(n) \/ Reply(n))
        BY <3>4, EffectsAreNotBorn DEF Speaks, Says, Respond, RestoreResult, Reply, AddNode
      <4>3. QED
        BY <2>4, <3>4, <4>1, <4>2, StepKinds DEF Waits
    <3>5. QED
      BY <3>3, <3>4
  <2>5. QED
    BY <1>2, <2>2, <2>3, <2>4, LoopFrom
<1>3. ASSUME phase' = "tools", NEW t \in Mine'
      PROVE  /\ Done(t)' \/ effect'[t].result = answer'
             /\ \/ effect'[t].status \in Terminal
                \/ effect'[t].status = "prepared" /\ t \in due'
                \/ effect'[t].status = "dispatched" /\ t \in due' \cup running'
  <2>1. open' # None
    BY <1>1, <1>3 DEF Where, RunPhases
  <2>2. phase \in RunPhases
    BY <1>3, BatchFrom DEF PlanTools, RunPhases
  <2>3. open # None /\ run = open
    BY <2>2 DEF Where
  <2>4. open' = open
    BY <1>1, <2>1, <2>3, OpenStays
  <2>5. CASE PlanTools
    <3>1. UNCHANGED effect /\ phase \in LoopPhases /\ Mine' = Mine /\ UNCHANGED node
      BY <2>4, <2>5 DEF PlanTools, journal, LoopPhases, Mine, EffectsOf
    <3>2. Done(t)
      BY <3>1 DEF EffectsNow
    <3>3. QED
      BY <3>1, <3>2 DEF Done, Exists
  <2>6. CASE phase = "tools" /\ ~PlanTools
    <3>1. ASSUME t \in Mine, Keeps(t)
          PROVE  /\ Done(t)' \/ effect'[t].result = answer'
                 /\ \/ effect'[t].status \in Terminal
                    \/ effect'[t].status = "prepared" /\ t \in due'
                    \/ effect'[t].status = "dispatched" /\ t \in due' \cup running'
      <4>1. Done(t) \/ effect[t].result = answer
        BY <2>6, <3>1 DEF EffectsNow
      <4>2. t \in EffectId /\ effect[t].status # "absent"
        BY <3>1 DEF Mine, EffectsOf
      <4>3. Done(t) => Done(t)'
        BY <1>1, <4>2, DoneStays
      <4>4. QED
        BY <3>1, <4>1, <4>3 DEF Keeps
    <3>2. CASE UNCHANGED <<effect, answer, due, running>>
      <4>1. t \in Mine
        BY <2>4, <3>2 DEF Mine, EffectsOf
      <4>2. Keeps(t)
        BY <2>6, <3>2, <4>1 DEF EffectsNow, Keeps
      <4>3. QED
        BY <3>1, <4>1, <4>2
    <3>3. CASE UNCHANGED <<answer, due, running>> /\ CancelRun(run)
      <4>1. NoBirth
        BY <3>3, EffectsAreNotBorn
      <4>2. t \in Mine /\ t \in EffectId /\ effect[t].status # "absent"
        BY <1>1, <2>4, <4>1, MineStays
      <4>3. /\ effect'[t].result = effect[t].result
            /\ effect'[t].status = effect[t].status \/ effect'[t].status \in Terminal
        BY <3>3, <4>2 DEF CancelRun, Terminal, TypeOK, Effect
      <4>4. Keeps(t)
        BY <2>6, <3>3, <4>2, <4>3 DEF EffectsNow, Keeps
      <4>5. QED
        BY <3>1, <4>2, <4>4
    <3>4. CASE ToolStep
      <4>1. CASE t \in Mine
        BY <1>1, <1>3, <2>6, <3>1, <3>4, <4>1, ToolKeeps
      <4>2. CASE t \notin Mine
        <5>1. ~NoBirth
          BY <1>1, <2>4, <4>2, MineStays
        <5>2. PICK c \in CallId, policy \in EffectPolicies : PrepareTool(c, policy)
          BY <3>4, <5>1, ToolKinds DEF Waits
        <5>3. /\ PrepareEffect(NewEffect, run, c, policy, answer, head) /\ NewEffect \in EffectId
              /\ due' = due \cup {NewEffect} /\ answer' = answer
          BY <5>2, NewIdentifiers DEF PrepareTool
        <5>4. t \in EffectId /\ effect'[t].status # "absent" /\ effect'[t].op = open
          BY <2>4 DEF Mine, EffectsOf
        <5>5. t = NewEffect
          <6>1. t # NewEffect => effect'[t] = effect[t]
            BY <5>3, <5>4, OneBirth
          <6>2. QED
            BY <4>2, <5>4, <6>1 DEF Mine, EffectsOf
        <5>6. effect'[t].result = answer /\ effect'[t].status = "prepared"
          BY <5>3, <5>5 DEF PrepareEffect, TypeOK
        <5>7. QED
          BY <5>3, <5>5, <5>6
      <4>3. QED
        BY <4>1, <4>2
    <3>5. QED
      BY <1>3, <2>6, <3>2, <3>3, <3>4, BatchFrom
  <2>7. QED
    BY <1>3, <2>5, <2>6, BatchFrom
<1>4. QED
  BY <1>2, <1>3 DEF EffectsNow

(* What a step does to the entries that are claimed.                       *)
LEMMA ClaimsMove ==
  ASSUME TypeOK, NEW e
  PROVE  /\ \A x \in {"consumed", "cancelled"} :
              FinishEntry(e, x) => ClaimedEntries' \subseteq ClaimedEntries \ {e}
         /\ \A o : ClaimEntry(e, o) => ClaimedEntries' \subseteq ClaimedEntries \cup {e}
         /\ \A o : AcceptQueuedRun(o, e) => ClaimedEntries' \subseteq ClaimedEntries \cup {e}
         /\ \A n, k : AddEntry(e, n, k) => ClaimedEntries' \subseteq ClaimedEntries
<1>0. entry \in [EntryId -> Entry]
  BY DEF TypeOK
<1>1. ASSUME NEW x \in {"consumed", "cancelled"}, FinishEntry(e, x)
      PROVE  ClaimedEntries' \subseteq ClaimedEntries \ {e}
  <2>1. e \in EntryId /\ entry' = [entry EXCEPT ![e].status = x]
    BY <1>1 DEF FinishEntry, CanConsume, CanCancelEntry
  <2>2. entry'[e].status = x /\ \A f \in EntryId : f # e => entry'[f] = entry[f]
    BY <1>0, <2>1 DEF Entry
  <2>3. QED
    BY <2>2 DEF ClaimedEntries
<1>2. ASSUME NEW o, ClaimEntry(e, o) \/ AcceptQueuedRun(o, e)
      PROVE  ClaimedEntries' \subseteq ClaimedEntries \cup {e}
  <2>1. entry' = [entry EXCEPT ![e] = [@ EXCEPT !.status = "claimed", !.op = o]]
    BY <1>2 DEF ClaimEntry, AcceptQueuedRun
  <2>2. \A f \in EntryId : f # e => entry'[f] = entry[f]
    BY <1>0, <2>1
  <2>3. QED
    BY <2>2 DEF ClaimedEntries
<1>3. ASSUME NEW n, NEW k, AddEntry(e, n, k) PROVE ClaimedEntries' \subseteq ClaimedEntries
  <2>1. entry'[e].status = "queued" /\ \A f \in EntryId : f # e => entry'[f] = entry[f]
    BY <1>0, <1>3 DEF AddEntry
  <2>2. QED
    BY <2>1 DEF ClaimedEntries
<1>4. QED
  BY <1>1, <1>2, <1>3

ClaimPhases ==
  {"starting", "accepted", "consume", "deliver", "turn", "steering", "asking", "failing",
   "answered", "tools"}

EndPhases == {"closing", "finishing", "ended", "returned"}

(* A step that stays where it is, and one that goes where nothing is said. *)
ClaimsStay ==
  /\ UNCHANGED <<phase, prompt, outcome, taken, open>>
  /\ ClaimedEntries' \subseteq ClaimedEntries

ClaimsIdle == phase' \notin ClaimPhases /\ (phase' \in EndPhases => outcome' = "cancelled")

LEMMA ClaimsRest ==
  ASSUME TypeOK, OneOpenRun, Where, ClaimsInv, [Next]_journal, ClaimsStay \/ ClaimsIdle
  PROVE  ClaimsInv'
<1>1. CASE ClaimsIdle
  BY <1>1 DEF ClaimsIdle, ClaimPhases, EndPhases, ClaimsInv
<1>2. CASE ClaimsStay
  <2>1. phase \in {"closing", "finishing"} /\ PromptInPlace => PromptInPlace'
    BY <1>2, OpenRunStays DEF ClaimsStay, Where, RunPhases
  <2>2. QED
    BY <1>2, <2>1 DEF ClaimsStay, ClaimsInv
<1>3. QED
  BY <1>1, <1>2

LEMMA HostClaims ==
  ASSUME TypeOK, OneOpenRun, Where, ClaimsInv, [Next]_journal, HostStep
  PROVE  ClaimsInv'
<1>1. ASSUME NEW mode \in QueueModes, Queue(mode) PROVE ClaimsStay
  <2>1. \E k : AddEntry(NewEntry, NewNode, k)
    BY <1>1 DEF Queue
  <2>2. open' = open /\ ClaimedEntries' \subseteq ClaimedEntries
    BY <2>1, ClaimsMove DEF AddEntry
  <2>3. QED
    BY <1>1, <2>2 DEF Queue, loop, ClaimsStay
<1>2. ASSUME Dequeue PROVE ClaimsStay
  <2>1. \E e : FinishEntry(e, "cancelled")
    BY <1>2 DEF Dequeue
  <2>2. open' = open /\ ClaimedEntries' \subseteq ClaimedEntries
    BY <2>1, ClaimsMove DEF FinishEntry
  <2>3. QED
    BY <1>2, <2>2 DEF Dequeue, loop, ClaimsStay
<1>3. ASSUME Prompt \/ Continue PROVE ClaimsInv'
  BY <1>3 DEF Prompt, Continue, Begin, journal, ClaimsInv
<1>4. ASSUME Abort PROVE ClaimsStay
  BY <1>4 DEF Abort, CancelRun, journal, queues, ClaimsStay, ClaimedEntries
<1>5. ASSUME CancelRetry PROVE ClaimsIdle
  BY <1>5 DEF CancelRetry, Close, ClaimsIdle, ClaimPhases
<1>6. QED
  BY <1>1, <1>2, <1>3, <1>4, <1>5, ClaimsRest DEF HostStep

LEMMA AcceptClaims ==
  ASSUME TypeOK, OneOpenRun, Where, ClaimsInOrder, ClaimsInv, [Next]_journal, AcceptStep
  PROVE  ClaimsInv'
<1>1. ASSUME Accept PROVE ClaimsInv'
  <2>1. /\ phase = "starting" /\ phase' = "accepted" /\ UNCHANGED prompt
        /\ \/ UNCHANGED entry
           \/ prompt.from = "queue" /\ AcceptQueuedRun(NewOp, prompt.id)
    BY <1>1 DEF Accept, AcceptRun
  <2>2. ClaimedEntries = {}
    BY <2>1 DEF ClaimsInv, ClaimsInOrder, ClaimedEntries
  <2>3. \A e \in ClaimedEntries' : prompt.from = "queue" /\ e = prompt.id
    BY <2>1, <2>2, ClaimsMove DEF ClaimedEntries
  <2>4. QED
    BY <2>1, <2>3 DEF ClaimsInv
<1>2. ASSUME AcceptRefused \/ StartFails PROVE ClaimsIdle
  BY <1>2 DEF AcceptRefused, StartFails, ClaimsIdle, ClaimPhases, EndPhases
<1>3. ASSUME RecordAbort PROVE ClaimsStay
  BY <1>3 DEF RecordAbort, CancelRun, loop, queues, ClaimsStay, ClaimedEntries
<1>4. ASSUME AppendPrompt PROVE ClaimsInv'
  <2>1. /\ phase = "accepted" /\ UNCHANGED <<prompt, entry>>
        /\ \/ phase' = "consume"
           \/ phase' = "deliver" /\ prompt.from # "queue"
    BY <1>4 DEF AppendPrompt, AddNode, journal, loop
  <2>2. ClaimedEntries' = ClaimedEntries
    BY <2>1 DEF ClaimedEntries
  <2>3. QED
    BY <2>1, <2>2 DEF ClaimsInv
<1>5. ASSUME ConsumePrompt PROVE ClaimsInv'
  <2>1. phase = "consume" /\ phase' = "deliver" /\ FinishEntry(prompt.id, "consumed")
    BY <1>5 DEF ConsumePrompt
  <2>2. ClaimedEntries' \subseteq ClaimedEntries \ {prompt.id}
    BY <2>1, ClaimsMove
  <2>3. ClaimedEntries' = {}
    BY <2>1, <2>2 DEF ClaimsInv
  <2>4. QED
    BY <2>1, <2>3 DEF ClaimsInv
<1>6. QED
  BY <1>1, <1>2, <1>3, <1>4, <1>5, ClaimsRest DEF AcceptStep

LEMMA DeliverClaims ==
  ASSUME TypeOK, OneOpenRun, Where, ClaimsInv, LineInv, ~ClaimRefused, [Next]_journal, DeliverStep
  PROVE  ClaimsInv'
<1>1. Delivering => phase = "deliver"
  BY DEF Delivering, LineInv, HandPhases
<1>2. ASSUME BeginDelivery PROVE ClaimsInv'
  <2>1. /\ phase = "deliver" /\ taken # <<>> /\ ClaimEntry(Delivered, run)
        /\ UNCHANGED <<phase, taken>>
    BY <1>1, <1>2 DEF BeginDelivery, Delivering, queues
  <2>2. ClaimedEntries' \subseteq ClaimedEntries \cup {Head(taken).id}
    BY <2>1, ClaimsMove DEF Delivered
  <2>3. \A e \in ClaimedEntries' : taken # <<>> /\ e = Head(taken).id
    BY <2>1, <2>2 DEF ClaimsInv
  <2>4. QED
    BY <2>1, <2>3 DEF ClaimsInv
<1>3. ASSUME AppendDelivery PROVE ClaimsStay
  BY <1>3 DEF AppendDelivery, AddNode, loop, queues, ClaimsStay, ClaimedEntries
<1>4. ASSUME EndDelivery PROVE ClaimsInv'
  <2>1. phase = "deliver" /\ phase' = "deliver" /\ FinishEntry(Delivered, "consumed")
    BY <1>1, <1>4 DEF EndDelivery
  <2>2. ClaimedEntries' \subseteq ClaimedEntries \ {Head(taken).id}
    BY <2>1, ClaimsMove DEF Delivered
  <2>3. ClaimedEntries' = {}
    BY <2>1, <2>2 DEF ClaimsInv
  <2>4. QED
    BY <2>1, <2>3 DEF ClaimsInv
<1>5. ASSUME AllDelivered PROVE ClaimsInv'
  <2>1. phase = "deliver" /\ phase' = "turn" /\ taken = <<>> /\ UNCHANGED entry
    BY <1>5 DEF AllDelivered, journal
  <2>2. ClaimedEntries' = {}
    BY <2>1 DEF ClaimsInv, ClaimedEntries
  <2>3. QED
    BY <2>1, <2>2 DEF ClaimsInv
<1>6. QED
  BY <1>2, <1>3, <1>4, <1>5, ClaimsRest DEF DeliverStep

(* From a turn, which has nothing claimed, the run goes on or ends.        *)
TurnPhases == {"turn", "steering", "asking", "failing", "answered", "tools"}

LEMMA TurnClaims ==
  ASSUME TypeOK, OneOpenRun, Where, PromptPlaced, ClaimsInv, [Next]_journal,
         phase \in TurnPhases, UNCHANGED <<entry, open>>,
         phase' \in TurnPhases \cup {"deliver", "closing"}
  PROVE  ClaimsInv'
<1>1. ClaimedEntries' = {}
  BY DEF ClaimsInv, ClaimedEntries, TurnPhases
<1>2. PromptInPlace /\ open # None
  BY DEF PromptPlaced, PlacedPhases, Where, RunPhases, TurnPhases
<1>3. PromptInPlace'
  BY <1>2, OpenRunStays
<1>4. QED
  BY <1>1, <1>3 DEF ClaimsInv, TurnPhases

LEMMA RunLoopClaims ==
  ASSUME TypeOK, OneOpenRun, Where, PromptPlaced, ClaimsInOrder, Calm, FollowUpsAlone, LineInv,
         EffectsNow, ClaimsInv, ~ClaimRefused, [Next]_journal, RunLoopStep
  PROVE  ClaimsInv'
<1>1. ASSUME TurnStep PROVE ClaimsInv'
  <2>1. phase \in TurnPhases /\ phase' \in TurnPhases \cup {"deliver", "closing"}
    BY <1>1 DEF TurnStep, TakeTurn, Ask, AttemptFails, Retry, Respond, AnswerWithoutCalls,
       Onward, Pause, PlanTools, AnswerCalls, TurnPhases
  <2>2. UNCHANGED <<entry, open>>
    BY <1>1 DEF TurnStep, TakeTurn, Ask, AttemptFails, Retry, Respond, AnswerWithoutCalls,
       Onward, Pause, PlanTools, AnswerCalls, AddNode, StartStep, StartAttempt, journal
  <2>3. QED
    BY <2>1, <2>2, TurnClaims
<1>2. ASSUME ToolStep PROVE ClaimsStay \/ ClaimsIdle
  <2>1. ASSUME \/ \E c \in CallId : RefuseTool(c) \/ \E policy \in EffectPolicies : PrepareTool(c, policy)
               \/ \E t \in EffectId : DispatchTool(t) \/ CallTool(t) \/ ToolNotCalled(t)
        PROVE  ClaimsStay
    BY <2>1 DEF RefuseTool, PrepareTool, DispatchTool, CallTool, ToolNotCalled, PrepareEffect,
       DispatchEffect, FinishEffect, Become, journal, loop, queues, ClaimsStay, ClaimedEntries
  <2>2. ASSUME NEW t \in EffectId, NEW result, ToolReturns(t, result)
        PROVE  ClaimsStay \/ ClaimsIdle
    <3>1. UNCHANGED <<entry, open>>
      BY <2>2 DEF ToolReturns, FinishEffect, Become, journal
    <3>2. QED
      BY <2>2, <3>1 DEF ToolReturns, Close, loop, queues, ClaimsStay, ClaimsIdle, ClaimPhases,
         ClaimedEntries
  <2>3. QED
    BY <1>2, <2>1, <2>2 DEF ToolStep
<1>3. ASSUME FaultStep PROVE ClaimsInv'
  <2>1. ASSUME NoticeAbort PROVE ClaimsIdle
    BY <2>1 DEF NoticeAbort, Close, ClaimsIdle, ClaimPhases
  <2>2. ~Throw
    BY DEF Throw, Calm, FollowUpsAlone
  <2>3. ASSUME ProviderFails \/ StepLimit PROVE ClaimsInv'
    <3>1. phase \in TurnPhases /\ UNCHANGED <<entry, open>> /\ phase' = "closing"
      BY <2>3 DEF ProviderFails, StepLimit, Close, TurnPhases, journal
    <3>2. QED
      BY <3>1, TurnClaims
  <2>4. QED
    BY <1>3, <2>1, <2>2, <2>3, ClaimsRest DEF FaultStep
<1>4. ASSUME FinishStep PROVE ClaimsInv'
  <2>1. ASSUME BeginFinish PROVE ClaimsInv'
    <3>1. /\ phase = "closing" /\ phase' = "finishing" /\ UNCHANGED <<outcome, entry, node, op, open>>
      BY <2>1 DEF BeginFinish, journal, loop
    <3>2. ClaimedEntries' = ClaimedEntries /\ (PromptInPlace' <=> PromptInPlace)
      BY <3>1 DEF ClaimedEntries, PromptInPlace, Exists
    <3>3. QED
      BY <3>1, <3>2 DEF ClaimsInv
  <2>2. ASSUME FinishCancels \/ CompletionRefused \/ EndCancelled \/ EndCall \/ Settle
        PROVE  ClaimsIdle
    BY <2>2 DEF FinishCancels, MustCancel, CompletionRefused, EndCancelled, EndCall, Settle, loop,
       ClaimsIdle, ClaimPhases, EndPhases
  <2>3. ASSUME FinishDropsClaim PROVE ClaimsStay
    <3>1. PICK e \in Stranded : FinishEntry(e, "cancelled")
      BY <2>3 DEF FinishDropsClaim
    <3>2. ClaimedEntries' \subseteq ClaimedEntries /\ open' = open
      BY <3>1, ClaimsMove DEF FinishEntry
    <3>3. QED
      BY <2>3, <3>2 DEF FinishDropsClaim, loop, queues, ClaimsStay
  <2>4. ASSUME FinishLeavesOpen PROVE ClaimsIdle
    <3>1. /\ phase = "finishing" /\ ~FinishReady /\ outcome' = outcome /\ phase' = "ended"
          /\ run = open
      BY <2>4 DEF FinishLeavesOpen, loop, Where, RunPhases
    <3>2. ASSUME outcome # "cancelled" PROVE FALSE
      <4>1. ClaimedEntries = {} /\ PromptInPlace
        BY <3>1, <3>2 DEF ClaimsInv
      <4>2. \A t \in EffectsOf(run) : effect[t].status \in Terminal /\ Exists(effect[t].result)
        BY <3>1, <3>2 DEF EffectsNow, Ending, Done, Mine
      <4>3. FinishReady
        BY <3>1, <4>1, <4>2 DEF FinishReady, RunSettled, PromptInPlace, ClaimedEntries
      <4>4. QED
        BY <3>1, <4>3
    <3>3. QED
      BY <3>1, <3>2 DEF ClaimsIdle, ClaimPhases
  <2>5. ASSUME FinishCommits PROVE ClaimsInv'
    BY <2>5 DEF FinishCommits, FinishRun, ClaimsInv
  <2>6. ASSUME ReturnRun PROVE ClaimsInv'
    BY <2>6 DEF ReturnRun, journal, ClaimsInv
  <2>7. ASSUME NextPrompt PROVE ClaimsInv'
    BY <2>7 DEF NextPrompt, journal, ClaimsInv
  <2>8. QED
    BY <1>4, <2>1, <2>2, <2>3, <2>4, <2>5, <2>6, <2>7, ClaimsRest DEF FinishStep
<1>5. QED
  BY <1>1, <1>2, <1>3, <1>4, AcceptClaims, DeliverClaims, ClaimsRest DEF RunLoopStep

LEMMA ClaimsInvStep ==
  ASSUME TypeOK, OneOpenRun, Where, PromptPlaced, ClaimsInOrder, Calm, FollowUpsAlone, LineInv,
         EffectsNow, ClaimsInv, ~ClaimRefused, [SessionNext]_session
  PROVE  ClaimsInv'
<1>1. [Next]_journal
  BY SessionIsJournalled
<1>2. ASSUME PassStep PROVE ClaimsIdle
  BY <1>2 DEF PassStep, RestorePrompt, PromptRefused, EndDoubt, EndRepeat, EndReconcile, To,
     Leave, EffectRecovery, Doubt, DoubtRefused, GiveUp, Repeat, Reconcile, Resolve,
     CallRecovery, RepeatCall, RepeatLost, StillInDoubt, RepeatReturns, Reconciled,
     SettleRecovery, RestoreResult, Reply, RestoreMessage, ConsumeMessage, RecoveryCancels,
     AlreadyCancelled, StaysBlocked, AllResolved, EndResults, EndReplies, EndQueues,
     RecoveryFinishes, ClaimsIdle, ClaimPhases, EndPhases
<1>3. ASSUME RecoverStep \/ RecoveryAborted \/ Crash \/ Reopen PROVE ClaimsIdle
  BY <1>3 DEF RecoverStep, Recover, RecoveryAborted, Leave, Crash, Reopen, ClaimsIdle,
     ClaimPhases, EndPhases
<1>4. ASSUME UNCHANGED session PROVE ClaimsStay
  BY <1>4 DEF session, agent, journal, loop, queues, ClaimsStay, ClaimedEntries
<1>5. QED
  BY <1>1, <1>2, <1>3, <1>4, ClaimsRest, HostClaims, RunLoopClaims DEF SessionNext, ProcessStep

-----------------------------------------------------------------------------
(* Only a commit that the reducer refuses is noted as refused.             *)
LEMMA RefusedBy ==
  ASSUME [SessionNext]_session, refused \notin {"claim", "accept"}, ~AcceptRefused, ~ClaimRefused
  PROVE  refused' \notin {"claim", "accept"}
<1>1. ASSUME HostStep PROVE refused' = refused
  BY <1>1 DEF HostStep, Queue, Dequeue, Prompt, Continue, Begin, Abort, CancelRetry
<1>2. ASSUME RecoverStep \/ RecoveryAborted \/ Crash \/ Reopen \/ UNCHANGED session
      PROVE  refused' \in {refused, ""}
  BY <1>2 DEF RecoverStep, Recover, RecoveryAborted, Crash, Reopen, session, agent
<1>3. ASSUME AcceptStep PROVE refused' = refused
  BY <1>3 DEF AcceptStep, Accept, StartFails, RecordAbort, AppendPrompt, ConsumePrompt
<1>4. ASSUME DeliverStep PROVE refused' = refused
  BY <1>4 DEF DeliverStep, BeginDelivery, AppendDelivery, EndDelivery, AllDelivered
<1>5. ASSUME TurnStep PROVE refused' = refused
  BY <1>5 DEF TurnStep, TakeTurn, Ask, AttemptFails, Retry, Respond, AnswerWithoutCalls, Pause,
     PlanTools, AnswerCalls
<1>6. ASSUME ToolStep \/ FaultStep PROVE refused' = refused
  BY <1>6 DEF ToolStep, RefuseTool, PrepareTool, DispatchTool, CallTool, ToolNotCalled,
     ToolReturns, FaultStep, NoticeAbort, Throw, ProviderFails, StepLimit
<1>7. ASSUME FinishStep PROVE refused' = refused
  BY <1>7 DEF FinishStep, BeginFinish, FinishCancels, FinishDropsClaim, FinishLeavesOpen,
     CompletionRefused, FinishCommits, ReturnRun, EndCancelled, EndCall, NextPrompt, Settle
<1>8. ASSUME PassStep PROVE refused' \in {refused, "prompt", "doubt"}
  BY <1>8 DEF PassStep, RestorePrompt, PromptRefused, EndDoubt, EndRepeat, EndReconcile, To,
     EffectRecovery, Doubt, DoubtRefused, GiveUp, Repeat, Reconcile, Resolve,
     CallRecovery, RepeatCall, RepeatLost, StillInDoubt, RepeatReturns, Reconciled,
     SettleRecovery, RestoreResult, Reply, RestoreMessage, ConsumeMessage, RecoveryCancels,
     AlreadyCancelled, StaysBlocked, AllResolved, EndResults, EndReplies, EndQueues,
     RecoveryFinishes
<1>9. QED
  BY <1>1, <1>2, <1>3, <1>4, <1>5, <1>6, <1>7, <1>8 DEF SessionNext, ProcessStep, RunLoopStep

-----------------------------------------------------------------------------
(* All of it together: what is durably queued is in the line of the        *)
(* process, in the order of the entries, so nothing it accepts or claims   *)
(* is refused.                                                             *)
DeliveryInv ==
  /\ Unprompted /\ EntriesInOrder /\ Calm /\ LineInv /\ EffectsNow /\ ClaimsInv
  /\ DeliveryIsAccepted

Grounds == JournalInv /\ SettlingInv /\ PendingIsOwed /\ ClaimsInOrder /\ MessageInv

LEMMA DeliveryInvStep ==
  ASSUME FollowUpsAlone, Grounds, DeliveryInv, [SessionNext]_session
  PROVE  DeliveryInv'
<1> USE DEF Grounds, JournalInv, RunInv, ReservationInv, SettlingInv, DeliveryInv
<1>1. [Next]_journal
  BY SessionIsJournalled
<1>2. ~AcceptRefused /\ ~ClaimRefused
  BY OldestPrompt, OldestDelivered
<1>3. Unprompted'
  BY <1>1, UnpromptedStep
<1>4. EntriesInOrder'
  BY EntriesInOrderStep DEF FollowUpsAlone
<1>5. Calm'
  BY CalmStep
<1>6. LineInv'
  BY <1>2, LineStep
<1>7. EffectsNow'
  BY EffectsNowStep
<1>8. ClaimsInv'
  BY <1>2, ClaimsInvStep
<1>9. DeliveryIsAccepted'
  BY <1>2, RefusedBy DEF DeliveryIsAccepted
<1>10. QED
  BY <1>3, <1>4, <1>5, <1>6, <1>7, <1>8, <1>9

LEMMA DeliveryBegins == SessionInit => DeliveryInv
<1>1. SUFFICES ASSUME SessionInit PROVE DeliveryInv
  OBVIOUS
<1>2. /\ phase = "idle" /\ refused = "" /\ open = None /\ aborted = FALSE
      /\ control = <<>> /\ waiting = <<>> /\ taken = <<>>
      /\ throws = 0 /\ aborts = 0 /\ customs = {}
      /\ pending = [k \in Kinds |-> <<>>] /\ entry = [e \in EntryId |-> NoEntry]
  BY <1>1 DEF SessionInit, AgentInit, Init
<1>3. \A e \in EntryId : entry[e].status = "absent"
  BY <1>2 DEF NoEntry
<1>4. QueuedEntries = {} /\ ClaimedEntries = {} /\ Prompted = {}
  BY <1>2, <1>3 DEF QueuedEntries, ClaimedEntries, Prompted
<1>5. Unprompted /\ Calm /\ DeliveryIsAccepted
  BY <1>2, <1>4 DEF Unprompted, Calm, DeliveryIsAccepted
<1>6. EntriesInOrder
  <2>1. pending["follow_up"] = <<>>
    BY <1>2 DEF Kinds
  <2>2. Ascends(<<>>)
    BY DEF Ascends
  <2>3. QED
    BY <1>3, <2>1, <2>2 DEF EntriesInOrder
<1>7. LineInv
  <2>1. /\ IsQueue(<<>>) /\ OnlyFollowUps(<<>>) /\ InOrder(<<>>) /\ Held(<<>>) = {}
        /\ \A E : Before({}, E) /\ Before(E, {})
    BY NothingIsInLine
  <2>2. QED
    BY <1>2, <1>4, <2>1 DEF LineInv
<1>8. EffectsNow
  BY <1>2 DEF EffectsNow, LoopPhases, Ending
<1>9. ClaimsInv
  BY <1>2 DEF ClaimsInv
<1>10. QED
  BY <1>5, <1>6, <1>7, <1>8, <1>9 DEF DeliveryInv

LEMMA DeliveryInvariant ==
  ASSUME FollowUpsAlone PROVE SessionSpec => [](MessageInv /\ DeliveryInv)
<1>1. SessionSpec => []Grounds
  BY SettlingInvariant, MessageInvariant, SessionKeepsJournal, PendingIsOwedHolds,
     ClaimsInOrderHolds, PTL DEF Grounds
<1>2. Grounds /\ DeliveryInv /\ [SessionNext]_session => DeliveryInv'
  BY DeliveryInvStep
<1>3. SessionInit => DeliveryInv
  BY DeliveryBegins
<1>4. Grounds => MessageInv
  BY DEF Grounds
<1>5. QED
  BY <1>1, <1>2, <1>3, <1>4, PTL DEF SessionSpec

(* Between two calls every follow-up that is queued in the journal waits   *)
(* in #pendingQueuedMessages as well, whatever runs, crashes, failures and *)
(* recoveries came before: #run starts from the oldest and keeps the rest, *)
(* #settleRun puts back what is left, and #restoreDurableQueues reads the  *)
(* journal anew.                                                           *)
THEOREM QueuedIsHeldHolds ==
  ASSUME FollowUpsAlone PROVE SessionSpec => []QueuedIsHeld
<1>1. MessageInv /\ DeliveryInv => QueuedIsHeld
  <2>1. SUFFICES ASSUME DeliveryInv, phase = "idle" PROVE QueuedEntries \subseteq Held(waiting)
    BY DEF QueuedIsHeld
  <2>2. /\ QueuedEntries \subseteq Held(waiting) \cup Held(control) \cup Held(taken) \cup Prompted
        /\ control = <<>> /\ taken = <<>> /\ Prompted = {}
    BY <2>1 DEF DeliveryInv, LineInv, HandPhases, Prompted
  <2>3. QED
    BY <2>2, EmptyQueue
<1>2. QED
  BY <1>1, DeliveryInvariant, PTL

(* A run that starts from a queued follow-up (#run), or delivers one it    *)
(* took beside it (#persist), always claims the oldest message owed, and   *)
(* claims it when the one before it is consumed: the reducer never refuses *)
(* the claim (applyRunAccepted, applyQueueClaimed), so no run fails for    *)
(* the order of its messages.                                              *)
THEOREM DeliveryIsAcceptedHolds ==
  ASSUME FollowUpsAlone PROVE SessionSpec => []DeliveryIsAccepted
<1>1. MessageInv /\ DeliveryInv => DeliveryIsAccepted
  BY DEF DeliveryInv
<1>2. QED
  BY <1>1, DeliveryInvariant, PTL
=============================================================================
