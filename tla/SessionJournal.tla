--------------------------- MODULE SessionJournal ---------------------------
(***************************************************************************)
(* The strict V4 session reducer of packages/kernel/src/session-v4.        *)
(*                                                                         *)
(* A session is an ordered list of commits; the reducer accepts or rejects *)
(* each one against the state reduced so far.  Every action below is one   *)
(* commit the reducer accepts: its guards are the reducer's calls of       *)
(* invalid(), its primed variables what the change assigns.  A behaviour   *)
(* is therefore any journal that a strict reader can open.                 *)
(*                                                                         *)
(* Identifiers are fresh UUIDs in the program, so kinds of identifier are  *)
(* disjoint sets here; only node identifiers are shared between owners     *)
(* (a node may be reserved by a queue entry, a prompt or a tool result     *)
(* before it exists) and that sharing is kept.  Payloads, timestamps,      *)
(* names, labels, checkpoints and tool fingerprints guard nothing in the   *)
(* protocol between runs, queues and effects and are left out.             *)
(***************************************************************************)
EXTENDS Naturals, Sequences, FiniteSets

CONSTANTS
  NodeId,       \* conversation node identifiers
  OpId,         \* operation (run) identifiers
  EntryId,      \* queue entry identifiers
  EffectId,     \* tool effect identifiers
  CallId,       \* provider tool call identifiers
  None,         \* the null of the source
  Roles,        \* kinds of node appended: message roles, or extension context
  MaxSteps,     \* bound on the step selections of one operation
  MaxAttempts   \* bound on the provider attempts of one step

ASSUME IdAssumption ==
  /\ None \notin NodeId
  /\ None \notin OpId
  /\ None \notin EntryId

ASSUME RoleAssumption ==
  Roles \subseteq {"user", "context", "assistant", "tool", "other"}

ASSUME BoundAssumption == MaxSteps \in Nat /\ MaxAttempts \in Nat

VARIABLES
  node,     \* conversation nodes: parent, owning operation, role
  head,     \* selected head of the branch "main"
  open,     \* operation that is open on the branch, or None
  pending,  \* pendingQueueEntryIds of the branch, one sequence per kind
  op,       \* operations
  entry,    \* queue entries
  effect    \* tool effects

journal == <<node, head, open, pending, op, entry, effect>>

-----------------------------------------------------------------------------
(* Shapes of the reduced state.  A record whose role or status is "absent" *)
(* stands for a key the corresponding Map does not have.                   *)

Kinds     == {"steering", "follow_up", "next_run"}
Policies  == {"repeatable", "reconcile", "never_repeat"}
Outcomes  == {"completed", "failed", "cancelled"}
Terminal  == {"succeeded", "failed", "not_applied", "abandoned"}
Unsettled == {"prepared", "dispatched", "in_doubt", "recovery_started"}

Node ==
  [parent : NodeId \cup {None}, op : OpId \cup {None},
   role : Roles \cup {"absent"}]

Operation ==
  [status : {"absent", "accepted", "running"} \cup Outcomes,
   prompt : NodeId \cup {None}, source : NodeId \cup {None},
   selected : Nat, step : Nat, attempt : Nat, cancelled : BOOLEAN]

Entry ==
  [status : {"absent", "queued", "claimed", "consumed", "cancelled"},
   target : NodeId \cup {None}, kind : Kinds, op : OpId \cup {None}]

Effect ==
  [status : {"absent"} \cup Unsettled \cup Terminal,
   op : OpId \cup {None}, call : CallId \cup {None}, policy : Policies,
   result : NodeId \cup {None}, step : Nat, assistant : NodeId \cup {None},
   dispatches : Nat, recovery : BOOLEAN]

NoNode == [parent |-> None, op |-> None, role |-> "absent"]

NoOperation ==
  [status |-> "absent", prompt |-> None, source |-> None, selected |-> 0,
   step |-> 0, attempt |-> 0, cancelled |-> FALSE]

NoEntry ==
  [status |-> "absent", target |-> None, kind |-> "steering", op |-> None]

NoEffect ==
  [status |-> "absent", op |-> None, call |-> None, policy |-> "repeatable",
   result |-> None, step |-> 0, assistant |-> None, dispatches |-> 0,
   recovery |-> FALSE]

Exists(n)       == n \in NodeId /\ node[n].role # "absent"
QueuedFor(n)    == {e \in EntryId : entry[e].status # "absent" /\ entry[e].target = n}
ResultOf(n)     == {t \in EffectId : effect[t].status # "absent" /\ effect[t].result = n}
PromptOf(n)     == {o \in OpId : op[o].status # "absent" /\ op[o].prompt = n}
OwnedNodes(o)   == {n \in NodeId : Exists(n) /\ node[n].op = o}
EffectsOf(o)    == {t \in EffectId : effect[t].status # "absent" /\ effect[t].op = o}

(* requireOpenOperation                                                    *)
IsOpen(o)       == o \in OpId /\ open = o

First(k, e)     == pending[k] # <<>> /\ pending[k][1] = e

(* No node, queue target, prompt or tool result uses the identifier yet.   *)
FreshNode(n) ==
  n \in NodeId /\ ~Exists(n) /\ QueuedFor(n) = {} /\ ResultOf(n) = {} /\ PromptOf(n) = {}

(* Walking parents from start reaches ancestor and crosses only nodes of   *)
(* the operation: a set of its nodes is closed under parents up to the     *)
(* ancestor.                                                               *)
DescendsVia(o, start, ancestor) ==
  \/ start = ancestor
  \/ \E path \in SUBSET OwnedNodes(o) :
       /\ start \in path
       /\ \A n \in path : node[n].parent \in path \cup {ancestor}

Init ==
  /\ node = [n \in NodeId |-> NoNode]
  /\ head = None
  /\ open = None
  /\ pending = [k \in Kinds |-> <<>>]
  /\ op = [o \in OpId |-> NoOperation]
  /\ entry = [e \in EntryId |-> NoEntry]
  /\ effect = [t \in EffectId |-> NoEffect]

-----------------------------------------------------------------------------
(* Conversation nodes and the head.                                        *)

QueueAllowsNode(n, o, r) ==
  \A e \in QueuedFor(n) :
    /\ r \in {"user", "context"}
    /\ entry[e].status = "claimed"
    /\ o = entry[e].op

\* Mutant: a tool result may be appended anywhere in its run.
ToolAllowsNodeAnywhere(n, p, o, r) ==
  \A t \in ResultOf(n) : r = "tool" /\ o = effect[t].op

ToolAllowsNode(n, p, o, r) ==
  \A t \in ResultOf(n) :
    /\ r = "tool"
    /\ o = effect[t].op
    /\ DescendsVia(o, p, effect[t].assistant)

PromptAllowsNode(n, p, o, r) ==
  \A q \in PromptOf(n) :
    /\ r = "user" \/ (r = "context" /\ QueuedFor(n) # {})
    /\ DescendsVia(q, p, op[q].source)
    /\ o = q

CanAddNode(n, p, o, r) ==
  /\ n \in NodeId /\ ~Exists(n)
  /\ p # None => Exists(p)
  /\ o # None => open = o
  /\ QueueAllowsNode(n, o, r)
  /\ ToolAllowsNode(n, p, o, r)
  /\ PromptAllowsNode(n, p, o, r)

(* conversation_node, alone or followed in its commit by the head change   *)
(* that selects the new node (select).                                     *)
AddNode(n, p, o, r, select) ==
  /\ CanAddNode(n, p, o, r)
  /\ node' = [node EXCEPT ![n] = [parent |-> p, op |-> o, role |-> r]]
  /\ head' = IF select THEN n ELSE head
  /\ UNCHANGED <<open, pending, op, entry, effect>>

MoveHead(n) ==
  /\ n # None => Exists(n)
  /\ head' = n
  /\ UNCHANGED <<node, open, pending, op, entry, effect>>

-----------------------------------------------------------------------------
(* Runs.                                                                   *)

Accepted(q) ==
  [NoOperation EXCEPT !.status = "accepted", !.prompt = q, !.source = head]

(* run_accepted with a prompt of its own, or none (a continuation).        *)
AcceptRun(o, q) ==
  /\ open = None
  /\ op[o].status = "absent"
  /\ q # None => FreshNode(q)
  /\ op' = [op EXCEPT ![o] = Accepted(q)]
  /\ open' = o
  /\ UNCHANGED <<node, head, pending, entry, effect>>

(* run_accepted whose prompt is a queued entry: the same commit must claim *)
(* the entry for the run.                                                  *)
AcceptQueuedRun(o, e) ==
  /\ open = None
  /\ op[o].status = "absent"
  /\ e \in EntryId /\ entry[e].status = "queued"
  /\ ~Exists(entry[e].target)
  /\ PromptOf(entry[e].target) = {}
  /\ First(entry[e].kind, e)
  /\ op' = [op EXCEPT ![o] = Accepted(entry[e].target)]
  /\ entry' = [entry EXCEPT ![e] = [@ EXCEPT !.status = "claimed", !.op = o]]
  /\ open' = o
  /\ UNCHANGED <<node, head, pending, effect>>

CanSelectStep(o) ==
  /\ IsOpen(o)
  /\ ~op[o].cancelled
  /\ op[o].selected > 0 =>
       /\ op[o].attempt > 0
       /\ op[o].step + 1 = op[o].selected

SelectStep(o) ==
  /\ CanSelectStep(o)
  /\ op[o].selected < MaxSteps
  /\ op' = [op EXCEPT ![o].selected = @ + 1]
  /\ UNCHANGED <<node, head, open, pending, entry, effect>>

(* run_attempt of the step selected last: its first attempt, or a retry.   *)
StartAttempt(o, s, a) ==
  /\ IsOpen(o)
  /\ ~op[o].cancelled
  /\ s + 1 = op[o].selected
  /\ \/ op[o].attempt = 0 /\ s = 0 /\ a = 1
     \/ op[o].attempt > 0 /\ s = op[o].step /\ a = op[o].attempt + 1
     \/ op[o].attempt > 0 /\ s = op[o].step + 1 /\ a = 1
  /\ op' = [op EXCEPT ![o] =
       [@ EXCEPT !.step = s, !.attempt = a, !.status = "running"]]
  /\ UNCHANGED <<node, head, open, pending, entry, effect>>

(* Both in one commit: the next step and its first attempt.                *)
StartStep(o) ==
  /\ CanSelectStep(o)
  /\ op[o].selected < MaxSteps
  /\ op' = [op EXCEPT ![o] =
       [@ EXCEPT !.step = op[o].selected, !.selected = op[o].selected + 1,
                 !.attempt = 1, !.status = "running"]]
  /\ UNCHANGED <<node, head, open, pending, entry, effect>>

(* run_cancel: the request is recorded once and prepared effects become    *)
(* not applied.                                                            *)
CancelRun(o) ==
  /\ IsOpen(o)
  /\ ~op[o].cancelled
  /\ op' = [op EXCEPT ![o].cancelled = TRUE]
  /\ effect' = [t \in EffectId |->
       IF effect[t].op = o /\ effect[t].status = "prepared"
       THEN [effect[t] EXCEPT !.status = "not_applied"]
       ELSE effect[t]]
  /\ UNCHANGED <<node, head, open, pending, entry>>

(* The path from the head down to the source head holds only nodes of the  *)
(* run, the prompt among them.                                             *)
RunPathComplete(o) ==
  IF op[o].prompt = None
  THEN DescendsVia(o, head, op[o].source)
  ELSE /\ op[o].prompt \in OwnedNodes(o)
       /\ DescendsVia(o, head, op[o].prompt)
       /\ DescendsVia(o, op[o].prompt, op[o].source)

RunSettled(o) ==
  /\ \A e \in EntryId : ~(entry[e].status = "claimed" /\ entry[e].op = o)
  /\ \A t \in EffectsOf(o) :
       effect[t].status \in Terminal /\ Exists(effect[t].result)

\* Mutant: claimed entries and unsettled effects do not hold a run open.
CanFinishUnsettled(o, outcome) ==
  /\ open = o
  /\ outcome = "completed" => ~op[o].cancelled
  /\ outcome = "cancelled" => op[o].cancelled
  /\ op[o].prompt # None => Exists(op[o].prompt)
  /\ RunPathComplete(o)

CanFinishRun(o, outcome) ==
  /\ IsOpen(o) /\ outcome \in Outcomes
  /\ outcome = "completed" => ~op[o].cancelled
  /\ outcome = "cancelled" => op[o].cancelled
  /\ op[o].prompt # None => Exists(op[o].prompt)
  /\ RunPathComplete(o)
  /\ RunSettled(o)

FinishRun(o, outcome) ==
  /\ CanFinishRun(o, outcome)
  /\ op' = [op EXCEPT ![o].status = outcome]
  /\ open' = None
  /\ UNCHANGED <<node, head, pending, entry, effect>>

-----------------------------------------------------------------------------
(* Durable queues.                                                         *)

(* Array.splice(i, 1)                                                      *)
DropAt(queue, i) ==
  [j \in 1..(Len(queue) - 1) |-> IF j < i THEN queue[j] ELSE queue[j + 1]]

AddEntry(e, n, k) ==
  /\ e \in EntryId /\ entry[e].status = "absent"
  /\ FreshNode(n)
  /\ entry' = [entry EXCEPT ![e] =
                 [status |-> "queued", target |-> n, kind |-> k, op |-> None]]
  /\ pending' = [pending EXCEPT ![k] = Append(@, e)]
  /\ UNCHANGED <<node, head, open, op, effect>>

\* Mutant: any queued entry may be claimed, not only the first of its kind.
CanClaimAny(e, o) ==
  /\ open = o
  /\ entry[e].status = "queued"
  /\ PromptOf(entry[e].target) \subseteq {o}

CanClaim(e, o) ==
  /\ IsOpen(o)
  /\ e \in EntryId /\ entry[e].status = "queued"
  /\ PromptOf(entry[e].target) \subseteq {o}
  /\ First(entry[e].kind, e)

ClaimEntry(e, o) ==
  /\ CanClaim(e, o)
  /\ entry' = [entry EXCEPT ![e] = [@ EXCEPT !.status = "claimed", !.op = o]]
  /\ UNCHANGED <<node, head, open, pending, op, effect>>

CanConsume(e) ==
  /\ e \in EntryId /\ entry[e].status = "claimed"
  /\ entry[e].target \in OwnedNodes(entry[e].op)

CanCancelEntry(e) == e \in EntryId /\ entry[e].status \in {"queued", "claimed"}

\* Mutant: a finished entry stays listed as pending.
FinishEntryKeepsPending(e, outcome) ==
  /\ \/ outcome = "consumed" /\ CanConsume(e)
     \/ outcome = "cancelled" /\ CanCancelEntry(e)
  /\ entry' = [entry EXCEPT ![e].status = outcome]
  /\ UNCHANGED <<node, head, open, pending, op, effect>>

FinishEntry(e, outcome) ==
  /\ \/ outcome = "consumed" /\ CanConsume(e)
     \/ outcome = "cancelled" /\ CanCancelEntry(e)
  /\ entry' = [entry EXCEPT ![e].status = outcome]
  /\ \E i \in DOMAIN pending[entry[e].kind] :
       /\ pending[entry[e].kind][i] = e
       /\ \A j \in 1..(i - 1) : pending[entry[e].kind][j] # e
       /\ pending' = [pending EXCEPT ![entry[e].kind] = DropAt(@, i)]
  /\ UNCHANGED <<node, head, open, op, effect>>

-----------------------------------------------------------------------------
(* Tool effects.                                                           *)

CallUnused(o, c) == \A t \in EffectsOf(o) : effect[t].call # c

(* The result node is new, or shared with effects of the same operation,   *)
(* step and assistant message and used by nothing else.                    *)
ResultNodeAllowed(n, o, a) ==
  IF ResultOf(n) = {}
  THEN FreshNode(n)
  ELSE /\ n \in NodeId /\ ~Exists(n) /\ QueuedFor(n) = {} /\ PromptOf(n) = {}
       /\ \A t \in ResultOf(n) :
            /\ effect[t].op = o
            /\ effect[t].step = op[o].step
            /\ effect[t].assistant = a

PrepareEffect(t, o, c, policy, n, a) ==
  /\ IsOpen(o)
  /\ ~op[o].cancelled
  /\ effect[t].status = "absent"
  /\ CallUnused(o, c)
  /\ ResultNodeAllowed(n, o, a)
  /\ op[o].attempt > 0
  /\ a \in OwnedNodes(o) /\ node[a].role = "assistant"
  /\ effect' = [effect EXCEPT ![t] =
       [status |-> "prepared", op |-> o, call |-> c, policy |-> policy,
        result |-> n, step |-> op[o].step, assistant |-> a,
        dispatches |-> 0, recovery |-> FALSE]]
  /\ UNCHANGED <<node, head, open, pending, op, entry>>

(* requireToolEffect: the effect exists and its operation is open.         *)
Live(t) == t \in EffectId /\ effect[t].status # "absent" /\ open = effect[t].op

Become(t, status) ==
  /\ effect' = [effect EXCEPT ![t].status = status]
  /\ UNCHANGED <<node, head, open, pending, op, entry>>

\* Mutant: an in-doubt effect is dispatched again whatever its policy.
CanDispatchInDoubt(t) ==
  /\ Live(t)
  /\ ~op[effect[t].op].cancelled
  /\ \/ effect[t].status = "prepared" /\ effect[t].dispatches = 0
     \/ effect[t].status = "in_doubt" /\ effect[t].dispatches = 1

CanDispatch(t) ==
  /\ Live(t)
  /\ ~op[effect[t].op].cancelled
  /\ \/ effect[t].status = "prepared" /\ effect[t].dispatches = 0
     \/ /\ effect[t].status = "in_doubt"
        /\ effect[t].policy = "repeatable"
        /\ effect[t].dispatches = 1

DispatchEffect(t) ==
  /\ CanDispatch(t)
  /\ effect' = [effect EXCEPT ![t] =
       [@ EXCEPT !.status = "dispatched", !.dispatches = effect[t].dispatches + 1]]
  /\ UNCHANGED <<node, head, open, pending, op, entry>>

MarkInDoubt(t) ==
  /\ Live(t)
  /\ effect[t].status = "dispatched"
  /\ Become(t, "in_doubt")

\* Mutant: a late result overwrites the recorded outcome.
FinishSettledEffect(t, outcome) ==
  /\ Live(t)
  /\ effect[t].dispatches > 0
  /\ outcome \in {"succeeded", "failed"}
  /\ Become(t, outcome)

FinishEffect(t, outcome) ==
  /\ Live(t)
  /\ effect[t].status = "dispatched"
  /\ outcome \in {"succeeded", "failed"}
  /\ Become(t, outcome)

StartRecovery(t) ==
  /\ Live(t)
  /\ effect[t].status = "in_doubt"
  /\ effect[t].policy = "reconcile"
  /\ ~effect[t].recovery
  /\ effect' = [effect EXCEPT ![t] =
       [@ EXCEPT !.status = "recovery_started", !.recovery = TRUE]]
  /\ UNCHANGED <<node, head, open, pending, op, entry>>

\* Mutant: an outcome is reported before reconciliation has started.
ReconcileUnchecked(t, outcome) ==
  /\ Live(t)
  /\ effect[t].status \in {"in_doubt", "recovery_started"}
  /\ effect[t].policy = "reconcile"
  /\ outcome \in {"succeeded", "failed", "not_applied"}
  /\ Become(t, outcome)

ReconcileEffect(t, outcome) ==
  /\ Live(t)
  /\ effect[t].status = "recovery_started"
  /\ effect[t].policy = "reconcile"
  /\ outcome \in {"succeeded", "failed", "not_applied"}
  /\ Become(t, outcome)

CanResolve(t) ==
  /\ Live(t)
  /\ \/ /\ effect[t].status = "in_doubt"
        /\ effect[t].policy = "never_repeat" \/ op[effect[t].op].cancelled
     \/ effect[t].status = "recovery_started" /\ effect[t].policy = "reconcile"

ResolveEffect(t, outcome) ==
  /\ CanResolve(t)
  /\ outcome \in {"succeeded", "failed", "abandoned"}
  /\ Become(t, outcome)

-----------------------------------------------------------------------------
NodeStep ==
  \/ \E n \in NodeId, p \in NodeId \cup {None}, o \in OpId \cup {None},
        r \in Roles, select \in BOOLEAN : AddNode(n, p, o, r, select)
  \/ \E n \in NodeId \cup {None} : MoveHead(n)

RunStep ==
  \E o \in OpId :
    \/ \E q \in NodeId \cup {None} : AcceptRun(o, q)
    \/ \E e \in EntryId : AcceptQueuedRun(o, e)
    \/ SelectStep(o) \/ StartStep(o)
    \/ \E s \in 0..op[o].selected, a \in 1..MaxAttempts : StartAttempt(o, s, a)
    \/ CancelRun(o)
    \/ \E outcome \in Outcomes : FinishRun(o, outcome)

QueueStep ==
  \E e \in EntryId :
    \/ \E n \in NodeId, k \in Kinds : AddEntry(e, n, k)
    \/ \E o \in OpId : ClaimEntry(e, o)
    \/ \E outcome \in {"consumed", "cancelled"} : FinishEntry(e, outcome)

EffectStep ==
  \E t \in EffectId :
    \/ \E o \in OpId, c \in CallId, policy \in Policies, n, a \in NodeId :
         PrepareEffect(t, o, c, policy, n, a)
    \/ DispatchEffect(t)
    \/ MarkInDoubt(t)
    \/ StartRecovery(t)
    \/ \E outcome \in Terminal : FinishEffect(t, outcome)
    \/ \E outcome \in Terminal : ReconcileEffect(t, outcome)
    \/ \E outcome \in Terminal : ResolveEffect(t, outcome)

Next == NodeStep \/ RunStep \/ QueueStep \/ EffectStep

Spec == Init /\ [][Next]_journal

-----------------------------------------------------------------------------
(* Properties.                                                             *)

(* Every part of the reduced state has its shape.                          *)
TypeOK ==
  /\ node \in [NodeId -> Node]
  /\ head \in NodeId \cup {None}
  /\ open \in OpId \cup {None}
  /\ pending \in [Kinds -> Seq(EntryId)]
  /\ op \in [OpId -> Operation]
  /\ entry \in [EntryId -> Entry]
  /\ effect \in [EffectId -> Effect]

(* Exactly the run the branch names as open is unfinished: a run is never  *)
(* left unfinished behind a newer one, nor reopened.                       *)
OneOpenRun ==
  \A o \in OpId : op[o].status \in {"accepted", "running"} <=> open = o

(* pendingQueueEntryIds lists, once each and under its kind, exactly the   *)
(* entries that are still owed: queued, or claimed and not yet finished.   *)
PendingIsOwed ==
  \A k \in Kinds :
    /\ \A i, j \in DOMAIN pending[k] : pending[k][i] = pending[k][j] => i = j
    /\ {pending[k][i] : i \in DOMAIN pending[k]} =
         {e \in EntryId : entry[e].kind = k /\ entry[e].status \in {"queued", "claimed"}}

(* Delivery is in order and one at a time: a claimed entry is the oldest   *)
(* of its kind still owed, and its claimant is the open run, so no run     *)
(* closes over an entry it has claimed and not delivered.                  *)
ClaimsInOrder ==
  \A e \in EntryId : entry[e].status = "claimed" =>
    /\ First(entry[e].kind, e)
    /\ open # None /\ entry[e].op = open

(* A side effect that must not be repeated is dispatched once in the life  *)
(* of the journal, a repeatable one at most twice, however often the       *)
(* session is interrupted and recovered.                                   *)
DispatchBudget ==
  \A t \in EffectId :
    effect[t].dispatches <= IF effect[t].policy = "repeatable" THEN 2 ELSE 1

(* "Not applied" is never claimed of an effect that was dispatched unless  *)
(* reconciliation checked it, and no other outcome is recorded for an      *)
(* effect that was never dispatched.                                       *)
OutcomesAreTruthful ==
  \A t \in EffectId :
    /\ effect[t].status = "not_applied" =>
         effect[t].dispatches = 0 \/ (effect[t].policy = "reconcile" /\ effect[t].recovery)
    /\ effect[t].status \in {"succeeded", "failed", "abandoned"} =>
         effect[t].dispatches > 0

(* A tool result in the conversation answers the assistant message that    *)
(* called the tool: it is a tool message below it, with only nodes of the  *)
(* same run between them.                                                  *)
ResultsFollowCalls ==
  \A t \in EffectId :
    (effect[t].status # "absent" /\ Exists(effect[t].result)) =>
      /\ node[effect[t].result].role = "tool"
      /\ DescendsVia(effect[t].op, effect[t].result, effect[t].assistant)

(* A finished run left nothing behind: its prompt is in the conversation   *)
(* below the head it started from, no entry is claimed by it, and each of  *)
(* its tool effects has an outcome and a result message.                   *)
FinishedRunsAreSettled ==
  \A o \in OpId : op[o].status \in Outcomes =>
    /\ RunSettled(o)
    /\ op[o].prompt # None =>
         /\ op[o].prompt \in OwnedNodes(o)
         /\ DescendsVia(o, op[o].prompt, op[o].source)
    /\ op[o].status = "cancelled" => op[o].cancelled
    /\ op[o].status = "completed" => ~op[o].cancelled

(* The journal only grows: no commit rewrites a conversation node, a       *)
(* settled effect, a finished entry or a finished run.                     *)
HistoryIsFinal ==
  [][/\ \A n \in NodeId : Exists(n) => node'[n] = node[n]
     /\ \A t \in EffectId : effect[t].status \in Terminal => effect'[t] = effect[t]
     /\ \A e \in EntryId :
          entry[e].status \in {"consumed", "cancelled"} => entry'[e] = entry[e]
     /\ \A o \in OpId : op[o].status \in Outcomes => op'[o] = op[o]]_journal
=============================================================================
