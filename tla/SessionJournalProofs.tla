------------------------ MODULE SessionJournalProofs ------------------------
(* Safety of the V4 reducer for every set of identifiers and every bound.  *)
EXTENDS SessionJournal, TLAPS, SequenceTheorems

(* Removing one element of a sequence leaves a sequence of the same set,   *)
(* one shorter.                                                            *)
LEMMA DropAtType ==
  ASSUME NEW S, NEW s \in Seq(S), NEW i \in DOMAIN s
  PROVE  DropAt(s, i) \in Seq(S) /\ Len(DropAt(s, i)) = Len(s) - 1
<1>1. Len(s) \in Nat /\ DOMAIN s = 1..Len(s) /\ \A j \in 1..Len(s) : s[j] \in S
  BY LenProperties, ElementOfSeq
<1>2. Len(s) - 1 \in Nat
  BY <1>1
<1>3. \A j \in 1..(Len(s) - 1) : (IF j < i THEN s[j] ELSE s[j + 1]) \in S
  BY <1>1
<1>4. QED
  BY <1>2, <1>3, IsASeq, LenProperties DEF DropAt

-----------------------------------------------------------------------------
(* What each kind of step leaves alone.                                    *)

LEMMA NodeStepFrame == NodeStep => UNCHANGED <<open, pending, op, entry, effect>>
  BY DEF NodeStep, AddNode, MoveHead

LEMMA RunStepFrame == RunStep => UNCHANGED <<node, head, pending>>
<1> SUFFICES ASSUME NEW o \in OpId,
                    \/ \E q \in NodeId \cup {None} : AcceptRun(o, q)
                    \/ \E e \in EntryId : AcceptQueuedRun(o, e)
                    \/ SelectStep(o) \/ StartStep(o)
                    \/ \E s \in 0..op[o].selected, a \in 1..MaxAttempts :
                         StartAttempt(o, s, a)
                    \/ CancelRun(o)
                    \/ \E outcome \in Outcomes : FinishRun(o, outcome)
             PROVE  UNCHANGED <<node, head, pending>>
  BY DEF RunStep
<1>1. QED
  BY DEF AcceptRun, AcceptQueuedRun, SelectStep, StartStep, StartAttempt, CancelRun, FinishRun

LEMMA QueueStepFrame == QueueStep => UNCHANGED <<node, head, open, op, effect>>
<1> SUFFICES ASSUME NEW e \in EntryId,
                    \/ \E n \in NodeId, k \in Kinds : AddEntry(e, n, k)
                    \/ \E o \in OpId : ClaimEntry(e, o)
                    \/ \E outcome \in {"consumed", "cancelled"} : FinishEntry(e, outcome)
             PROVE  UNCHANGED <<node, head, open, op, effect>>
  BY DEF QueueStep
<1>1. QED
  BY DEF AddEntry, ClaimEntry, FinishEntry

LEMMA EffectStepFrame ==
  EffectStep => UNCHANGED <<node, head, open, pending, op, entry>>
<1> SUFFICES ASSUME NEW t \in EffectId,
                    \/ \E o \in OpId, c \in CallId, policy \in Policies, n, a \in NodeId :
                         PrepareEffect(t, o, c, policy, n, a)
                    \/ DispatchEffect(t)
                    \/ MarkInDoubt(t)
                    \/ StartRecovery(t)
                    \/ \E outcome \in Terminal : FinishEffect(t, outcome)
                    \/ \E outcome \in Terminal : ReconcileEffect(t, outcome)
                    \/ \E outcome \in Terminal : ResolveEffect(t, outcome)
             PROVE  UNCHANGED <<node, head, open, pending, op, entry>>
  BY DEF EffectStep
<1>1. QED
  BY DEF PrepareEffect, DispatchEffect, MarkInDoubt, StartRecovery, FinishEffect,
     ReconcileEffect, ResolveEffect, Become

-----------------------------------------------------------------------------
(* Type correctness: each kind of step keeps every variable in shape.      *)

LEMMA TypeNodeStep == TypeOK /\ NodeStep => TypeOK'
<1> SUFFICES ASSUME TypeOK, NodeStep PROVE TypeOK'
  OBVIOUS
<1>1. ASSUME NEW n \in NodeId, NEW p \in NodeId \cup {None},
             NEW o \in OpId \cup {None}, NEW r \in Roles, NEW select \in BOOLEAN,
             AddNode(n, p, o, r, select)
      PROVE  TypeOK'
  BY <1>1 DEF AddNode, TypeOK, Node
<1>2. ASSUME NEW n \in NodeId \cup {None}, MoveHead(n)
      PROVE  TypeOK'
  BY <1>2 DEF MoveHead, TypeOK
<1>3. QED
  BY <1>1, <1>2 DEF NodeStep

LEMMA TypeRunStep == TypeOK /\ RunStep => TypeOK'
<1> SUFFICES ASSUME TypeOK, NEW o \in OpId,
                    \/ \E q \in NodeId \cup {None} : AcceptRun(o, q)
                    \/ \E e \in EntryId : AcceptQueuedRun(o, e)
                    \/ SelectStep(o) \/ StartStep(o)
                    \/ \E s \in 0..op[o].selected, a \in 1..MaxAttempts :
                         StartAttempt(o, s, a)
                    \/ CancelRun(o)
                    \/ \E outcome \in Outcomes : FinishRun(o, outcome)
             PROVE  TypeOK'
  BY DEF RunStep
<1>1. CASE \E q \in NodeId \cup {None} : AcceptRun(o, q)
  <2>1. ASSUME NEW q \in NodeId \cup {None} PROVE Accepted(q) \in Operation
    BY DEF Accepted, NoOperation, TypeOK, Operation
  <2>2. QED
    BY <1>1, <2>1 DEF AcceptRun, TypeOK
<1>2. CASE \E e \in EntryId : AcceptQueuedRun(o, e)
  <2> PICK e \in EntryId : AcceptQueuedRun(o, e)
    BY <1>2
  <2>1. entry[e] \in Entry /\ entry[e].target \in NodeId \cup {None}
    BY DEF TypeOK, Entry
  <2>2. Accepted(entry[e].target) \in Operation
    BY <2>1 DEF Accepted, NoOperation, TypeOK, Operation
  <2>3. [entry[e] EXCEPT !.status = "claimed", !.op = o] \in Entry
    BY <2>1 DEF Entry
  <2>4. QED
    BY <2>2, <2>3 DEF AcceptQueuedRun, TypeOK
<1>3. CASE SelectStep(o)
  <2>1. op[o] \in Operation
    BY DEF TypeOK
  <2>2. [op[o] EXCEPT !.selected = @ + 1] \in Operation
    BY <2>1 DEF Operation
  <2>3. QED
    BY <1>3, <2>2 DEF SelectStep, TypeOK
<1>7. CASE StartStep(o)
  <2>1. op[o] \in Operation
    BY DEF TypeOK
  <2>4. op[o].selected \in Nat /\ op[o].selected + 1 \in Nat /\ 1 \in Nat
    BY <2>1 DEF Operation
  <2>2. ASSUME NEW s \in Nat, NEW k \in Nat, NEW a \in Nat
        PROVE  [op[o] EXCEPT !.step = s, !.selected = k, !.attempt = a,
                             !.status = "running"] \in Operation
    BY <2>1 DEF Operation
  <2>3. QED
    BY <1>7, <2>2, <2>4 DEF StartStep, TypeOK
<1>4. CASE \E s \in 0..op[o].selected, a \in 1..MaxAttempts : StartAttempt(o, s, a)
  <2> PICK s \in 0..op[o].selected, a \in 1..MaxAttempts : StartAttempt(o, s, a)
    BY <1>4
  <2>1. op[o] \in Operation /\ s \in Nat /\ a \in Nat
    BY BoundAssumption DEF TypeOK
  <2>2. [op[o] EXCEPT !.step = s, !.attempt = a, !.status = "running"] \in Operation
    BY <2>1 DEF Operation
  <2>3. QED
    BY <2>2 DEF StartAttempt, TypeOK
<1>5. CASE CancelRun(o)
  <2>1. ASSUME NEW t \in EffectId
        PROVE  [effect[t] EXCEPT !.status = "not_applied"] \in Effect
    <3>1. effect[t] \in Effect
      BY DEF TypeOK
    <3>2. QED
      BY <3>1 DEF Effect, Terminal
  <2>2. op[o] \in Operation
    BY DEF TypeOK
  <2>3. [op[o] EXCEPT !.cancelled = TRUE] \in Operation
    BY <2>2 DEF Operation
  <2>4. QED
    BY <1>5, <2>1, <2>3 DEF CancelRun, TypeOK
<1>6. CASE \E outcome \in Outcomes : FinishRun(o, outcome)
  <2>1. ASSUME NEW outcome \in Outcomes
        PROVE  [op[o] EXCEPT !.status = outcome] \in Operation
    <3>1. op[o] \in Operation
      BY DEF TypeOK
    <3>2. QED
      BY <3>1 DEF Operation
  <2>2. QED
    BY <1>6, <2>1 DEF FinishRun, TypeOK
<1>8. QED
  BY <1>1, <1>2, <1>3, <1>4, <1>5, <1>6, <1>7

LEMMA TypeQueueStep == TypeOK /\ QueueStep => TypeOK'
<1> SUFFICES ASSUME TypeOK, NEW e \in EntryId,
                    \/ \E n \in NodeId, k \in Kinds : AddEntry(e, n, k)
                    \/ \E o \in OpId : ClaimEntry(e, o)
                    \/ \E outcome \in {"consumed", "cancelled"} : FinishEntry(e, outcome)
             PROVE  TypeOK'
  BY DEF QueueStep
<1>1. ASSUME NEW n \in NodeId, NEW k \in Kinds, AddEntry(e, n, k)
      PROVE  TypeOK'
  <2>1. Append(pending[k], e) \in Seq(EntryId)
    BY AppendProperties DEF TypeOK
  <2>2. pending' \in [Kinds -> Seq(EntryId)]
    BY <1>1, <2>1 DEF AddEntry, TypeOK
  <2>3. entry' \in [EntryId -> Entry]
    BY <1>1 DEF AddEntry, TypeOK, Entry
  <2>4. QED
    BY <1>1, <2>2, <2>3 DEF AddEntry, TypeOK
<1>2. ASSUME NEW o \in OpId, ClaimEntry(e, o)
      PROVE  TypeOK'
  <2>1. entry[e] \in Entry
    BY DEF TypeOK
  <2>2. [entry[e] EXCEPT !.status = "claimed", !.op = o] \in Entry
    BY <2>1 DEF Entry
  <2>3. QED
    BY <1>2, <2>2 DEF ClaimEntry, TypeOK
<1>3. ASSUME NEW outcome \in {"consumed", "cancelled"}, FinishEntry(e, outcome)
      PROVE  TypeOK'
  <2>1. entry[e].kind \in Kinds
    BY DEF TypeOK, Entry
  <2>2. PICK i \in DOMAIN pending[entry[e].kind] :
          pending' = [pending EXCEPT ![entry[e].kind] = DropAt(@, i)]
    BY <1>3 DEF FinishEntry
  <2>3. pending[entry[e].kind] \in Seq(EntryId)
    BY <2>1 DEF TypeOK
  <2>4. DropAt(pending[entry[e].kind], i) \in Seq(EntryId)
    BY <2>3, DropAtType
  <2>5. pending' \in [Kinds -> Seq(EntryId)]
    BY <2>2, <2>4 DEF TypeOK
  <2>6. entry[e] \in Entry
    BY DEF TypeOK
  <2>7. [entry[e] EXCEPT !.status = outcome] \in Entry
    BY <2>6 DEF Entry
  <2>8. QED
    BY <1>3, <2>5, <2>7 DEF FinishEntry, TypeOK
<1>4. QED
  BY <1>1, <1>2, <1>3

LEMMA TypeEffectStep == TypeOK /\ EffectStep => TypeOK'
<1> SUFFICES ASSUME TypeOK, EffectStep PROVE TypeOK'
  OBVIOUS
<1>1. PICK t \in EffectId :
        \/ \E o \in OpId, c \in CallId, policy \in Policies, n, a \in NodeId :
             PrepareEffect(t, o, c, policy, n, a)
        \/ DispatchEffect(t)
        \/ StartRecovery(t)
        \/ \E s \in Unsettled \cup Terminal : Become(t, s)
  BY DEF EffectStep, MarkInDoubt, FinishEffect, ReconcileEffect, ResolveEffect,
         Unsettled, Terminal
<1>2. effect[t] \in Effect
  BY DEF TypeOK
<1>3. CASE \E o \in OpId, c \in CallId, policy \in Policies, n, a \in NodeId :
             PrepareEffect(t, o, c, policy, n, a)
  <2> PICK o \in OpId, c \in CallId, policy \in Policies, n \in NodeId, a \in NodeId :
        PrepareEffect(t, o, c, policy, n, a)
    BY <1>3
  <2>1. op[o].step \in Nat
    BY DEF TypeOK, Operation
  <2>2. [status |-> "prepared", op |-> o, call |-> c, policy |-> policy,
         result |-> n, step |-> op[o].step, assistant |-> a,
         dispatches |-> 0, recovery |-> FALSE] \in Effect
    BY <2>1 DEF Effect, Unsettled
  <2>3. QED
    BY <2>2 DEF PrepareEffect, TypeOK
<1>4. CASE DispatchEffect(t)
  <2>1. [effect[t] EXCEPT !.status = "dispatched",
                          !.dispatches = effect[t].dispatches + 1] \in Effect
    <3>1. effect[t].dispatches \in Nat /\ effect[t].dispatches + 1 \in Nat
      BY <1>2 DEF Effect
    <3>2. "dispatched" \in Unsettled
      BY DEF Unsettled
    <3>3. QED
      BY <1>2, <3>1, <3>2 DEF Effect
  <2>2. QED
    BY <1>4, <2>1 DEF DispatchEffect, TypeOK
<1>5. CASE StartRecovery(t)
  <2>1. [effect[t] EXCEPT !.status = "recovery_started", !.recovery = TRUE] \in Effect
    <3>1. "recovery_started" \in Unsettled
      BY DEF Unsettled
    <3>2. QED
      BY <1>2, <3>1 DEF Effect
  <2>2. QED
    BY <1>5, <2>1 DEF StartRecovery, TypeOK
<1>6. CASE \E s \in Unsettled \cup Terminal : Become(t, s)
  <2>1. ASSUME NEW s \in Unsettled \cup Terminal
        PROVE  [effect[t] EXCEPT !.status = s] \in Effect
    BY <1>2 DEF Effect
  <2>2. QED
    BY <1>6, <2>1 DEF Become, TypeOK
<1>7. QED
  BY <1>1, <1>3, <1>4, <1>5, <1>6

LEMMA InitialType == Init => TypeOK
  BY EmptySeq DEF Init, TypeOK, NoNode, Node, NoOperation, Operation, NoEntry, Entry,
     NoEffect, Effect, Kinds, Policies

LEMMA TypeStep == TypeOK /\ [Next]_journal => TypeOK'
  BY TypeNodeStep, TypeRunStep, TypeQueueStep, TypeEffectStep DEF Next, journal, TypeOK

(* The reduced state always has its declared shape (transitionSessionV4Commit). *)
THEOREM TypeCorrect == Spec => []TypeOK
  BY InitialType, TypeStep, PTL DEF Spec

-----------------------------------------------------------------------------
(* Tool effects.  Each conjunct of the history of one effect is needed to  *)
(* carry the dispatch count from one status to the next.                   *)

HistoryOf(x) ==
  /\ x.status \in {"absent", "prepared"} => x.dispatches = 0
  /\ x.status \in {"dispatched", "in_doubt", "recovery_started"} => x.dispatches > 0
  /\ x.status = "recovery_started" => x.policy = "reconcile" /\ x.recovery
  /\ x.dispatches <= IF x.policy = "repeatable" THEN 2 ELSE 1
  /\ x.status = "not_applied" =>
       x.dispatches = 0 \/ (x.policy = "reconcile" /\ x.recovery)
  /\ x.status \in {"succeeded", "failed", "abandoned"} => x.dispatches > 0

EffectHistory == \A t \in EffectId : HistoryOf(effect[t])

LEMMA HistoryRunStep == TypeOK /\ EffectHistory /\ RunStep => EffectHistory'
<1> SUFFICES ASSUME TypeOK, EffectHistory, RunStep, NEW t \in EffectId
             PROVE  HistoryOf(effect'[t])
  BY DEF EffectHistory
<1>1. effect[t] \in Effect /\ HistoryOf(effect[t])
  BY DEF TypeOK, EffectHistory
<1>2. CASE effect'[t] = effect[t]
  BY <1>1, <1>2
<1>3. CASE /\ effect[t].status = "prepared"
           /\ effect'[t] = [effect[t] EXCEPT !.status = "not_applied"]
  BY <1>1, <1>3 DEF HistoryOf, Effect
<1>4. effect'[t] = effect[t] \/
        (/\ effect[t].status = "prepared"
         /\ effect'[t] = [effect[t] EXCEPT !.status = "not_applied"])
  BY DEF RunStep, AcceptRun, AcceptQueuedRun, SelectStep, StartStep, StartAttempt, CancelRun,
         FinishRun
<1>5. QED
  BY <1>2, <1>3, <1>4

LEMMA HistoryEffectStep == TypeOK /\ EffectHistory /\ EffectStep => EffectHistory'
<1> SUFFICES ASSUME TypeOK, EffectHistory, EffectStep
             PROVE  EffectHistory'
  OBVIOUS
<1>1. PICK t \in EffectId :
        \/ \E o \in OpId, c \in CallId, policy \in Policies, n, a \in NodeId :
             PrepareEffect(t, o, c, policy, n, a)
        \/ DispatchEffect(t)
        \/ MarkInDoubt(t)
        \/ StartRecovery(t)
        \/ \E outcome \in Terminal : FinishEffect(t, outcome)
        \/ \E outcome \in Terminal : ReconcileEffect(t, outcome)
        \/ \E outcome \in Terminal : ResolveEffect(t, outcome)
  BY DEF EffectStep
<1>2. effect \in [EffectId -> Effect] /\ effect[t] \in Effect /\ HistoryOf(effect[t])
  BY DEF TypeOK, EffectHistory
<1>3. SUFFICES \E x : effect' = [effect EXCEPT ![t] = x] /\ HistoryOf(x)
  BY <1>2 DEF EffectHistory
<1>4. CASE \E o \in OpId, c \in CallId, policy \in Policies, n, a \in NodeId :
             PrepareEffect(t, o, c, policy, n, a)
  <2> PICK o \in OpId, c \in CallId, policy \in Policies, n \in NodeId, a \in NodeId :
        PrepareEffect(t, o, c, policy, n, a)
    BY <1>4
  <2> DEFINE x == [status |-> "prepared", op |-> o, call |-> c, policy |-> policy,
                   result |-> n, step |-> op[o].step, assistant |-> a,
                   dispatches |-> 0, recovery |-> FALSE]
  <2>1. effect' = [effect EXCEPT ![t] = x]
    BY DEF PrepareEffect
  <2>2. HistoryOf(x)
    BY DEF HistoryOf
  <2>3. QED
    BY <2>1, <2>2
<1>5. CASE DispatchEffect(t)
  <2> DEFINE x == [effect[t] EXCEPT !.status = "dispatched",
                                    !.dispatches = effect[t].dispatches + 1]
  <2>1. effect' = [effect EXCEPT ![t] = x]
    BY <1>5 DEF DispatchEffect
  <2>2. HistoryOf(x)
    BY <1>2, <1>5 DEF DispatchEffect, CanDispatch, HistoryOf, Effect
  <2>3. QED
    BY <2>1, <2>2
<1>6. CASE MarkInDoubt(t)
  <2>1. HistoryOf([effect[t] EXCEPT !.status = "in_doubt"])
    BY <1>2, <1>6 DEF MarkInDoubt, HistoryOf, Effect
  <2>2. QED
    BY <1>6, <2>1 DEF MarkInDoubt, Become
<1>7. CASE StartRecovery(t)
  <2> DEFINE x == [effect[t] EXCEPT !.status = "recovery_started", !.recovery = TRUE]
  <2>1. effect' = [effect EXCEPT ![t] = x]
    BY <1>7 DEF StartRecovery
  <2>2. HistoryOf(x)
    BY <1>2, <1>7 DEF StartRecovery, HistoryOf, Effect
  <2>3. QED
    BY <2>1, <2>2
<1>8. CASE \E outcome \in Terminal : FinishEffect(t, outcome)
  <2> PICK outcome \in Terminal : FinishEffect(t, outcome)
    BY <1>8
  <2>1. HistoryOf([effect[t] EXCEPT !.status = outcome])
    BY <1>2 DEF FinishEffect, HistoryOf, Effect
  <2>2. QED
    BY <2>1 DEF FinishEffect, Become
<1>9. CASE \E outcome \in Terminal : ReconcileEffect(t, outcome)
  <2> PICK outcome \in Terminal : ReconcileEffect(t, outcome)
    BY <1>9
  <2>1. HistoryOf([effect[t] EXCEPT !.status = outcome])
    BY <1>2 DEF ReconcileEffect, HistoryOf, Effect
  <2>2. QED
    BY <2>1 DEF ReconcileEffect, Become
<1>10. CASE \E outcome \in Terminal : ResolveEffect(t, outcome)
  <2> PICK outcome \in Terminal : ResolveEffect(t, outcome)
    BY <1>10
  <2>1. HistoryOf([effect[t] EXCEPT !.status = outcome])
    BY <1>2 DEF ResolveEffect, CanResolve, HistoryOf, Effect
  <2>2. QED
    BY <2>1 DEF ResolveEffect, Become
<1>11. QED
  BY <1>1, <1>4, <1>5, <1>6, <1>7, <1>8, <1>9, <1>10

LEMMA HistoryInvariant == Spec => []EffectHistory
<1>1. Init => EffectHistory
  BY DEF Init, EffectHistory, HistoryOf, NoEffect
<1>2. TypeOK /\ EffectHistory /\ [Next]_journal => EffectHistory'
  <2> SUFFICES ASSUME TypeOK, EffectHistory, [Next]_journal PROVE EffectHistory'
    OBVIOUS
  <2>1. CASE RunStep
    BY <2>1, HistoryRunStep
  <2>2. CASE EffectStep
    BY <2>2, HistoryEffectStep
  <2>3. CASE NodeStep \/ QueueStep \/ UNCHANGED journal
    <3>1. UNCHANGED effect
      BY <2>3, NodeStepFrame, QueueStepFrame DEF journal
    <3>2. QED
      BY <3>1 DEF EffectHistory
  <2>4. QED
    BY <2>1, <2>2, <2>3 DEF Next
<1>3. QED
  BY <1>1, <1>2, TypeCorrect, PTL DEF Spec

(* However a journal continues, a side effect is dispatched at most once,  *)
(* and at most twice when its policy says it may be repeated.              *)
THEOREM DispatchBudgetHolds == Spec => []DispatchBudget
<1>1. EffectHistory => DispatchBudget
  BY DEF EffectHistory, HistoryOf, DispatchBudget
<1>2. QED
  BY <1>1, HistoryInvariant, PTL

(* No recorded outcome of an effect contradicts what was dispatched.       *)
THEOREM OutcomesTruthful == Spec => []OutcomesAreTruthful
<1>1. EffectHistory => OutcomesAreTruthful
  BY DEF EffectHistory, HistoryOf, OutcomesAreTruthful
<1>2. QED
  BY <1>1, HistoryInvariant, PTL

-----------------------------------------------------------------------------
(* Runs.  A claim names the open run, so that closing a run needs no more  *)
(* than its own entries to be finished.                                    *)

ClaimantIsOpen ==
  \A e \in EntryId :
    entry[e].status = "claimed" => open \in OpId /\ entry[e].op = open

ResultsAreNodes ==
  \A t \in EffectId : effect[t].status # "absent" => effect[t].result \in NodeId

RunInv ==
  OneOpenRun /\ ClaimantIsOpen /\ ResultsAreNodes /\ FinishedRunsAreSettled

LEMMA OneOpenRunStep == TypeOK /\ OneOpenRun /\ Next => OneOpenRun'
<1> SUFFICES ASSUME TypeOK, OneOpenRun, Next, NEW x \in OpId
             PROVE  op'[x].status \in {"accepted", "running"} <=> open' = x
  BY DEF OneOpenRun
<1>1. op[x].status \in {"accepted", "running"} <=> open = x
  BY DEF OneOpenRun
<1>2. CASE op'[x].status = op[x].status /\ open' = open
  BY <1>1, <1>2
<1>3. CASE NodeStep \/ QueueStep \/ EffectStep
  <2>1. UNCHANGED <<op, open>>
    BY <1>3, NodeStepFrame, QueueStepFrame, EffectStepFrame
  <2>2. QED
    BY <2>1, <1>2
<1>4. CASE RunStep
  <2> PICK o \in OpId :
        \/ \E q \in NodeId \cup {None} : AcceptRun(o, q)
        \/ \E e \in EntryId : AcceptQueuedRun(o, e)
        \/ SelectStep(o) \/ StartStep(o)
        \/ \E s \in 0..op[o].selected, a \in 1..MaxAttempts : StartAttempt(o, s, a)
        \/ CancelRun(o)
        \/ \E outcome \in Outcomes : FinishRun(o, outcome)
    BY <1>4 DEF RunStep
  <2>1. CASE \/ \E q \in NodeId \cup {None} : AcceptRun(o, q)
             \/ \E e \in EntryId : AcceptQueuedRun(o, e)
    <3>1. /\ open = None /\ open' = o
          /\ \E q : op' = [op EXCEPT ![o] = Accepted(q)]
      BY <2>1 DEF AcceptRun, AcceptQueuedRun
    <3>2. \A q : Accepted(q).status = "accepted"
      BY DEF Accepted, NoOperation
    <3>3. QED
      BY <1>1, <3>1, <3>2, IdAssumption DEF TypeOK
  <2>2. CASE SelectStep(o) \/ CancelRun(o)
    <3>1. \/ op' = [op EXCEPT ![o] = [op[o] EXCEPT !.selected = op[o].selected + 1]]
          \/ op' = [op EXCEPT ![o] = [op[o] EXCEPT !.cancelled = TRUE]]
      BY <2>2 DEF SelectStep, CancelRun, TypeOK
    <3>2. op \in [OpId -> Operation] /\ op[o] \in Operation /\ open' = open
      BY <2>2 DEF SelectStep, CancelRun, TypeOK
    <3>3. op'[x].status = op[x].status
      BY <3>1, <3>2 DEF Operation
    <3>4. QED
      BY <3>2, <3>3, <1>2
  <2>6. CASE StartStep(o)
    <3>1. /\ open = o /\ open' = open
          /\ x # o => op'[x] = op[x]
          /\ op'[o].status = "running"
      BY <2>6 DEF StartStep, CanSelectStep, IsOpen, TypeOK, Operation
    <3>2. QED
      BY <1>1, <3>1
  <2>3. CASE \E s \in 0..op[o].selected, a \in 1..MaxAttempts : StartAttempt(o, s, a)
    <3> PICK s \in 0..op[o].selected, a \in 1..MaxAttempts : StartAttempt(o, s, a)
      BY <2>3
    <3> DEFINE v == [op[o] EXCEPT !.step = s, !.attempt = a, !.status = "running"]
    <3>3. op' = [op EXCEPT ![o] = v] /\ open = o /\ open' = open
      BY DEF StartAttempt, IsOpen
    <3>4. op \in [OpId -> Operation] /\ v.status = "running"
      BY DEF TypeOK, Operation
    <3>1. /\ open = o /\ open' = open
          /\ x # o => op'[x] = op[x]
          /\ op'[o].status = "running"
      <4> HIDE DEF v
      <4>1. QED
        BY <3>3, <3>4
    <3>2. QED
      BY <1>1, <3>1
  <2>4. CASE \E outcome \in Outcomes : FinishRun(o, outcome)
    <3> PICK outcome \in Outcomes : FinishRun(o, outcome)
      BY <2>4
    <3>1. /\ open = o /\ open' = None
          /\ x # o => op'[x] = op[x]
          /\ op'[o].status = outcome
      BY DEF FinishRun, CanFinishRun, IsOpen, TypeOK, Operation
    <3>2. outcome \notin {"accepted", "running"}
      BY DEF Outcomes
    <3>3. QED
      BY <1>1, <3>1, <3>2, IdAssumption
  <2>5. QED
    BY <2>1, <2>2, <2>3, <2>4, <2>6
<1>5. QED
  BY <1>3, <1>4 DEF Next

LEMMA ClaimantIsOpenStep ==
  TypeOK /\ OneOpenRun /\ ClaimantIsOpen /\ Next => ClaimantIsOpen'
<1> SUFFICES ASSUME TypeOK, OneOpenRun, ClaimantIsOpen, Next,
                    NEW x \in EntryId, entry'[x].status = "claimed"
             PROVE  open' \in OpId /\ entry'[x].op = open'
  BY DEF ClaimantIsOpen
<1>1. CASE NodeStep \/ EffectStep
  <2>1. UNCHANGED <<entry, open>>
    BY <1>1, NodeStepFrame, EffectStepFrame
  <2>2. QED
    BY <2>1 DEF ClaimantIsOpen
<1>2. CASE QueueStep
  <2> PICK e \in EntryId :
        \/ \E n \in NodeId, k \in Kinds : AddEntry(e, n, k)
        \/ \E o \in OpId : ClaimEntry(e, o)
        \/ \E outcome \in {"consumed", "cancelled"} : FinishEntry(e, outcome)
    BY <1>2 DEF QueueStep
  <2>1. open' = open
    BY DEF AddEntry, ClaimEntry, FinishEntry
  <2>2. CASE x # e
    <3>1. entry'[x] = entry[x]
      BY <2>2 DEF AddEntry, ClaimEntry, FinishEntry, TypeOK
    <3>2. QED
      BY <2>1, <3>1 DEF ClaimantIsOpen
  <2>3. CASE x = e
    <3>1. \E o \in OpId : ClaimEntry(e, o)
      <4>1. ~ \E n \in NodeId, k \in Kinds : AddEntry(e, n, k)
        BY <2>3 DEF AddEntry, TypeOK
      <4>2. ~ \E outcome \in {"consumed", "cancelled"} : FinishEntry(e, outcome)
        BY <2>3 DEF FinishEntry, TypeOK, Entry
      <4>3. QED
        BY <4>1, <4>2
    <3>2. PICK o \in OpId : ClaimEntry(e, o)
      BY <3>1
    <3>3. open = o /\ entry'[x].op = o
      BY <2>3, <3>2 DEF ClaimEntry, CanClaim, IsOpen, TypeOK, Entry
    <3>4. QED
      BY <2>1, <3>3
  <2>4. QED
    BY <2>2, <2>3
<1>3. CASE RunStep
  <2> PICK o \in OpId :
        \/ \E q \in NodeId \cup {None} : AcceptRun(o, q)
        \/ \E e \in EntryId : AcceptQueuedRun(o, e)
        \/ SelectStep(o) \/ StartStep(o)
        \/ \E s \in 0..op[o].selected, a \in 1..MaxAttempts : StartAttempt(o, s, a)
        \/ CancelRun(o)
        \/ \E outcome \in Outcomes : FinishRun(o, outcome)
    BY <1>3 DEF RunStep
  <2>1. CASE \E q \in NodeId \cup {None} : AcceptRun(o, q)
    <3>1. entry' = entry /\ open = None
      BY <2>1 DEF AcceptRun
    <3>2. QED
      BY <3>1, IdAssumption DEF ClaimantIsOpen
  <2>2. CASE \E e \in EntryId : AcceptQueuedRun(o, e)
    <3> PICK e \in EntryId : AcceptQueuedRun(o, e)
      BY <2>2
    <3>1. open = None /\ open' = o
      BY DEF AcceptQueuedRun
    <3>2. x # e => entry'[x] = entry[x]
      BY DEF AcceptQueuedRun, TypeOK
    <3>3. entry'[e].op = o
      BY DEF AcceptQueuedRun, TypeOK, Entry
    <3>4. QED
      BY <3>1, <3>2, <3>3, IdAssumption DEF ClaimantIsOpen
  <2>3. CASE \/ SelectStep(o) \/ StartStep(o) \/ CancelRun(o)
             \/ \E s \in 0..op[o].selected, a \in 1..MaxAttempts : StartAttempt(o, s, a)
    <3>1. UNCHANGED <<entry, open>>
      BY <2>3 DEF SelectStep, StartStep, CancelRun, StartAttempt
    <3>2. QED
      BY <3>1 DEF ClaimantIsOpen
  <2>4. CASE \E outcome \in Outcomes : FinishRun(o, outcome)
    <3>1. /\ entry' = entry /\ open = o
          /\ \A e \in EntryId : ~(entry[e].status = "claimed" /\ entry[e].op = o)
      BY <2>4 DEF FinishRun, CanFinishRun, IsOpen, RunSettled
    <3>2. QED
      BY <3>1 DEF ClaimantIsOpen
  <2>5. QED
    BY <2>1, <2>2, <2>3, <2>4
<1>4. QED
  BY <1>1, <1>2, <1>3 DEF Next

LEMMA ResultsAreNodesStep == TypeOK /\ ResultsAreNodes /\ Next => ResultsAreNodes'
<1> SUFFICES ASSUME TypeOK, ResultsAreNodes, Next, NEW x \in EffectId,
                    effect'[x].status # "absent"
             PROVE  effect'[x].result \in NodeId
  BY DEF ResultsAreNodes
<1>1. CASE effect'[x] = effect[x]
  BY <1>1 DEF ResultsAreNodes
<1>2. CASE /\ effect[x].status # "absent"
           /\ effect'[x].result = effect[x].result
  BY <1>2 DEF ResultsAreNodes
<1>3. CASE NodeStep \/ QueueStep
  BY <1>1, <1>3, NodeStepFrame, QueueStepFrame
<1>4. CASE RunStep
  <2>1. \/ effect'[x] = effect[x]
        \/ /\ effect[x].status = "prepared"
           /\ effect'[x] = [effect[x] EXCEPT !.status = "not_applied"]
    BY <1>4 DEF RunStep, AcceptRun, AcceptQueuedRun, SelectStep, StartStep, StartAttempt,
       CancelRun, FinishRun
  <2>2. effect[x] \in Effect
    BY DEF TypeOK
  <2>3. QED
    BY <2>1, <2>2, <1>1, <1>2 DEF Effect
<1>5. CASE EffectStep
  <2>1. PICK t \in EffectId :
          \/ \E o \in OpId, c \in CallId, policy \in Policies, n, a \in NodeId :
               PrepareEffect(t, o, c, policy, n, a)
          \/ DispatchEffect(t)
          \/ StartRecovery(t)
          \/ Live(t) /\ \E s \in Unsettled \cup Terminal : Become(t, s)
    BY <1>5 DEF EffectStep, MarkInDoubt, FinishEffect, ReconcileEffect, ResolveEffect,
       CanResolve, Unsettled, Terminal
  <2>2. effect[t] \in Effect /\ effect \in [EffectId -> Effect]
    BY DEF TypeOK
  <2>3. CASE \E o \in OpId, c \in CallId, policy \in Policies, n, a \in NodeId :
               PrepareEffect(t, o, c, policy, n, a)
    <3> PICK o \in OpId, c \in CallId, policy \in Policies, n \in NodeId, a \in NodeId :
          PrepareEffect(t, o, c, policy, n, a)
      BY <2>3
    <3>1. effect'[t].result = n
      BY <2>2 DEF PrepareEffect
    <3>2. x # t => effect'[x] = effect[x]
      BY <2>2 DEF PrepareEffect
    <3>3. QED
      BY <3>1, <3>2, <1>1
  <2>4. CASE DispatchEffect(t)
    <3>1. Live(t) /\ effect'[t].result = effect[t].result
      BY <2>2, <2>4 DEF DispatchEffect, CanDispatch, Effect
    <3>2. x # t => effect'[x] = effect[x]
      BY <2>2, <2>4 DEF DispatchEffect
    <3>3. QED
      BY <3>1, <3>2, <1>1, <1>2 DEF Live
  <2>5. CASE StartRecovery(t)
    <3>1. Live(t) /\ effect'[t].result = effect[t].result
      BY <2>2, <2>5 DEF StartRecovery, Effect
    <3>2. x # t => effect'[x] = effect[x]
      BY <2>2, <2>5 DEF StartRecovery
    <3>3. QED
      BY <3>1, <3>2, <1>1, <1>2 DEF Live
  <2>6. CASE Live(t) /\ \E s \in Unsettled \cup Terminal : Become(t, s)
    <3>1. Live(t) /\ effect'[t].result = effect[t].result
      BY <2>2, <2>6 DEF Become, Effect
    <3>2. x # t => effect'[x] = effect[x]
      BY <2>2, <2>6 DEF Become
    <3>3. QED
      BY <3>1, <3>2, <1>1, <1>2 DEF Live
  <2>7. QED
    BY <2>1, <2>3, <2>4, <2>5, <2>6
<1>6. QED
  BY <1>3, <1>4, <1>5 DEF Next

(* What a step leaves alone: nodes that exist, and everything that belongs *)
(* to a run that is not the open one.                                      *)
LEMMA NodesFrame ==
  ASSUME TypeOK, Next, NEW o \in OpId, o # open
  PROVE  /\ \A n \in NodeId : Exists(n) => node'[n] = node[n]
         /\ OwnedNodes(o)' = OwnedNodes(o)
<1>1. CASE UNCHANGED node
  BY <1>1 DEF OwnedNodes, Exists
<1>2. ASSUME NEW n \in NodeId, NEW p \in NodeId \cup {None},
             NEW q \in OpId \cup {None}, NEW r \in Roles, NEW select \in BOOLEAN,
             AddNode(n, p, q, r, select)
      PROVE  /\ \A m \in NodeId : Exists(m) => node'[m] = node[m]
             /\ OwnedNodes(o)' = OwnedNodes(o)
  <2>1. ~Exists(n) /\ q # o
    BY <1>2, IdAssumption DEF AddNode, CanAddNode
  <2>2. \A m \in NodeId : m # n => node'[m] = node[m]
    BY <1>2 DEF AddNode, TypeOK
  <2>3. node'[n].op = q
    BY <1>2 DEF AddNode, TypeOK
  <2>4. n \notin OwnedNodes(o) /\ n \notin OwnedNodes(o)'
    BY <2>1, <2>3 DEF OwnedNodes
  <2>5. \A m \in NodeId : m \in OwnedNodes(o)' <=> m \in OwnedNodes(o)
    BY <2>2, <2>4 DEF OwnedNodes, Exists
  <2>6. QED
    BY <2>1, <2>2, <2>5 DEF OwnedNodes
<1>3. UNCHANGED node \/
        \E n \in NodeId, p \in NodeId \cup {None}, q \in OpId \cup {None},
           r \in Roles, select \in BOOLEAN : AddNode(n, p, q, r, select)
  BY RunStepFrame, QueueStepFrame, EffectStepFrame DEF Next, NodeStep, MoveHead
<1>4. QED
  BY <1>1, <1>2, <1>3

LEMMA RunFrame ==
  ASSUME TypeOK, Next, NEW o \in OpId, o # open, op[o].status # "absent"
  PROVE  op'[o] = op[o]
<1>1. CASE NodeStep \/ QueueStep \/ EffectStep
  BY <1>1, NodeStepFrame, QueueStepFrame, EffectStepFrame
<1>2. CASE RunStep
  <2>1. PICK x \in OpId :
          /\ open = x \/ op[x].status = "absent"
          /\ \E v : op' = [op EXCEPT ![x] = v]
    BY <1>2 DEF RunStep, AcceptRun, AcceptQueuedRun, SelectStep, StartStep, CanSelectStep,
       StartAttempt, CancelRun, FinishRun, CanFinishRun, IsOpen
  <2>2. QED
    BY <2>1 DEF TypeOK
<1>3. QED
  BY <1>1, <1>2 DEF Next

LEMMA EffectFrame ==
  ASSUME TypeOK, Next, NEW o \in OpId, o # open, op[o].status # "absent",
         NEW x \in EffectId, effect'[x].status # "absent", effect'[x].op = o
  PROVE  effect'[x] = effect[x]
<1>1. CASE NodeStep \/ QueueStep
  BY <1>1, NodeStepFrame, QueueStepFrame
<1>2. CASE RunStep
  <2>1. \/ effect'[x] = effect[x]
        \/ /\ open = effect[x].op
           /\ effect'[x] = [effect[x] EXCEPT !.status = "not_applied"]
    BY <1>2 DEF RunStep, AcceptRun, AcceptQueuedRun, SelectStep, StartStep, StartAttempt,
       CancelRun, IsOpen, FinishRun
  <2>2. effect[x] \in Effect
    BY DEF TypeOK
  <2>3. QED
    BY <2>1, <2>2 DEF Effect
<1>3. CASE EffectStep
  <2>1. PICK t \in EffectId :
          \/ \E p \in OpId, c \in CallId, policy \in Policies, n, a \in NodeId :
               PrepareEffect(t, p, c, policy, n, a)
          \/ DispatchEffect(t)
          \/ StartRecovery(t)
          \/ Live(t) /\ \E s \in Unsettled \cup Terminal : Become(t, s)
    BY <1>3 DEF EffectStep, MarkInDoubt, FinishEffect, ReconcileEffect, ResolveEffect,
       CanResolve, Unsettled, Terminal
  <2>2. effect[t] \in Effect /\ effect \in [EffectId -> Effect]
    BY DEF TypeOK
  <2>3. \E v : effect' = [effect EXCEPT ![t] = v] /\ v.op = open
    <3>1. CASE \E p \in OpId, c \in CallId, policy \in Policies, n, a \in NodeId :
                 PrepareEffect(t, p, c, policy, n, a)
      <4> PICK p \in OpId, c \in CallId, policy \in Policies, n, a \in NodeId :
            PrepareEffect(t, p, c, policy, n, a)
        BY <3>1
      <4> DEFINE v == [status |-> "prepared", op |-> p, call |-> c, policy |-> policy,
                       result |-> n, step |-> op[p].step, assistant |-> a,
                       dispatches |-> 0, recovery |-> FALSE]
      <4>1. effect' = [effect EXCEPT ![t] = v] /\ v.op = open
        BY DEF PrepareEffect, IsOpen
      <4>2. QED
        BY <4>1
    <3>2. CASE DispatchEffect(t)
      <4> DEFINE v == [effect[t] EXCEPT !.status = "dispatched",
                                        !.dispatches = effect[t].dispatches + 1]
      <4>1. effect' = [effect EXCEPT ![t] = v] /\ v.op = open
        BY <2>2, <3>2 DEF DispatchEffect, CanDispatch, Live, Effect
      <4>2. QED
        BY <4>1
    <3>3. CASE StartRecovery(t)
      <4> DEFINE v == [effect[t] EXCEPT !.status = "recovery_started",
                                        !.recovery = TRUE]
      <4>1. effect' = [effect EXCEPT ![t] = v] /\ v.op = open
        BY <2>2, <3>3 DEF StartRecovery, Live, Effect
      <4>2. QED
        BY <4>1
    <3>4. CASE Live(t) /\ \E s \in Unsettled \cup Terminal : Become(t, s)
      <4> PICK s \in Unsettled \cup Terminal : Become(t, s)
        BY <3>4
      <4> DEFINE v == [effect[t] EXCEPT !.status = s]
      <4>1. effect' = [effect EXCEPT ![t] = v] /\ v.op = open
        BY <2>2, <3>4 DEF Become, Live, Effect
      <4>2. QED
        BY <4>1
    <3>5. QED
      BY <2>1, <3>1, <3>2, <3>3, <3>4
  <2>4. QED
    BY <2>2, <2>3
<1>4. QED
  BY <1>1, <1>2, <1>3 DEF Next

(* A run gets its outcome from run_finished and from nothing else.          *)
LEMMA FinishedByFinishRun ==
  ASSUME TypeOK, Next, NEW o \in OpId,
         op[o].status \notin Outcomes, op'[o].status \in Outcomes
  PROVE  \E outcome \in Outcomes : FinishRun(o, outcome)
<1>1. RunStep
  BY NodeStepFrame, QueueStepFrame, EffectStepFrame DEF Next
<1>2. PICK x \in OpId :
        \/ \E q \in NodeId \cup {None} : AcceptRun(x, q)
        \/ \E e \in EntryId : AcceptQueuedRun(x, e)
        \/ SelectStep(x) \/ StartStep(x)
        \/ \E s \in 0..op[x].selected, a \in 1..MaxAttempts : StartAttempt(x, s, a)
        \/ CancelRun(x)
        \/ \E outcome \in Outcomes : FinishRun(x, outcome)
  BY <1>1 DEF RunStep
<1>3. CASE \E outcome \in Outcomes : FinishRun(x, outcome)
  <2>1. x = o
    BY <1>3 DEF FinishRun, TypeOK
  <2>2. QED
    BY <1>3, <2>1
<1>4. CASE \/ \E q \in NodeId \cup {None} : AcceptRun(x, q)
           \/ \E e \in EntryId : AcceptQueuedRun(x, e)
  <2>1. PICK q : op' = [op EXCEPT ![x] = Accepted(q)]
    BY <1>4 DEF AcceptRun, AcceptQueuedRun
  <2>2. Accepted(q).status = "accepted"
    BY DEF Accepted, NoOperation
  <2>3. QED
    BY <2>1, <2>2 DEF TypeOK, Outcomes
<1>5. CASE \/ SelectStep(x) \/ StartStep(x) \/ CancelRun(x)
           \/ \E s \in 0..op[x].selected, a \in 1..MaxAttempts : StartAttempt(x, s, a)
  <2> op \in [OpId -> Operation]
    BY DEF TypeOK
  <2>1. op'[o].status \in {op[o].status, "running"}
    <3>1. CASE SelectStep(x)
      BY <3>1 DEF SelectStep, Operation
    <3>5. CASE StartStep(x)
      BY <3>5 DEF StartStep, Operation
    <3>2. CASE CancelRun(x)
      BY <3>2 DEF CancelRun, Operation
    <3>3. CASE \E s \in 0..op[x].selected, a \in 1..MaxAttempts : StartAttempt(x, s, a)
      <4>1. PICK s, a : op' = [op EXCEPT ![x] =
              [op[x] EXCEPT !.step = s, !.attempt = a, !.status = "running"]]
        BY <3>3 DEF StartAttempt
      <4>2. [op[x] EXCEPT !.step = s, !.attempt = a, !.status = "running"].status = "running"
        BY DEF Operation
      <4>3. QED
        BY <4>1, <4>2
    <3>4. QED
      BY <1>5, <3>1, <3>2, <3>3, <3>5
  <2>2. QED
    BY <2>1 DEF Outcomes
<1>6. QED
  BY <1>2, <1>3, <1>4, <1>5

LEMMA FinishedRunsStep == TypeOK /\ RunInv /\ Next => FinishedRunsAreSettled'
<1> SUFFICES ASSUME TypeOK, RunInv, Next, NEW o \in OpId, op'[o].status \in Outcomes
             PROVE  (/\ RunSettled(o)
                     /\ op[o].prompt # None =>
                          /\ op[o].prompt \in OwnedNodes(o)
                          /\ DescendsVia(o, op[o].prompt, op[o].source)
                     /\ op[o].status = "cancelled" => op[o].cancelled
                     /\ op[o].status = "completed" => ~op[o].cancelled)'
  BY DEF FinishedRunsAreSettled
<1>1. TypeOK' /\ OneOpenRun' /\ ClaimantIsOpen'
  BY TypeNodeStep, TypeRunStep, TypeQueueStep, TypeEffectStep, OneOpenRunStep,
     ClaimantIsOpenStep DEF Next, RunInv
<1>2. \A e \in EntryId : ~(entry'[e].status = "claimed" /\ entry'[e].op = o)
  BY <1>1 DEF OneOpenRun, ClaimantIsOpen, Outcomes
<1>3. CASE op[o].status \in Outcomes
  <2>1. o # open /\ op[o].status # "absent"
    BY <1>3 DEF RunInv, OneOpenRun, Outcomes
  <2>2. op'[o] = op[o]
    BY <2>1, RunFrame
  <2>3. /\ \A n \in NodeId : Exists(n) => node'[n] = node[n]
        /\ OwnedNodes(o)' = OwnedNodes(o)
    BY <2>1, NodesFrame
  <2>4. \A t \in EffectsOf(o)' : effect'[t] = effect[t] /\ t \in EffectsOf(o)
    BY <2>1, EffectFrame DEF EffectsOf
  <2>5. \A t \in EffectsOf(o) :
          /\ effect[t].status \in Terminal
          /\ effect[t].result \in NodeId /\ Exists(effect[t].result)
    BY <1>3 DEF RunInv, ResultsAreNodes, FinishedRunsAreSettled, RunSettled, EffectsOf
  <2>6. \A t \in EffectsOf(o)' :
          effect'[t].status \in Terminal /\ Exists(effect[t].result)'
    <3> SUFFICES ASSUME NEW t \in EffectsOf(o)'
                 PROVE  effect'[t].status \in Terminal /\ Exists(effect[t].result)'
      OBVIOUS
    <3>1. effect'[t] = effect[t] /\ effect[t].status \in Terminal
      BY <2>4, <2>5
    <3>2. node'[effect[t].result] = node[effect[t].result]
      BY <2>3, <2>4, <2>5
    <3>3. QED
      BY <2>4, <2>5, <3>1, <3>2 DEF Exists
  <2>7. RunSettled(o)'
    BY <1>2, <2>6 DEF RunSettled
  <2>8. ASSUME NEW start, NEW ancestor
        PROVE  DescendsVia(o, start, ancestor) => DescendsVia(o, start, ancestor)'
    <3>1. \A n \in OwnedNodes(o) : node'[n] = node[n]
      BY <2>3 DEF OwnedNodes
    <3>2. QED
      BY <2>3, <3>1 DEF DescendsVia
  <2>9. op[o].prompt # None =>
          /\ op[o].prompt \in OwnedNodes(o)
          /\ DescendsVia(o, op[o].prompt, op[o].source)
    BY <1>3 DEF RunInv, FinishedRunsAreSettled
  <2>10. /\ op[o].status = "cancelled" => op[o].cancelled
         /\ op[o].status = "completed" => ~op[o].cancelled
    BY <1>3 DEF RunInv, FinishedRunsAreSettled
  <2>11. (op[o].prompt # None =>
            /\ op[o].prompt \in OwnedNodes(o)
            /\ DescendsVia(o, op[o].prompt, op[o].source))'
    BY <2>2, <2>3, <2>8, <2>9
  <2>12. QED
    BY <2>2, <2>7, <2>10, <2>11
<1>4. CASE op[o].status \notin Outcomes
  <2>1. PICK outcome \in Outcomes : FinishRun(o, outcome)
    BY <1>4, FinishedByFinishRun
  <2>2. /\ op'[o] = [op[o] EXCEPT !.status = outcome]
        /\ UNCHANGED <<node, entry, effect>>
    BY <2>1 DEF FinishRun, TypeOK
  <2>3. /\ op'[o].status = outcome /\ op'[o].prompt = op[o].prompt
        /\ op'[o].source = op[o].source /\ op'[o].cancelled = op[o].cancelled
    BY <2>2 DEF TypeOK, Operation
  <2>4. RunSettled(o)'
    BY <2>1, <2>2 DEF FinishRun, CanFinishRun, RunSettled, EffectsOf, Exists
  <2>5. (op[o].prompt # None =>
           /\ op[o].prompt \in OwnedNodes(o)
           /\ DescendsVia(o, op[o].prompt, op[o].source))'
    BY <2>1, <2>2, <2>3
       DEF FinishRun, CanFinishRun, RunPathComplete, DescendsVia, OwnedNodes, Exists
  <2>6. /\ outcome = "cancelled" => op[o].cancelled
        /\ outcome = "completed" => ~op[o].cancelled
    BY <2>1 DEF FinishRun, CanFinishRun
  <2>7. QED
    BY <2>3, <2>4, <2>5, <2>6
<1>5. QED
  BY <1>3, <1>4

(* A session has one run at a time: a run is unfinished exactly while the   *)
(* branch names it, and a finished run left nothing undelivered, undecided  *)
(* or unanswered, in every journal a strict reader opens.                   *)
LEMMA RunInvariant == Spec => [](TypeOK /\ RunInv)
<1>1. Init => RunInv
  BY IdAssumption DEF Init, RunInv, OneOpenRun, ClaimantIsOpen, ResultsAreNodes,
     FinishedRunsAreSettled, NoOperation, NoEntry, NoEffect, Outcomes
<1>2. TypeOK /\ RunInv /\ [Next]_journal => RunInv'
  <2>1. CASE Next
    BY <2>1, TypeNodeStep, TypeRunStep, TypeQueueStep, TypeEffectStep, OneOpenRunStep,
       ClaimantIsOpenStep, ResultsAreNodesStep, FinishedRunsStep DEF Next, RunInv
  <2>2. CASE UNCHANGED journal
    BY <2>2 DEF journal, RunInv, OneOpenRun, ClaimantIsOpen, ResultsAreNodes,
       FinishedRunsAreSettled, RunSettled, EffectsOf, DescendsVia, OwnedNodes, Exists
  <2>3. QED
    BY <2>1, <2>2
<1>3. QED
  BY <1>1, <1>2, TypeCorrect, PTL DEF Spec

(* The current engine permits one open operation per session: no run is    *)
(* left unfinished behind a newer one (applyRunAccepted, applyRunFinished). *)
THEOREM OneOpenRunHolds == Spec => []OneOpenRun
<1>1. TypeOK /\ RunInv => OneOpenRun
  BY DEF RunInv
<1>2. QED
  BY <1>1, RunInvariant, PTL

(* run_finished is accepted only when nothing of the run is owed, and no   *)
(* later commit takes any of that back (applyRunFinished).                 *)
THEOREM FinishedRunsSettled == Spec => []FinishedRunsAreSettled
<1>1. TypeOK /\ RunInv => FinishedRunsAreSettled
  BY DEF RunInv
<1>2. QED
  BY <1>1, RunInvariant, PTL

-----------------------------------------------------------------------------
(* The journal only grows.                                                 *)

(* Nothing rewrites a conversation node.                                   *)
LEMMA NodesAreFinal ==
  ASSUME TypeOK, Next, NEW n \in NodeId, Exists(n)
  PROVE  node'[n] = node[n]
<1>1. CASE NodeStep
  <2>1. UNCHANGED node \/
          \E m \in NodeId, p \in NodeId \cup {None}, o \in OpId \cup {None},
             r \in Roles, select \in BOOLEAN : AddNode(m, p, o, r, select)
    BY <1>1 DEF NodeStep, MoveHead
  <2>2. ASSUME NEW m \in NodeId, NEW p, NEW o, NEW r, NEW select,
               AddNode(m, p, o, r, select)
        PROVE  node'[n] = node[n]
    BY <2>2 DEF AddNode, CanAddNode, TypeOK
  <2>3. QED
    BY <2>1, <2>2
<1>2. CASE RunStep \/ QueueStep \/ EffectStep
  BY <1>2, RunStepFrame, QueueStepFrame, EffectStepFrame
<1>3. QED
  BY <1>1, <1>2 DEF Next

(* A path between two nodes of a run stays one as the conversation grows.  *)
LEMMA DescentGrows ==
  ASSUME TypeOK, Next, NEW o, NEW start, NEW ancestor, DescendsVia(o, start, ancestor)
  PROVE  DescendsVia(o, start, ancestor)'
<1>1. OwnedNodes(o) \subseteq OwnedNodes(o)'
  BY NodesAreFinal DEF OwnedNodes, Exists
<1>2. CASE start = ancestor
  BY <1>2 DEF DescendsVia
<1>3. CASE start # ancestor
  <2>1. PICK path \in SUBSET OwnedNodes(o) :
          /\ start \in path
          /\ \A n \in path : node[n].parent \in path \cup {ancestor}
    BY <1>3 DEF DescendsVia
  <2>2. \A n \in path : node'[n] = node[n]
    BY <2>1, NodesAreFinal DEF OwnedNodes
  <2>3. path \in SUBSET OwnedNodes(o)'
    BY <1>1, <2>1
  <2>4. QED
    BY <2>1, <2>2, <2>3 DEF DescendsVia
<1>4. QED
  BY <1>2, <1>3

(* A new node below the start of a path starts a path itself.              *)
LEMMA DescentExtends ==
  ASSUME NEW n, NEW p, NEW o, NEW ancestor, (n \in OwnedNodes(o))', node'[n].parent = p,
         DescendsVia(o, p, ancestor)'
  PROVE  DescendsVia(o, n, ancestor)'
<1>1. CASE p = ancestor
  <2>1. {n} \in SUBSET OwnedNodes(o)' /\ node'[n].parent = ancestor
    BY <1>1
  <2>2. QED
    BY <2>1 DEF DescendsVia
<1>2. CASE p # ancestor
  <2>1. PICK path \in SUBSET OwnedNodes(o)' :
          /\ p \in path
          /\ \A m \in path : node'[m].parent \in path \cup {ancestor}
    BY <1>2 DEF DescendsVia
  <2>2. path \cup {n} \in SUBSET OwnedNodes(o)'
    OBVIOUS
  <2>3. \A m \in path \cup {n} : node'[m].parent \in (path \cup {n}) \cup {ancestor}
    BY <2>1
  <2>4. QED
    BY <2>2, <2>3 DEF DescendsVia
<1>3. QED
  BY <1>1, <1>2

(* What a step does to an effect that exists: it keeps what it was         *)
(* prepared with, and nothing changes it once it has an outcome.           *)
LEMMA EffectIdentity ==
  ASSUME TypeOK, Next, NEW x \in EffectId, effect[x].status # "absent"
  PROVE  /\ effect'[x].status # "absent"
         /\ effect'[x].op = effect[x].op
         /\ effect'[x].call = effect[x].call
         /\ effect'[x].result = effect[x].result
         /\ effect'[x].assistant = effect[x].assistant
         /\ effect[x].status \in Terminal => effect'[x] = effect[x]
<1>1. effect[x] \in Effect /\ effect \in [EffectId -> Effect]
  BY DEF TypeOK
<1>2. CASE effect'[x] = effect[x]
  BY <1>2
<1>3. ASSUME NEW s \in Unsettled \cup Terminal,
             effect[x].status \notin Terminal,
             \/ effect'[x] = [effect[x] EXCEPT !.status = s]
             \/ \E d \in Nat :
                  effect'[x] = [effect[x] EXCEPT !.status = s, !.dispatches = d]
             \/ effect'[x] = [effect[x] EXCEPT !.status = s, !.recovery = TRUE]
      PROVE  /\ effect'[x].status # "absent"
             /\ effect'[x].op = effect[x].op
             /\ effect'[x].call = effect[x].call
             /\ effect'[x].result = effect[x].result
             /\ effect'[x].assistant = effect[x].assistant
             /\ effect[x].status \in Terminal => effect'[x] = effect[x]
  BY <1>1, <1>3 DEF Effect, Unsettled, Terminal
<1>4. CASE NodeStep \/ QueueStep
  BY <1>2, <1>4, NodeStepFrame, QueueStepFrame
<1>5. CASE RunStep
  <2>1. \/ effect'[x] = effect[x]
        \/ /\ effect[x].status = "prepared"
           /\ effect'[x] = [effect[x] EXCEPT !.status = "not_applied"]
    BY <1>5 DEF RunStep, AcceptRun, AcceptQueuedRun, SelectStep, StartStep, StartAttempt,
       CancelRun, FinishRun
  <2>2. QED
    BY <1>2, <1>3, <2>1 DEF Terminal
<1>6. CASE EffectStep
  <2>1. PICK t \in EffectId :
          \/ \E o \in OpId, c \in CallId, policy \in Policies, n, a \in NodeId :
               PrepareEffect(t, o, c, policy, n, a)
          \/ DispatchEffect(t)
          \/ StartRecovery(t)
          \/ /\ effect[t].status \notin Terminal
             /\ \E s \in Unsettled \cup Terminal : Become(t, s)
    BY <1>6 DEF EffectStep, MarkInDoubt, FinishEffect, ReconcileEffect, ResolveEffect,
       CanResolve, Unsettled, Terminal
  <2>2. CASE t # x
    BY <1>1, <1>2, <2>1, <2>2 DEF PrepareEffect, DispatchEffect, StartRecovery, Become
  <2>3. CASE t = x
    <3>1. CASE DispatchEffect(t)
      <4>1. effect[x].dispatches + 1 \in Nat
        BY <1>1 DEF Effect
      <4>2. /\ effect[x].status \notin Terminal
            /\ effect'[x] = [effect[x] EXCEPT !.status = "dispatched",
                                              !.dispatches = effect[x].dispatches + 1]
        BY <1>1, <2>3, <3>1 DEF DispatchEffect, CanDispatch, Terminal
      <4>3. QED
        BY <1>3, <4>1, <4>2 DEF Unsettled
    <3>2. CASE StartRecovery(t)
      BY <1>1, <1>3, <2>3, <3>2 DEF StartRecovery, Terminal, Unsettled
    <3>3. CASE /\ effect[t].status \notin Terminal
               /\ \E s \in Unsettled \cup Terminal : Become(t, s)
      BY <1>1, <1>3, <2>3, <3>3 DEF Become
    <3>4. QED
      BY <2>1, <2>3, <3>1, <3>2, <3>3 DEF PrepareEffect
  <2>4. QED
    BY <2>2, <2>3
<1>7. QED
  BY <1>4, <1>5, <1>6 DEF Next

(* An effect comes into being when it is prepared.                         *)
LEMMA EffectBirth ==
  ASSUME TypeOK, Next, NEW x \in EffectId,
         effect[x].status = "absent", effect'[x].status # "absent"
  PROVE  \E o \in OpId, c \in CallId, policy \in Policies, n, a \in NodeId :
           PrepareEffect(x, o, c, policy, n, a)
<1>1. effect'[x] # effect[x]
  OBVIOUS
<1>2. EffectStep
  BY <1>1, NodeStepFrame, QueueStepFrame
     DEF Next, RunStep, AcceptRun, AcceptQueuedRun, SelectStep, StartStep, StartAttempt,
         CancelRun, FinishRun
<1>3. PICK t \in EffectId :
        \/ \E o \in OpId, c \in CallId, policy \in Policies, n, a \in NodeId :
             PrepareEffect(t, o, c, policy, n, a)
        \/ effect[t].status # "absent" /\ \E v : effect' = [effect EXCEPT ![t] = v]
  BY <1>2 DEF EffectStep, DispatchEffect, CanDispatch, StartRecovery, MarkInDoubt,
     FinishEffect, ReconcileEffect, ResolveEffect, CanResolve, Become, Live
<1>4. t = x
  BY <1>1, <1>3 DEF PrepareEffect, TypeOK
<1>5. QED
  BY <1>3, <1>4

(* A consumed or cancelled entry is never touched again.                   *)
LEMMA FinishedEntryFrame ==
  ASSUME TypeOK, Next, NEW x \in EntryId, entry[x].status \in {"consumed", "cancelled"}
  PROVE  entry'[x] = entry[x]
<1>1. CASE NodeStep \/ EffectStep
  BY <1>1, NodeStepFrame, EffectStepFrame
<1>2. CASE RunStep
  BY <1>2 DEF RunStep, AcceptRun, AcceptQueuedRun, SelectStep, StartStep, StartAttempt,
     CancelRun, FinishRun, TypeOK
<1>3. CASE QueueStep
  <2>1. PICK e \in EntryId :
          /\ entry[e].status \notin {"consumed", "cancelled"}
          /\ \E v : entry' = [entry EXCEPT ![e] = v]
    BY <1>3 DEF QueueStep, AddEntry, ClaimEntry, CanClaim, FinishEntry, CanConsume,
       CanCancelEntry
  <2>2. QED
    BY <2>1 DEF TypeOK
<1>4. QED
  BY <1>1, <1>2, <1>3 DEF Next

(* History is final: once written, no conversation node, settled effect,   *)
(* finished entry or finished run is changed by any later commit           *)
(* (transitionSessionV4Commit).                                            *)
THEOREM HistoryStaysFinal == Spec => HistoryIsFinal
<1> DEFINE Kept ==
      /\ \A n \in NodeId : Exists(n) => node'[n] = node[n]
      /\ \A t \in EffectId : effect[t].status \in Terminal => effect'[t] = effect[t]
      /\ \A e \in EntryId :
           entry[e].status \in {"consumed", "cancelled"} => entry'[e] = entry[e]
      /\ \A o \in OpId : op[o].status \in Outcomes => op'[o] = op[o]
<1>1. TypeOK /\ RunInv /\ [Next]_journal => [Kept]_journal
  <2> SUFFICES ASSUME TypeOK, RunInv, Next PROVE Kept
    OBVIOUS
  <2>1. \A n \in NodeId : Exists(n) => node'[n] = node[n]
    BY NodesAreFinal
  <2>2. \A t \in EffectId : effect[t].status \in Terminal => effect'[t] = effect[t]
    BY EffectIdentity DEF Terminal
  <2>3. \A e \in EntryId :
          entry[e].status \in {"consumed", "cancelled"} => entry'[e] = entry[e]
    BY FinishedEntryFrame
  <2>4. ASSUME NEW o \in OpId, op[o].status \in Outcomes PROVE op'[o] = op[o]
    <3>1. o # open /\ op[o].status # "absent"
      BY <2>4 DEF RunInv, OneOpenRun, Outcomes
    <3>2. QED
      BY <3>1, RunFrame
  <2>5. QED
    BY <2>1, <2>2, <2>3, <2>4
<1>2. QED
  BY <1>1, RunInvariant, PTL DEF Spec, HistoryIsFinal

-----------------------------------------------------------------------------
(* Answers in the conversation.                                            *)

LEMMA ResultsFollowStep ==
  TypeOK /\ ResultsAreNodes /\ ResultsFollowCalls /\ Next => ResultsFollowCalls'
<1> SUFFICES ASSUME TypeOK, ResultsAreNodes, ResultsFollowCalls, Next,
                    NEW t \in EffectId, effect'[t].status # "absent",
                    Exists(effect[t].result)'
             PROVE  /\ node'[effect'[t].result].role = "tool"
                    /\ DescendsVia(effect[t].op, effect[t].result, effect[t].assistant)'
  BY DEF ResultsFollowCalls
<1>1. CASE effect[t].status = "absent"
  <2>1. PICK o \in OpId, c \in CallId, policy \in Policies, n \in NodeId, a \in NodeId :
          PrepareEffect(t, o, c, policy, n, a)
    BY <1>1, EffectBirth
  <2>2. effect'[t].result = n /\ node' = node
    BY <2>1 DEF PrepareEffect, TypeOK
  <2>3. ~Exists(n)
    BY <2>1 DEF PrepareEffect, ResultNodeAllowed, FreshNode
  <2>4. QED
    BY <2>2, <2>3 DEF Exists
<1>2. CASE effect[t].status # "absent"
  <2> PICK r, o, a :
        r = effect[t].result /\ o = effect[t].op /\ a = effect[t].assistant
    OBVIOUS
  <2>1. effect'[t].result = r /\ effect'[t].op = o /\ effect'[t].assistant = a
    BY <1>2, EffectIdentity
  <2>2. r \in NodeId
    BY <1>2 DEF ResultsAreNodes
  <2>3. SUFFICES node'[r].role = "tool" /\ DescendsVia(o, r, a)'
    BY <2>1 DEF DescendsVia, OwnedNodes
  <2>4. CASE Exists(r)
    <3>1. node[r].role = "tool" /\ DescendsVia(o, r, a)
      BY <1>2, <2>4 DEF ResultsFollowCalls
    <3>2. node'[r] = node[r]
      BY <2>2, <2>4, NodesAreFinal
    <3>3. DescendsVia(o, r, a)'
      BY <3>1, DescentGrows
    <3>4. QED
      BY <3>1, <3>2, <3>3
  <2>5. CASE ~Exists(r)
    <3>1. Exists(r)'
      BY <2>1 DEF Exists
    <3>2. PICK n \in NodeId, p \in NodeId \cup {None}, q \in OpId \cup {None},
               role \in Roles, select \in BOOLEAN : AddNode(n, p, q, role, select)
      <4>1. node' # node
        BY <2>5, <3>1 DEF Exists
      <4>2. QED
        BY <4>1, RunStepFrame, QueueStepFrame, EffectStepFrame
           DEF Next, NodeStep, MoveHead
    <3>3. n = r
      BY <2>5, <3>1, <3>2 DEF AddNode, Exists, TypeOK
    <3>4. role = "tool" /\ q = o /\ DescendsVia(o, p, a)
      <4>1. t \in ResultOf(n)
        BY <1>2, <3>3 DEF ResultOf
      <4>2. QED
        BY <3>2, <4>1 DEF AddNode, CanAddNode, ToolAllowsNode
    <3>5. node'[r] = [parent |-> p, op |-> o, role |-> "tool"]
      BY <3>2, <3>3, <3>4 DEF AddNode, TypeOK
    <3>6. DescendsVia(o, p, a)'
      BY <3>4, DescentGrows
    <3>7. r \in OwnedNodes(o)'
      BY <2>2, <3>1, <3>5 DEF OwnedNodes
    <3>8. DescendsVia(o, r, a)'
      BY <3>5, <3>6, <3>7, DescentExtends
    <3>9. QED
      BY <3>5, <3>8
  <2>6. QED
    BY <2>4, <2>5
<1>3. QED
  BY <1>1, <1>2

(* A tool result is only ever appended below the message that called the   *)
(* tool, inside its own run (addConversationNode), and no later commit  *)
(* takes it away.                                                          *)
THEOREM ResultsFollowCallsHolds == Spec => []ResultsFollowCalls
<1>1. Init => ResultsFollowCalls
  BY DEF Init, ResultsFollowCalls, NoEffect
<1>2. TypeOK /\ RunInv /\ ResultsFollowCalls /\ [Next]_journal => ResultsFollowCalls'
  <2>1. CASE UNCHANGED journal
    BY <2>1 DEF journal, ResultsFollowCalls, DescendsVia, OwnedNodes, Exists
  <2>2. QED
    BY <2>1, ResultsFollowStep DEF RunInv
<1>3. QED
  BY <1>1, <1>2, RunInvariant, PTL DEF Spec

-----------------------------------------------------------------------------
(* Queues.                                                                 *)

(* Removing one element keeps the elements before it and moves those after *)
(* it one place down: nothing else appears, nothing else is lost.          *)
LEMMA DropAtElements ==
  ASSUME NEW S, NEW s \in Seq(S), NEW i \in DOMAIN s
  PROVE  /\ DOMAIN DropAt(s, i) = 1..(Len(s) - 1)
         /\ \A j \in DOMAIN DropAt(s, i) :
              DropAt(s, i)[j] = IF j < i THEN s[j] ELSE s[j + 1]
         /\ \A j \in DOMAIN s :
              j # i => \E m \in DOMAIN DropAt(s, i) : DropAt(s, i)[m] = s[j]
<1>1. Len(s) \in Nat /\ DOMAIN s = 1..Len(s)
  BY LenProperties
<1>2. DOMAIN DropAt(s, i) = 1..(Len(s) - 1)
  BY DEF DropAt
<1>3. \A j \in DOMAIN DropAt(s, i) :
        DropAt(s, i)[j] = IF j < i THEN s[j] ELSE s[j + 1]
  BY DEF DropAt
<1>4. ASSUME NEW j \in DOMAIN s, j # i
      PROVE  \E m \in DOMAIN DropAt(s, i) : DropAt(s, i)[m] = s[j]
  <2>1. CASE j < i
    <3>1. j \in 1..(Len(s) - 1) /\ DropAt(s, i)[j] = s[j]
      BY <1>1, <1>2, <1>3, <2>1
    <3>2. QED
      BY <1>2, <3>1
  <2>2. CASE ~(j < i)
    <3>1. j - 1 \in 1..(Len(s) - 1) /\ ~(j - 1 < i) /\ (j - 1) + 1 = j
      BY <1>1, <1>4, <2>2
    <3>2. DropAt(s, i)[j - 1] = s[j]
      BY <1>2, <1>3, <3>1
    <3>3. QED
      BY <1>2, <3>1, <3>2
  <2>3. QED
    BY <2>1, <2>2
<1>5. QED
  BY <1>2, <1>3, <1>4

Distinct(s) == \A i, j \in DOMAIN s : s[i] = s[j] => i = j

(* With no element twice, what remains is exactly the rest.                *)
LEMMA DropAtSet ==
  ASSUME NEW S, NEW s \in Seq(S), NEW i \in DOMAIN s, Distinct(s)
  PROVE  /\ Distinct(DropAt(s, i))
         /\ {DropAt(s, i)[j] : j \in DOMAIN DropAt(s, i)} = {s[j] : j \in DOMAIN s} \ {s[i]}
<1> DEFINE d == DropAt(s, i)
<1>1. /\ Len(s) \in Nat /\ DOMAIN s = 1..Len(s)
      /\ DOMAIN d = 1..(Len(s) - 1)
      /\ \A j \in DOMAIN d : d[j] = IF j < i THEN s[j] ELSE s[j + 1]
      /\ \A j \in DOMAIN s : j # i => \E m \in DOMAIN d : d[m] = s[j]
  BY LenProperties, DropAtElements
<1> HIDE DEF d
<1>2. ASSUME NEW j \in DOMAIN d
      PROVE  \E m \in DOMAIN s : m # i /\ d[j] = s[m] /\ m = (IF j < i THEN j ELSE j + 1)
  <2>1. (IF j < i THEN j ELSE j + 1) \in DOMAIN s /\ (IF j < i THEN j ELSE j + 1) # i
    BY <1>1
  <2>2. QED
    BY <1>1, <2>1
<1>3. Distinct(d)
  <2> SUFFICES ASSUME NEW j \in DOMAIN d, NEW k \in DOMAIN d, d[j] = d[k] PROVE j = k
    BY DEF Distinct
  <2>1. (IF j < i THEN j ELSE j + 1) = (IF k < i THEN k ELSE k + 1)
    BY <1>2 DEF Distinct
  <2>2. j \in Nat /\ k \in Nat /\ i \in Nat
    BY <1>1
  <2>3. QED
    BY <2>1, <2>2
<1>4. {d[j] : j \in DOMAIN d} = {s[j] : j \in DOMAIN s} \ {s[i]}
  <2>1. \A j \in DOMAIN d : d[j] \in {s[m] : m \in DOMAIN s} \ {s[i]}
    BY <1>2 DEF Distinct
  <2>2. \A j \in DOMAIN s : s[j] # s[i] => s[j] \in {d[m] : m \in DOMAIN d}
    BY <1>1
  <2>3. QED
    BY <2>1, <2>2
<1>5. QED
  BY <1>3, <1>4 DEF d

Listed(q) == {q[i] : i \in DOMAIN q}
Owed(k)   == {e \in EntryId : entry[e].kind = k /\ entry[e].status \in {"queued", "claimed"}}

(* Appending an element that is not listed.                                *)
LEMMA AppendSet ==
  ASSUME NEW S, NEW s \in Seq(S), NEW x \in S, Distinct(s), x \notin Listed(s)
  PROVE  Distinct(Append(s, x)) /\ Listed(Append(s, x)) = Listed(s) \cup {x}
<1> DEFINE q == Append(s, x)
<1>1. /\ Len(s) \in Nat /\ DOMAIN s = 1..Len(s)
      /\ DOMAIN q = 1..(Len(s) + 1)
      /\ \A i \in 1..Len(s) : q[i] = s[i]
      /\ q[Len(s) + 1] = x
  BY LenProperties, AppendProperties
<1> HIDE DEF q
<1>2. \A i \in DOMAIN q : i \in DOMAIN s \/ i = Len(s) + 1
  BY <1>1
<1>3. Distinct(q)
  BY <1>1, <1>2 DEF Distinct, Listed
<1>4. Listed(q) = Listed(s) \cup {x}
  <2>1. \A i \in DOMAIN q : q[i] \in Listed(s) \cup {x}
    BY <1>1, <1>2 DEF Listed
  <2>2. \A i \in DOMAIN s : i \in DOMAIN q /\ q[i] = s[i]
    BY <1>1
  <2>3. Len(s) + 1 \in DOMAIN q
    BY <1>1
  <2>4. QED
    BY <1>1, <2>1, <2>2, <2>3 DEF Listed
<1>5. QED
  BY <1>3, <1>4 DEF q

(* What a step of the queues does to one entry, or that nothing happened.  *)
LEMMA QueueCases ==
  ASSUME TypeOK, Next
  PROVE  \/ UNCHANGED <<pending, entry>>
         \/ \E e \in EntryId, n \in NodeId, k \in Kinds : AddEntry(e, n, k)
         \/ \E e \in EntryId, o \in OpId :
              /\ entry[e].status = "queued" /\ First(entry[e].kind, e)
              /\ entry' = [entry EXCEPT ![e] = [@ EXCEPT !.status = "claimed", !.op = o]]
              /\ UNCHANGED pending
         \/ \E e \in EntryId, outcome \in {"consumed", "cancelled"} : FinishEntry(e, outcome)
<1>1. CASE NodeStep \/ EffectStep
  BY <1>1, NodeStepFrame, EffectStepFrame
<1>2. CASE RunStep
  BY <1>2 DEF RunStep, AcceptRun, AcceptQueuedRun, SelectStep, StartStep, StartAttempt,
     CancelRun, FinishRun
<1>3. CASE QueueStep
  BY <1>3 DEF QueueStep, ClaimEntry, CanClaim
<1>4. QED
  BY <1>1, <1>2, <1>3 DEF Next

LEMMA PendingIsOwedStep == TypeOK /\ PendingIsOwed /\ Next => PendingIsOwed'
<1> SUFFICES ASSUME TypeOK, PendingIsOwed, Next, NEW k \in Kinds
             PROVE  Distinct(pending'[k]) /\ Listed(pending'[k]) = Owed(k)'
  BY DEF PendingIsOwed, Distinct, Listed, Owed
<1>1. /\ pending \in [Kinds -> Seq(EntryId)] /\ entry \in [EntryId -> Entry]
      /\ pending[k] \in Seq(EntryId)
      /\ Distinct(pending[k]) /\ Listed(pending[k]) = Owed(k)
  BY DEF TypeOK, PendingIsOwed, Distinct, Listed, Owed
<1>2. CASE UNCHANGED <<pending, entry>>
  BY <1>1, <1>2 DEF Owed
<1>3. ASSUME NEW e \in EntryId, NEW n \in NodeId, NEW kind \in Kinds, AddEntry(e, n, kind)
      PROVE  Distinct(pending'[k]) /\ Listed(pending'[k]) = Owed(k)'
  <2>1. /\ entry[e].status = "absent"
        /\ entry' = [entry EXCEPT ![e] =
                       [status |-> "queued", target |-> n, kind |-> kind, op |-> None]]
        /\ pending' = [pending EXCEPT ![kind] = Append(@, e)]
    BY <1>3 DEF AddEntry
  <2>2. e \notin Owed(k)
    BY <2>1 DEF Owed
  <2>3. CASE k = kind
    <3>1. Owed(k)' = Owed(k) \cup {e}
      BY <1>1, <2>1, <2>3 DEF Owed
    <3>2. pending'[k] = Append(pending[k], e)
      BY <1>1, <2>1, <2>3
    <3>3. QED
      BY <1>1, <2>2, <3>1, <3>2, AppendSet
  <2>4. CASE k # kind
    <3>1. Owed(k)' = Owed(k)
      BY <1>1, <2>1, <2>4 DEF Owed
    <3>2. pending'[k] = pending[k]
      BY <1>1, <2>1, <2>4
    <3>3. QED
      BY <1>1, <3>1, <3>2
  <2>5. QED
    BY <2>3, <2>4
<1>4. ASSUME NEW e \in EntryId, NEW o \in OpId, entry[e].status = "queued",
             entry' = [entry EXCEPT ![e] = [@ EXCEPT !.status = "claimed", !.op = o]],
             UNCHANGED pending
      PROVE  Distinct(pending'[k]) /\ Listed(pending'[k]) = Owed(k)'
  <2>1. /\ entry'[e].kind = entry[e].kind /\ entry'[e].status = "claimed"
        /\ \A f \in EntryId : f # e => entry'[f] = entry[f]
    BY <1>1, <1>4 DEF Entry
  <2>2. Owed(k)' = Owed(k)
    BY <1>4, <2>1 DEF Owed
  <2>3. QED
    BY <1>1, <1>4, <2>2
<1>5. ASSUME NEW e \in EntryId, NEW outcome \in {"consumed", "cancelled"},
             FinishEntry(e, outcome)
      PROVE  Distinct(pending'[k]) /\ Listed(pending'[k]) = Owed(k)'
  <2>1. PICK i \in DOMAIN pending[entry[e].kind] :
          /\ pending[entry[e].kind][i] = e
          /\ pending' = [pending EXCEPT ![entry[e].kind] = DropAt(@, i)]
    BY <1>5 DEF FinishEntry
  <2>2. /\ entry'[e].kind = entry[e].kind /\ entry'[e].status \notin {"queued", "claimed"}
        /\ \A f \in EntryId : f # e => entry'[f] = entry[f]
    BY <1>1, <1>5 DEF FinishEntry, Entry
  <2>3. CASE k = entry[e].kind
    <3>1. Owed(k)' = Owed(k) \ {e}
      BY <2>2 DEF Owed
    <3>2. pending'[k] = DropAt(pending[k], i)
      BY <1>1, <2>1, <2>3
    <3>3. /\ Distinct(DropAt(pending[k], i))
          /\ Listed(DropAt(pending[k], i)) = Listed(pending[k]) \ {pending[k][i]}
      BY <1>1, <2>1, <2>3, DropAtSet DEF Listed
    <3>4. QED
      BY <1>1, <2>1, <2>3, <3>1, <3>2, <3>3
  <2>4. CASE k # entry[e].kind
    <3>1. Owed(k)' = Owed(k)
      BY <2>2, <2>4 DEF Owed
    <3>2. pending'[k] = pending[k]
      BY <1>1, <2>1, <2>4
    <3>3. QED
      BY <1>1, <3>1, <3>2
  <2>5. QED
    BY <2>3, <2>4
<1>6. QED
  BY <1>2, <1>3, <1>4, <1>5, QueueCases

(* The pending list of the branch names exactly the entries still owed,    *)
(* each once: a restart that reads only this list forgets no message and   *)
(* delivers none twice (applyQueueAdded, applyQueueFinished).                  *)
THEOREM PendingIsOwedHolds == Spec => []PendingIsOwed
<1>1. Init => PendingIsOwed
  BY DEF Init, PendingIsOwed, NoEntry
<1>2. TypeOK /\ PendingIsOwed /\ [Next]_journal => PendingIsOwed'
  BY PendingIsOwedStep DEF journal, PendingIsOwed
<1>3. QED
  BY <1>1, <1>2, TypeCorrect, PTL DEF Spec

(* A claimed entry stays the first of its kind until it is finished.       *)
LEMMA ClaimedIsFirstStep ==
  ASSUME TypeOK, Next, NEW x \in EntryId, entry'[x].status = "claimed",
         entry[x].status = "claimed" => First(entry[x].kind, x)
  PROVE  First(entry[x].kind, x)'
<1>1. /\ pending \in [Kinds -> Seq(EntryId)] /\ entry \in [EntryId -> Entry]
  BY DEF TypeOK
<1>2. CASE UNCHANGED <<pending, entry>>
  BY <1>2 DEF First
<1>3. ASSUME NEW e \in EntryId, NEW n \in NodeId, NEW kind \in Kinds, AddEntry(e, n, kind)
      PROVE  First(entry[x].kind, x)'
  <2>1. x # e /\ entry'[x] = entry[x]
    BY <1>1, <1>3 DEF AddEntry
  <2>2. First(entry[x].kind, x) /\ entry[x].kind \in Kinds
    BY <1>1, <2>1 DEF Entry
  <2>3. pending[entry[x].kind] \in Seq(EntryId)
    BY <1>1, <2>2
  <2>4. CASE entry[x].kind = kind
    <3>1. pending'[kind] = Append(pending[kind], e)
      BY <1>1, <1>3 DEF AddEntry
    <3>2. Len(pending[kind]) \in Nat /\ Len(pending[kind]) # 0
      BY <2>2, <2>3, <2>4, LenProperties, EmptySeq DEF First
    <3>3. 1 \in 1..Len(pending[kind])
      BY <3>2
    <3>4. Append(pending[kind], e)[1] = pending[kind][1] /\ Append(pending[kind], e) # <<>>
      BY <2>3, <2>4, <3>3, AppendProperties
    <3>5. QED
      BY <2>1, <2>2, <2>4, <3>1, <3>4 DEF First
  <2>5. CASE entry[x].kind # kind
    BY <1>1, <1>3, <2>1, <2>2, <2>5 DEF AddEntry, First
  <2>6. QED
    BY <2>4, <2>5
<1>4. ASSUME NEW e \in EntryId, NEW o \in OpId, First(entry[e].kind, e),
             entry' = [entry EXCEPT ![e] = [@ EXCEPT !.status = "claimed", !.op = o]],
             UNCHANGED pending
      PROVE  First(entry[x].kind, x)'
  <2>1. entry'[x].kind = entry[x].kind
    BY <1>1, <1>4 DEF Entry
  <2>2. x # e => entry'[x] = entry[x]
    BY <1>1, <1>4
  <2>3. QED
    BY <1>4, <2>1, <2>2 DEF First
<1>5. ASSUME NEW e \in EntryId, NEW outcome \in {"consumed", "cancelled"},
             FinishEntry(e, outcome)
      PROVE  First(entry[x].kind, x)'
  <2>1. x # e /\ entry'[x] = entry[x]
    BY <1>1, <1>5 DEF FinishEntry, Entry
  <2>2. First(entry[x].kind, x) /\ entry[x].kind \in Kinds
    BY <1>1, <2>1 DEF Entry
  <2>3. PICK i \in DOMAIN pending[entry[e].kind] :
          /\ pending[entry[e].kind][i] = e
          /\ pending' = [pending EXCEPT ![entry[e].kind] = DropAt(@, i)]
    BY <1>5 DEF FinishEntry
  <2>4. CASE entry[x].kind = entry[e].kind
    <3> DEFINE s == pending[entry[x].kind]
    <3>1. s \in Seq(EntryId) /\ s[1] = x /\ i \in DOMAIN s /\ s[i] = e
      BY <1>1, <2>2, <2>3, <2>4 DEF First
    <3>2. Len(s) \in Nat /\ DOMAIN s = 1..Len(s)
      BY <3>1, LenProperties
    <3>3. 1 < i /\ 1 \in 1..(Len(s) - 1)
      BY <2>1, <3>1, <3>2
    <3>4. pending'[entry[x].kind] = DropAt(s, i)
      BY <1>1, <2>2, <2>3, <2>4
    <3>5. DropAt(s, i) # <<>> /\ DropAt(s, i)[1] = x
      <4>1. DOMAIN DropAt(s, i) = 1..(Len(s) - 1) /\ DropAt(s, i)[1] = s[1]
        BY <3>1, <3>3, DropAtElements
      <4>2. DropAt(s, i) # <<>>
        BY <3>3, <4>1
      <4>3. QED
        BY <3>1, <4>1, <4>2
    <3>6. QED
      BY <2>1, <3>4, <3>5 DEF First
  <2>5. CASE entry[x].kind # entry[e].kind
    BY <1>1, <2>1, <2>2, <2>3, <2>5 DEF First
  <2>6. QED
    BY <2>4, <2>5
<1>6. QED
  BY <1>2, <1>3, <1>4, <1>5, QueueCases

(* Delivery is in order and one message at a time, and only the open run   *)
(* delivers (applyQueueClaimed, applyRunAccepted, applyRunFinished).         *)
THEOREM ClaimsInOrderHolds == Spec => []ClaimsInOrder
<1> DEFINE InOrder == \A e \in EntryId : entry[e].status = "claimed" => First(entry[e].kind, e)
<1>1. Init => InOrder
  BY DEF Init, NoEntry
<1>2. TypeOK /\ InOrder /\ [Next]_journal => InOrder'
  <2>1. CASE UNCHANGED journal
    BY <2>1 DEF journal, First
  <2>2. ASSUME TypeOK, InOrder, Next PROVE InOrder'
    <3> SUFFICES ASSUME NEW x \in EntryId, entry'[x].status = "claimed"
                 PROVE  First(entry[x].kind, x)'
      BY DEF First
    <3>1. QED
      BY <2>2, ClaimedIsFirstStep
  <2>3. QED
    BY <2>1, <2>2
<1>3. TypeOK /\ RunInv /\ InOrder => ClaimsInOrder
  BY IdAssumption DEF RunInv, ClaimantIsOpen, ClaimsInOrder
<1>4. QED
  BY <1>1, <1>2, <1>3, TypeCorrect, RunInvariant, PTL DEF Spec

-----------------------------------------------------------------------------
(* Reservations.  A node identifier is reserved, before the node exists,   *)
(* by a queue entry, by the prompt of a run or by the tool results of one  *)
(* batch; these never meet.                                                *)

InBeing(t) == effect[t].status # "absent"

(* A run that exists keeps its prompt and its source, and a request to     *)
(* cancel it is not forgotten.                                             *)
LEMMA RunIdentity ==
  ASSUME TypeOK, Next, NEW x \in OpId, op[x].status # "absent"
  PROVE  /\ op'[x].status # "absent"
         /\ op'[x].prompt = op[x].prompt /\ op'[x].source = op[x].source
         /\ op[x].cancelled => op'[x].cancelled
<1>1. op[x] \in Operation /\ op \in [OpId -> Operation]
  BY DEF TypeOK
<1>2. CASE op'[x] = op[x]
  BY <1>2
<1>3. CASE NodeStep \/ QueueStep \/ EffectStep
  BY <1>2, <1>3, NodeStepFrame, QueueStepFrame, EffectStepFrame
<1>4. CASE RunStep
  <2> PICK o \in OpId :
        \/ \E q \in NodeId \cup {None} : AcceptRun(o, q)
        \/ \E e \in EntryId : AcceptQueuedRun(o, e)
        \/ SelectStep(o) \/ StartStep(o)
        \/ \E s \in 0..op[o].selected, a \in 1..MaxAttempts : StartAttempt(o, s, a)
        \/ CancelRun(o)
        \/ \E outcome \in Outcomes : FinishRun(o, outcome)
    BY <1>4 DEF RunStep
  <2>1. CASE x # o
    <3>1. op'[x] = op[x]
      BY <1>1, <2>1 DEF AcceptRun, AcceptQueuedRun, SelectStep, StartStep, StartAttempt,
         CancelRun, FinishRun
    <3>2. QED
      BY <1>2, <3>1
  <2>2. CASE x = o /\ (SelectStep(o) \/ CancelRun(o))
    BY <1>1, <2>2 DEF SelectStep, CancelRun, Operation
  <2>3. CASE x = o /\ StartStep(o)
    <3>1. op'[x] = [op[x] EXCEPT !.step = op[x].selected, !.selected = op[x].selected + 1,
                                 !.attempt = 1, !.status = "running"]
      BY <1>1, <2>3 DEF StartStep
    <3>2. QED
      BY <1>1, <3>1 DEF Operation
  <2>4. CASE x = o /\ \E s \in 0..op[o].selected, a \in 1..MaxAttempts : StartAttempt(o, s, a)
    <3> PICK s \in 0..op[o].selected, a \in 1..MaxAttempts : StartAttempt(o, s, a)
      BY <2>4
    <3>1. op'[x] = [op[x] EXCEPT !.step = s, !.attempt = a, !.status = "running"]
      BY <1>1, <2>4 DEF StartAttempt
    <3>2. QED
      BY <1>1, <3>1 DEF Operation
  <2>5. CASE x = o /\ \E outcome \in Outcomes : FinishRun(o, outcome)
    <3> PICK outcome \in Outcomes : FinishRun(o, outcome)
      BY <2>5
    <3>1. op'[x] = [op[x] EXCEPT !.status = outcome]
      BY <1>1, <2>5 DEF FinishRun
    <3>2. QED
      BY <1>1, <3>1 DEF Operation, Outcomes
  <2>6. QED
    BY <2>1, <2>2, <2>3, <2>4, <2>5 DEF AcceptRun, AcceptQueuedRun
<1>5. QED
  BY <1>3, <1>4 DEF Next

(* A run comes into being when none is open, from the head as it is, with  *)
(* a prompt that is new or one that a queue entry reserved.                *)
LEMMA RunBirth ==
  ASSUME TypeOK, OneOpenRun, Next, NEW x \in OpId,
         op[x].status = "absent", op'[x].status # "absent"
  PROVE  /\ open = None /\ open' = x
         /\ op'[x].source = head
         /\ UNCHANGED <<node, head, effect>>
         /\ \/ op'[x].prompt = None
            \/ FreshNode(op'[x].prompt)
            \/ \E e \in EntryId : /\ entry[e].status # "absent"
                                  /\ op'[x].prompt = entry[e].target
                                  /\ ~Exists(entry[e].target)
<1>1. op \in [OpId -> Operation]
  BY DEF TypeOK
<1>2. RunStep
  BY NodeStepFrame, QueueStepFrame, EffectStepFrame DEF Next
<1>3. PICK o \in OpId :
        \/ \E q \in NodeId \cup {None} : AcceptRun(o, q)
        \/ \E e \in EntryId : AcceptQueuedRun(o, e)
        \/ open = o /\ \E v : op' = [op EXCEPT ![o] = v]
  BY <1>2 DEF RunStep, SelectStep, CanSelectStep, StartStep, StartAttempt, CancelRun,
     FinishRun, CanFinishRun, IsOpen
<1>4. ASSUME NEW q, Accepted(q) = op'[x]
      PROVE  op'[x].prompt = q /\ op'[x].source = head
  BY <1>4 DEF Accepted, NoOperation
<1>5. CASE \E q \in NodeId \cup {None} : AcceptRun(o, q)
  <2> PICK q \in NodeId \cup {None} : AcceptRun(o, q)
    BY <1>5
  <2>1. o = x /\ op'[x] = Accepted(q)
    BY <1>1 DEF AcceptRun
  <2>2. QED
    BY <1>4, <2>1 DEF AcceptRun
<1>6. CASE \E e \in EntryId : AcceptQueuedRun(o, e)
  <2> PICK e \in EntryId : AcceptQueuedRun(o, e)
    BY <1>6
  <2>1. o = x /\ op'[x] = Accepted(entry[e].target)
    BY <1>1 DEF AcceptQueuedRun
  <2>2. QED
    BY <1>4, <2>1 DEF AcceptQueuedRun
<1>7. ASSUME NEW v, op' = [op EXCEPT ![o] = v], open = o
      PROVE  FALSE
  BY <1>1, <1>7 DEF OneOpenRun
<1>8. QED
  BY <1>3, <1>5, <1>6, <1>7

(* A queue entry that exists keeps the node it reserved.                   *)
LEMMA EntryIdentity ==
  ASSUME TypeOK, Next, NEW x \in EntryId, entry[x].status # "absent"
  PROVE  entry'[x].status # "absent" /\ entry'[x].target = entry[x].target
<1>1. entry \in [EntryId -> Entry] /\ entry[x] \in Entry
  BY DEF TypeOK
<1>2. CASE UNCHANGED <<pending, entry>>
  BY <1>2
<1>3. ASSUME NEW e \in EntryId, NEW n \in NodeId, NEW kind \in Kinds, AddEntry(e, n, kind)
      PROVE  entry'[x] = entry[x]
  BY <1>1, <1>3 DEF AddEntry
<1>4. ASSUME NEW e \in EntryId, NEW o \in OpId,
             entry' = [entry EXCEPT ![e] = [@ EXCEPT !.status = "claimed", !.op = o]]
      PROVE  entry'[x].status # "absent" /\ entry'[x].target = entry[x].target
  BY <1>1, <1>4 DEF Entry
<1>5. ASSUME NEW e \in EntryId, NEW outcome \in {"consumed", "cancelled"},
             FinishEntry(e, outcome)
      PROVE  entry'[x].status # "absent" /\ entry'[x].target = entry[x].target
  BY <1>1, <1>5 DEF FinishEntry, Entry
<1>6. QED
  BY <1>2, <1>3, <1>4, <1>5, QueueCases

LEMMA EntryBirth ==
  ASSUME TypeOK, Next, NEW x \in EntryId,
         entry[x].status = "absent", entry'[x].status # "absent"
  PROVE  \E n \in NodeId, k \in Kinds : AddEntry(x, n, k)
<1>1. entry \in [EntryId -> Entry]
  BY DEF TypeOK
<1>2. ASSUME NEW e \in EntryId, NEW n \in NodeId, NEW k \in Kinds, AddEntry(e, n, k)
      PROVE  e = x
  BY <1>1, <1>2 DEF AddEntry
<1>3. ASSUME NEW e \in EntryId, entry[e].status \in {"queued", "claimed"},
             NEW v, entry' = [entry EXCEPT ![e] = v]
      PROVE  FALSE
  BY <1>1, <1>3
<1>4. ASSUME NEW e \in EntryId, NEW outcome \in {"consumed", "cancelled"},
             FinishEntry(e, outcome)
      PROVE  entry[e].status \in {"queued", "claimed"}
  BY <1>4 DEF FinishEntry, CanConsume, CanCancelEntry
<1>5. ASSUME NEW e \in EntryId, NEW outcome \in {"consumed", "cancelled"},
             FinishEntry(e, outcome)
      PROVE  FALSE
  <2>1. \E v : entry' = [entry EXCEPT ![e] = v]
    BY <1>5 DEF FinishEntry
  <2>2. QED
    BY <1>3, <1>4, <1>5, <2>1
<1>6. ~ \E e \in EntryId, o \in OpId :
          /\ entry[e].status = "queued" /\ First(entry[e].kind, e)
          /\ entry' = [entry EXCEPT ![e] = [@ EXCEPT !.status = "claimed", !.op = o]]
          /\ UNCHANGED pending
  BY <1>3
<1>7. ~UNCHANGED <<pending, entry>>
  OBVIOUS
<1>8. PICK e \in EntryId, n \in NodeId, k \in Kinds : AddEntry(e, n, k)
  BY <1>5, <1>6, <1>7, QueueCases
<1>9. QED
  BY <1>2, <1>8

-----------------------------------------------------------------------------
(* The node of a queue entry, and of a prompt, is never that of a result.  *)
Reserved ==
  /\ \A e \in EntryId : entry[e].status # "absent" => entry[e].target \in NodeId
  /\ \A e \in EntryId, t \in EffectId :
       entry[e].status # "absent" /\ InBeing(t) => entry[e].target # effect[t].result
  /\ \A o \in OpId, t \in EffectId :
       op[o].status # "absent" /\ InBeing(t) => op[o].prompt # effect[t].result

(* A tool call belongs to a message of the run that made it.               *)
EffectsRooted ==
  \A t \in EffectId : InBeing(t) =>
    /\ effect[t].op \in OpId /\ op[effect[t].op].status # "absent"
    /\ effect[t].assistant \in OwnedNodes(effect[t].op)
    /\ node[effect[t].assistant].role = "assistant"

SharedResults ==
  \A t, u \in EffectId :
    InBeing(t) /\ InBeing(u) /\ effect[t].result = effect[u].result =>
      effect[t].op = effect[u].op /\ effect[t].assistant = effect[u].assistant

CallsDistinct ==
  \A t, u \in EffectId :
    /\ InBeing(t) /\ InBeing(u)
    /\ effect[t].op = effect[u].op /\ effect[t].call = effect[u].call
    => t = u

(* Two queue entries never reserve the same node.                          *)
TargetsDistinct ==
  \A e, f \in EntryId :
    entry[e].status # "absent" /\ entry[f].status # "absent" /\ entry[e].target = entry[f].target
      => e = f

NodesRooted ==
  /\ head # None => Exists(head)
  /\ \A n \in NodeId : Exists(n) /\ node[n].op # None => op[node[n].op].status # "absent"

PromptsRooted ==
  \A o \in OpId : op[o].status # "absent" /\ op[o].prompt # None /\ Exists(op[o].prompt) =>
    op[o].prompt \in OwnedNodes(o) /\ DescendsVia(o, op[o].prompt, op[o].source)

ReservationInv ==
  /\ Reserved /\ TargetsDistinct /\ EffectsRooted /\ SharedResults /\ CallsDistinct
  /\ NodesRooted /\ PromptsRooted

LEMMA ReservedStep ==
  TypeOK /\ OneOpenRun /\ ResultsAreNodes /\ Reserved /\ Next => Reserved'
<1> SUFFICES ASSUME TypeOK, OneOpenRun, ResultsAreNodes, Reserved, Next PROVE Reserved'
  OBVIOUS
<1>1. ASSUME NEW e \in EntryId, entry'[e].status # "absent"
      PROVE  entry'[e].target \in NodeId
  <2>1. CASE entry[e].status # "absent"
    BY <2>1, EntryIdentity DEF Reserved
  <2>2. CASE entry[e].status = "absent"
    <3>1. PICK n \in NodeId, k \in Kinds : AddEntry(e, n, k)
      BY <1>1, <2>2, EntryBirth
    <3>2. QED
      BY <3>1 DEF AddEntry, TypeOK
  <2>3. QED
    BY <2>1, <2>2
<1>2. ASSUME NEW e \in EntryId, NEW t \in EffectId,
             entry'[e].status # "absent", effect'[t].status # "absent"
      PROVE  entry'[e].target # effect'[t].result
  <2>1. CASE entry[e].status # "absent" /\ InBeing(t)
    BY <2>1, EntryIdentity, EffectIdentity DEF Reserved, InBeing
  <2>2. CASE entry[e].status = "absent"
    <3>1. PICK n \in NodeId, k \in Kinds : AddEntry(e, n, k)
      BY <1>2, <2>2, EntryBirth
    <3>2. entry'[e].target = n /\ effect' = effect /\ ResultOf(n) = {}
      BY <3>1 DEF AddEntry, FreshNode, TypeOK
    <3>3. QED
      BY <1>2, <3>2 DEF ResultOf
  <2>3. CASE ~InBeing(t)
    <3>1. PICK o \in OpId, c \in CallId, policy \in Policies, n \in NodeId, a \in NodeId :
            PrepareEffect(t, o, c, policy, n, a)
      BY <1>2, <2>3, EffectBirth DEF InBeing
    <3>2. effect'[t].result = n /\ entry' = entry /\ QueuedFor(n) = {}
      BY <3>1 DEF PrepareEffect, ResultNodeAllowed, FreshNode, TypeOK
    <3>3. QED
      BY <1>2, <3>2 DEF QueuedFor
  <2>4. QED
    BY <2>1, <2>2, <2>3
<1>3. ASSUME NEW o \in OpId, NEW t \in EffectId,
             op'[o].status # "absent", effect'[t].status # "absent"
      PROVE  op'[o].prompt # effect'[t].result
  <2>1. CASE op[o].status # "absent" /\ InBeing(t)
    BY <2>1, RunIdentity, EffectIdentity DEF Reserved, InBeing
  <2>2. CASE op[o].status = "absent"
    <3>1. /\ effect' = effect
          /\ \/ op'[o].prompt = None
             \/ FreshNode(op'[o].prompt)
             \/ \E e \in EntryId : /\ entry[e].status # "absent"
                                   /\ op'[o].prompt = entry[e].target
      BY <1>3, <2>2, RunBirth
    <3>2. effect[t].status # "absent" /\ effect[t].result \in NodeId
      BY <1>3, <3>1 DEF ResultsAreNodes
    <3>3. QED
      BY <3>1, <3>2, IdAssumption DEF Reserved, InBeing, FreshNode, ResultOf
  <2>3. CASE ~InBeing(t)
    <3>1. PICK q \in OpId, c \in CallId, policy \in Policies, n \in NodeId, a \in NodeId :
            PrepareEffect(t, q, c, policy, n, a)
      BY <1>3, <2>3, EffectBirth DEF InBeing
    <3>2. effect'[t].result = n /\ op' = op /\ PromptOf(n) = {}
      BY <3>1 DEF PrepareEffect, ResultNodeAllowed, FreshNode, TypeOK
    <3>3. QED
      BY <1>3, <3>2 DEF PromptOf
  <2>4. QED
    BY <2>1, <2>2, <2>3
<1>4. QED
  BY <1>1, <1>2, <1>3 DEF Reserved, InBeing

LEMMA TargetsDistinctStep == TypeOK /\ TargetsDistinct /\ Next => TargetsDistinct'
<1> SUFFICES ASSUME TypeOK, TargetsDistinct, Next,
                    NEW e \in EntryId, NEW f \in EntryId, e # f,
                    entry'[e].status # "absent", entry'[f].status # "absent"
             PROVE  entry'[e].target # entry'[f].target
  BY DEF TargetsDistinct
<1>1. ASSUME NEW x \in EntryId, NEW y \in EntryId, x # y,
             entry[x].status = "absent", entry'[x].status # "absent",
             entry'[y].status # "absent"
      PROVE  entry'[x].target # entry'[y].target
  <2>1. PICK n \in NodeId, k \in Kinds : AddEntry(x, n, k)
    BY <1>1, EntryBirth
  <2>2. entry'[y] = entry[y] /\ entry'[x].target = n
    BY <1>1, <2>1 DEF AddEntry, TypeOK
  <2>3. y \notin QueuedFor(n)
    BY <2>1 DEF AddEntry, FreshNode
  <2>4. QED
    BY <1>1, <2>2, <2>3 DEF QueuedFor
<1>2. CASE entry[e].status # "absent" /\ entry[f].status # "absent"
  BY <1>2, EntryIdentity DEF TargetsDistinct
<1>3. QED
  BY <1>1, <1>2

LEMMA EffectsRootedStep == TypeOK /\ EffectsRooted /\ OneOpenRun /\ Next => EffectsRooted'
<1> SUFFICES ASSUME TypeOK, EffectsRooted, OneOpenRun, Next,
                    NEW t \in EffectId, effect'[t].status # "absent"
             PROVE  /\ effect'[t].op \in OpId /\ op'[effect'[t].op].status # "absent"
                    /\ effect'[t].assistant \in NodeId
                    /\ node'[effect'[t].assistant].role = "assistant"
                    /\ node'[effect'[t].assistant].op = effect'[t].op
  BY DEF EffectsRooted, InBeing, OwnedNodes, Exists
<1>1. CASE effect[t].status # "absent"
  <2>1. /\ effect[t].op \in OpId /\ op[effect[t].op].status # "absent"
        /\ effect[t].assistant \in NodeId /\ Exists(effect[t].assistant)
        /\ node[effect[t].assistant].role = "assistant"
        /\ node[effect[t].assistant].op = effect[t].op
    BY <1>1 DEF EffectsRooted, InBeing, OwnedNodes
  <2>2. effect'[t].op = effect[t].op /\ effect'[t].assistant = effect[t].assistant
    BY <1>1, EffectIdentity
  <2>3. QED
    BY <2>1, <2>2, NodesAreFinal, RunIdentity
<1>2. CASE effect[t].status = "absent"
  <2>1. PICK o \in OpId, c \in CallId, policy \in Policies, n \in NodeId, a \in NodeId :
          PrepareEffect(t, o, c, policy, n, a)
    BY <1>2, EffectBirth
  <2>2. /\ effect'[t].op = o /\ effect'[t].assistant = a
        /\ op' = op /\ node' = node
        /\ a \in OwnedNodes(o) /\ node[a].role = "assistant" /\ open = o
    BY <2>1 DEF PrepareEffect, IsOpen, TypeOK
  <2>3. QED
    BY <2>2 DEF OneOpenRun, OwnedNodes
<1>3. QED
  BY <1>1, <1>2

(* The preparation of one effect leaves the others as they are.            *)
LEMMA OneBirth ==
  ASSUME TypeOK, NEW t \in EffectId, NEW o, NEW c, NEW policy, NEW n, NEW a,
         PrepareEffect(t, o, c, policy, n, a), NEW u \in EffectId, u # t
  PROVE  effect'[u] = effect[u]
  BY DEF PrepareEffect, TypeOK

LEMMA SharedResultsStep == TypeOK /\ SharedResults /\ Next => SharedResults'
<1> SUFFICES ASSUME TypeOK, SharedResults, Next,
                    NEW t \in EffectId, NEW u \in EffectId,
                    effect'[t].status # "absent", effect'[u].status # "absent",
                    effect'[t].result = effect'[u].result
             PROVE  effect'[t].op = effect'[u].op /\ effect'[t].assistant = effect'[u].assistant
  BY DEF SharedResults, InBeing
<1>1. ASSUME NEW x \in EffectId, NEW y \in EffectId,
             effect[x].status = "absent", effect'[x].status # "absent", x # y,
             effect'[y].status # "absent", effect'[x].result = effect'[y].result
      PROVE  effect'[x].op = effect'[y].op /\ effect'[x].assistant = effect'[y].assistant
  <2>1. PICK o \in OpId, c \in CallId, policy \in Policies, n \in NodeId, a \in NodeId :
          PrepareEffect(x, o, c, policy, n, a)
    BY <1>1, EffectBirth
  <2>2. effect'[y] = effect[y]
    BY <1>1, <2>1, OneBirth
  <2>3. effect'[x].result = n /\ effect'[x].op = o /\ effect'[x].assistant = a
    BY <2>1 DEF PrepareEffect, TypeOK
  <2>4. y \in ResultOf(n)
    BY <1>1, <2>2, <2>3 DEF ResultOf
  <2>5. effect[y].op = o /\ effect[y].assistant = a
    BY <2>1, <2>4 DEF PrepareEffect, ResultNodeAllowed
  <2>6. QED
    BY <2>2, <2>3, <2>5
<1>2. CASE t = u
  BY <1>2
<1>3. CASE effect[t].status # "absent" /\ effect[u].status # "absent"
  BY <1>3, EffectIdentity DEF SharedResults, InBeing
<1>4. QED
  BY <1>1, <1>2, <1>3

LEMMA CallsDistinctStep == TypeOK /\ CallsDistinct /\ Next => CallsDistinct'
<1> SUFFICES ASSUME TypeOK, CallsDistinct, Next,
                    NEW t \in EffectId, NEW u \in EffectId,
                    effect'[t].status # "absent", effect'[u].status # "absent",
                    effect'[t].op = effect'[u].op, effect'[t].call = effect'[u].call, t # u
             PROVE  FALSE
  BY DEF CallsDistinct, InBeing
<1>1. ASSUME NEW x \in EffectId, NEW y \in EffectId,
             effect[x].status = "absent", effect'[x].status # "absent", x # y,
             effect'[y].status # "absent",
             effect'[x].op = effect'[y].op, effect'[x].call = effect'[y].call
      PROVE  FALSE
  <2>1. PICK o \in OpId, c \in CallId, policy \in Policies, n \in NodeId, a \in NodeId :
          PrepareEffect(x, o, c, policy, n, a)
    BY <1>1, EffectBirth
  <2>2. effect'[y] = effect[y]
    BY <1>1, <2>1, OneBirth
  <2>3. effect'[x].op = o /\ effect'[x].call = c
    BY <2>1 DEF PrepareEffect, TypeOK
  <2>4. y \in EffectsOf(o)
    BY <1>1, <2>2, <2>3 DEF EffectsOf
  <2>5. QED
    BY <1>1, <2>1, <2>2, <2>3, <2>4 DEF PrepareEffect, CallUnused
<1>2. CASE effect[t].status # "absent" /\ effect[u].status # "absent"
  BY <1>2, EffectIdentity DEF CallsDistinct, InBeing
<1>3. QED
  BY <1>1, <1>2

(* A step that writes a node.                                              *)
LEMMA NodeBirth ==
  ASSUME TypeOK, Next, NEW n \in NodeId, ~Exists(n), Exists(n)'
  PROVE  \E p \in NodeId \cup {None}, o \in OpId \cup {None}, r \in Roles, select \in BOOLEAN :
           /\ AddNode(n, p, o, r, select)
           /\ node'[n] = [parent |-> p, op |-> o, role |-> r]
           /\ UNCHANGED <<open, op, entry, effect>>
<1>1. node' # node
  BY DEF Exists
<1>2. PICK m \in NodeId, p \in NodeId \cup {None}, o \in OpId \cup {None}, r \in Roles,
           select \in BOOLEAN : AddNode(m, p, o, r, select)
  BY <1>1, RunStepFrame, QueueStepFrame, EffectStepFrame DEF Next, NodeStep, MoveHead
<1>3. m = n
  BY <1>2 DEF AddNode, Exists, TypeOK
<1>4. QED
  BY <1>2, <1>3 DEF AddNode, TypeOK

LEMMA NodesRootedStep == TypeOK /\ OneOpenRun /\ NodesRooted /\ Next => NodesRooted'
<1> SUFFICES ASSUME TypeOK, OneOpenRun, NodesRooted, Next PROVE NodesRooted'
  OBVIOUS
<1>1. ASSUME NEW n \in NodeId, Exists(n)', node'[n].op # None
      PROVE  op'[node'[n].op].status # "absent"
  <2>1. CASE Exists(n)
    <3>1. node'[n] = node[n]
      BY <2>1, NodesAreFinal
    <3>2. node[n].op \in OpId /\ op[node[n].op].status # "absent"
      BY <1>1, <2>1, <3>1 DEF NodesRooted, TypeOK, Node
    <3>3. QED
      BY <3>1, <3>2, RunIdentity
  <2>2. CASE ~Exists(n)
    <3>1. PICK p \in NodeId \cup {None}, o \in OpId \cup {None}, r \in Roles,
               select \in BOOLEAN :
            /\ AddNode(n, p, o, r, select)
            /\ node'[n] = [parent |-> p, op |-> o, role |-> r]
            /\ UNCHANGED <<open, op, entry, effect>>
      BY <1>1, <2>2, NodeBirth
    <3>2. node'[n].op = o /\ open = o /\ op' = op
      BY <1>1, <3>1 DEF AddNode, CanAddNode
    <3>3. QED
      BY <1>1, <3>1, <3>2 DEF OneOpenRun
  <2>3. QED
    BY <2>1, <2>2
<1>2. ASSUME head' # None PROVE Exists(head)'
  <2>1. CASE head' = head
    BY <1>2, <2>1, NodesAreFinal DEF NodesRooted, Exists
  <2>2. CASE head' # head
    <3>1. NodeStep
      BY <2>2, RunStepFrame, QueueStepFrame, EffectStepFrame DEF Next
    <3>2. CASE \E n \in NodeId \cup {None} : MoveHead(n)
      BY <1>2, <3>2 DEF MoveHead, Exists
    <3>3. ASSUME NEW n \in NodeId, NEW p \in NodeId \cup {None}, NEW o \in OpId \cup {None},
                 NEW r \in Roles, NEW select \in BOOLEAN, AddNode(n, p, o, r, select)
          PROVE  Exists(head)'
      BY <2>2, <3>3, RoleAssumption DEF AddNode, Exists, TypeOK
    <3>4. QED
      BY <3>1, <3>2, <3>3 DEF NodeStep
  <2>3. QED
    BY <2>1, <2>2
<1>3. QED
  BY <1>1, <1>2 DEF NodesRooted

LEMMA PromptsRootedStep ==
  TypeOK /\ OneOpenRun /\ PromptsRooted /\ Next => PromptsRooted'
<1> SUFFICES ASSUME TypeOK, OneOpenRun, PromptsRooted, Next, NEW o \in OpId,
                    op'[o].status # "absent", op'[o].prompt # None, Exists(op[o].prompt)'
             PROVE  (op[o].prompt \in OwnedNodes(o) /\ DescendsVia(o, op[o].prompt, op[o].source))'
  BY DEF PromptsRooted
<1> PICK q, s : q = op'[o].prompt /\ s = op'[o].source
  OBVIOUS
<1>1. q \in NodeId /\ Exists(q)'
  BY DEF Exists
<1>2. SUFFICES (q \in OwnedNodes(o))' /\ DescendsVia(o, q, s)'
  BY DEF DescendsVia, OwnedNodes
<1>3. CASE op[o].status = "absent"
  <2>1. ~Exists(q) /\ node' = node
    BY <1>1, <1>3, RunBirth DEF FreshNode
  <2>2. QED
    BY <1>1, <2>1 DEF Exists
<1>4. CASE op[o].status # "absent" /\ Exists(q)
  <2>1. op[o].prompt = q /\ op[o].source = s /\ q # None
    BY <1>4, RunIdentity
  <2>2. q \in OwnedNodes(o) /\ DescendsVia(o, q, s)
    BY <1>4, <2>1 DEF PromptsRooted
  <2>3. node'[q] = node[q]
    BY <1>1, <1>4, NodesAreFinal
  <2>4. QED
    BY <1>1, <2>2, <2>3, DescentGrows DEF OwnedNodes
<1>5. CASE op[o].status # "absent" /\ ~Exists(q)
  <2>1. op[o].prompt = q /\ op[o].source = s
    BY <1>5, RunIdentity
  <2>2. PICK p \in NodeId \cup {None}, x \in OpId \cup {None}, r \in Roles,
             select \in BOOLEAN :
          /\ AddNode(q, p, x, r, select)
          /\ node'[q] = [parent |-> p, op |-> x, role |-> r]
          /\ UNCHANGED <<open, op, entry, effect>>
    BY <1>1, <1>5, NodeBirth
  <2>3. x = o /\ DescendsVia(o, p, s)
    BY <1>5, <2>1, <2>2 DEF AddNode, CanAddNode, PromptAllowsNode, PromptOf
  <2>4. (q \in OwnedNodes(o))'
    BY <1>1, <2>2, <2>3 DEF OwnedNodes
  <2>5. DescendsVia(o, p, s)'
    BY <2>3, DescentGrows
  <2>6. DescendsVia(o, q, s)'
    BY <2>2, <2>4, <2>5, DescentExtends
  <2>7. QED
    BY <2>4, <2>6
<1>6. QED
  BY <1>3, <1>4, <1>5

LEMMA ReservationStep ==
  TypeOK /\ RunInv /\ ReservationInv /\ [Next]_journal => ReservationInv'
<1>1. CASE Next
  BY <1>1, ReservedStep, TargetsDistinctStep, EffectsRootedStep, SharedResultsStep,
     CallsDistinctStep, NodesRootedStep, PromptsRootedStep DEF RunInv, ReservationInv
<1>2. CASE UNCHANGED journal
  BY <1>2 DEF journal, ReservationInv, DescendsVia, OwnedNodes, Exists, Reserved,
     TargetsDistinct, EffectsRooted, SharedResults, CallsDistinct, NodesRooted,
     PromptsRooted, InBeing
<1>3. QED
  BY <1>1, <1>2

(* Whoever reserves a node identifier finds it free when the node is       *)
(* written: messages, prompts and batches of tool results never reserve    *)
(* the same one, the results of a batch share theirs only with each other, *)
(* and a tool call, like a prompt, hangs in the conversation of its own    *)
(* run (journalOwner, applyToolPrepared, addConversationNode).             *)
THEOREM ReservationsHold == Spec => []ReservationInv
<1>1. Init => Reserved /\ TargetsDistinct /\ EffectsRooted /\ SharedResults /\ CallsDistinct
  BY DEF Init, Reserved, TargetsDistinct, EffectsRooted, SharedResults, CallsDistinct, InBeing,
     NoEntry, NoEffect
<1>2. Init => NodesRooted /\ PromptsRooted
  BY DEF Init, NodesRooted, PromptsRooted, Exists, NoNode, NoOperation
<1>3. QED
  BY <1>1, <1>2, ReservationStep, RunInvariant, PTL DEF Spec, ReservationInv
=============================================================================
