---------------------------- MODULE ToolScheduler ----------------------------
(***************************************************************************)
(* How the tool calls of several batches share the workspace: the plan,    *)
(* the waves and runPrepared of ToolCoordinator (packages/ohm/src/tools/   *)
(* coordinator.ts), and the ToolResourceArbiter of resource-arbiter.ts     *)
(* that the coordinators of several sessions share.                        *)
(*                                                                         *)
(* A batch is the tool calls of one response of the model.  The queue of   *)
(* the arbiter is a set with the order its members came in; FreePrefix is  *)
(* the rule by which both the arbiter and the waves take the members that  *)
(* do not conflict, up to the first that does.                             *)
(***************************************************************************)
EXTENDS Naturals, FiniteSets

CONSTANTS
  Batch, Call,
  BatchOf,     \* batch of a call
  Index,       \* place of a call in its batch
  Key,         \* workspace paths
  Overlap,     \* pairs of paths of which one contains the other
  Claims,      \* what a call claims: kind, key and mode of each resource
  Sequential,  \* calls of tools with executionMode "sequential"
  MaxWaiters   \* MAX_RESOURCE_ARBITER_WAITERS

ResourceClaim ==
  [kind : {"file", "process", "network", "workspace", "session"}, key : Key,
   mode : {"read", "write"}]

ASSUME BatchAssumption ==
  /\ BatchOf \in [Call -> Batch] /\ Index \in [Call -> Nat]
  /\ \A c, d \in Call : c # d /\ BatchOf[c] = BatchOf[d] => Index[c] # Index[d]
  /\ Sequential \subseteq Call

ASSUME ClaimAssumption ==
  /\ Claims \in [Call -> SUBSET ResourceClaim]
  /\ Overlap \subseteq Key \X Key
  /\ \A k, l \in Key : <<k, l>> \in Overlap => <<l, k>> \in Overlap

ASSUME WaiterAssumption == MaxWaiters \in Nat

VARIABLES
  stage,     \* where the coordinator is with a call
  waiting,   \* #waiters
  order,     \* pairs of waiters of which the first came earlier
  active,    \* #active: calls that hold a lease
  aborted,   \* batches whose signal is aborted
  rejected   \* batches whose execute() has rejected

arbiter == <<waiting, order, active>>
vars    == <<stage, arbiter, aborted, rejected>>

Stages ==
  {"planned", "prepared", "authorizing", "waiting", "leased", "dispatched",
   "executing", "recording", "done"}

(* From the first await of runPrepared to its last.                        *)
Running == Stages \ {"planned", "prepared", "done"}

Of(b, stages) == {c \in Call : BatchOf[c] = b /\ stage[c] \in stages}

-----------------------------------------------------------------------------
(* resourcesConflict                                                       *)
ResourcesConflict(c, d) ==
  \E one \in Claims[c], two \in Claims[d] :
    /\ one.kind = two.kind \/ "workspace" \in {one.kind, two.kind}
    /\ "write" \in {one.mode, two.mode}
    /\ <<one.key, two.key>> \in Overlap

Conflicts == {p \in Call \X Call : ResourcesConflict(p[1], p[2])}

Blocked(c, held) == \E d \in held : <<c, d>> \in Conflicts

Before(c, line, queue) == {d \in queue : <<d, c>> \in line}

\* Mutant: whoever is free is taken, the first in the queue or not.
AnyFree(queue, line, held) ==
  {c \in queue : ~Blocked(c, held \cup Before(c, line, queue))}

(* The members of queue, in the order of line, up to the first that        *)
(* conflicts with what is held or with a member taken before it.           *)
FreePrefix(queue, line, held) ==
  {c \in queue :
     \A d \in Before(c, line, queue) \cup {c} :
       ~Blocked(d, held \cup Before(d, line, queue))}

CallOrder ==
  {p \in Call \X Call : BatchOf[p[1]] = BatchOf[p[2]] /\ Index[p[1]] < Index[p[2]]}

(* ToolResourceArbiter.#pump: leases for the free prefix of the queue; the *)
(* calls are at stage at, but for those that get a lease.                  *)
Pump(queue, line, held, at) ==
  LET granted == FreePrefix(queue, line, held)
      left == queue \ granted IN
  /\ waiting' = left /\ active' = held \cup granted
  /\ order' = line \cap (left \X left)
  /\ stage' = [c \in Call |-> IF c \in granted THEN "leased" ELSE at[c]]

Init ==
  /\ stage = [c \in Call |-> "planned"]
  /\ waiting = {} /\ order = {} /\ active = {}
  /\ aborted = {} /\ rejected = {}

-----------------------------------------------------------------------------
(* The plan of a batch, and its waves.                                     *)

Unplanned(b) == Of(b, {"planned"})
Prepared(b)  == Of(b, {"prepared"})

(* runPreparedWaves is called before and after a sequential call and at    *)
(* the end.                                                                *)
MustRun(b) ==
  /\ Prepared(b) # {}
  /\ \/ Unplanned(b) = {}
     \/ Prepared(b) \cap Sequential # {}
     \/ \E c \in Unplanned(b) \cap Sequential : Before(c, CallOrder, Unplanned(b)) = {}

Idle(b) == b \notin rejected /\ Of(b, Running) = {}

(* A call is prepared, or answered at once: unknown, invalid or blocked.   *)
Plan(c) ==
  /\ stage[c] = "planned" /\ Before(c, CallOrder, Unplanned(BatchOf[c])) = {}
  /\ Idle(BatchOf[c]) /\ ~MustRun(BatchOf[c])
  /\ \E result \in {"prepared", "done"} : stage' = [stage EXCEPT ![c] = result]
  /\ UNCHANGED <<arbiter, aborted, rejected>>

(* While a call is planned the signal is noticed, or a listener fails.     *)
StopPlanning(b) ==
  /\ Idle(b) /\ Unplanned(b) # {} /\ ~MustRun(b)
  /\ rejected' = rejected \cup {b}
  /\ UNCHANGED <<stage, arbiter, aborted>>

\* Mutant: all prepared calls are started together.
StartAll(b) ==
  /\ Idle(b) /\ MustRun(b)
  /\ stage' = [c \in Call |-> IF c \notin Prepared(b) THEN stage[c]
                              ELSE IF b \in aborted THEN "done" ELSE "authorizing"]
  /\ UNCHANGED <<arbiter, aborted, rejected>>

(* The next wave of executionWaves starts when the last has completed; in  *)
(* an aborted batch its calls are answered without being looked at.        *)
StartWave(b) ==
  LET wave == FreePrefix(Prepared(b), CallOrder, {}) IN
  /\ Idle(b) /\ MustRun(b)
  /\ stage' = [c \in Call |-> IF c \notin wave THEN stage[c]
                              ELSE IF b \in aborted THEN "done" ELSE "authorizing"]
  /\ UNCHANGED <<arbiter, aborted, rejected>>

-----------------------------------------------------------------------------
(* runPrepared.                                                            *)

At(c, here) == stage[c] = here /\ BatchOf[c] \notin aborted

(* Denied, failed, or allowed while the queue of the arbiter is full: the  *)
(* call is answered without a lease.                                       *)
Refuse(c) ==
  /\ At(c, "authorizing")
  /\ stage' = [stage EXCEPT ![c] = "recording"]
  /\ UNCHANGED <<arbiter, aborted, rejected>>

(* Allowed: ToolResourceArbiter.acquire.                                   *)
Acquire(c) ==
  /\ At(c, "authorizing")
  /\ Cardinality(waiting) < MaxWaiters
  /\ Pump(waiting \cup {c}, order \cup (waiting \X {c}), active,
          [stage EXCEPT ![c] = "waiting"])
  /\ UNCHANGED <<aborted, rejected>>

(* The dispatch is made durable, or fails and the call is answered.        *)
Dispatch(c) ==
  /\ At(c, "leased")
  /\ \E next \in {"dispatched", "recording"} : stage' = [stage EXCEPT ![c] = next]
  /\ UNCHANGED <<arbiter, aborted, rejected>>

Execute(c) ==
  /\ At(c, "dispatched")
  /\ stage' = [stage EXCEPT ![c] = "executing"]
  /\ UNCHANGED <<arbiter, aborted, rejected>>

(* The tool settles, however long it ignores an abort.                     *)
Return(c) ==
  /\ stage[c] = "executing"
  /\ stage' = [stage EXCEPT ![c] = "recording"]
  /\ UNCHANGED <<arbiter, aborted, rejected>>

\* Mutant: the arbiter forgets the lease and looks at nobody.
ReleaseOnly(c) ==
  /\ stage' = [stage EXCEPT ![c] = "done"]
  /\ active' = active \ {c}
  /\ UNCHANGED <<waiting, order>>

(* The release of the lease, if there is one.                              *)
Release(c) ==
  IF c \in active
  THEN Pump(waiting, order, active \ {c}, [stage EXCEPT ![c] = "done"])
  ELSE stage' = [stage EXCEPT ![c] = "done"] /\ UNCHANGED arbiter

(* The completion is made durable, or that fails, and then the lease is    *)
(* released; the batch rejects after a failure or an abort.                *)
Record(c) ==
  /\ stage[c] = "recording"
  /\ Release(c)
  /\ \/ rejected' = rejected \cup {BatchOf[c]}
     \/ BatchOf[c] \notin aborted /\ UNCHANGED rejected
  /\ UNCHANGED aborted

(* The signal is noticed before the tool is called.                        *)
Abandon(c) ==
  /\ stage[c] \in {"authorizing", "leased", "dispatched"} /\ BatchOf[c] \in aborted
  /\ Release(c)
  /\ rejected' = rejected \cup {BatchOf[c]}
  /\ UNCHANGED aborted

\* Mutant: a lease does not outlive its signal.
AbortReleases(b) ==
  LET gone == Of(b, {"waiting"}) IN
  /\ b \notin aborted /\ aborted' = aborted \cup {b}
  /\ Pump(waiting \ gone, order, active \ Of(b, Stages),
          [c \in Call |-> IF c \in gone THEN "done" ELSE stage[c]])
  /\ rejected' = IF gone = {} THEN rejected ELSE rejected \cup {b}

\* Mutant: the waiters of the batch stay in the queue.
AbortKeepsWaiters(b) ==
  LET gone == Of(b, {"waiting"}) IN
  /\ b \notin aborted /\ aborted' = aborted \cup {b}
  /\ Pump(waiting, order, active,
          [c \in Call |-> IF c \in gone THEN "done" ELSE stage[c]])
  /\ rejected' = IF gone = {} THEN rejected ELSE rejected \cup {b}

(* The abort listeners of the waiters of the batch: they leave the queue,  *)
(* which may let others go ahead.                                          *)
Abort(b) ==
  LET gone == Of(b, {"waiting"}) IN
  /\ b \notin aborted /\ aborted' = aborted \cup {b}
  /\ Pump(waiting \ gone, order, active,
          [c \in Call |-> IF c \in gone THEN "done" ELSE stage[c]])
  /\ rejected' = IF gone = {} THEN rejected ELSE rejected \cup {b}

-----------------------------------------------------------------------------
CallStep(c) ==
  \/ Plan(c) \/ Refuse(c) \/ Acquire(c) \/ Dispatch(c) \/ Execute(c) \/ Return(c)
  \/ Record(c) \/ Abandon(c)

BatchStep(b) == StopPlanning(b) \/ StartWave(b)

Next ==
  \/ \E c \in Call : CallStep(c)
  \/ \E b \in Batch : BatchStep(b) \/ Abort(b)

(* Promises are continued, hosts answer, and tools settle.                 *)
Progress == (\E c \in Call : CallStep(c)) \/ \E b \in Batch : BatchStep(b)

Fairness == WF_vars(Progress)

Spec == Init /\ [][Next]_vars /\ Fairness

-----------------------------------------------------------------------------
(* Properties.                                                             *)

TypeOK ==
  /\ stage \in [Call -> Stages]
  /\ waiting = {c \in Call : stage[c] = "waiting"}
  /\ order \subseteq waiting \X waiting
  /\ active \subseteq Call
  /\ aborted \subseteq Batch /\ rejected \subseteq Batch

InEffect(c) ==
  \/ stage[c] \in {"dispatched", "executing"}
  \/ stage[c] = "recording" /\ c \in active

(* From the durable record of its dispatch to that of its completion a     *)
(* tool is alone with what it claims, also when its run was aborted and    *)
(* another session, or the next run, is already calling tools.             *)
EffectsAreExclusive ==
  \A c, d \in {e \in Call : InEffect(e)} : c # d => <<c, d>> \notin Conflicts

(* The calls of a response that conflict take effect in the order the      *)
(* model asked for, and a sequential one has its batch to itself.          *)
CallsKeepOrder ==
  \A c, d \in Call :
    c # d /\ BatchOf[c] = BatchOf[d] /\ InEffect(d) =>
      /\ Index[c] < Index[d] /\ <<c, d>> \in Conflicts => stage[c] = "done"
      /\ {c, d} \cap Sequential # {} => stage[c] \notin Running

(* No wakeup is lost: whoever is first in the queue waits for a lease that *)
(* is really held, and nobody whose signal is aborted is in the queue.     *)
WaitersAreBlocked ==
  \A c \in waiting :
    /\ BatchOf[c] \notin aborted
    /\ Before(c, order, waiting) = {} => Blocked(c, active)

(* First come, first served: a lease is never granted over the head of a   *)
(* call that asked before and is left waiting.                             *)
NobodyOvertakes ==
  [][\A c \in waiting, d \in active' \ active :
       <<d, c>> \in order \/ c \notin waiting']_vars

(* Every batch has ended and given back what it held.                      *)
BatchesOver ==
  /\ active = {} /\ waiting = {}
  /\ \A c \in Call : stage[c] = "done" \/ BatchOf[c] \in rejected
=============================================================================
