----------------------------- MODULE HostProofs ------------------------------
(* What a session host runs beside the conversation: the tool calls, the   *)
(* durable jobs and the managed processes, for any number of batches,      *)
(* calls and claims, of jobs, hosts and processes, and any limits.         *)
EXTENDS MCHost, TLAPS

-----------------------------------------------------------------------------
(* ToolScheduler.                                                          *)

(* What a lease is needed for.                                             *)
LeaseStages == {"leased", "dispatched", "executing"}

(* line orders the members of queue one after the other.                   *)
Linear(line, queue) ==
  /\ \A c, d \in queue : c # d => <<c, d>> \in line \/ <<d, c>> \in line
  /\ \A b, c, d \in queue : <<b, c>> \in line /\ <<c, d>> \in line => <<b, d>> \in line

Exclusive(held) == \A c, d \in held : c # d => <<c, d>> \notin Conflicts

(* A queue that #pump may be called on, with the calls at stage at.        *)
Ready(queue, line, held, at) ==
  /\ queue \subseteq Call /\ held \subseteq Call /\ at \in [Call -> Stages]
  /\ Linear(line, queue) /\ Exclusive(held)
  /\ \A c \in Call : at[c] = "waiting" <=> c \in queue
  /\ \A c \in Call : at[c] \in LeaseStages => c \in held

(* The inductive invariant of the arbiter: between its calls, the queue    *)
(* and the leases are what #pump may be called on.                         *)
ArbiterInv ==
  /\ order \subseteq waiting \X waiting
  /\ aborted \subseteq Batch /\ rejected \subseteq Batch
  /\ Ready(waiting, order, active, stage)

LEMMA ArbiterType == ArbiterInv => TypeOK
  BY DEF ArbiterInv, Ready, TypeOK

LEMMA ConflictsSymmetric ==
  ASSUME NEW c, NEW d, <<c, d>> \in Conflicts PROVE <<d, c>> \in Conflicts
<1>1. c \in Call /\ d \in Call /\ ResourcesConflict(c, d)
  BY DEF Conflicts
<1>2. PICK one \in Claims[c], two \in Claims[d] :
        /\ one.kind = two.kind \/ "workspace" \in {one.kind, two.kind}
        /\ "write" \in {one.mode, two.mode}
        /\ <<one.key, two.key>> \in Overlap
  BY <1>1 DEF ResourcesConflict
<1>3. Claims[c] \subseteq ResourceClaim /\ Claims[d] \subseteq ResourceClaim
  BY <1>1, ClaimAssumption
<1>4. one.key \in Key /\ two.key \in Key
  BY <1>3 DEF ResourceClaim
<1>5. <<two.key, one.key>> \in Overlap
  BY <1>2, <1>4, ClaimAssumption
<1>6. ResourcesConflict(d, c)
  BY <1>2, <1>5 DEF ResourcesConflict
<1>7. QED
  BY <1>1, <1>6 DEF Conflicts

-----------------------------------------------------------------------------
(* What #pump does.                                                        *)

(* Leases that are granted together, and those held before, do not         *)
(* conflict: each is compared with all that were taken earlier.            *)
LEMMA GrantedAreExclusive ==
  ASSUME NEW queue, NEW line, NEW held, Linear(line, queue), Exclusive(held)
  PROVE  Exclusive(held \cup FreePrefix(queue, line, held))
<1> DEFINE granted == FreePrefix(queue, line, held)
<1> SUFFICES ASSUME NEW c \in held \cup granted, NEW d \in held \cup granted, c # d
             PROVE  <<c, d>> \notin Conflicts
  BY DEF Exclusive
<1>1. ASSUME NEW x \in granted, NEW y \in held \cup Before(x, line, queue)
      PROVE  <<x, y>> \notin Conflicts
  BY <1>1 DEF FreePrefix, Blocked
<1>2. granted \subseteq queue
  BY DEF FreePrefix
<1>3. CASE c \in held /\ d \in held
  BY <1>3 DEF Exclusive
<1>4. CASE c \in granted /\ d \in held
  BY <1>4, <1>1
<1>5. CASE c \in held /\ d \in granted
  BY <1>5, <1>1, ConflictsSymmetric
<1>6. CASE c \in granted /\ d \in granted
  <2>1. <<c, d>> \in line \/ <<d, c>> \in line
    BY <1>6, <1>2 DEF Linear
  <2>2. c \in Before(d, line, queue) \/ d \in Before(c, line, queue)
    BY <2>1, <1>2, <1>6 DEF Before
  <2>3. QED
    BY <2>2, <1>1, <1>6, ConflictsSymmetric
<1>7. QED
  BY <1>3, <1>4, <1>5, <1>6

LEMMA PumpIsReady ==
  ASSUME NEW queue, NEW line, NEW held, NEW at,
         Ready(queue, line, held, at), Pump(queue, line, held, at)
  PROVE  Ready(waiting', order', active', stage') /\ order' \subseteq waiting' \X waiting'
<1> DEFINE granted == FreePrefix(queue, line, held)
           left == queue \ granted
<1>1. /\ waiting' = left /\ active' = held \cup granted
      /\ order' = line \cap (left \X left)
      /\ stage' = [c \in Call |-> IF c \in granted THEN "leased" ELSE at[c]]
  BY DEF Pump
<1>2. granted \subseteq queue
  BY DEF FreePrefix
<1>3. /\ queue \subseteq Call /\ held \subseteq Call /\ at \in [Call -> Stages]
      /\ Linear(line, queue) /\ Exclusive(held)
      /\ \A c \in Call : at[c] = "waiting" <=> c \in queue
      /\ \A c \in Call : at[c] \in LeaseStages => c \in held
  BY DEF Ready
<1> HIDE DEF granted
<1>4. stage' \in [Call -> Stages]
  BY <1>1, <1>3 DEF Stages
<1>5. \A c \in Call : stage'[c] = "waiting" <=> c \in waiting'
  BY <1>1, <1>3
<1>6. \A c \in Call : stage'[c] \in LeaseStages => c \in active'
  BY <1>1, <1>3
<1>7. Linear(order', waiting')
  BY <1>1, <1>3 DEF Linear
<1>8. Exclusive(active')
  BY <1>1, <1>3, GrantedAreExclusive DEF granted
<1>9. QED
  BY <1>1, <1>2, <1>3, <1>4, <1>5, <1>6, <1>7, <1>8 DEF Ready

(* The first of those that are left conflicts with a lease: those before   *)
(* it all got theirs, and it was not taken.                                *)
LEMMA PumpLeavesBlocked ==
  ASSUME NEW queue, NEW line, NEW held, NEW at, Pump(queue, line, held, at),
         NEW c \in waiting', Before(c, order', waiting') = {}
  PROVE  Blocked(c, active')
<1> DEFINE granted == FreePrefix(queue, line, held)
           left == queue \ granted
<1>1. /\ waiting' = left /\ active' = held \cup granted
      /\ order' = line \cap (left \X left)
  BY DEF Pump
<1>2. Before(c, line, queue) \subseteq granted
  BY <1>1 DEF Before
<1>3. PICK d \in Before(c, line, queue) \cup {c} :
        Blocked(d, held \cup Before(d, line, queue))
  BY <1>1 DEF FreePrefix
<1>4. d \notin granted
  BY <1>3 DEF FreePrefix
<1>5. d = c
  BY <1>2, <1>3, <1>4
<1>6. QED
  BY <1>1, <1>2, <1>3, <1>5 DEF Blocked

(* Who is granted a lease is before everybody who is left.                 *)
LEMMA PumpKeepsOrder ==
  ASSUME NEW queue, NEW line, NEW held, NEW at, Linear(line, queue),
         Pump(queue, line, held, at), NEW c \in waiting', NEW d \in active' \ held
  PROVE  c \in queue /\ <<d, c>> \in line
<1> DEFINE granted == FreePrefix(queue, line, held)
<1>1. c \in queue \ granted /\ d \in granted
  BY DEF Pump
<1>2. d \in queue
  BY <1>1 DEF FreePrefix
<1>3. ASSUME <<c, d>> \in line PROVE FALSE
  <2>1. Before(c, line, queue) \cup {c} \subseteq Before(d, line, queue)
    BY <1>1, <1>2, <1>3 DEF Before, Linear
  <2>2. c \in granted
    BY <1>1, <2>1 DEF FreePrefix
  <2>3. QED
    BY <1>1, <2>2
<1>4. QED
  BY <1>1, <1>2, <1>3 DEF Linear

-----------------------------------------------------------------------------
(* The steps.  Each one leaves the arbiter alone or ends with #pump on a   *)
(* queue that is ready for it; what follows is shown once for both kinds.  *)

(* A step of the coordinators that does not come to the arbiter.           *)
Apart ==
  /\ UNCHANGED <<arbiter, aborted>>
  /\ stage' \in [Call -> Stages] /\ rejected' \subseteq Batch
  /\ \A c \in Call : stage'[c] = "waiting" <=> stage[c] = "waiting"
  /\ \A c \in Call : stage'[c] \in LeaseStages => stage[c] \in LeaseStages

(* A step that does, and who is then in the queue.                         *)
Pumped(queue, line, held, at) ==
  /\ Ready(queue, line, held, at) /\ Pump(queue, line, held, at)
  /\ aborted' \subseteq Batch /\ rejected' \subseteq Batch
  /\ \A c \in queue : BatchOf[c] \notin aborted'
  /\ held \subseteq active
  /\ \A c \in queue \cap waiting, d \in queue : <<d, c>> \in line => <<d, c>> \in order

Lively == \A c \in waiting : BatchOf[c] \notin aborted

LEMMA AtCall == ASSUME ArbiterInv, NEW c \in Call PROVE stage[c] \in Stages /\ BatchOf[c] \in Batch
  BY BatchAssumption DEF ArbiterInv, Ready

LEMMA AcquirePumps ==
  ASSUME ArbiterInv, Lively, NEW c \in Call, Acquire(c)
  PROVE  Pumped(waiting \cup {c}, order \cup (waiting \X {c}), active,
                [stage EXCEPT ![c] = "waiting"])
<1> DEFINE queue == waiting \cup {c}
           line == order \cup (waiting \X {c})
           at == [stage EXCEPT ![c] = "waiting"]
<1>1. /\ stage[c] = "authorizing" /\ BatchOf[c] \notin aborted
      /\ Pump(queue, line, active, at) /\ UNCHANGED <<aborted, rejected>>
  BY DEF Acquire, At
<1>2. /\ waiting \subseteq Call /\ active \subseteq Call /\ stage \in [Call -> Stages]
      /\ order \subseteq waiting \X waiting /\ Linear(order, waiting) /\ Exclusive(active)
      /\ \A d \in Call : stage[d] = "waiting" <=> d \in waiting
      /\ \A d \in Call : stage[d] \in LeaseStages => d \in active
  BY DEF ArbiterInv, Ready
<1>3. c \notin waiting
  BY <1>1, <1>2
<1>4. Linear(line, queue)
  BY <1>2, <1>3 DEF Linear
<1>5. at \in [Call -> Stages]
  BY <1>2 DEF Stages
<1>6. \A d \in Call : at[d] = "waiting" <=> d \in queue
  BY <1>2
<1>7. \A d \in Call : at[d] \in LeaseStages => d \in active
  BY <1>2 DEF LeaseStages
<1>8. Ready(queue, line, active, at)
  BY <1>2, <1>4, <1>5, <1>6, <1>7 DEF Ready
<1>9. \A d \in queue : BatchOf[d] \notin aborted'
  BY <1>1 DEF Lively
<1>10. \A d \in queue \cap waiting, e \in queue : <<e, d>> \in line => <<e, d>> \in order
  BY <1>3
<1>11. QED
  BY <1>1, <1>8, <1>9, <1>10 DEF Pumped, ArbiterInv

LEMMA ReleaseIsClean ==
  ASSUME ArbiterInv, Lively, NEW c \in Call, stage[c] \notin {"waiting"}, Release(c),
         UNCHANGED aborted, rejected' \subseteq Batch
  PROVE  Apart \/ Pumped(waiting, order, active \ {c}, [stage EXCEPT ![c] = "done"])
<1> DEFINE at == [stage EXCEPT ![c] = "done"]
           held == active \ {c}
<1>1. /\ waiting \subseteq Call /\ active \subseteq Call /\ stage \in [Call -> Stages]
      /\ Linear(order, waiting) /\ Exclusive(active)
      /\ \A d \in Call : stage[d] = "waiting" <=> d \in waiting
      /\ \A d \in Call : stage[d] \in LeaseStages => d \in active
  BY DEF ArbiterInv, Ready
<1>2. /\ at \in [Call -> Stages]
      /\ \A d \in Call : at[d] = "waiting" <=> d \in waiting
      /\ \A d \in Call : at[d] \in LeaseStages => d \in held
      /\ \A d \in Call : at[d] \in LeaseStages => stage[d] \in LeaseStages
  BY <1>1 DEF Stages, LeaseStages
<1>3. CASE c \in active
  <2>1. Pump(waiting, order, held, at)
    BY <1>3 DEF Release
  <2>2. Exclusive(held)
    BY <1>1 DEF Exclusive
  <2>3. Ready(waiting, order, held, at)
    BY <1>1, <1>2, <2>2 DEF Ready
  <2>4. QED
    BY <2>1, <2>3 DEF Pumped, Lively, ArbiterInv
<1>4. CASE c \notin active
  <2>1. stage' = at /\ UNCHANGED arbiter
    BY <1>4 DEF Release
  <2>2. QED
    BY <1>1, <1>2, <2>1 DEF Apart
<1>5. QED
  BY <1>3, <1>4

LEMMA AbortPumps ==
  ASSUME ArbiterInv, Lively, NEW b \in Batch, Abort(b)
  PROVE  Pumped(waiting \ Of(b, {"waiting"}), order, active,
                [c \in Call |-> IF c \in Of(b, {"waiting"}) THEN "done" ELSE stage[c]])
<1> DEFINE gone == Of(b, {"waiting"})
           queue == waiting \ gone
           at == [c \in Call |-> IF c \in gone THEN "done" ELSE stage[c]]
<1>1. /\ Pump(queue, order, active, at) /\ aborted' = aborted \cup {b}
      /\ rejected' \subseteq rejected \cup {b}
  BY DEF Abort
<1>2. /\ waiting \subseteq Call /\ active \subseteq Call /\ stage \in [Call -> Stages]
      /\ Linear(order, waiting) /\ Exclusive(active)
      /\ \A d \in Call : stage[d] = "waiting" <=> d \in waiting
      /\ \A d \in Call : stage[d] \in LeaseStages => d \in active
  BY DEF ArbiterInv, Ready
<1>3. gone = {c \in waiting : BatchOf[c] = b}
  BY <1>2 DEF Of
<1> HIDE DEF gone
<1>4. Linear(order, queue)
  BY <1>2 DEF Linear
<1>5. /\ at \in [Call -> Stages]
      /\ \A d \in Call : at[d] = "waiting" <=> d \in queue
      /\ \A d \in Call : at[d] \in LeaseStages => d \in active
  BY <1>2, <1>3 DEF Stages, LeaseStages
<1>6. Ready(queue, order, active, at)
  BY <1>2, <1>4, <1>5 DEF Ready
<1>7. \A c \in queue : BatchOf[c] \notin aborted'
  BY <1>1, <1>3 DEF Lively
<1>8. QED
  BY <1>1, <1>6, <1>7 DEF Pumped, ArbiterInv, gone

LEMMA PlanIsApart ==
  ASSUME ArbiterInv, NEW b \in Batch, StopPlanning(b) \/ StartWave(b) \/ \E c \in Call : Plan(c)
  PROVE  Apart
<1>1. stage \in [Call -> Stages] /\ rejected \subseteq Batch
  BY DEF ArbiterInv, Ready
<1>2. CASE StopPlanning(b)
  BY <1>1, <1>2 DEF StopPlanning, Apart
<1>3. CASE StartWave(b)
  <2> DEFINE wave == FreePrefix(Prepared(b), CallOrder, {})
  <2>1. wave \subseteq {c \in Call : stage[c] = "prepared"}
    BY DEF FreePrefix, Prepared, Of
  <2>2. /\ stage' = [c \in Call |-> IF c \notin wave THEN stage[c]
                                   ELSE IF b \in aborted THEN "done" ELSE "authorizing"]
        /\ UNCHANGED <<arbiter, aborted, rejected>>
    BY <1>3 DEF StartWave
  <2> HIDE DEF wave
  <2>3. QED
    BY <1>1, <2>1, <2>2 DEF Apart, LeaseStages, Stages
<1>4. CASE \E c \in Call : Plan(c)
  BY <1>1, <1>4 DEF Plan, Apart, LeaseStages, Stages
<1>5. QED
  BY <1>2, <1>3, <1>4

LEMMA CallIsApart ==
  ASSUME ArbiterInv, NEW c \in Call, Refuse(c) \/ Dispatch(c) \/ Execute(c) \/ Return(c)
  PROVE  Apart
  BY DEF ArbiterInv, Ready, Refuse, Dispatch, Execute, Return, At, Apart, LeaseStages, Stages

(* Every step is of one of the two kinds.                                  *)
LEMMA TwoKinds ==
  ASSUME ArbiterInv, Lively, [Next]_vars
  PROVE  Apart \/ \E queue, line, held, at : Pumped(queue, line, held, at)
<1>1. ASSUME NEW c \in Call, CallStep(c)
      PROVE  Apart \/ \E queue, line, held, at : Pumped(queue, line, held, at)
  <2>1. CASE Plan(c)
    BY <2>1, <1>1, AtCall, PlanIsApart
  <2>2. CASE Acquire(c)
    BY <2>2, <1>1, AcquirePumps
  <2>3. CASE Refuse(c) \/ Dispatch(c) \/ Execute(c) \/ Return(c)
    BY <2>3, <1>1, CallIsApart
  <2>4. CASE Record(c) \/ Abandon(c)
    <3>1. /\ Release(c) /\ UNCHANGED aborted /\ stage[c] \notin {"waiting"}
          /\ rejected' \subseteq rejected \cup {BatchOf[c]}
      BY <2>4 DEF Record, Abandon
    <3>2. rejected' \subseteq Batch
      BY <3>1, <1>1, AtCall DEF ArbiterInv
    <3>3. QED
      BY <3>1, <3>2, <1>1, ReleaseIsClean
  <2>5. QED
    BY <1>1, <2>1, <2>2, <2>3, <2>4 DEF CallStep
<1>2. ASSUME NEW b \in Batch, BatchStep(b) PROVE Apart
  BY <1>2, PlanIsApart DEF BatchStep
<1>3. ASSUME NEW b \in Batch, Abort(b)
      PROVE  \E queue, line, held, at : Pumped(queue, line, held, at)
  BY <1>3, AbortPumps
<1>4. CASE UNCHANGED vars
  BY <1>4 DEF vars, ArbiterInv, Ready, Apart
<1>5. QED
  BY <1>1, <1>2, <1>3, <1>4 DEF Next

LEMMA ArbiterStep ==
  ASSUME ArbiterInv, WaitersAreBlocked, [Next]_vars
  PROVE  ArbiterInv' /\ WaitersAreBlocked'
<1>1. Lively
  BY DEF Lively, WaitersAreBlocked
<1>2. CASE Apart
  <2>1. UNCHANGED <<waiting, order, active, aborted>>
    BY <1>2 DEF Apart, arbiter
  <2>2. WaitersAreBlocked'
    BY <2>1 DEF WaitersAreBlocked, Before, Blocked
  <2>3. Linear(order, waiting)' /\ Exclusive(active)'
    BY <2>1 DEF ArbiterInv, Ready, Linear, Exclusive
  <2>4. QED
    BY <1>2, <2>1, <2>2, <2>3 DEF Apart, ArbiterInv, Ready
<1>3. ASSUME NEW queue, NEW line, NEW held, NEW at, Pumped(queue, line, held, at)
      PROVE  ArbiterInv' /\ WaitersAreBlocked'
  <2>1. ArbiterInv'
    BY <1>3, PumpIsReady DEF Pumped, ArbiterInv
  <2>2. waiting' \subseteq queue
    BY <1>3 DEF Pumped, Pump
  <2>3. \A c \in waiting' : Before(c, order', waiting') = {} => Blocked(c, active')
    BY <1>3, PumpLeavesBlocked DEF Pumped
  <2>4. WaitersAreBlocked'
    BY <1>3, <2>2, <2>3 DEF Pumped, WaitersAreBlocked, Before, Blocked
  <2>5. QED
    BY <2>1, <2>4
<1>4. QED
  BY <1>1, <1>2, <1>3, TwoKinds

LEMMA ArbiterInitially == Init => ArbiterInv /\ WaitersAreBlocked
  BY DEF Init, ArbiterInv, Ready, Linear, Exclusive, LeaseStages, Stages, WaitersAreBlocked

LEMMA ArbiterInvariant == Spec => [](ArbiterInv /\ WaitersAreBlocked)
  BY ArbiterInitially, ArbiterStep, PTL DEF Spec

(* The state of the coordinators and of the arbiter has its shape; the     *)
(* queue holds exactly the calls that wait (ToolResourceArbiter).          *)
THEOREM SchedulerTypeCorrect == Spec => []TypeOK
  BY ArbiterInvariant, ArbiterType, PTL

(* No wakeup is lost: as long as somebody waits, the first of the queue    *)
(* waits for a lease that is held, and no aborted call is in the queue     *)
(* (#pump, onAbort, release).                                              *)
THEOREM WaitersAreBlockedHolds == Spec => []WaitersAreBlocked
  BY ArbiterInvariant, PTL

LEMMA ArbiterExcludes == ArbiterInv => EffectsAreExclusive
  BY DEF ArbiterInv, Ready, Exclusive, LeaseStages, InEffect, EffectsAreExclusive

(* A tool is alone with what it claims until its completion is recorded,   *)
(* over all batches and sessions, aborted or not (acquire, runPrepared).   *)
THEOREM EffectsAreExclusiveHolds == Spec => []EffectsAreExclusive
  BY ArbiterInvariant, ArbiterExcludes, PTL

(* Who is granted a lease comes before everyone that stays in the queue.   *)
GrantsInOrder ==
  \A c \in waiting, d \in active' \ active : <<d, c>> \in order \/ c \notin waiting'

LEMMA EveryGrantIsInOrder ==
  ASSUME ArbiterInv, WaitersAreBlocked, [Next]_vars PROVE [GrantsInOrder]_vars
<1>1. CASE Apart
  BY <1>1 DEF Apart, arbiter, GrantsInOrder
<1>2. ASSUME NEW queue, NEW line, NEW held, NEW at, Pumped(queue, line, held, at)
      PROVE  GrantsInOrder
  <2> SUFFICES ASSUME NEW c \in waiting, NEW d \in active' \ active, c \in waiting'
               PROVE  <<d, c>> \in order
    BY DEF GrantsInOrder
  <2>1. /\ Linear(line, queue) /\ Pump(queue, line, held, at) /\ held \subseteq active
        /\ \A x \in queue \cap waiting, y \in queue : <<y, x>> \in line => <<y, x>> \in order
    BY <1>2 DEF Pumped, Ready
  <2>2. c \in queue /\ <<d, c>> \in line
    BY <2>1, PumpKeepsOrder
  <2>3. d \in queue
    BY <2>1 DEF Pump, FreePrefix
  <2>4. QED
    BY <2>1, <2>2, <2>3
<1>3. QED
  BY <1>1, <1>2, TwoKinds DEF WaitersAreBlocked, Lively

(* The queue is served in order: no lease is granted over the head of a    *)
(* call that came earlier and stays in the queue (#pump).                  *)
THEOREM NobodyOvertakesHolds == Spec => NobodyOvertakes
<1>1. ArbiterInv /\ WaitersAreBlocked /\ [Next]_vars => [GrantsInOrder]_vars
  BY EveryGrantIsInOrder
<1>2. QED
  BY <1>1, ArbiterInvariant, PTL DEF Spec, NobodyOvertakes, GrantsInOrder

-----------------------------------------------------------------------------
(* The order within a batch.  Calls are planned in order; the prepared     *)
(* calls and the running ones are free of the calls they may not meet; and *)
(* what a running call had to wait for is done.                            *)

Together(c, d) == c # d /\ BatchOf[c] = BatchOf[d] /\ {c, d} \cap Sequential # {}

BatchInv ==
  /\ \A c, d \in Call : <<c, d>> \in CallOrder /\ stage[d] # "planned" => stage[c] # "planned"
  /\ \A c, d \in Call : Together(c, d) => ~(stage[c] = "prepared" /\ stage[d] = "prepared")
  /\ \A c, d \in Call : Together(c, d) => ~(stage[c] \in Running /\ stage[d] \in Running)
  /\ \A c, d \in Call :
       <<c, d>> \in CallOrder /\ <<c, d>> \in Conflicts /\ stage[d] \in Running =>
         stage[c] = "done"

(* A step that starts no call: a running one runs on or is done.           *)
NoneStarts ==
  \A c \in Call :
    \/ stage'[c] = stage[c]
    \/ stage[c] \in Running /\ stage'[c] \in Running \cup {"done"}

LEMMA PumpRuns ==
  ASSUME ArbiterInv, NEW queue, NEW line, NEW held, NEW at, Pump(queue, line, held, at),
         \A c \in queue : at[c] = "waiting",
         \A c \in Call : \/ at[c] = stage[c]
                         \/ stage[c] \in Running /\ at[c] \in Running \cup {"done"}
  PROVE  NoneStarts
<1> SUFFICES ASSUME NEW c \in Call
             PROVE  \/ stage'[c] = stage[c]
                    \/ stage[c] \in Running /\ stage'[c] \in Running \cup {"done"}
  BY DEF NoneStarts
<1>1. stage'[c] = at[c] \/ (c \in queue /\ stage'[c] = "leased")
  BY DEF Pump, FreePrefix
<1>2. QED
  BY <1>1 DEF Running, Stages

LEMMA ReleaseRuns ==
  ASSUME ArbiterInv, NEW c \in Call, stage[c] \in Running \ {"waiting"}, Release(c)
  PROVE  NoneStarts
<1> DEFINE at == [stage EXCEPT ![c] = "done"]
<1>1. /\ stage \in [Call -> Stages] /\ waiting \subseteq Call
      /\ \A d \in waiting : at[d] = "waiting"
      /\ \A d \in Call : \/ at[d] = stage[d]
                         \/ stage[d] \in Running /\ at[d] \in Running \cup {"done"}
  BY DEF ArbiterInv, Ready
<1>2. CASE c \in active
  <2>1. Pump(waiting, order, active \ {c}, at)
    BY <1>2 DEF Release
  <2> HIDE DEF at
  <2>2. QED
    BY <1>1, <2>1, PumpRuns
<1>3. CASE c \notin active
  BY <1>1, <1>3 DEF Release, NoneStarts
<1>4. QED
  BY <1>2, <1>3

LEMMA CallRuns ==
  ASSUME ArbiterInv, NEW c \in Call, CallStep(c), ~Plan(c) PROVE NoneStarts
<1>1. stage \in [Call -> Stages] /\ waiting \subseteq Call
      /\ \A d \in Call : stage[d] = "waiting" <=> d \in waiting
  BY DEF ArbiterInv, Ready
<1>2. CASE Acquire(c)
  <2> DEFINE queue == waiting \cup {c}
             line == order \cup (waiting \X {c})
             at == [stage EXCEPT ![c] = "waiting"]
  <2>1. stage[c] = "authorizing" /\ Pump(queue, line, active, at)
    BY <1>2 DEF Acquire, At
  <2>2. /\ \A d \in queue : at[d] = "waiting"
        /\ \A d \in Call : \/ at[d] = stage[d]
                           \/ stage[d] \in Running /\ at[d] \in Running \cup {"done"}
    BY <1>1, <2>1 DEF Running, Stages
  <2> HIDE DEF queue, line, at
  <2>3. QED
    BY <2>1, <2>2, PumpRuns
<1>3. CASE Refuse(c) \/ Dispatch(c) \/ Execute(c) \/ Return(c)
  BY <1>1, <1>3 DEF Refuse, Dispatch, Execute, Return, At, NoneStarts, Running, Stages
<1>4. CASE Record(c) \/ Abandon(c)
  BY <1>4, ReleaseRuns DEF Record, Abandon, Running, Stages
<1>5. QED
  BY <1>2, <1>3, <1>4 DEF CallStep

LEMMA AbortRuns == ASSUME ArbiterInv, NEW b \in Batch, Abort(b) PROVE NoneStarts
<1> DEFINE gone == Of(b, {"waiting"})
           queue == waiting \ gone
           at == [c \in Call |-> IF c \in gone THEN "done" ELSE stage[c]]
<1>1. Pump(queue, order, active, at)
  BY DEF Abort
<1>2. /\ \A d \in Call : stage[d] = "waiting" <=> d \in waiting
      /\ waiting \subseteq Call
      /\ gone \subseteq {c \in Call : stage[c] = "waiting"}
  BY DEF ArbiterInv, Ready, Of
<1> HIDE DEF gone
<1>3. /\ \A d \in queue : at[d] = "waiting"
      /\ \A d \in Call : \/ at[d] = stage[d]
                         \/ stage[d] \in Running /\ at[d] \in Running \cup {"done"}
  BY <1>2 DEF Running, Stages
<1> HIDE DEF queue, at
<1>4. QED
  BY <1>1, <1>3, PumpRuns

LEMMA RunsKeep == ASSUME ArbiterInv, BatchInv, NoneStarts PROVE BatchInv'
<1> USE DEF Running, Stages
<1>1. /\ \A c \in Call : stage[c] = "planned" <=> stage'[c] = "planned"
      /\ \A c \in Call : stage[c] = "prepared" <=> stage'[c] = "prepared"
      /\ \A c \in Call : stage'[c] \in Running => stage[c] \in Running
      /\ \A c \in Call : stage[c] = "done" => stage'[c] = "done"
  BY DEF NoneStarts
<1>2. QED
  BY <1>1 DEF BatchInv, Together, CallOrder, Conflicts, ResourcesConflict

LEMMA PlanKeeps ==
  ASSUME ArbiterInv, BatchInv, NEW x \in Call, Plan(x) PROVE BatchInv'
<1> DEFINE b == BatchOf[x]
<1>1. /\ stage[x] = "planned" /\ Before(x, CallOrder, Unplanned(b)) = {}
      /\ ~MustRun(b)
      /\ \E result \in {"prepared", "done"} : stage' = [stage EXCEPT ![x] = result]
  BY DEF Plan
<1>2. stage \in [Call -> Stages] /\ b \in Batch
  BY AtCall DEF ArbiterInv, Ready
<1>3. /\ stage'[x] \in {"prepared", "done"}
      /\ \A c \in Call : c # x => stage'[c] = stage[c]
  BY <1>1, <1>2
<1>4. \A c \in Call : stage'[c] \in Running <=> stage[c] \in Running
  BY <1>1, <1>3 DEF Running
<1>5. ASSUME NEW c \in Call, NEW d \in Call, <<c, d>> \in CallOrder, stage'[d] # "planned"
      PROVE  stage'[c] # "planned"
  <2>1. CASE d = x
    <3>1. BatchOf[c] = b
      BY <1>5, <2>1 DEF CallOrder
    <3>2. c \notin Unplanned(b)
      BY <1>1, <1>5, <2>1 DEF Before
    <3>3. QED
      BY <1>3, <3>1, <3>2 DEF Unplanned, Of
  <2>2. CASE d # x
    BY <1>3, <1>5, <2>2 DEF BatchInv
  <2>3. QED
    BY <2>1, <2>2
<1>6. ASSUME NEW c \in Call, Together(x, c), stage[c] = "prepared" PROVE FALSE
  <2>1. c \in Prepared(b) /\ x \in Unplanned(b)
    BY <1>1, <1>6 DEF Together, Prepared, Unplanned, Of
  <2>2. c \notin Sequential /\ x \notin Sequential
    BY <1>1, <2>1 DEF MustRun
  <2>3. QED
    BY <1>6, <2>2 DEF Together
<1>7. \A c, d \in Call : Together(c, d) => Together(d, c)
  BY DEF Together
<1>8. \A c, d \in Call : Together(c, d) => ~(stage'[c] = "prepared" /\ stage'[d] = "prepared")
  <2> SUFFICES ASSUME NEW c \in Call, NEW d \in Call, Together(c, d),
                      stage'[c] = "prepared", stage'[d] = "prepared"
               PROVE  FALSE
    OBVIOUS
  <2>1. c # d
    BY DEF Together
  <2>2. CASE c = x
    BY <1>3, <1>6, <2>1, <2>2
  <2>3. CASE d = x
    BY <1>3, <1>6, <1>7, <2>1, <2>3
  <2>4. CASE c # x /\ d # x
    BY <1>3, <2>4 DEF BatchInv
  <2>5. QED
    BY <2>2, <2>3, <2>4
<1>9. ASSUME NEW c \in Call, NEW d \in Call, <<c, d>> \in CallOrder, <<c, d>> \in Conflicts,
             stage'[d] \in Running
      PROVE  stage'[c] = "done"
  <2>1. stage[c] = "done"
    BY <1>4, <1>9 DEF BatchInv
  <2>2. QED
    BY <1>1, <1>3, <2>1
<1>10. \A c, d \in Call : Together(c, d) => ~(stage'[c] \in Running /\ stage'[d] \in Running)
  BY <1>4 DEF BatchInv
<1>11. QED
  BY <1>5, <1>8, <1>9, <1>10 DEF BatchInv, Together, CallOrder, Conflicts, ResourcesConflict

LEMMA StartWaveKeeps ==
  ASSUME ArbiterInv, BatchInv, NEW b \in Batch, StartWave(b) PROVE BatchInv'
<1> DEFINE wave == FreePrefix(Prepared(b), CallOrder, {})
<1>1. /\ Of(b, Running) = {}
      /\ stage' = [c \in Call |-> IF c \notin wave THEN stage[c]
                                 ELSE IF b \in aborted THEN "done" ELSE "authorizing"]
  BY DEF StartWave, Idle
<1>2. /\ wave \subseteq {c \in Call : BatchOf[c] = b /\ stage[c] = "prepared"}
      /\ \A c \in wave : ~Blocked(c, Before(c, CallOrder, Prepared(b)))
  BY DEF FreePrefix, Prepared, Of
<1> HIDE DEF wave
<1>3. /\ \A c \in Call : c \notin wave => stage'[c] = stage[c]
      /\ \A c \in wave : stage'[c] \in {"done", "authorizing"}
  BY <1>1, <1>2
<1>4. \A c \in Call : stage'[c] = "planned" <=> stage[c] = "planned"
  BY <1>2, <1>3
<1>5. \A c \in Call : stage'[c] = "prepared" => stage[c] = "prepared"
  BY <1>2, <1>3
<1>6. \A c \in Call : BatchOf[c] = b /\ stage'[c] \in Running => c \in wave
  BY <1>1, <1>3 DEF Of
<1>7. \A c, d \in Call : Together(c, d) => ~(stage'[c] \in Running /\ stage'[d] \in Running)
  <2> SUFFICES ASSUME NEW c \in Call, NEW d \in Call, Together(c, d),
                      stage'[c] \in Running, stage'[d] \in Running
               PROVE  FALSE
    OBVIOUS
  <2>1. BatchOf[c] = BatchOf[d]
    BY DEF Together
  <2>2. CASE BatchOf[c] = b
    <3>1. stage[c] = "prepared" /\ stage[d] = "prepared"
      BY <1>2, <1>6, <2>1, <2>2
    <3>2. QED
      BY <3>1 DEF BatchInv
  <2>3. CASE BatchOf[c] # b
    <3>1. stage[c] \in Running /\ stage[d] \in Running
      BY <1>2, <1>3, <2>1, <2>3
    <3>2. QED
      BY <3>1 DEF BatchInv
  <2>4. QED
    BY <2>2, <2>3
<1>8. ASSUME NEW c \in Call, NEW d \in Call, <<c, d>> \in CallOrder, <<c, d>> \in Conflicts,
             stage'[d] \in Running
      PROVE  stage'[c] = "done"
  <2>1. BatchOf[c] = BatchOf[d]
    BY <1>8 DEF CallOrder
  <2>2. CASE BatchOf[d] = b
    <3>1. d \in wave /\ <<d, c>> \in Conflicts
      BY <1>6, <1>8, <2>2, ConflictsSymmetric
    <3>2. c \notin Before(d, CallOrder, Prepared(b))
      BY <1>2, <3>1 DEF Blocked
    <3>3. stage[c] # "prepared"
      BY <1>8, <2>1, <2>2, <3>2 DEF Before, Prepared, Of
    <3>4. stage[d] = "prepared"
      BY <1>2, <3>1
    <3>5. stage[c] # "planned"
      BY <1>8, <3>4 DEF BatchInv
    <3>6. stage[c] \notin Running
      BY <1>1, <2>1, <2>2 DEF Of
    <3>7. stage[c] = "done"
      BY <3>3, <3>5, <3>6, AtCall DEF Running
    <3>8. c \notin wave
      BY <1>2, <3>3
    <3>9. QED
      BY <1>3, <3>7, <3>8
  <2>3. CASE BatchOf[d] # b
    <3>1. c \notin wave /\ d \notin wave
      BY <1>2, <2>1, <2>3
    <3>2. QED
      BY <1>3, <1>8, <3>1 DEF BatchInv
  <2>4. QED
    BY <2>2, <2>3
<1>9. QED
  BY <1>4, <1>5, <1>7, <1>8 DEF BatchInv, Together, CallOrder, Conflicts, ResourcesConflict

LEMMA BatchStepKeeps == ASSUME ArbiterInv, BatchInv, [Next]_vars PROVE BatchInv'
<1>1. ASSUME NEW c \in Call, CallStep(c) PROVE BatchInv'
  BY <1>1, CallRuns, RunsKeep, PlanKeeps
<1>2. ASSUME NEW b \in Batch, BatchStep(b) \/ Abort(b) PROVE BatchInv'
  <2>1. CASE StopPlanning(b)
    BY <2>1, RunsKeep DEF StopPlanning, NoneStarts
  <2>2. QED
    BY <1>2, <2>1, AbortRuns, RunsKeep, StartWaveKeeps DEF BatchStep
<1>3. CASE UNCHANGED vars
  BY <1>3, RunsKeep DEF vars, NoneStarts
<1>4. QED
  BY <1>1, <1>2, <1>3 DEF Next

LEMMA BatchInitially == Init => BatchInv
  BY DEF Init, BatchInv, Running

LEMMA BatchesKeepOrder == ASSUME ArbiterInv, BatchInv PROVE CallsKeepOrder
<1> SUFFICES ASSUME NEW c \in Call, NEW d \in Call, c # d,
                    BatchOf[c] = BatchOf[d], InEffect(d)
             PROVE  /\ Index[c] < Index[d] /\ <<c, d>> \in Conflicts => stage[c] = "done"
                    /\ {c, d} \cap Sequential # {} => stage[c] \notin Running
  BY DEF CallsKeepOrder
<1>1. stage[d] \in Running
  BY DEF InEffect, Running, Stages
<1>2. QED
  BY <1>1 DEF BatchInv, Together, CallOrder

(* Conflicting calls of a response take effect in the order they were      *)
(* asked for, and a sequential call shares its batch with none             *)
(* (executionWaves, runPreparedWaves).                                     *)
THEOREM CallsKeepOrderHolds == Spec => []CallsKeepOrder
  BY BatchInitially, BatchStepKeeps, BatchesKeepOrder, ArbiterInvariant, PTL DEF Spec

-----------------------------------------------------------------------------
(* DurableJobs.                                                            *)

StoredJob == [state : States, attempt : 0 .. MaxAttempts, host : Host \cup {NoHost}]

StoreOK(jobs) ==
  /\ jobs \in [Job -> StoredJob]
  /\ \A j \in Job : IsActive(jobs, j) <=> jobs[j].host # NoHost

(* What FinishedJobsStay says of a store that follows another.             *)
Follows(jobs, old) ==
  \A j \in Job :
    /\ old[j].state \in Prunable => jobs[j] = old[j] \/ jobs[j].state = "evicted"
    /\ old[j].state = "interrupted" /\ IsActive(jobs, j) => jobs[j].attempt = old[j].attempt + 1

(* What an attempt has to write ends the job, and it has a host.           *)
JobsInv ==
  /\ StoreOK(store)
  /\ runner \in [Attempt -> Host \cup {NoHost}]
  /\ phase \in [Attempt -> {"none", "assigned", "admitted", "unlaunched", "running", "ended", "over"}]
  /\ outcome \in [Attempt -> Results \cup {"none"}]
  /\ \A a \in Attempt : phase[a] = "ended" => outcome[a] \in Results
  /\ ending \subseteq [attempt : Attempt, state : Prunable \cup {"interrupted"}]
  /\ current \in [Host -> [Job -> 0 .. MaxAttempts]]
  /\ cancelling \subseteq Host \X Job

LEMMA JobsInitHolds == JobsInit => JobsInv
BY JobsAssumption DEF JobsInit, JobsInv, StoreOK, StoredJob, IsActive, ActiveStates, States, Prunable

LEMMA StoreFollowsItself == StoreOK(store) => Follows(store, store)
BY DEF Follows, StoreOK, IsActive, ActiveStates, StoredJob

LEMMA ChangedStore ==
  ASSUME NEW jobs, StoreOK(jobs), NEW j \in Job, NEW job \in StoredJob,
         job.state \in ActiveStates <=> job.host # NoHost
  PROVE  StoreOK(Change(jobs, j, job))
BY DEF StoreOK, Change, IsActive

LEMMA TurnedJob ==
  ASSUME NEW job \in StoredJob, NEW given \in States, given \in ActiveStates => job.host # NoHost
  PROVE  /\ Turned(job, given) \in StoredJob /\ Turned(job, given).state = given
         /\ Turned(job, given).attempt = job.attempt
         /\ given \in ActiveStates <=> Turned(job, given).host # NoHost
BY DEF Turned, StoredJob

LEMMA WithState ==
  ASSUME NEW jobs, StoreOK(jobs), NEW j \in Job, NEW given \in States,
         given \in ActiveStates => IsActive(jobs, j)
  PROVE  /\ StoreOK(With(jobs, j, given))
         /\ With(jobs, j, given)[j].state = given
         /\ With(jobs, j, given)[j].attempt = jobs[j].attempt
         /\ \A k \in Job : k # j => With(jobs, j, given)[k] = jobs[k]
<1>1. jobs[j] \in StoredJob /\ (given \in ActiveStates => jobs[j].host # NoHost)
  BY DEF StoreOK
<1>2. /\ Turned(jobs[j], given) \in StoredJob /\ Turned(jobs[j], given).state = given
      /\ Turned(jobs[j], given).attempt = jobs[j].attempt
      /\ given \in ActiveStates <=> Turned(jobs[j], given).host # NoHost
  BY <1>1, TurnedJob
<1>3. QED
  BY <1>2, ChangedStore DEF With, Change

(* Recovery interrupts active jobs, and leaves the others.                 *)
LEMMA RecoveredStore ==
  ASSUME StoreOK(store), NEW h \in Host
  PROVE  /\ StoreOK(Recovered(h))
         /\ \A j \in Job : \/ Recovered(h)[j] = store[j]
                           \/ /\ IsActive(store, j) /\ Recovered(h)[j].state = "interrupted"
                              /\ Recovered(h)[j].attempt = store[j].attempt
BY DEF StoreOK, Recovered, Abandoned, IsActive, StoredJob, States, ActiveStates, Prunable

(* What is pruned has ended, or is interrupted.                            *)
LEMMA PrunedStore ==
  ASSUME NEW jobs, StoreOK(jobs), NEW pruned \in Pruned(jobs)
  PROVE  /\ StoreOK(pruned)
         /\ \A j \in Job : pruned[j] = jobs[j] \/ pruned[j].state = "evicted"
<1>1. CASE pruned = jobs
  BY <1>1
<1>2. CASE \E j \in Evictable(jobs) : pruned = With(jobs, j, "evicted")
  <2>1. PICK j \in Job : pruned = With(jobs, j, "evicted")
    BY <1>2 DEF Evictable
  <2>2. "evicted" \in States /\ "evicted" \notin ActiveStates
    BY DEF States, ActiveStates, Prunable
  <2>3. QED
    BY <2>1, <2>2, WithState
<1>3. QED
  BY <1>1, <1>2 DEF Pruned

LEMMA WhatIsWritten ==
  ASSUME StoreOK(store), NEW new, StoreOK(new), Follows(new, store), Write(new) \/ FailToWrite(new)
  PROVE  StoreOK(store') /\ Follows(store', store)
BY StoreFollowsItself DEF Write, FailToWrite

LEMMA RecoveryFollows ==
  ASSUME StoreOK(store), NEW h \in Host PROVE Follows(Recovered(h), store)
BY RecoveredStore DEF Follows, IsActive, ActiveStates, Prunable

LEMMA ClaimedStore ==
  ASSUME NEW jobs, StoreOK(jobs), NEW h \in Host, NEW j \in Job, NEW n \in 0 .. MaxAttempts
  PROVE  /\ StoreOK(Claimed(jobs, h, j, n))
         /\ Claimed(jobs, h, j, n)[j].attempt = n
         /\ \A k \in Job : k # j => Claimed(jobs, h, j, n)[k] = jobs[k]
<1> DEFINE job == [state |-> "starting", attempt |-> n, host |-> h]
<1>1. job \in StoredJob /\ (job.state \in ActiveStates <=> job.host # NoHost)
  BY JobsAssumption DEF StoredJob, States, ActiveStates
<1>2. StoreOK(Change(jobs, j, job))
  BY <1>1, ChangedStore
<1>3. QED
  BY <1>2 DEF Claimed, Change

LEMMA StartWrites ==
  ASSUME StoreOK(store), NEW h \in Host, NEW j \in Job, Start(h, j)
  PROVE  StoreOK(store') /\ Follows(store', store)
<1>1. PICK pruned \in Pruned(Recovered(h)) :
        Write(Claimed(pruned, h, j, 1)) \/ FailToWrite(Claimed(pruned, h, j, 1))
  BY DEF Start
<1> DEFINE new == Claimed(pruned, h, j, 1)
<1>2. StoreOK(pruned) /\ \A k \in Job : pruned[k] = Recovered(h)[k] \/ pruned[k].state = "evicted"
  BY RecoveredStore, PrunedStore
<1>3. StoreOK(new) /\ \A k \in Job : k # j => new[k] = pruned[k]
  BY <1>2, ClaimedStore, JobsAssumption
<1>4. store[j].state = "absent"
  BY DEF Start
<1>5. \A k \in Job : k # j =>
        \/ new[k] = store[k] \/ new[k].state = "evicted"
        \/ IsActive(store, k) /\ new[k].state = "interrupted"
  BY <1>2, <1>3, RecoveredStore
<1>6. Follows(new, store)
  BY <1>4, <1>5 DEF Follows, IsActive, ActiveStates, Prunable
<1>7. QED
  BY <1>1, <1>3, <1>6, WhatIsWritten

LEMMA ResumeWrites ==
  ASSUME StoreOK(store), NEW h \in Host, NEW j \in Job, Resume(h, j)
  PROVE  StoreOK(store') /\ Follows(store', store)
<1> DEFINE n   == Recovered(h)[j].attempt + 1
           new == Claimed(Recovered(h), h, j, n)
<1>1. /\ Write(new) \/ FailToWrite(new)
      /\ Recovered(h)[j].state = "interrupted" /\ n <= MaxAttempts
  BY DEF Resume
<1>2. n \in 0 .. MaxAttempts
  BY <1>1, RecoveredStore, JobsAssumption DEF StoreOK, StoredJob
<1>3. StoreOK(new) /\ new[j].attempt = n /\ \A k \in Job : k # j => new[k] = Recovered(h)[k]
  BY <1>2, RecoveredStore, ClaimedStore
<1>4. Follows(new, store)
  <2> SUFFICES ASSUME NEW k \in Job
               PROVE  /\ store[k].state \in Prunable => new[k] = store[k] \/ new[k].state = "evicted"
                      /\ store[k].state = "interrupted" /\ IsActive(new, k) =>
                           new[k].attempt = store[k].attempt + 1
    BY DEF Follows
  <2>1. CASE k = j
    BY <1>1, <1>3, <2>1, RecoveredStore DEF IsActive, ActiveStates, Prunable
  <2>2. CASE k # j
    BY <1>3, <2>2, RecoveredStore DEF IsActive, ActiveStates, Prunable
  <2>3. QED
    BY <2>1, <2>2
<1>5. QED
  BY <1>1, <1>3, <1>4, WhatIsWritten

LEMMA AdmitWrites ==
  ASSUME StoreOK(store), NEW a \in Attempt, Admit(a) PROVE StoreOK(store') /\ Follows(store', store)
<1> DEFINE new == With(store, a[1], "running")
<1>1. \/ UNCHANGED store
      \/ store[a[1]].state = "starting" /\ (Write(new) \/ FailToWrite(new))
  BY DEF Admit, OnRecord, disk
<1>2. CASE UNCHANGED store
  BY <1>2, StoreFollowsItself
<1>3. CASE store[a[1]].state = "starting" /\ (Write(new) \/ FailToWrite(new))
  <2>1. a[1] \in Job /\ IsActive(store, a[1]) /\ "running" \in States
    BY <1>3 DEF Attempt, IsActive, ActiveStates, States
  <2>2. StoreOK(new) /\ \A k \in Job : k # a[1] => new[k] = store[k]
    BY <2>1, WithState
  <2>3. Follows(new, store)
    BY <1>3, <2>1, <2>2 DEF Follows, IsActive, ActiveStates, Prunable
  <2>4. QED
    BY <1>3, <2>2, <2>3, WhatIsWritten
<1>4. QED
  BY <1>1, <1>2, <1>3

(* An outcome is written on an active job only.                            *)
LEMMA SettledWrites ==
  ASSUME StoreOK(store), NEW a \in Attempt, NEW given \in Prunable \cup {"interrupted"},
         Write(Settled(a, given)) \/ FailToWrite(Settled(a, given))
  PROVE  StoreOK(store') /\ Follows(store', store)
<1> DEFINE new == Settled(a, given)
<1>1. a[1] \in Job /\ given \in States /\ given \notin ActiveStates
  BY DEF Attempt, States, ActiveStates, Prunable
<1>2. CASE new = store
  BY <1>2, StoreFollowsItself, WhatIsWritten
<1>3. CASE IsActive(store, a[1]) /\ new = With(store, a[1], given)
  <2>1. StoreOK(new) /\ new[a[1]].state = given /\ \A k \in Job : k # a[1] => new[k] = store[k]
    BY <1>1, <1>3, WithState
  <2>2. Follows(new, store)
    BY <1>1, <1>3, <2>1 DEF Follows, IsActive, ActiveStates, Prunable
  <2>3. QED
    BY <2>1, <2>2, WhatIsWritten
<1>4. QED
  BY <1>2, <1>3 DEF Settled

LEMMA CancelWrites ==
  ASSUME StoreOK(store), NEW h \in Host, NEW j \in Job, Cancel(h, j)
  PROVE  StoreOK(store') /\ Follows(store', store)
<1> DEFINE new == With(Recovered(h), j, "cancelled")
<1>1. /\ Write(new) \/ FailToWrite(new)
      /\ Recovered(h)[j].state \in ActiveStates \cup {"interrupted"}
  BY DEF Cancel
<1>2. "cancelled" \in States /\ "cancelled" \notin ActiveStates
  BY DEF States, ActiveStates, Prunable
<1>3. StoreOK(new) /\ new[j].state = "cancelled" /\ \A k \in Job : k # j => new[k] = Recovered(h)[k]
  BY <1>2, RecoveredStore, WithState
<1>4. Follows(new, store)
  <2> SUFFICES ASSUME NEW k \in Job
               PROVE  /\ store[k].state \in Prunable => new[k] = store[k] \/ new[k].state = "evicted"
                      /\ store[k].state = "interrupted" /\ IsActive(new, k) =>
                           new[k].attempt = store[k].attempt + 1
    BY DEF Follows
  <2>1. CASE k = j
    BY <1>1, <1>3, <2>1, RecoveredStore DEF IsActive, ActiveStates, Prunable
  <2>2. CASE k # j
    BY <1>3, <2>2, RecoveredStore DEF IsActive, ActiveStates, Prunable
  <2>3. QED
    BY <2>1, <2>2
<1>5. QED
  BY <1>1, <1>3, <1>4, WhatIsWritten

(* Whatever a step of the supervisors does, the store follows itself.      *)
LEMMA EveryStepFollows ==
  ASSUME JobsInv, [JobsNext]_jobVars PROVE StoreOK(store') /\ Follows(store', store)
<1>1. StoreOK(store)
  BY DEF JobsInv
<1>2. CASE UNCHANGED store
  BY <1>1, <1>2, StoreFollowsItself
<1>3. ASSUME NEW h \in Host, NEW j \in Job, JobCall(h, j) \/ StopCancelled(h, j)
      PROVE  StoreOK(store') /\ Follows(store', store)
  BY <1>1, <1>2, <1>3, StartWrites, ResumeWrites, CancelWrites DEF JobCall, StopCancelled, disk
<1>4. ASSUME NEW a \in Attempt, AttemptStep(a) \/ OperationEnds(a)
      PROVE  StoreOK(store') /\ Follows(store', store)
  <2>1. CASE Launch(a) \/ TimedOut(a) \/ OperationEnds(a)
    BY <1>2, <2>1 DEF Launch, TimedOut, OperationEnds, disk
  <2>2. CASE Admit(a)
    BY <1>1, <2>2, AdmitWrites
  <2>3. CASE InterruptUnlaunched(a)
    BY <1>1, <2>3, SettledWrites DEF InterruptUnlaunched
  <2>4. CASE SettleOperation(a)
    <3>1. outcome[a] \in Prunable \cup {"interrupted"}
      BY <2>4, JobsAssumption DEF JobsInv, SettleOperation, Is, Prunable
    <3>2. QED
      BY <1>1, <2>4, <3>1, SettledWrites DEF SettleOperation
  <2>5. QED
    BY <1>4, <2>1, <2>2, <2>3, <2>4 DEF AttemptStep
<1>5. ASSUME NEW e \in ending, StopOperation(e) PROVE StoreOK(store') /\ Follows(store', store)
  BY <1>1, <1>5, SettledWrites DEF JobsInv, StopOperation
<1>6. ASSUME NEW h \in Host, Look(h) \/ Retire(h) \/ Close(h) \/ Closed(h) \/ ProcessDies(ProcessOf[h])
      PROVE  StoreOK(store') /\ Follows(store', store)
  <2>1. CASE Look(h)
    BY <1>1, <2>1, RecoveredStore, RecoveryFollows, WhatIsWritten DEF Look
  <2>2. CASE ~Look(h)
    BY <1>2, <1>6, <2>2 DEF Retire, Close, Stop, Closed, ProcessDies, disk
  <2>3. QED
    BY <2>1, <2>2
<1>7. CASE UNCHANGED jobVars
  BY <1>2, <1>7 DEF jobVars
<1>8. QED
  BY <1>3, <1>4, <1>5, <1>6, <1>7 DEF JobsNext, EndingStep

(* The rest of the invariant: only #settle of an operation needs it.       *)
MemoryOK ==
  /\ runner \in [Attempt -> Host \cup {NoHost}]
  /\ phase \in [Attempt -> {"none", "assigned", "admitted", "unlaunched", "running", "ended", "over"}]
  /\ outcome \in [Attempt -> Results \cup {"none"}]
  /\ \A a \in Attempt : phase[a] = "ended" => outcome[a] \in Results
  /\ current \in [Host -> [Job -> 0 .. MaxAttempts]]
EndingOK ==
  /\ ending \subseteq [attempt : Attempt, state : Prunable \cup {"interrupted"}]
  /\ cancelling \subseteq Host \X Job

LEMMA LaunchesKeepsMemory ==
  ASSUME JobsInv, NEW h \in Host, NEW a \in Attempt, Launches(h, a) \/ UNCHANGED memory PROVE MemoryOK'
<1>1. MemoryOK
  BY DEF JobsInv, MemoryOK
<1>2. CASE UNCHANGED memory
  BY <1>1, <1>2 DEF memory, MemoryOK
<1>3. CASE Launches(h, a)
  BY <1>1, <1>3 DEF Launches, MemoryOK
<1>4. QED
  BY <1>2, <1>3

LEMMA CallKeepsInv ==
  ASSUME JobsInv, NEW h \in Host, NEW j \in Job, JobCall(h, j) \/ StopCancelled(h, j)
  PROVE  MemoryOK' /\ EndingOK'
<1>1. MemoryOK /\ EndingOK
  BY DEF JobsInv, MemoryOK, EndingOK
<1>2. CASE Start(h, j)
  <2>1. <<j, 1>> \in Attempt
    BY JobsAssumption DEF Attempt
  <2>2. EndingOK' /\ (Launches(h, <<j, 1>>) \/ UNCHANGED memory)
    BY <1>1, <1>2 DEF Start, stopping, EndingOK
  <2>3. QED
    BY <2>1, <2>2, LaunchesKeepsMemory
<1>3. CASE Resume(h, j)
  <2> DEFINE n == Recovered(h)[j].attempt + 1
  <2>1. n <= MaxAttempts /\ n \in Nat /\ n > 0
    BY <1>3, RecoveredStore, JobsAssumption DEF JobsInv, Resume, StoreOK, StoredJob
  <2>2. <<j, n>> \in Attempt
    BY <2>1, JobsAssumption DEF Attempt
  <2>3. EndingOK' /\ (Launches(h, <<j, n>>) \/ UNCHANGED memory)
    BY <1>1, <1>3 DEF Resume, stopping, EndingOK
  <2>4. QED
    BY <2>2, <2>3, LaunchesKeepsMemory
<1>4. CASE Cancel(h, j)
  BY <1>1, <1>4 DEF Cancel, memory, MemoryOK, EndingOK
<1>5. CASE StopCancelled(h, j)
  <2>1. MemoryOK'
    BY <1>1, <1>5 DEF StopCancelled, memory, MemoryOK
  <2>2. current[h][j] # 0 => <<j, current[h][j]>> \in Attempt
    BY <1>1, JobsAssumption DEF MemoryOK, Attempt
  <2>3. EndingOK'
    BY <1>1, <1>5, <2>2 DEF StopCancelled, EndingOK, Ending, Prunable
  <2>4. QED
    BY <2>1, <2>3
<1>6. QED
  BY <1>2, <1>3, <1>4, <1>5 DEF JobCall

LEMMA EntryIsEntry ==
  ASSUME current \in [Host -> [Job -> 0 .. MaxAttempts]], NEW h, NEW j \in Job, NEW n \in 0 .. MaxAttempts
  PROVE  [current EXCEPT ![h][j] = n] \in [Host -> [Job -> 0 .. MaxAttempts]]
<1>1. CASE h \in Host
  BY <1>1
<1>2. CASE h \notin Host
  BY <1>2
<1>3. QED
  BY <1>1, <1>2

LEMMA AttemptKeepsInv ==
  ASSUME JobsInv, NEW a \in Attempt, AttemptStep(a) \/ OperationEnds(a) PROVE MemoryOK' /\ EndingOK'
<1>1. MemoryOK /\ EndingOK
  BY DEF JobsInv, MemoryOK, EndingOK
<1>2. a[1] \in Job /\ a[2] \in 0 .. MaxAttempts
  BY JobsAssumption DEF Attempt
<1>3. \A n \in 0 .. MaxAttempts :
        [current EXCEPT ![runner[a]][a[1]] = n] \in [Host -> [Job -> 0 .. MaxAttempts]]
  BY <1>1, <1>2, EntryIsEntry DEF MemoryOK
<1>4. 0 \in 0 .. MaxAttempts
  BY JobsAssumption
<1>5. CASE Launch(a)
  <2>1. /\ UNCHANGED <<runner, outcome, ending, cancelling>>
        /\ \E to \in {"admitted", "unlaunched"} : phase' = [phase EXCEPT ![a] = to]
        /\ current' = current \/ current' = [current EXCEPT ![runner[a]][a[1]] = a[2]]
    BY <1>5 DEF Launch, To, Enter, stopping
  <2>2. current' \in [Host -> [Job -> 0 .. MaxAttempts]]
    BY <1>1, <1>2, <1>3, <2>1 DEF MemoryOK
  <2>3. QED
    BY <1>1, <2>1, <2>2 DEF MemoryOK, EndingOK
<1>6. CASE Admit(a)
  <2>1. /\ UNCHANGED <<runner, outcome, ending, cancelling>>
        /\ \E to \in {"running", "unlaunched"} : phase' = [phase EXCEPT ![a] = to]
        /\ current' = current \/ current' = [current EXCEPT ![runner[a]][a[1]] = 0]
    BY <1>6 DEF Admit, To, Enter, stopping
  <2>2. current' \in [Host -> [Job -> 0 .. MaxAttempts]]
    BY <1>1, <1>3, <1>4, <2>1 DEF MemoryOK
  <2>3. QED
    BY <1>1, <2>1, <2>2 DEF MemoryOK, EndingOK
<1>7. CASE InterruptUnlaunched(a) \/ SettleOperation(a)
  <2>1. /\ UNCHANGED <<runner, outcome, ending, cancelling>> /\ phase' = [phase EXCEPT ![a] = "over"]
        /\ current' = current \/ current' = [current EXCEPT ![runner[a]][a[1]] = 0]
    BY <1>7 DEF InterruptUnlaunched, SettleOperation, Forgotten, To, Enter, stopping
  <2>2. current' \in [Host -> [Job -> 0 .. MaxAttempts]]
    BY <1>1, <1>3, <1>4, <2>1 DEF MemoryOK
  <2>3. QED
    BY <1>1, <2>1, <2>2 DEF MemoryOK, EndingOK
<1>8. CASE OperationEnds(a)
  <2>1. CASE a \in signalled
    <3>1. /\ UNCHANGED <<runner, outcome, ending, cancelling>> /\ phase' = [phase EXCEPT ![a] = "over"]
          /\ current' = current \/ current' = [current EXCEPT ![runner[a]][a[1]] = 0]
      BY <1>8, <2>1 DEF OperationEnds, Forgotten, To, Enter, stopping
    <3>2. current' \in [Host -> [Job -> 0 .. MaxAttempts]]
      BY <1>1, <1>3, <1>4, <3>1 DEF MemoryOK
    <3>3. QED
      BY <1>1, <3>1, <3>2 DEF MemoryOK, EndingOK
  <2>2. CASE a \notin signalled
    <3>1. PICK result \in Results : outcome' = [outcome EXCEPT ![a] = result]
      BY <1>8, <2>2 DEF OperationEnds
    <3>2. /\ UNCHANGED <<runner, current, ending, cancelling>> /\ phase' = [phase EXCEPT ![a] = "ended"]
      BY <1>8, <2>2 DEF OperationEnds, To, stopping
    <3>3. QED
      BY <1>1, <3>1, <3>2 DEF MemoryOK, EndingOK
  <2>3. QED
    BY <2>1, <2>2
<1>9. CASE TimedOut(a)
  BY <1>1, <1>9 DEF TimedOut, Ending, memory, MemoryOK, EndingOK, Prunable
<1>10. QED
  BY <1>5, <1>6, <1>7, <1>8, <1>9 DEF AttemptStep

LEMMA HostKeepsInv ==
  ASSUME JobsInv, NEW h \in Host,
         Look(h) \/ Retire(h) \/ Close(h) \/ Closed(h) \/ ProcessDies(ProcessOf[h])
  PROVE  MemoryOK' /\ EndingOK'
<1>1. MemoryOK /\ EndingOK
  BY DEF JobsInv, MemoryOK, EndingOK
<1>2. CASE Look(h) \/ Closed(h)
  BY <1>1, <1>2 DEF Look, Closed, memory, stopping, MemoryOK, EndingOK
<1>3. CASE Retire(h) \/ Close(h)
  <2>1. \A j \in Job : current[h][j] # 0 => <<j, current[h][j]>> \in Attempt
    BY <1>1, JobsAssumption DEF MemoryOK, Attempt
  <2>2. /\ UNCHANGED <<memory, cancelling>>
        /\ ending' = ending \cup {Ending(<<j, current[h][j]>>, "interrupted") : j \in {k \in Job : current[h][k] # 0}}
    BY <1>3 DEF Retire, Close, Stop
  <2>3. QED
    BY <1>1, <2>1, <2>2 DEF memory, MemoryOK, EndingOK, Ending
<1>4. CASE ProcessDies(ProcessOf[h])
  <2>1. /\ UNCHANGED <<runner, outcome>> /\ ending' \subseteq ending /\ cancelling' \subseteq cancelling
        /\ current' = [g \in Host |-> IF g \in Dying(ProcessOf[h]) THEN [j \in Job |-> 0] ELSE current[g]]
        /\ phase' = [a \in Attempt |-> IF runner[a] \in Dying(ProcessOf[h]) THEN "over" ELSE phase[a]]
    BY <1>4 DEF ProcessDies
  <2>2. QED
    BY <1>1, <2>1, JobsAssumption DEF MemoryOK, EndingOK
<1>5. QED
  BY <1>2, <1>3, <1>4

LEMMA JobsStep == ASSUME JobsInv, [JobsNext]_jobVars PROVE JobsInv'
<1>1. StoreOK(store')
  BY EveryStepFollows
<1>2. ASSUME NEW e \in ending, StopOperation(e) PROVE MemoryOK' /\ EndingOK'
  BY <1>2 DEF StopOperation, memory, JobsInv, MemoryOK, EndingOK
<1>3. UNCHANGED jobVars => MemoryOK' /\ EndingOK'
  BY DEF jobVars, memory, stopping, JobsInv, MemoryOK, EndingOK
<1>4. MemoryOK' /\ EndingOK'
  <2>1. ASSUME NEW h \in Host, NEW j \in Job, JobCall(h, j) \/ StopCancelled(h, j)
        PROVE  MemoryOK' /\ EndingOK'
    BY <2>1, CallKeepsInv
  <2>2. ASSUME NEW a \in Attempt, AttemptStep(a) \/ OperationEnds(a) PROVE MemoryOK' /\ EndingOK'
    BY <2>2, AttemptKeepsInv
  <2>3. ASSUME NEW h \in Host,
               Look(h) \/ Retire(h) \/ Close(h) \/ Closed(h) \/ ProcessDies(ProcessOf[h])
        PROVE  MemoryOK' /\ EndingOK'
    BY <2>3, HostKeepsInv
  <2>4. QED
    BY <1>2, <1>3, <2>1, <2>2, <2>3 DEF JobsNext, EndingStep
<1>5. QED
  BY <1>1, <1>4 DEF JobsInv, MemoryOK, EndingOK, StoreOK, IsActive

LEMMA JobsInvHolds == JobsSpec => []JobsInv
  BY JobsInitHolds, JobsStep, PTL DEF JobsSpec

(* What a step may do to a job that is finished, or interrupted.           *)
StaysRecorded(j) ==
  /\ store[j].state \in Prunable => store'[j] = store[j] \/ store'[j].state = "evicted"
  /\ store[j].state = "interrupted" /\ IsActive(store', j) =>
       store'[j].attempt = store[j].attempt + 1

LEMMA FinishedStay == JobsInv /\ [JobsNext]_jobVars => [\A j \in Job : StaysRecorded(j)]_jobVars
  BY EveryStepFollows DEF Follows, StaysRecorded

(* A finished job stays as it is and the record of an attempt is not       *)
(* reopened, whatever hosts, processes and writes do: DurableJobSupervisor.*)
THEOREM FinishedJobsStayHolds == JobsSpec => FinishedJobsStay
BY JobsInvHolds, FinishedStay, PTL DEF JobsSpec, FinishedJobsStay, StaysRecorded

-----------------------------------------------------------------------------
(* The records of jobs and the operations of hosts.                        *)

Entered  == {"admitted", "running", "ended"}
Underway == Entered \cup {"assigned"}
Statuses == {"open", "retired", "closing", "stopped", "dead"}

HostShape ==
  /\ status \in [Host -> Statuses]
  /\ signalled \subseteq Attempt /\ failures \in 0 .. MaxFailures

(* Attempts are numbered as they are recorded.                             *)
AttemptsOnRecord ==
  /\ \A a \in Attempt : phase[a] # "none" <=> runner[a] \in Host
  /\ \A a \in Attempt : phase[a] # "none" => a[2] <= store[a[1]].attempt
  /\ \A j \in Job : store[j].state = "absent" => store[j].attempt = 0

(* #active of a host has the attempts of its jobs that were admitted and   *)
(* are not over.                                                           *)
EntriesMatch ==
  /\ \A a \in Attempt : phase[a] \in Entered => Entry(a) = a[2]
  /\ \A h \in Host, j \in Job : current[h][j] # 0 =>
       runner[<<j, current[h][j]>>] = h /\ phase[<<j, current[h][j]>>] \in Entered

(* Nobody takes the job of an open host from it: what it has under way is  *)
(* the last attempt on record.                                             *)
OpenHostsOwn ==
  \A a \in Attempt : phase[a] \in Underway /\ Open(runner[a]) =>
    /\ store[a[1]].attempt = a[2] /\ store[a[1]].state # "interrupted"
    /\ IsActive(store, a[1]) => store[a[1]].host = runner[a]

EndingsKnown ==
  \A e \in ending :
    /\ phase[e.attempt] # "none" /\ e.state \in {"timed_out", "cancelled", "interrupted"}
    /\ e.state = "interrupted" => ~Open(runner[e.attempt])

(* What a host that is not open any more has admitted is being stopped.    *)
LeavingStops ==
  \A a \in Attempt : phase[a] \in Entered /\ ~Open(runner[a]) =>
    a \in signalled \/ \E e \in ending : e.attempt = a

SuccessIsOver ==
  \A j \in Job : store[j].state = "succeeded" =>
    <<j, store[j].attempt>> \in Attempt /\ phase[<<j, store[j].attempt>>] = "over"

RecordsInv ==
  /\ JobsInv /\ HostShape /\ AttemptsOnRecord /\ EntriesMatch /\ OpenHostsOwn
  /\ EndingsKnown /\ LeavingStops /\ SuccessIsOver /\ RecordsTellTheTruth

LEMMA RecordsInitHolds == JobsInit => RecordsInv
<1> SUFFICES ASSUME JobsInit PROVE RecordsInv
  OBVIOUS
<1>1. JobsInv
  BY JobsInitHolds
<1>2. HostShape
  BY JobsAssumption DEF JobsInit, HostShape, Statuses
<1>3. /\ \A a \in Attempt : phase[a] = "none" /\ runner[a] \notin Host /\ a[1] \in Job
      /\ \A j \in Job : store[j].state = "absent" /\ store[j].attempt = 0
      /\ \A h \in Host, j \in Job : current[h][j] = 0
      /\ ending = {}
  BY JobsAssumption DEF JobsInit, Attempt
<1>4. AttemptsOnRecord /\ EntriesMatch /\ OpenHostsOwn /\ EndingsKnown /\ LeavingStops /\ SuccessIsOver
  BY <1>3 DEF AttemptsOnRecord, EntriesMatch, OpenHostsOwn, EndingsKnown, LeavingStops, SuccessIsOver,
              Entered, Underway
<1>5. RecordsTellTheTruth
  BY <1>3 DEF RecordsTellTheTruth, Is
<1>6. QED
  BY <1>1, <1>2, <1>4, <1>5 DEF RecordsInv

LEMMA AttemptIs ==
  \A a \in Attempt : a = <<a[1], a[2]>> /\ a[1] \in Job /\ a[2] \in 1 .. MaxAttempts
BY DEF Attempt

(* No host takes the job of what an open host has under way for abandoned. *)
LEMMA UndisturbedJob ==
  ASSUME RecordsInv, NEW a \in Attempt, phase[a] \in Underway, Open(runner[a]),
         NEW h \in Host, Open(h)
  PROVE  Recovered(h)[a[1]] = store[a[1]]
<1>1. a[1] \in Job /\ a[2] \in 1 .. MaxAttempts /\ a = <<a[1], a[2]>>
  BY AttemptIs
<1>2. runner[a] \in Host /\ runner[a] # NoHost
  BY JobsAssumption DEF RecordsInv, AttemptsOnRecord, Underway, Entered
<1>3. IsActive(store, a[1]) => store[a[1]].host = runner[a]
  BY DEF RecordsInv, OpenHostsOwn
<1>4. ~Abandoned(h, a[1])
  <2> SUFFICES ASSUME Abandoned(h, a[1]) PROVE FALSE
    OBVIOUS
  <2>1. CASE h = runner[a] /\ phase[a] \in {"assigned", "admitted"}
    BY <1>1, <2>1 DEF Abandoned, Launching
  <2>2. CASE h = runner[a] /\ phase[a] \in {"running", "ended"}
    <3>1. current[h][a[1]] = a[2]
      BY <2>2 DEF RecordsInv, EntriesMatch, Entered, Entry
    <3>2. QED
      BY <1>1, <3>1 DEF Abandoned
  <2>3. CASE h # runner[a]
    <3>1. ~OwnerLives(h, runner[a])
      BY <1>3, <2>3 DEF Abandoned
    <3>2. status[runner[a]] = "open"
      BY DEF Open
    <3>3. QED
      BY <1>2, <3>1, <3>2 DEF OwnerLives
  <2>4. QED
    BY <2>1, <2>2, <2>3 DEF Underway, Entered
<1>5. QED
  BY <1>1, <1>4 DEF Recovered

(* The entry of an open host is the last attempt of the job.               *)
LEMMA EntryIsLast ==
  ASSUME RecordsInv, NEW h \in Host, Open(h), NEW j \in Job, current[h][j] # 0
  PROVE  /\ <<j, current[h][j]>> \in Attempt /\ runner[<<j, current[h][j]>>] = h
         /\ current[h][j] = store[j].attempt
<1> DEFINE b == <<j, current[h][j]>>
<1>1. current[h][j] \in 1 .. MaxAttempts
  BY JobsAssumption DEF RecordsInv, JobsInv
<1>2. b \in Attempt /\ b[1] = j /\ b[2] = current[h][j]
  BY <1>1 DEF Attempt
<1>3. runner[b] = h /\ phase[b] \in Entered
  BY DEF RecordsInv, EntriesMatch
<1>4. phase[b] \in Underway
  BY <1>3 DEF Underway
<1>5. store[b[1]].attempt = b[2]
  BY <1>2, <1>3, <1>4 DEF RecordsInv, OpenHostsOwn
<1>6. QED
  BY <1>2, <1>3, <1>5

(* What a step may do to the job an open host has under way.               *)
JobMoves(a) ==
  \/ store'[a[1]] = store[a[1]]
  \/ /\ store'[a[1]].attempt = store[a[1]].attempt
     /\ \/ store[a[1]].state \in Prunable /\ store'[a[1]].state = "evicted"
        \/ /\ Admit(a) /\ store[a[1]].state = "starting" /\ store'[a[1]].state = "running"
           /\ store'[a[1]].host = store[a[1]].host
        \/ /\ store'[a[1]].state = "cancelled"
           /\ failures' > 0 \/ <<runner[a], a[1]>> \in cancelling'
        \/ store'[a[1]].state \in {"timed_out", "cancelled"} /\ a \in signalled'

LEMMA WhatMayBeWritten ==
  ASSUME HostShape, NEW new, Write(new) \/ FailToWrite(new)
  PROVE  /\ store' \in {store, new} /\ failures' \in 0 .. MaxFailures /\ failures' >= failures
         /\ ~Write(new) => failures' > 0
BY JobsAssumption DEF HostShape, Write, FailToWrite

LEMMA TurnedOver ==
  ASSUME NEW jobs, StoreOK(jobs), NEW j \in Job, NEW given \in Prunable \cup {"interrupted", "evicted"}
  PROVE  /\ StoreOK(With(jobs, j, given)) /\ With(jobs, j, given)[j].state = given
         /\ With(jobs, j, given)[j].attempt = jobs[j].attempt
         /\ \A k \in Job : k # j => With(jobs, j, given)[k] = jobs[k]
<1>1. given \in States /\ given \notin ActiveStates
  BY DEF States, ActiveStates, Prunable
<1>2. QED
  BY <1>1, WithState

(* What is pruned had ended, or was interrupted.                           *)
LEMMA PrunedJob ==
  ASSUME NEW jobs, StoreOK(jobs), NEW pruned \in Pruned(jobs), NEW j \in Job
  PROVE  \/ pruned[j] = jobs[j]
         \/ /\ jobs[j].state \in Prunable \cup {"interrupted"} /\ pruned[j].state = "evicted"
            /\ pruned[j].attempt = jobs[j].attempt
<1>1. CASE pruned = jobs
  BY <1>1
<1>2. CASE \E k \in Evictable(jobs) : pruned = With(jobs, k, "evicted")
  <2>1. PICK k \in Evictable(jobs) : pruned = With(jobs, k, "evicted")
    BY <1>2
  <2>2. k \in Job /\ jobs[k].state \in Prunable \cup {"interrupted"}
    BY DEF Evictable
  <2>3. QED
    BY <2>1, <2>2, TurnedOver
<1>3. QED
  BY <1>1, <1>2 DEF Pruned

LEMMA StartLeavesJob ==
  ASSUME RecordsInv, NEW a \in Attempt, phase[a] \in Underway, Open(runner[a]),
         NEW h \in Host, NEW j \in Job, Start(h, j)
  PROVE  JobMoves(a)
<1>1. PICK pruned \in Pruned(Recovered(h)) :
        Write(Claimed(pruned, h, j, 1)) \/ FailToWrite(Claimed(pruned, h, j, 1))
  BY DEF Start
<1> DEFINE new == Claimed(pruned, h, j, 1)
<1>2. a[1] \in Job /\ a[2] # 0 /\ StoreOK(store) /\ HostShape
  BY AttemptIs DEF RecordsInv, JobsInv
<1>3. a[1] # j
  <2>1. store[j].attempt = 0
    BY DEF Start, RecordsInv, AttemptsOnRecord
  <2>2. store[a[1]].attempt = a[2]
    BY DEF RecordsInv, OpenHostsOwn
  <2>3. QED
    BY <1>2, <2>1, <2>2
<1>4. Open(h)
  BY DEF Start, Calls
<1>5. Recovered(h)[a[1]] = store[a[1]] /\ StoreOK(Recovered(h))
  BY <1>2, <1>4, UndisturbedJob, RecoveredStore
<1>6. store[a[1]].state # "interrupted"
  BY DEF RecordsInv, OpenHostsOwn
<1>7. \/ pruned[a[1]] = store[a[1]]
      \/ /\ store[a[1]].state \in Prunable /\ pruned[a[1]].state = "evicted"
         /\ pruned[a[1]].attempt = store[a[1]].attempt
  BY <1>2, <1>5, <1>6, PrunedJob
<1>8. new[a[1]] = pruned[a[1]]
  BY <1>2, <1>3 DEF Claimed, Change
<1>9. store' \in {store, new}
  BY <1>1, <1>2, WhatMayBeWritten
<1>10. QED
  BY <1>7, <1>8, <1>9 DEF JobMoves

LEMMA ResumeLeavesJob ==
  ASSUME RecordsInv, NEW a \in Attempt, phase[a] \in Underway, Open(runner[a]),
         NEW h \in Host, NEW j \in Job, Resume(h, j)
  PROVE  JobMoves(a)
<1> DEFINE n   == Recovered(h)[j].attempt + 1
           new == Claimed(Recovered(h), h, j, n)
<1>1. /\ Write(new) \/ FailToWrite(new)
      /\ Recovered(h)[j].state = "interrupted" /\ Open(h)
  BY DEF Resume, Calls
<1>2. a[1] \in Job /\ HostShape
  BY AttemptIs DEF RecordsInv
<1>3. Recovered(h)[a[1]] = store[a[1]] /\ store[a[1]].state # "interrupted"
  BY <1>1, UndisturbedJob DEF RecordsInv, OpenHostsOwn
<1>4. new[a[1]] = store[a[1]]
  BY <1>1, <1>2, <1>3 DEF Claimed, Change
<1>5. store' \in {store, new}
  BY <1>1, <1>2, WhatMayBeWritten
<1>6. QED
  BY <1>4, <1>5 DEF JobMoves

LEMMA CancelLeavesJob ==
  ASSUME RecordsInv, NEW a \in Attempt, phase[a] \in Underway, Open(runner[a]),
         NEW h \in Host, NEW j \in Job, Cancel(h, j)
  PROVE  JobMoves(a)
<1> DEFINE new == With(Recovered(h), j, "cancelled")
<1>1. /\ Write(new) \/ FailToWrite(new)
      /\ Recovered(h)[j].state \in ActiveStates \cup {"interrupted"} /\ Open(h)
  BY DEF Cancel, Calls
<1>2. a = <<a[1], a[2]>> /\ a[1] \in Job /\ StoreOK(store) /\ HostShape
  BY AttemptIs DEF RecordsInv, JobsInv
<1>3. /\ Recovered(h)[a[1]] = store[a[1]] /\ store[a[1]].state # "interrupted"
      /\ store[a[1]].attempt = a[2]
  BY <1>1, UndisturbedJob DEF RecordsInv, OpenHostsOwn
<1>4. /\ new[j].state = "cancelled" /\ new[j].attempt = Recovered(h)[j].attempt
      /\ \A k \in Job : k # j => new[k] = Recovered(h)[k]
  BY <1>2, RecoveredStore, TurnedOver DEF Prunable
<1>5. store' \in {store, new} /\ (~Write(new) => failures' > 0)
  BY <1>1, <1>2, WhatMayBeWritten
<1>6. CASE j # a[1]
  BY <1>2, <1>3, <1>4, <1>5, <1>6 DEF JobMoves
<1>7. CASE j = a[1]
  <2>1. IsActive(store, j) /\ IsActive(Recovered(h), j)
    BY <1>1, <1>3, <1>7 DEF IsActive
  <2>2. Recovered(h)[j].host = runner[a]
    BY <1>2, <1>3, <1>7, <2>1 DEF RecordsInv, OpenHostsOwn
  <2>3. OwnerLives(h, runner[a])
    <3>1. status[runner[a]] = "open" /\ runner[a] # NoHost
      BY JobsAssumption DEF Open, RecordsInv, AttemptsOnRecord, Underway, Entered
    <3>2. QED
      BY <3>1 DEF OwnerLives
  <2>4. current[h][j] # 0
    BY <2>1, <2>2, <2>3 DEF Cancel
  <2>5. runner[a] = h
    <3>1. runner[<<j, current[h][j]>>] = h /\ current[h][j] = store[j].attempt
      BY <1>1, <2>4, EntryIsLast
    <3>2. <<j, current[h][j]>> = a
      BY <1>2, <1>3, <1>7, <3>1
    <3>3. QED
      BY <3>1, <3>2
  <2>6. CASE Write(new)
    <3>1. <<h, j>> \in cancelling'
      <4>1. \/ Write(new) /\ cancelling' = cancelling \cup {<<h, j>>}
            \/ FailToWrite(new)
        BY <2>4 DEF Cancel
      <4>2. ~FailToWrite(new)
        BY <2>6, <1>2 DEF Write, FailToWrite, HostShape
      <4>3. QED
        BY <4>1, <4>2
    <3>2. QED
      BY <1>3, <1>4, <1>5, <1>7, <2>5, <3>1 DEF JobMoves
  <2>7. CASE ~Write(new)
    BY <1>3, <1>4, <1>5, <1>7, <2>7 DEF JobMoves
  <2>8. QED
    BY <2>6, <2>7
<1>8. QED
  BY <1>6, <1>7

(* #settle changes the job of the attempt it is of, and only on record.    *)
LEMMA SettledLeavesJob ==
  ASSUME RecordsInv, NEW a \in Attempt, store[a[1]].attempt = a[2],
         NEW b \in Attempt, NEW given \in Prunable \cup {"interrupted"},
         Write(Settled(b, given)) \/ FailToWrite(Settled(b, given))
  PROVE  \/ store'[a[1]] = store[a[1]]
         \/ a = b /\ store'[a[1]].state = given /\ store'[a[1]].attempt = store[a[1]].attempt
<1>1. /\ a = <<a[1], a[2]>> /\ a[1] \in Job /\ b = <<b[1], b[2]>> /\ b[1] \in Job
      /\ StoreOK(store) /\ HostShape
  BY AttemptIs DEF RecordsInv, JobsInv
<1>2. store' \in {store, Settled(b, given)}
  BY <1>1, WhatMayBeWritten
<1>3. CASE Settled(b, given) = store
  BY <1>2, <1>3
<1>4. CASE store[b[1]].attempt = b[2] /\ Settled(b, given) = With(store, b[1], given)
  <2>1. /\ Settled(b, given)[b[1]].state = given
        /\ Settled(b, given)[b[1]].attempt = store[b[1]].attempt
        /\ \A k \in Job : k # b[1] => Settled(b, given)[k] = store[k]
    BY <1>1, <1>4, TurnedOver
  <2>2. CASE a[1] = b[1]
    <3>1. a = b
      BY <1>1, <1>4, <2>2
    <3>2. QED
      BY <1>2, <2>1, <3>1
  <2>3. CASE a[1] # b[1]
    BY <1>1, <1>2, <2>1, <2>3
  <2>4. QED
    BY <2>2, <2>3
<1>5. QED
  BY <1>3, <1>4 DEF Settled

LEMMA AttemptLeavesJob ==
  ASSUME RecordsInv, NEW a \in Attempt, phase[a] \in Underway, Open(runner[a]),
         phase'[a] \in Underway, NEW b \in Attempt, AttemptStep(b) \/ OperationEnds(b)
  PROVE  JobMoves(a)
<1>1. /\ a = <<a[1], a[2]>> /\ a[1] \in Job /\ b = <<b[1], b[2]>> /\ b[1] \in Job
      /\ StoreOK(store) /\ HostShape
  BY AttemptIs DEF RecordsInv, JobsInv
<1>2. /\ store[a[1]].attempt = a[2]
      /\ phase \in [Attempt -> {"none", "assigned", "admitted", "unlaunched", "running", "ended", "over"}]
  BY DEF RecordsInv, OpenHostsOwn, JobsInv
<1>3. CASE Launch(b) \/ TimedOut(b) \/ OperationEnds(b)
  BY <1>3 DEF Launch, TimedOut, OperationEnds, disk, JobMoves
<1>4. CASE Admit(b)
  <2> DEFINE new == With(store, b[1], "running")
  <2>1. \/ UNCHANGED store
        \/ OnRecord(b, "starting") /\ (Write(new) \/ FailToWrite(new))
    BY <1>4 DEF Admit, disk
  <2>2. CASE UNCHANGED store
    BY <2>2 DEF JobMoves
  <2>3. CASE OnRecord(b, "starting") /\ (Write(new) \/ FailToWrite(new))
    <3>1. store' \in {store, new}
      BY <1>1, <2>3, WhatMayBeWritten
    <3>2. CASE a[1] = b[1]
      <4>1. a = b
        BY <1>1, <1>2, <2>3, <3>2 DEF OnRecord
      <4>2. new[a[1]] = Turned(store[a[1]], "running") /\ store[a[1]] \in StoredJob
        BY <1>1, <4>1 DEF With, Change, StoreOK
      <4>3. /\ new[a[1]].state = "running" /\ new[a[1]].attempt = store[a[1]].attempt
            /\ new[a[1]].host = store[a[1]].host
        BY <4>2 DEF Turned, ActiveStates, StoredJob
      <4>4. store[a[1]].state = "starting"
        BY <2>3, <4>1 DEF OnRecord
      <4>5. QED
        BY <1>4, <3>1, <4>1, <4>3, <4>4 DEF JobMoves
    <3>3. CASE a[1] # b[1]
      BY <1>1, <3>1, <3>3 DEF With, Change, JobMoves
    <3>4. QED
      BY <3>2, <3>3
  <2>4. QED
    BY <2>1, <2>2, <2>3
<1>5. CASE InterruptUnlaunched(b)
  <2>1. a # b
    BY <1>5 DEF InterruptUnlaunched, Is, Underway, Entered
  <2>2. QED
    BY <1>2, <1>5, <2>1, SettledLeavesJob DEF InterruptUnlaunched, JobMoves
<1>6. CASE SettleOperation(b)
  <2>1. a # b
    <3>1. phase'[b] = "over"
      BY <1>2, <1>6 DEF SettleOperation, To
    <3>2. QED
      BY <3>1 DEF Underway, Entered
  <2>2. outcome[b] \in Prunable \cup {"interrupted"}
    BY <1>6, JobsAssumption DEF RecordsInv, JobsInv, SettleOperation, Is, Prunable
  <2>3. QED
    BY <1>2, <1>6, <2>1, <2>2, SettledLeavesJob DEF SettleOperation, JobMoves
<1>7. QED
  BY <1>3, <1>4, <1>5, <1>6 DEF AttemptStep

LEMMA StopLeavesJob ==
  ASSUME RecordsInv, NEW a \in Attempt, phase[a] \in Underway, Open(runner[a]),
         NEW e \in ending, StopOperation(e)
  PROVE  JobMoves(a)
<1>1. e.attempt \in Attempt /\ e.state \in Prunable \cup {"interrupted"}
  BY DEF RecordsInv, JobsInv
<1>2. store[a[1]].attempt = a[2]
  BY DEF RecordsInv, OpenHostsOwn
<1>3. \/ store'[a[1]] = store[a[1]]
      \/ /\ a = e.attempt /\ store'[a[1]].state = e.state
         /\ store'[a[1]].attempt = store[a[1]].attempt
  BY <1>1, <1>2, SettledLeavesJob DEF StopOperation
<1>4. CASE a = e.attempt
  <2>1. e.state \in {"timed_out", "cancelled"}
    BY <1>4 DEF RecordsInv, EndingsKnown
  <2>2. a \in signalled'
    BY <1>4 DEF StopOperation, Is, Underway, Entered
  <2>3. QED
    BY <1>3, <2>1, <2>2 DEF JobMoves
<1>5. QED
  BY <1>3, <1>4 DEF JobMoves

LEMMA JobOfOpenHost ==
  ASSUME RecordsInv, NEW a \in Attempt, phase[a] \in Underway, Open(runner[a]),
         phase'[a] \in Underway, [JobsNext]_jobVars
  PROVE  JobMoves(a)
<1>1. CASE UNCHANGED store
  BY <1>1 DEF JobMoves
<1>2. ASSUME NEW h \in Host, NEW j \in Job, JobCall(h, j) \/ StopCancelled(h, j)
      PROVE  JobMoves(a)
  BY <1>1, <1>2, StartLeavesJob, ResumeLeavesJob, CancelLeavesJob DEF JobCall, StopCancelled, disk
<1>3. ASSUME NEW b \in Attempt, AttemptStep(b) \/ OperationEnds(b) PROVE JobMoves(a)
  BY <1>3, AttemptLeavesJob
<1>4. ASSUME NEW e \in ending, StopOperation(e) PROVE JobMoves(a)
  BY <1>4, StopLeavesJob
<1>5. ASSUME NEW h \in Host, Look(h) \/ Retire(h) \/ Close(h) \/ Closed(h) \/ ProcessDies(ProcessOf[h])
      PROVE  JobMoves(a)
  <2>1. CASE Look(h)
    <3>1. Open(h) /\ (Write(Recovered(h)) \/ FailToWrite(Recovered(h)))
      BY <2>1 DEF Look, Calls
    <3>2. Recovered(h)[a[1]] = store[a[1]]
      BY <3>1, UndisturbedJob
    <3>3. store' \in {store, Recovered(h)}
      BY <3>1, WhatMayBeWritten DEF RecordsInv
    <3>4. QED
      BY <3>2, <3>3 DEF JobMoves
  <2>2. CASE ~Look(h)
    BY <1>1, <1>5, <2>2 DEF Retire, Close, Stop, Closed, ProcessDies, disk
  <2>3. QED
    BY <2>1, <2>2
<1>6. CASE UNCHANGED jobVars
  BY <1>1, <1>6 DEF jobVars
<1>7. QED
  BY <1>2, <1>3, <1>4, <1>5, <1>6 DEF JobsNext, EndingStep

(* What a step may do to the record of any job.                            *)
Grows(r, s) == s = r \/ (s.state \notin {"absent", "succeeded"} /\ s.attempt >= r.attempt)

Succeeds(j) ==
  /\ store'[j].state = "succeeded" /\ store'[j].attempt = store[j].attempt
  /\ <<j, store[j].attempt>> \in Attempt /\ outcome[<<j, store[j].attempt>>] = "succeeded"
  /\ SettleOperation(<<j, store[j].attempt>>)

LEMMA RecoveredGrows ==
  ASSUME StoreOK(store), NEW h \in Host, NEW j \in Job
  PROVE  Grows(store[j], Recovered(h)[j]) /\ Recovered(h)[j].attempt = store[j].attempt
BY RecoveredStore DEF StoreOK, StoredJob, Grows

LEMMA SettledGrows ==
  ASSUME RecordsInv, NEW b \in Attempt, NEW given \in Prunable \cup {"interrupted"},
         Write(Settled(b, given)) \/ FailToWrite(Settled(b, given)), NEW j \in Job
  PROVE  \/ Grows(store[j], store'[j])
         \/ /\ given = "succeeded" /\ b = <<j, store[j].attempt>>
            /\ store'[j].state = given /\ store'[j].attempt = store[j].attempt
<1>1. /\ b = <<b[1], b[2]>> /\ b[1] \in Job /\ StoreOK(store) /\ HostShape
      /\ store[j].attempt \in Nat
  BY AttemptIs DEF RecordsInv, JobsInv, StoreOK, StoredJob
<1>2. store' \in {store, Settled(b, given)}
  BY <1>1, WhatMayBeWritten
<1>3. CASE Settled(b, given) = store
  BY <1>2, <1>3 DEF Grows
<1>4. CASE store[b[1]].attempt = b[2] /\ Settled(b, given) = With(store, b[1], given)
  <2>1. /\ Settled(b, given)[b[1]].state = given
        /\ Settled(b, given)[b[1]].attempt = store[b[1]].attempt
        /\ \A k \in Job : k # b[1] => Settled(b, given)[k] = store[k]
    BY <1>1, <1>4, TurnedOver
  <2>2. CASE j = b[1]
    <3>1. given # "absent"
      BY DEF Prunable
    <3>2. QED
      BY <1>1, <1>2, <1>4, <2>1, <2>2, <3>1 DEF Grows
  <2>3. CASE j # b[1]
    BY <1>1, <1>2, <2>1, <2>3 DEF Grows
  <2>4. QED
    BY <2>2, <2>3
<1>5. QED
  BY <1>3, <1>4 DEF Settled

LEMMA CallGrows ==
  ASSUME RecordsInv, NEW h \in Host, NEW k \in Job, JobCall(h, k), NEW j \in Job
  PROVE  Grows(store[j], store'[j])
<1>1. /\ StoreOK(store) /\ HostShape /\ store[j].attempt \in Nat
      /\ StoreOK(Recovered(h)) /\ Recovered(h)[j] \in StoredJob
  BY RecoveredStore DEF RecordsInv, JobsInv, StoreOK, StoredJob
<1>2. Grows(store[j], Recovered(h)[j]) /\ Recovered(h)[j].attempt = store[j].attempt
  BY <1>1, RecoveredGrows
<1>3. CASE Start(h, k)
  <2>1. PICK pruned \in Pruned(Recovered(h)) :
          Write(Claimed(pruned, h, k, 1)) \/ FailToWrite(Claimed(pruned, h, k, 1))
    BY <1>3 DEF Start
  <2>2. store' \in {store, Claimed(pruned, h, k, 1)}
    BY <1>1, <2>1, WhatMayBeWritten
  <2>3. CASE j = k
    <3>1. store[j].attempt = 0
      BY <1>3, <2>3 DEF Start, RecordsInv, AttemptsOnRecord
    <3>2. Claimed(pruned, h, k, 1)[j] = [state |-> "starting", attempt |-> 1, host |-> h]
      BY <2>3 DEF Claimed, Change
    <3>3. QED
      BY <2>2, <3>1, <3>2 DEF Grows
  <2>4. CASE j # k
    <3>1. Claimed(pruned, h, k, 1)[j] = pruned[j]
      BY <2>4 DEF Claimed, Change
    <3>2. \/ pruned[j] = Recovered(h)[j]
          \/ pruned[j].state = "evicted" /\ pruned[j].attempt = Recovered(h)[j].attempt
      BY <1>1, PrunedJob
    <3>3. QED
      BY <1>1, <1>2, <2>2, <3>1, <3>2 DEF Grows
  <2>5. QED
    BY <2>3, <2>4
<1>4. CASE Resume(h, k)
  <2> DEFINE n   == Recovered(h)[k].attempt + 1
             new == Claimed(Recovered(h), h, k, n)
  <2>1. Write(new) \/ FailToWrite(new)
    BY <1>4 DEF Resume
  <2>2. store' \in {store, new}
    BY <1>1, <2>1, WhatMayBeWritten
  <2>3. new[j] = IF j = k THEN [state |-> "starting", attempt |-> n, host |-> h] ELSE Recovered(h)[j]
    BY DEF Claimed, Change
  <2>4. QED
    BY <1>1, <1>2, <2>2, <2>3 DEF Grows
<1>5. CASE Cancel(h, k)
  <2> DEFINE new == With(Recovered(h), k, "cancelled")
  <2>1. Write(new) \/ FailToWrite(new)
    BY <1>5 DEF Cancel
  <2>2. store' \in {store, new}
    BY <1>1, <2>1, WhatMayBeWritten
  <2>3. /\ new[k].state = "cancelled" /\ new[k].attempt = Recovered(h)[k].attempt
        /\ \A i \in Job : i # k => new[i] = Recovered(h)[i]
    BY <1>1, TurnedOver DEF Prunable
  <2>4. QED
    BY <1>1, <1>2, <2>2, <2>3 DEF Grows
<1>6. QED
  BY <1>3, <1>4, <1>5 DEF JobCall

LEMMA RecordsGrow ==
  ASSUME RecordsInv, [JobsNext]_jobVars, NEW j \in Job
  PROVE  Grows(store[j], store'[j]) \/ Succeeds(j)
<1>1. UNCHANGED store => Grows(store[j], store'[j])
  BY DEF Grows
<1>2. ASSUME NEW h \in Host, NEW k \in Job, JobCall(h, k) \/ StopCancelled(h, k)
      PROVE  Grows(store[j], store'[j])
  BY <1>1, <1>2, CallGrows DEF StopCancelled, disk
<1>3. ASSUME NEW b \in Attempt, AttemptStep(b) \/ OperationEnds(b)
      PROVE  Grows(store[j], store'[j]) \/ Succeeds(j)
  <2>1. CASE Launch(b) \/ TimedOut(b) \/ OperationEnds(b)
    BY <1>1, <2>1 DEF Launch, TimedOut, OperationEnds, disk
  <2>2. CASE Admit(b)
    <3>1. \/ UNCHANGED store
          \/ Write(With(store, b[1], "running")) \/ FailToWrite(With(store, b[1], "running"))
      BY <2>2 DEF Admit, disk
    <3>2. store' = store \/ store' = With(store, b[1], "running")
      BY <3>1, WhatMayBeWritten DEF RecordsInv
    <3>3. store[j] \in StoredJob /\ store[j].attempt \in Nat
      BY DEF RecordsInv, JobsInv, StoreOK, StoredJob
    <3>4. /\ Turned(store[j], "running").state = "running"
          /\ Turned(store[j], "running").attempt = store[j].attempt
      BY <3>3 DEF Turned, StoredJob
    <3>5. With(store, b[1], "running")[j] \in {store[j], Turned(store[j], "running")}
      BY DEF With, Change
    <3>6. QED
      BY <3>2, <3>3, <3>4, <3>5 DEF Grows
  <2>3. CASE InterruptUnlaunched(b)
    BY <2>3, SettledGrows DEF InterruptUnlaunched
  <2>4. CASE SettleOperation(b)
    <3>1. outcome[b] \in Prunable \cup {"interrupted"}
      BY <2>4, JobsAssumption DEF RecordsInv, JobsInv, SettleOperation, Is, Prunable
    <3>2. Write(Settled(b, outcome[b])) \/ FailToWrite(Settled(b, outcome[b]))
      BY <2>4 DEF SettleOperation
    <3>3. QED
      BY <2>4, <3>1, <3>2, SettledGrows DEF Succeeds
  <2>5. QED
    BY <1>3, <2>1, <2>2, <2>3, <2>4 DEF AttemptStep
<1>4. ASSUME NEW e \in ending, StopOperation(e) PROVE Grows(store[j], store'[j])
  <2>1. /\ e.attempt \in Attempt /\ e.state \in Prunable \cup {"interrupted"}
        /\ e.state # "succeeded"
    BY DEF RecordsInv, JobsInv, EndingsKnown
  <2>2. QED
    BY <1>4, <2>1, SettledGrows DEF StopOperation
<1>5. ASSUME NEW h \in Host, Look(h) \/ Retire(h) \/ Close(h) \/ Closed(h) \/ ProcessDies(ProcessOf[h])
      PROVE  Grows(store[j], store'[j])
  <2>1. CASE Look(h)
    <3>1. store' \in {store, Recovered(h)}
      BY <2>1, WhatMayBeWritten DEF Look, RecordsInv
    <3>2. Grows(store[j], Recovered(h)[j])
      BY RecoveredGrows DEF RecordsInv, JobsInv
    <3>3. QED
      BY <1>1, <3>1, <3>2
  <2>2. CASE ~Look(h)
    BY <1>1, <1>5, <2>2 DEF Retire, Close, Stop, Closed, ProcessDies, disk
  <2>3. QED
    BY <2>1, <2>2
<1>6. CASE UNCHANGED jobVars
  BY <1>1, <1>6 DEF jobVars
<1>7. QED
  BY <1>2, <1>3, <1>4, <1>5, <1>6 DEF JobsNext, EndingStep

-----------------------------------------------------------------------------
(* What a step does in the memory of the hosts.                            *)

(* A host's next attempt of a job, just recorded.                          *)
Fresh(h, a) ==
  /\ phase[a] = "none" /\ Open(h) /\ Launches(h, a) /\ UNCHANGED <<status, stopping>>
  /\ store'[a[1]] = [state |-> "starting", attempt |-> a[2], host |-> h]

LEMMA CallLaunches ==
  ASSUME RecordsInv, NEW h \in Host, NEW j \in Job, JobCall(h, j)
  PROVE  UNCHANGED memory \/ \E a \in Attempt : Fresh(h, a)
<1>1. \A n \in 1 .. MaxAttempts :
        /\ <<j, n>> \in Attempt
        /\ n > store[j].attempt => phase[<<j, n>>] = "none"
  <2> SUFFICES ASSUME NEW n \in 1 .. MaxAttempts
               PROVE  /\ <<j, n>> \in Attempt
                      /\ n > store[j].attempt => phase[<<j, n>>] = "none"
    OBVIOUS
  <2>1. <<j, n>> \in Attempt /\ <<j, n>>[1] = j /\ <<j, n>>[2] = n
    BY DEF Attempt
  <2>2. phase[<<j, n>>] # "none" => n <= store[j].attempt
    BY <2>1 DEF RecordsInv, AttemptsOnRecord
  <2>3. store[j].attempt \in Nat
    BY DEF RecordsInv, JobsInv, StoreOK, StoredJob
  <2>4. QED
    BY <2>1, <2>2, <2>3
<1>2. CASE Start(h, j)
  <2>1. PICK pruned \in Pruned(Recovered(h)) :
          \/ Write(Claimed(pruned, h, j, 1)) /\ Launches(h, <<j, 1>>)
          \/ UNCHANGED memory
    BY <1>2 DEF Start
  <2>2. CASE Write(Claimed(pruned, h, j, 1)) /\ Launches(h, <<j, 1>>)
    <3>1. store[j].attempt = 0 /\ 1 \in 1 .. MaxAttempts
      BY <1>2, JobsAssumption DEF Start, RecordsInv, AttemptsOnRecord
    <3>2. phase[<<j, 1>>] = "none" /\ <<j, 1>> \in Attempt
      BY <1>1, <3>1
    <3>3. store'[j] = [state |-> "starting", attempt |-> 1, host |-> h]
      BY <2>2 DEF Write, Claimed, Change
    <3>4. Fresh(h, <<j, 1>>)
      BY <1>2, <2>2, <3>2, <3>3 DEF Fresh, Start, Calls
    <3>5. QED
      BY <3>2, <3>4
  <2>3. QED
    BY <2>1, <2>2
<1>3. CASE Resume(h, j)
  <2> DEFINE n   == Recovered(h)[j].attempt + 1
             new == Claimed(Recovered(h), h, j, n)
  <2>1. (Write(new) /\ Launches(h, <<j, n>>)) \/ UNCHANGED memory
    BY <1>3 DEF Resume
  <2>2. CASE Write(new) /\ Launches(h, <<j, n>>)
    <3>1. n \in 1 .. MaxAttempts /\ n > store[j].attempt
      <4>1. Recovered(h)[j].attempt = store[j].attempt /\ store[j].attempt \in Nat
        BY RecoveredGrows DEF RecordsInv, JobsInv, StoreOK, StoredJob
      <4>2. n <= MaxAttempts
        BY <1>3 DEF Resume
      <4>3. QED
        BY <4>1, <4>2, JobsAssumption
    <3>2. phase[<<j, n>>] = "none" /\ <<j, n>> \in Attempt
      BY <1>1, <3>1
    <3>3. store'[j] = [state |-> "starting", attempt |-> n, host |-> h]
      BY <2>2 DEF Write, Claimed, Change
    <3>4. Fresh(h, <<j, n>>)
      BY <1>3, <2>2, <3>2, <3>3 DEF Fresh, Resume, Calls
    <3>5. QED
      BY <3>2, <3>4
  <2>3. QED
    BY <2>1, <2>2
<1>4. CASE Cancel(h, j)
  BY <1>4 DEF Cancel
<1>5. QED
  BY <1>2, <1>3, <1>4 DEF JobCall

LEMMA Phases ==
  ASSUME RecordsInv, [JobsNext]_jobVars, NEW a \in Attempt, phase'[a] # "none"
  PROVE  (phase[a] # "none" /\ runner'[a] = runner[a]) \/ \E h \in Host : Fresh(h, a)
<1>1. /\ phase \in [Attempt -> {"none", "assigned", "admitted", "unlaunched", "running", "ended", "over"}]
      /\ runner \in [Attempt -> Host \cup {NoHost}]
      /\ \A b \in Attempt : phase[b] # "none" => runner[b] \in Host
  BY DEF RecordsInv, JobsInv, AttemptsOnRecord
<1>2. CASE UNCHANGED memory
  BY <1>2 DEF memory
<1>3. ASSUME NEW h \in Host, NEW j \in Job, JobCall(h, j) \/ StopCancelled(h, j)
      PROVE  (phase[a] # "none" /\ runner'[a] = runner[a]) \/ \E g \in Host : Fresh(g, a)
  <2>1. CASE StopCancelled(h, j)
    BY <1>2, <2>1 DEF StopCancelled
  <2>2. CASE JobCall(h, j)
    <3>1. CASE \E b \in Attempt : Fresh(h, b)
      <4>1. PICK b \in Attempt : Fresh(h, b)
        BY <3>1
      <4>2. CASE a = b
        BY <4>1, <4>2
      <4>3. CASE a # b
        BY <1>1, <4>1, <4>3 DEF Fresh, Launches
      <4>4. QED
        BY <4>2, <4>3
    <3>2. QED
      BY <1>2, <2>2, <3>1, CallLaunches
  <2>3. QED
    BY <1>3, <2>1, <2>2
<1>4. ASSUME NEW b \in Attempt, AttemptStep(b) \/ OperationEnds(b)
      PROVE  phase[a] # "none" /\ runner'[a] = runner[a]
  <2>1. /\ runner' = runner
        /\ phase[b] # "none" \/ phase' = phase
        /\ \A c \in Attempt : c # b => phase'[c] = phase[c]
    BY <1>1, <1>4 DEF AttemptStep, Launch, Admit, InterruptUnlaunched, SettleOperation, TimedOut,
                     OperationEnds, To, Is, memory
  <2>2. QED
    BY <2>1
<1>5. ASSUME NEW h \in Host, Look(h) \/ Retire(h) \/ Close(h) \/ Closed(h) \/ ProcessDies(ProcessOf[h])
      PROVE  phase[a] # "none" /\ runner'[a] = runner[a]
  <2>1. CASE ProcessDies(ProcessOf[h])
    <3>1. /\ runner' = runner
          /\ phase' = [b \in Attempt |-> IF runner[b] \in Dying(ProcessOf[h]) THEN "over" ELSE phase[b]]
      BY <2>1 DEF ProcessDies
    <3>2. CASE runner[a] \in Dying(ProcessOf[h])
      <4>1. runner[a] \in Host
        BY <3>2 DEF Dying
      <4>2. QED
        BY <3>1, <4>1 DEF RecordsInv, AttemptsOnRecord
    <3>3. QED
      BY <3>1, <3>2
  <2>2. CASE ~ProcessDies(ProcessOf[h])
    BY <1>5, <2>2 DEF Look, Retire, Close, Stop, Closed, memory
  <2>3. QED
    BY <2>1, <2>2
<1>6. ASSUME NEW e \in ending, StopOperation(e) PROVE UNCHANGED memory
  BY <1>6 DEF StopOperation
<1>7. CASE UNCHANGED jobVars
  BY <1>2, <1>7 DEF jobVars
<1>8. QED
  BY <1>2, <1>3, <1>4, <1>5, <1>6, <1>7 DEF JobsNext, EndingStep

LEMMA AttemptsStayOnRecord ==
  ASSUME RecordsInv, JobsInv', [JobsNext]_jobVars PROVE AttemptsOnRecord'
<1>1. ASSUME NEW a \in Attempt, phase'[a] # "none"
      PROVE  runner'[a] \in Host /\ a[2] <= store'[a[1]].attempt
  <2>1. a[1] \in Job /\ a[2] \in Nat
    BY AttemptIs
  <2>2. store[a[1]].attempt \in Nat /\ store'[a[1]].attempt \in Nat
    BY <2>1 DEF RecordsInv, JobsInv, StoreOK, StoredJob
  <2>3. CASE phase[a] # "none" /\ runner'[a] = runner[a]
    <3>1. runner[a] \in Host /\ a[2] <= store[a[1]].attempt
      BY <2>3 DEF RecordsInv, AttemptsOnRecord
    <3>2. store'[a[1]].attempt >= store[a[1]].attempt
      <4>1. Grows(store[a[1]], store'[a[1]]) \/ Succeeds(a[1])
        BY <2>1, RecordsGrow
      <4>2. QED
        BY <2>2, <4>1 DEF Grows, Succeeds
    <3>3. QED
      BY <2>1, <2>2, <2>3, <3>1, <3>2
  <2>4. CASE \E h \in Host : Fresh(h, a)
    <3>1. PICK h \in Host : Fresh(h, a)
      BY <2>4
    <3>2. runner'[a] = h /\ store'[a[1]].attempt = a[2]
      BY <3>1 DEF Fresh, Launches, RecordsInv, JobsInv
    <3>3. QED
      BY <2>1, <3>2
  <2>5. QED
    BY <1>1, <2>3, <2>4, Phases
<1>2. ASSUME NEW a \in Attempt, phase'[a] = "none" PROVE runner'[a] \notin Host
  <2>1. phase[a] = "none" /\ runner'[a] = runner[a]
    <3>1. /\ phase \in [Attempt -> {"none", "assigned", "admitted", "unlaunched", "running", "ended", "over"}]
          /\ runner \in [Attempt -> Host \cup {NoHost}]
      BY DEF RecordsInv, JobsInv
    <3>2. CASE UNCHANGED memory
      BY <1>2, <3>2 DEF memory
    <3>3. ASSUME NEW h \in Host, NEW j \in Job, JobCall(h, j) \/ StopCancelled(h, j)
          PROVE  phase[a] = "none" /\ runner'[a] = runner[a]
      <4>1. CASE JobCall(h, j) /\ \E b \in Attempt : Fresh(h, b)
        <5>1. PICK b \in Attempt : Launches(h, b)
          BY <4>1 DEF Fresh
        <5>2. QED
          BY <1>2, <3>1, <5>1 DEF Launches
      <4>2. QED
        BY <3>2, <3>3, <4>1, CallLaunches DEF StopCancelled
    <3>4. ASSUME NEW b \in Attempt, AttemptStep(b) \/ OperationEnds(b)
          PROVE  phase[a] = "none" /\ runner'[a] = runner[a]
      BY <1>2, <3>1, <3>4 DEF AttemptStep, Launch, Admit, InterruptUnlaunched, SettleOperation, TimedOut,
                       OperationEnds, To, memory
    <3>5. ASSUME NEW h \in Host,
                 Look(h) \/ Retire(h) \/ Close(h) \/ Closed(h) \/ ProcessDies(ProcessOf[h])
          PROVE  phase[a] = "none" /\ runner'[a] = runner[a]
      BY <1>2, <3>1, <3>5 DEF ProcessDies, Look, Retire, Close, Stop, Closed, memory
    <3>6. ASSUME NEW e \in ending, StopOperation(e) PROVE UNCHANGED memory
      BY <3>6 DEF StopOperation
    <3>7. CASE UNCHANGED jobVars
      BY <3>2, <3>7 DEF jobVars
    <3>8. QED
      BY <3>2, <3>3, <3>4, <3>5, <3>6, <3>7 DEF JobsNext, EndingStep
  <2>2. QED
    BY <2>1 DEF RecordsInv, AttemptsOnRecord
<1>3. ASSUME NEW j \in Job, store'[j].state = "absent" PROVE store'[j].attempt = 0
  <2>1. store'[j] = store[j]
    BY <1>3, RecordsGrow DEF Grows, Succeeds
  <2>2. QED
    BY <1>3, <2>1 DEF RecordsInv, AttemptsOnRecord
<1>4. QED
  BY <1>1, <1>2, <1>3 DEF AttemptsOnRecord

(* No host leaves what it left, and failures are counted.                  *)
LEMMA HostsMove ==
  ASSUME RecordsInv, [JobsNext]_jobVars
  PROVE  /\ HostShape' /\ failures' >= failures
         /\ \A g \in Host : status'[g] = "open" => status[g] = "open"
<1>1. HostShape /\ failures \in Nat
  BY JobsAssumption DEF RecordsInv, HostShape
<1> DEFINE Same == HostShape' /\ failures' >= failures
                   /\ \A g \in Host : status'[g] = "open" => status[g] = "open"
           Calm == status' = status /\ (signalled' = signalled)
           Counted == failures' \in 0 .. MaxFailures /\ failures' >= failures
<1>2. \A new : Write(new) \/ FailToWrite(new) => Counted
  BY <1>1, WhatMayBeWritten
<1>3. UNCHANGED disk => Counted
  BY <1>1 DEF disk, HostShape
<1>4. Calm /\ Counted => Same
  BY <1>1 DEF HostShape
<1>5. ASSUME NEW h \in Host, NEW j \in Job, JobCall(h, j) \/ StopCancelled(h, j) PROVE Same
  <2>1. Counted
    BY <1>2, <1>3, <1>5 DEF JobCall, StopCancelled, Start, Resume, Cancel
  <2>2. Calm
    BY <1>5 DEF JobCall, StopCancelled, Start, Resume, Cancel, stopping
  <2>3. QED
    BY <1>4, <2>1, <2>2
<1>6. ASSUME NEW b \in Attempt, AttemptStep(b) \/ OperationEnds(b) PROVE Same
  <2>1. Counted
    BY <1>2, <1>3, <1>6 DEF AttemptStep, Launch, Admit, InterruptUnlaunched, SettleOperation, TimedOut,
                            OperationEnds, disk
  <2>2. Calm
    BY <1>6 DEF AttemptStep, Launch, Admit, InterruptUnlaunched, SettleOperation, TimedOut,
                OperationEnds, stopping
  <2>3. QED
    BY <1>4, <2>1, <2>2
<1>7. ASSUME NEW e \in ending, StopOperation(e) PROVE Same
  <2>1. Counted
    BY <1>2, <1>7 DEF StopOperation
  <2>2. e.attempt \in Attempt /\ signalled' \subseteq signalled \cup {e.attempt} /\ status' = status
    BY <1>7 DEF StopOperation, RecordsInv, JobsInv
  <2>3. QED
    BY <1>1, <2>1, <2>2 DEF HostShape
<1>8. ASSUME NEW h \in Host, Look(h) \/ Retire(h) \/ Close(h) \/ Closed(h) \/ ProcessDies(ProcessOf[h])
      PROVE  Same
  <2>1. CASE Look(h)
    <3>1. Counted /\ Calm
      BY <1>2, <2>1 DEF Look, stopping
    <3>2. QED
      BY <1>4, <3>1
  <2>2. CASE Retire(h) \/ Close(h) \/ Closed(h)
    <3>1. \E to \in {"retired", "closing", "stopped"} : status' = [status EXCEPT ![h] = to]
      BY <2>2 DEF Retire, Close, Closed, Stop
    <3>2. UNCHANGED <<disk, signalled>>
      BY <2>2 DEF Retire, Close, Closed, Stop, stopping
    <3>3. QED
      BY <1>1, <1>3, <3>1, <3>2 DEF HostShape, Statuses
  <2>3. CASE ProcessDies(ProcessOf[h])
    <3>1. /\ UNCHANGED <<disk, signalled>>
          /\ status' = [g \in Host |-> IF g \in Dying(ProcessOf[h]) THEN "dead" ELSE status[g]]
      BY <2>3 DEF ProcessDies
    <3>2. QED
      BY <1>1, <1>3, <3>1 DEF HostShape, Statuses
  <2>4. QED
    BY <1>8, <2>1, <2>2, <2>3
<1>9. CASE UNCHANGED jobVars
  BY <1>3, <1>4, <1>9 DEF jobVars, disk, stopping
<1>10. QED
  BY <1>5, <1>6, <1>7, <1>8, <1>9 DEF JobsNext, EndingStep

LEMMA EntryLeft ==
  ASSUME RecordsInv, NEW a \in Attempt, phase[a] \in Entered, NEW x, x \notin Entered,
         phase' = [phase EXCEPT ![a] = x], Enter(a, 0), runner' = runner
  PROVE  EntriesMatch'
<1> DEFINE g == runner[a]
<1>1. /\ a = <<a[1], a[2]>> /\ a[1] \in Job /\ g \in Host /\ current[g][a[1]] = a[2]
      /\ phase \in [Attempt -> {"none", "assigned", "admitted", "unlaunched", "running", "ended", "over"}]
      /\ current \in [Host -> [Job -> 0 .. MaxAttempts]]
  BY AttemptIs DEF RecordsInv, JobsInv, AttemptsOnRecord, EntriesMatch, Entry, Entered
<1>2. \A h \in Host, j \in Job :
        current'[h][j] = IF h = g /\ j = a[1] THEN 0 ELSE current[h][j]
  BY <1>1 DEF Enter
<1>3. ASSUME NEW b \in Attempt, phase'[b] \in Entered PROVE current'[runner'[b]][b[1]] = b[2]
  <2>1. b # a /\ phase[b] \in Entered
    BY <1>1, <1>3
  <2>2. /\ current[runner[b]][b[1]] = b[2] /\ b = <<b[1], b[2]>> /\ b[1] \in Job
        /\ runner[b] \in Host
    BY <2>1, AttemptIs DEF RecordsInv, EntriesMatch, Entry, AttemptsOnRecord, Entered
  <2>3. ~(runner[b] = g /\ b[1] = a[1])
    BY <1>1, <2>1, <2>2
  <2>4. QED
    BY <1>2, <2>2, <2>3
<1>4. ASSUME NEW h \in Host, NEW j \in Job, current'[h][j] # 0
      PROVE  runner'[<<j, current'[h][j]>>] = h /\ phase'[<<j, current'[h][j]>>] \in Entered
  <2>1. current'[h][j] = current[h][j] /\ ~(h = g /\ j = a[1])
    BY <1>2, <1>4
  <2>2. runner[<<j, current[h][j]>>] = h /\ phase[<<j, current[h][j]>>] \in Entered
    BY <1>4, <2>1 DEF RecordsInv, EntriesMatch
  <2>3. <<j, current[h][j]>> # a
    BY <2>1, <2>2
  <2>4. phase'[<<j, current[h][j]>>] = phase[<<j, current[h][j]>>]
    BY <1>1, <2>3
  <2>5. QED
    BY <2>1, <2>2, <2>4
<1>5. QED
  BY <1>3, <1>4 DEF EntriesMatch, Entry

LEMMA EntriesUntouched ==
  ASSUME RecordsInv, current' = current,
         \A b \in Attempt : \/ phase'[b] \notin Entered /\ phase[b] \notin Entered
                            \/ {phase[b], phase'[b]} \subseteq Entered /\ runner'[b] = runner[b]
  PROVE  EntriesMatch'
<1>1. ASSUME NEW b \in Attempt, phase'[b] \in Entered PROVE current'[runner'[b]][b[1]] = b[2]
  BY <1>1 DEF RecordsInv, EntriesMatch, Entry
<1>2. ASSUME NEW h \in Host, NEW j \in Job, current'[h][j] # 0
      PROVE  runner'[<<j, current'[h][j]>>] = h /\ phase'[<<j, current'[h][j]>>] \in Entered
  <2>1. runner[<<j, current[h][j]>>] = h /\ phase[<<j, current[h][j]>>] \in Entered
    BY <1>2 DEF RecordsInv, EntriesMatch
  <2>2. current[h][j] \in 1 .. MaxAttempts
    BY <1>2, JobsAssumption DEF RecordsInv, JobsInv
  <2>3. <<j, current[h][j]>> \in Attempt
    BY <2>2 DEF Attempt
  <2>4. QED
    BY <2>1, <2>3
<1>3. QED
  BY <1>1, <1>2 DEF EntriesMatch, Entry

(* Nobody else of an open host is under way on the job.                    *)
LEMMA LaunchEnters ==
  ASSUME RecordsInv, NEW a \in Attempt, Launch(a) PROVE EntriesMatch'
<1> DEFINE g == runner[a]
<1>1. /\ a = <<a[1], a[2]>> /\ a[1] \in Job /\ a[2] # 0 /\ g \in Host /\ phase[a] = "assigned"
      /\ phase \in [Attempt -> {"none", "assigned", "admitted", "unlaunched", "running", "ended", "over"}]
      /\ current \in [Host -> [Job -> 0 .. MaxAttempts]]
      /\ runner' = runner
  BY AttemptIs DEF RecordsInv, JobsInv, AttemptsOnRecord, Launch, Is
<1>2. CASE ~Open(g)
  <2>1. phase' = [phase EXCEPT ![a] = "unlaunched"] /\ current' = current
    BY <1>2 DEF Launch, To
  <2>2. QED
    BY <1>1, <2>1, EntriesUntouched DEF Entered
<1>3. CASE Open(g)
  <2>1. /\ phase' = [phase EXCEPT ![a] = "admitted"]
        /\ current' = [current EXCEPT ![g][a[1]] = a[2]]
    BY <1>3 DEF Launch, To, Enter
  <2>2. \A h \in Host, j \in Job :
          current'[h][j] = IF h = g /\ j = a[1] THEN a[2] ELSE current[h][j]
    BY <1>1, <2>1
  <2>3. ASSUME NEW b \in Attempt, phase'[b] \in Entered PROVE current'[runner'[b]][b[1]] = b[2]
    <3>1. CASE b = a
      BY <1>1, <2>2, <3>1
    <3>2. CASE b # a
      <4>1. phase[b] \in Entered
        BY <1>1, <2>1, <2>3, <3>2
      <4>2. /\ current[runner[b]][b[1]] = b[2] /\ b = <<b[1], b[2]>> /\ b[1] \in Job
            /\ runner[b] \in Host
        BY <4>1, AttemptIs DEF RecordsInv, EntriesMatch, Entry, AttemptsOnRecord, Entered
      <4>3. CASE runner[b] = g /\ b[1] = a[1]
        <5>1. store[b[1]].attempt = b[2] /\ store[a[1]].attempt = a[2]
          BY <1>1, <1>3, <4>1, <4>3 DEF RecordsInv, OpenHostsOwn, Underway
        <5>2. QED
          BY <1>1, <3>2, <4>2, <4>3, <5>1
      <4>4. CASE ~(runner[b] = g /\ b[1] = a[1])
        BY <1>1, <2>2, <4>2, <4>4
      <4>5. QED
        BY <4>3, <4>4
    <3>3. QED
      BY <3>1, <3>2
  <2>4. ASSUME NEW h \in Host, NEW j \in Job, current'[h][j] # 0
        PROVE  runner'[<<j, current'[h][j]>>] = h /\ phase'[<<j, current'[h][j]>>] \in Entered
    <3>1. CASE h = g /\ j = a[1]
      <4>1. <<j, current'[h][j]>> = a
        BY <1>1, <2>2, <3>1
      <4>2. QED
        BY <1>1, <2>1, <3>1, <4>1 DEF Entered
    <3>2. CASE ~(h = g /\ j = a[1])
      <4>1. current'[h][j] = current[h][j]
        BY <2>2, <3>2
      <4>2. runner[<<j, current[h][j]>>] = h /\ phase[<<j, current[h][j]>>] \in Entered
        BY <2>4, <4>1 DEF RecordsInv, EntriesMatch
      <4>3. <<j, current[h][j]>> # a
        BY <1>1, <4>2 DEF Entered
      <4>4. phase'[<<j, current[h][j]>>] = phase[<<j, current[h][j]>>]
        BY <1>1, <2>1, <4>3
      <4>5. QED
        BY <1>1, <4>1, <4>2, <4>4
    <3>3. QED
      BY <3>1, <3>2
  <2>5. QED
    BY <2>3, <2>4 DEF EntriesMatch, Entry
<1>4. QED
  BY <1>2, <1>3

LEMMA EntriesStay ==
  ASSUME RecordsInv, [JobsNext]_jobVars PROVE EntriesMatch'
<1>1. /\ phase \in [Attempt -> {"none", "assigned", "admitted", "unlaunched", "running", "ended", "over"}]
      /\ runner \in [Attempt -> Host \cup {NoHost}]
      /\ current \in [Host -> [Job -> 0 .. MaxAttempts]]
  BY DEF RecordsInv, JobsInv
<1>2. UNCHANGED memory => EntriesMatch'
  BY EntriesUntouched DEF memory
<1>3. ASSUME NEW h \in Host, NEW j \in Job, JobCall(h, j) \/ StopCancelled(h, j) PROVE EntriesMatch'
  <2>1. CASE JobCall(h, j) /\ \E b \in Attempt : Fresh(h, b)
    <3>1. PICK b \in Attempt : phase[b] = "none" /\ Launches(h, b)
      BY <2>1 DEF Fresh
    <3>2. QED
      BY <1>1, <3>1, EntriesUntouched DEF Launches, Entered
  <2>2. QED
    BY <1>2, <1>3, <2>1, CallLaunches DEF StopCancelled
<1>4. ASSUME NEW a \in Attempt, AttemptStep(a) \/ OperationEnds(a) PROVE EntriesMatch'
  <2>1. phase[a] \in Entered => Entry(a) = a[2]
    BY DEF RecordsInv, EntriesMatch
  <2>2. CASE Launch(a)
    BY <2>2, LaunchEnters
  <2>3. CASE TimedOut(a)
    BY <1>2, <2>3 DEF TimedOut
  <2>4. CASE Admit(a)
    <3>1. /\ phase[a] = "admitted" /\ runner' = runner
          /\ \/ phase' = [phase EXCEPT ![a] = "running"] /\ current' = current
             \/ phase' = [phase EXCEPT ![a] = "unlaunched"] /\ Enter(a, 0)
      BY <2>4 DEF Admit, To, Is
    <3>2. CASE phase' = [phase EXCEPT ![a] = "running"] /\ current' = current
      BY <1>1, <3>1, <3>2, EntriesUntouched DEF Entered
    <3>3. CASE phase' = [phase EXCEPT ![a] = "unlaunched"] /\ Enter(a, 0)
      BY <3>1, <3>3, EntryLeft DEF Entered
    <3>4. QED
      BY <3>1, <3>2, <3>3
  <2>5. CASE InterruptUnlaunched(a)
    <3>1. /\ phase[a] = "unlaunched" /\ runner' = runner /\ current' = current
          /\ phase' = [phase EXCEPT ![a] = "over"]
      BY <2>5 DEF InterruptUnlaunched, To, Is
    <3>2. QED
      BY <1>1, <3>1, EntriesUntouched DEF Entered
  <2>6. CASE SettleOperation(a) \/ (OperationEnds(a) /\ a \in signalled)
    <3>1. /\ phase[a] \in Entered /\ runner' = runner
          /\ phase' = [phase EXCEPT ![a] = "over"] /\ Forgotten(a)
      BY <2>6 DEF SettleOperation, OperationEnds, To, Is, Entered
    <3>2. Enter(a, 0)
      BY <2>1, <3>1 DEF Forgotten
    <3>3. QED
      BY <3>1, <3>2, EntryLeft DEF Entered
  <2>7. CASE OperationEnds(a) /\ a \notin signalled
    <3>1. /\ phase[a] = "running" /\ runner' = runner /\ current' = current
          /\ phase' = [phase EXCEPT ![a] = "ended"]
      BY <2>7 DEF OperationEnds, To, Is
    <3>2. QED
      BY <1>1, <3>1, EntriesUntouched DEF Entered
  <2>8. QED
    BY <1>4, <2>2, <2>3, <2>4, <2>5, <2>6, <2>7 DEF AttemptStep
<1>5. ASSUME NEW e \in ending, StopOperation(e) PROVE EntriesMatch'
  BY <1>2, <1>5 DEF StopOperation
<1>6. ASSUME NEW h \in Host, Look(h) \/ Retire(h) \/ Close(h) \/ Closed(h) \/ ProcessDies(ProcessOf[h])
      PROVE  EntriesMatch'
  <2>1. CASE ProcessDies(ProcessOf[h])
    <3> DEFINE dying == Dying(ProcessOf[h])
    <3>1. /\ runner' = runner
          /\ current' = [g \in Host |-> IF g \in dying THEN [j \in Job |-> 0] ELSE current[g]]
          /\ phase' = [b \in Attempt |-> IF runner[b] \in dying THEN "over" ELSE phase[b]]
      BY <2>1 DEF ProcessDies
    <3>2. ASSUME NEW b \in Attempt, phase'[b] \in Entered PROVE current'[runner'[b]][b[1]] = b[2]
      <4>1. runner[b] \notin dying /\ phase[b] \in Entered
        BY <3>1, <3>2 DEF Entered
      <4>2. runner[b] \in Host /\ current[runner[b]][b[1]] = b[2]
        BY <4>1 DEF RecordsInv, EntriesMatch, Entry, AttemptsOnRecord, Entered
      <4>3. QED
        BY <3>1, <4>1, <4>2
    <3>3. ASSUME NEW g \in Host, NEW j \in Job, current'[g][j] # 0
          PROVE  runner'[<<j, current'[g][j]>>] = g /\ phase'[<<j, current'[g][j]>>] \in Entered
      <4>1. g \notin dying /\ current'[g][j] = current[g][j]
        BY <3>1, <3>3
      <4>2. runner[<<j, current[g][j]>>] = g /\ phase[<<j, current[g][j]>>] \in Entered
        BY <3>3, <4>1 DEF RecordsInv, EntriesMatch
      <4>3. current[g][j] \in 1 .. MaxAttempts
        BY <1>1, <3>3, <4>1, JobsAssumption
      <4>4. <<j, current[g][j]>> \in Attempt
        BY <4>3 DEF Attempt
      <4>5. QED
        BY <3>1, <4>1, <4>2, <4>4
    <3>4. QED
      BY <3>2, <3>3 DEF EntriesMatch, Entry
  <2>2. CASE ~ProcessDies(ProcessOf[h])
    BY <1>2, <1>6, <2>2 DEF Look, Retire, Close, Stop, Closed
  <2>3. QED
    BY <2>1, <2>2
<1>7. CASE UNCHANGED jobVars
  BY <1>2, <1>7 DEF jobVars
<1>8. QED
  BY <1>3, <1>4, <1>5, <1>6, <1>7 DEF JobsNext, EndingStep

(* Where an attempt may go from where it is.                               *)
Goes(a) ==
  /\ phase'[a] # "none" /\ runner'[a] = runner[a]
  /\ phase[a] \in {"unlaunched", "over"} => phase'[a] \in {"unlaunched", "over"}
  /\ phase[a] = "over" => phase'[a] = "over" /\ outcome'[a] = outcome[a]
  /\ phase'[a] = "running" => phase[a] = "running" \/ Admit(a)
  /\ phase'[a] \in Entered => phase[a] \in Entered \/ (Open(runner[a]) /\ status' = status)

LEMMA Onward ==
  ASSUME RecordsInv, [JobsNext]_jobVars, NEW a \in Attempt, phase[a] # "none" PROVE Goes(a)
<1>1. /\ phase \in [Attempt -> {"none", "assigned", "admitted", "unlaunched", "running", "ended", "over"}]
      /\ runner \in [Attempt -> Host \cup {NoHost}]
      /\ outcome \in [Attempt -> Results \cup {"none"}]
  BY DEF RecordsInv, JobsInv
<1>2. UNCHANGED <<phase, runner, outcome>> => Goes(a)
  BY DEF Goes
<1>3. ASSUME NEW b \in Attempt, phase'[a] = phase[a], runner'[a] = runner[a], outcome'[a] = outcome[a]
      PROVE  Goes(a)
  BY <1>3 DEF Goes
<1>4. ASSUME NEW h \in Host, NEW j \in Job, JobCall(h, j) \/ StopCancelled(h, j) PROVE Goes(a)
  <2>1. CASE JobCall(h, j) /\ \E b \in Attempt : Fresh(h, b)
    <3>1. PICK b \in Attempt : phase[b] = "none" /\ Launches(h, b)
      BY <2>1 DEF Fresh
    <3>2. QED
      BY <1>1, <3>1 DEF Launches, Goes
  <2>2. QED
    BY <1>2, <1>4, <2>1, CallLaunches DEF StopCancelled, memory
<1>5. ASSUME NEW b \in Attempt, AttemptStep(b) \/ OperationEnds(b) PROVE Goes(a)
  <2>1. CASE a # b
    <3>1. phase'[a] = phase[a] /\ runner'[a] = runner[a] /\ outcome'[a] = outcome[a]
      BY <1>1, <1>5, <2>1 DEF AttemptStep, Launch, Admit, InterruptUnlaunched, SettleOperation, TimedOut,
                     OperationEnds, To, Is, memory
    <3>2. QED
      BY <3>1 DEF Goes
  <2>2. CASE a = b
    <3>1. CASE Launch(a)
      BY <1>1, <3>1 DEF Launch, Is, To, Goes, Entered, stopping
    <3>2. CASE Admit(a)
      BY <1>1, <3>2 DEF Admit, Is, To, Goes, Entered
    <3>3. CASE InterruptUnlaunched(a) \/ SettleOperation(a)
      BY <1>1, <3>3 DEF InterruptUnlaunched, SettleOperation, Is, To, Goes, Entered
    <3>4. CASE TimedOut(a)
      BY <1>2, <3>4 DEF TimedOut, memory
    <3>5. CASE OperationEnds(a)
      BY <1>1, <3>5 DEF OperationEnds, Is, To, Goes, Entered
    <3>6. QED
      BY <1>5, <2>2, <3>1, <3>2, <3>3, <3>4, <3>5 DEF AttemptStep
  <2>3. QED
    BY <2>1, <2>2
<1>6. ASSUME NEW e \in ending, StopOperation(e) PROVE Goes(a)
  BY <1>2, <1>6 DEF StopOperation, memory
<1>7. ASSUME NEW h \in Host, Look(h) \/ Retire(h) \/ Close(h) \/ Closed(h) \/ ProcessDies(ProcessOf[h])
      PROVE  Goes(a)
  <2>1. CASE ProcessDies(ProcessOf[h])
    <3>1. /\ runner' = runner /\ outcome' = outcome
          /\ phase'[a] = phase[a] \/ phase'[a] = "over"
      BY <2>1 DEF ProcessDies
    <3>2. QED
      BY <3>1 DEF Goes, Entered
  <2>2. CASE ~ProcessDies(ProcessOf[h])
    BY <1>2, <1>7, <2>2 DEF Look, Retire, Close, Stop, Closed, memory
  <2>3. QED
    BY <2>1, <2>2
<1>8. CASE UNCHANGED jobVars
  BY <1>2, <1>8 DEF jobVars, memory
<1>9. QED
  BY <1>4, <1>5, <1>6, <1>7, <1>8 DEF JobsNext, EndingStep

(* What is under way on an open host was, or is a new attempt.             *)
LEMMA OwnersStay ==
  ASSUME RecordsInv, [JobsNext]_jobVars, JobsInv' PROVE OpenHostsOwn'
<1> SUFFICES ASSUME NEW a \in Attempt, phase'[a] \in Underway, status'[runner'[a]] = "open"
             PROVE  /\ store'[a[1]].attempt = a[2] /\ store'[a[1]].state # "interrupted"
                    /\ IsActive(store', a[1]) => store'[a[1]].host = runner'[a]
  BY DEF OpenHostsOwn, Open, IsActive
<1>1. CASE \E h \in Host : Fresh(h, a)
  <2>1. PICK h \in Host : Fresh(h, a)
    BY <1>1
  <2>2. runner'[a] = h
    BY <2>1 DEF Fresh, Launches, RecordsInv, JobsInv
  <2>3. QED
    BY <2>1, <2>2 DEF Fresh
<1>2. CASE phase[a] # "none" /\ runner'[a] = runner[a]
  <2>1. runner[a] \in Host
    BY <1>2 DEF RecordsInv, AttemptsOnRecord
  <2>2. Open(runner[a])
    BY <1>2, <2>1, HostsMove DEF Open
  <2>3. phase[a] \in Underway
    <3>1. Goes(a)
      BY <1>2, Onward
    <3>2. phase[a] \in {"none", "assigned", "admitted", "unlaunched", "running", "ended", "over"}
      BY DEF RecordsInv, JobsInv
    <3>3. QED
      BY <1>2, <3>1, <3>2 DEF Goes, Underway, Entered
  <2>4. JobMoves(a)
    BY <2>2, <2>3, JobOfOpenHost
  <2>5. /\ store[a[1]].attempt = a[2] /\ store[a[1]].state # "interrupted"
        /\ IsActive(store, a[1]) => store[a[1]].host = runner[a]
    BY <2>2, <2>3 DEF RecordsInv, OpenHostsOwn
  <2>6. QED
    BY <1>2, <2>4, <2>5 DEF JobMoves, IsActive, ActiveStates
<1>3. QED
  BY <1>1, <1>2, Phases DEF Underway, Entered

(* What is added to the calls of #terminateActive.                         *)
LEMMA EndingsMove ==
  ASSUME RecordsInv, [JobsNext]_jobVars, NEW e \in ending', e \notin ending
  PROVE  /\ e.attempt \in Attempt /\ phase[e.attempt] \in Entered
         /\ \/ e.state \in {"timed_out", "cancelled"}
            \/ e.state = "interrupted" /\ status'[runner[e.attempt]] # "open"
<1> DEFINE New == /\ e.attempt \in Attempt /\ phase[e.attempt] \in Entered
                  /\ \/ e.state \in {"timed_out", "cancelled"}
                     \/ e.state = "interrupted" /\ status'[runner[e.attempt]] # "open"
<1>1. \A h \in Host, j \in Job : current[h][j] # 0 =>
        /\ <<j, current[h][j]>> \in Attempt /\ phase[<<j, current[h][j]>>] \in Entered
        /\ runner[<<j, current[h][j]>>] = h
  <2> SUFFICES ASSUME NEW h \in Host, NEW j \in Job, current[h][j] # 0
               PROVE  /\ <<j, current[h][j]>> \in Attempt /\ phase[<<j, current[h][j]>>] \in Entered
                      /\ runner[<<j, current[h][j]>>] = h
    OBVIOUS
  <2>1. current[h][j] \in 1 .. MaxAttempts
    BY JobsAssumption DEF RecordsInv, JobsInv
  <2>2. QED
    BY <2>1 DEF RecordsInv, EntriesMatch, Attempt
<1>2. UNCHANGED ending => New
  OBVIOUS
<1>3. ASSUME NEW h \in Host, NEW j \in Job, JobCall(h, j) \/ StopCancelled(h, j) PROVE New
  <2>1. CASE JobCall(h, j)
    BY <1>2, <2>1 DEF JobCall, Start, Resume, Cancel, stopping
  <2>2. CASE StopCancelled(h, j)
    <3>1. current[h][j] # 0 /\ e = Ending(<<j, current[h][j]>>, "cancelled")
      BY <2>2 DEF StopCancelled
    <3>2. QED
      BY <1>1, <3>1 DEF Ending
  <2>3. QED
    BY <1>3, <2>1, <2>2
<1>4. ASSUME NEW b \in Attempt, AttemptStep(b) \/ OperationEnds(b) PROVE New
  <2>1. CASE TimedOut(b)
    <3>1. e = Ending(b, "timed_out") /\ phase[b] \in Entered
      BY <2>1 DEF TimedOut, Is, Entered
    <3>2. QED
      BY <3>1 DEF Ending
  <2>2. CASE ~TimedOut(b)
    BY <1>2, <1>4, <2>2 DEF AttemptStep, Launch, Admit, InterruptUnlaunched, SettleOperation,
                            OperationEnds, stopping
  <2>3. QED
    BY <2>1, <2>2
<1>5. ASSUME NEW f \in ending, StopOperation(f) PROVE New
  BY <1>5 DEF StopOperation
<1>6. ASSUME NEW h \in Host, Look(h) \/ Retire(h) \/ Close(h) \/ Closed(h) \/ ProcessDies(ProcessOf[h])
      PROVE  New
  <2>1. CASE Retire(h) \/ Close(h)
    <3>1. PICK to \in {"retired", "closing"} :
            /\ status' = [status EXCEPT ![h] = to]
            /\ ending' = ending \cup
                 {Ending(<<j, current[h][j]>>, "interrupted") : j \in {k \in Job : current[h][k] # 0}}
      BY <2>1 DEF Retire, Close, Stop
    <3>2. PICK j \in Job : current[h][j] # 0 /\ e = Ending(<<j, current[h][j]>>, "interrupted")
      BY <3>1
    <3>3. status'[h] # "open"
      BY <3>1 DEF RecordsInv, HostShape
    <3>4. QED
      BY <1>1, <3>2, <3>3 DEF Ending
  <2>2. CASE ~(Retire(h) \/ Close(h))
    BY <1>2, <1>6, <2>2 DEF Look, Closed, ProcessDies, stopping
  <2>3. QED
    BY <2>1, <2>2
<1>7. CASE UNCHANGED jobVars
  BY <1>2, <1>7 DEF jobVars, stopping
<1>8. QED
  BY <1>3, <1>4, <1>5, <1>6, <1>7 DEF JobsNext, EndingStep

LEMMA EndingsStayKnown ==
  ASSUME RecordsInv, [JobsNext]_jobVars PROVE EndingsKnown'
<1> SUFFICES ASSUME NEW e \in ending'
             PROVE  /\ phase'[e.attempt] # "none"
                    /\ e.state \in {"timed_out", "cancelled", "interrupted"}
                    /\ e.state = "interrupted" => status'[runner'[e.attempt]] # "open"
  BY DEF EndingsKnown, Open
<1>1. CASE e \in ending
  <2>1. /\ e.attempt \in Attempt /\ phase[e.attempt] # "none"
        /\ e.state \in {"timed_out", "cancelled", "interrupted"}
        /\ e.state = "interrupted" => status[runner[e.attempt]] # "open"
    BY <1>1 DEF RecordsInv, JobsInv, EndingsKnown, Open
  <2>2. Goes(e.attempt) /\ runner[e.attempt] \in Host
    BY <2>1, Onward DEF RecordsInv, AttemptsOnRecord
  <2>3. QED
    BY <2>1, <2>2, HostsMove DEF Goes
<1>2. CASE e \notin ending
  <2>1. /\ e.attempt \in Attempt /\ phase[e.attempt] \in Entered
        /\ \/ e.state \in {"timed_out", "cancelled"}
           \/ e.state = "interrupted" /\ status'[runner[e.attempt]] # "open"
    BY <1>2, EndingsMove
  <2>2. Goes(e.attempt)
    BY <2>1, Onward DEF Entered
  <2>3. QED
    BY <2>1, <2>2 DEF Goes
<1>3. QED
  BY <1>1, <1>2

(* What is being stopped stays so, whatever takes part in stopping it.     *)
LEMMA StopsStay ==
  ASSUME RecordsInv, [JobsNext]_jobVars, NEW a \in Attempt, phase[a] \in Entered, phase'[a] \in Entered
  PROVE  /\ (a \in signalled \/ \E e \in ending : e.attempt = a) =>
              (a \in signalled' \/ \E e \in ending' : e.attempt = a)
         /\ <<runner[a], a[1]>> \in cancelling =>
              \/ <<runner[a], a[1]>> \in cancelling'
              \/ \E e \in ending' : e.attempt = a
<1> DEFINE Stopped == a \in signalled \/ \E e \in ending : e.attempt = a
           Still   == a \in signalled' \/ \E e \in ending' : e.attempt = a
           Wanted  == <<runner[a], a[1]>> \in cancelling
           Ends    == \E e \in ending' : e.attempt = a
           Stays   == (Stopped => Still) /\ (Wanted => <<runner[a], a[1]>> \in cancelling' \/ Ends)
<1>1. /\ a = <<a[1], a[2]>> /\ a[1] \in Job /\ a[2] # 0 /\ runner[a] \in Host
      /\ current[runner[a]][a[1]] = a[2]
  BY AttemptIs DEF RecordsInv, AttemptsOnRecord, EntriesMatch, Entry, Entered
<1>2. signalled \subseteq signalled' /\ ending \subseteq ending' /\ cancelling \subseteq cancelling' => Stays
  OBVIOUS
<1>3. ASSUME NEW h \in Host, NEW j \in Job, JobCall(h, j) \/ StopCancelled(h, j) PROVE Stays
  <2>1. CASE JobCall(h, j)
    <3>1. signalled' = signalled /\ ending' = ending /\ cancelling \subseteq cancelling'
      BY <2>1 DEF JobCall, Start, Resume, Cancel, stopping
    <3>2. QED
      BY <1>2, <3>1
  <2>2. CASE StopCancelled(h, j)
    <3>1. /\ signalled' = signalled /\ ending \subseteq ending'
          /\ cancelling' = cancelling \ {<<h, j>>}
          /\ current[h][j] # 0 => Ending(<<j, current[h][j]>>, "cancelled") \in ending'
      BY <2>2 DEF StopCancelled
    <3>2. CASE runner[a] = h /\ a[1] = j
      <4>1. Ending(a, "cancelled") \in ending' /\ Ending(a, "cancelled").attempt = a
        BY <1>1, <3>1, <3>2 DEF Ending
      <4>2. Ends
        BY <4>1
      <4>3. QED
        BY <4>2
    <3>3. CASE ~(runner[a] = h /\ a[1] = j)
      BY <3>1, <3>3
    <3>4. QED
      BY <3>2, <3>3
  <2>3. QED
    BY <1>3, <2>1, <2>2
<1>4. ASSUME NEW b \in Attempt, AttemptStep(b) \/ OperationEnds(b) PROVE Stays
  <2>1. signalled' = signalled /\ ending \subseteq ending' /\ cancelling' = cancelling
    BY <1>4 DEF AttemptStep, Launch, Admit, InterruptUnlaunched, SettleOperation, TimedOut,
                OperationEnds, stopping
  <2>2. QED
    BY <1>2, <2>1
<1>5. ASSUME NEW f \in ending, StopOperation(f) PROVE Stays
  <2>1. /\ cancelling' = cancelling /\ signalled \subseteq signalled' /\ ending' = ending \ {f}
        /\ signalled' = signalled \cup {b \in {f.attempt} : ~Is(b, "over")}
    BY <1>5 DEF StopOperation
  <2>2. CASE f.attempt = a
    <3>1. a \in signalled'
      BY <2>1, <2>2 DEF Is, Entered
    <3>2. QED
      BY <2>1, <3>1
  <2>3. CASE f.attempt # a
    BY <2>1, <2>3
  <2>4. QED
    BY <2>2, <2>3
<1>6. ASSUME NEW h \in Host, Look(h) \/ Retire(h) \/ Close(h) \/ Closed(h) \/ ProcessDies(ProcessOf[h])
      PROVE  Stays
  <2>1. CASE ProcessDies(ProcessOf[h])
    <3> DEFINE dying == Dying(ProcessOf[h])
    <3>1. /\ signalled' = signalled
          /\ ending' = {e \in ending : runner[e.attempt] \notin dying}
          /\ cancelling' = {c \in cancelling : c[1] \notin dying}
          /\ phase' = [b \in Attempt |-> IF runner[b] \in dying THEN "over" ELSE phase[b]]
      BY <2>1 DEF ProcessDies
    <3>2. runner[a] \notin dying
      BY <3>1 DEF Entered
    <3>3. QED
      BY <3>1, <3>2
  <2>2. CASE ~ProcessDies(ProcessOf[h])
    <3>1. signalled' = signalled /\ ending \subseteq ending' /\ cancelling' = cancelling
      BY <1>6, <2>2 DEF Look, Retire, Close, Stop, Closed, stopping
    <3>2. QED
      BY <1>2, <3>1
  <2>3. QED
    BY <2>1, <2>2
<1>7. CASE UNCHANGED jobVars
  BY <1>2, <1>7 DEF jobVars, stopping
<1>8. QED
  BY <1>3, <1>4, <1>5, <1>6, <1>7 DEF JobsNext, EndingStep

(* A host that stops being open calls #terminateActive for all it has.     *)
LEMMA ClosingStopsAll ==
  ASSUME RecordsInv, [JobsNext]_jobVars, NEW a \in Attempt, phase[a] \in Entered, phase'[a] \in Entered,
         status[runner[a]] = "open", status'[runner[a]] # "open"
  PROVE  \E e \in ending' : e.attempt = a
<1>1. /\ a = <<a[1], a[2]>> /\ a[1] \in Job /\ a[2] # 0 /\ runner[a] \in Host
      /\ current[runner[a]][a[1]] = a[2] /\ status \in [Host -> Statuses]
  BY AttemptIs DEF RecordsInv, AttemptsOnRecord, EntriesMatch, Entry, Entered, HostShape
<1>2. status' # status
  OBVIOUS
<1>3. PICK h \in Host : Retire(h) \/ Close(h) \/ Closed(h) \/ ProcessDies(ProcessOf[h])
  <2>1. \A h \in Host, j \in Job : ~(JobCall(h, j) \/ StopCancelled(h, j))
    BY <1>2 DEF JobCall, Start, Resume, Cancel, StopCancelled
  <2>2. \A b \in Attempt : ~(AttemptStep(b) \/ OperationEnds(b))
    BY <1>2 DEF AttemptStep, Launch, Admit, InterruptUnlaunched, SettleOperation, TimedOut, OperationEnds
  <2>3. ~EndingStep /\ \A h \in Host : ~Look(h)
    BY <1>2 DEF EndingStep, StopOperation, Look
  <2>4. QED
    BY <1>2, <2>1, <2>2, <2>3 DEF JobsNext, jobVars
<1>4. CASE ProcessDies(ProcessOf[h])
  <2>1. /\ status' = [g \in Host |-> IF g \in Dying(ProcessOf[h]) THEN "dead" ELSE status[g]]
        /\ phase' = [b \in Attempt |-> IF runner[b] \in Dying(ProcessOf[h]) THEN "over" ELSE phase[b]]
    BY <1>4 DEF ProcessDies
  <2>2. runner[a] \in Dying(ProcessOf[h])
    BY <1>1, <2>1
  <2>3. QED
    BY <2>1, <2>2 DEF Entered
<1>5. CASE Closed(h)
  BY <1>1, <1>5 DEF Closed
<1>6. CASE Retire(h) \/ Close(h)
  <2>1. /\ \E to \in Statuses : status' = [status EXCEPT ![h] = to]
        /\ ending' = ending \cup
             {Ending(<<j, current[h][j]>>, "interrupted") : j \in {k \in Job : current[h][k] # 0}}
    BY <1>6 DEF Retire, Close, Stop, Statuses
  <2>2. runner[a] = h
    BY <1>1, <2>1
  <2>3. Ending(a, "interrupted") \in ending' /\ Ending(a, "interrupted").attempt = a
    BY <1>1, <2>1, <2>2 DEF Ending
  <2>4. QED
    BY <2>3
<1>7. QED
  BY <1>3, <1>4, <1>5, <1>6

LEMMA LeavingStaysStopped ==
  ASSUME RecordsInv, [JobsNext]_jobVars PROVE LeavingStops'
<1> SUFFICES ASSUME NEW a \in Attempt, phase'[a] \in Entered, status'[runner'[a]] # "open"
             PROVE  a \in signalled' \/ \E e \in ending' : e.attempt = a
  BY DEF LeavingStops, Open
<1>1. phase[a] # "none"
  <2>1. \A h \in Host : ~Fresh(h, a)
    BY DEF Fresh, Launches, RecordsInv, JobsInv, Entered
  <2>2. QED
    BY <2>1, Phases DEF Entered
<1>2. Goes(a) /\ runner'[a] = runner[a]
  BY <1>1, Onward DEF Goes
<1>3. phase[a] \in Entered
  BY <1>2 DEF Goes, Open
<1>4. CASE status[runner[a]] = "open"
  BY <1>2, <1>3, <1>4, ClosingStopsAll
<1>5. CASE status[runner[a]] # "open"
  <2>1. a \in signalled \/ \E e \in ending : e.attempt = a
    BY <1>3, <1>5 DEF RecordsInv, LeavingStops, Open
  <2>2. QED
    BY <1>3, <2>1, StopsStay
<1>6. QED
  BY <1>4, <1>5

LEMMA SuccessStaysOver ==
  ASSUME RecordsInv, [JobsNext]_jobVars, NEW j \in Job, store'[j].state = "succeeded"
  PROVE  /\ <<j, store'[j].attempt>> \in Attempt /\ phase'[<<j, store'[j].attempt>>] = "over"
         /\ outcome'[<<j, store'[j].attempt>>] = "succeeded"
<1>1. CASE store'[j] = store[j]
  <2> DEFINE b == <<j, store[j].attempt>>
  <2>1. b \in Attempt /\ phase[b] = "over" /\ outcome[b] = "succeeded"
    BY <1>1 DEF RecordsInv, SuccessIsOver, RecordsTellTheTruth
  <2>2. Goes(b)
    BY <2>1, Onward
  <2>3. QED
    BY <1>1, <2>1, <2>2 DEF Goes
<1>2. CASE Succeeds(j)
  BY <1>2 DEF Succeeds, SettleOperation, To, RecordsInv, JobsInv
<1>3. QED
  BY <1>1, <1>2, RecordsGrow DEF Grows

(* The operations of open hosts that nobody is stopping are on record.     *)
LEMMA OperationsStayOnRecord ==
  ASSUME RecordsInv, [JobsNext]_jobVars, EntriesMatch', OpenHostsOwn', LeavingStops',
         NEW a \in Attempt, phase'[a] = "running", ~BeingStopped(a)'
  PROVE  OnRecord(a, "running")' \/
         (/\ failures' > 0 /\ store'[a[1]].attempt = a[2]
          /\ store'[a[1]].state \in {"cancelled", "evicted"})
<1>1. /\ a \notin signalled' /\ ~(\E e \in ending' : e.attempt = a)
      /\ <<runner'[a], a[1]>> \notin cancelling'
  <2>1. current'[runner'[a]][a[1]] = a[2]
    BY DEF EntriesMatch, Entry, Entered
  <2>2. QED
    BY <2>1 DEF BeingStopped, Entry
<1>2. status'[runner'[a]] = "open"
  BY <1>1 DEF LeavingStops, Open, Entered
<1>3. phase[a] # "none"
  <2>1. \A h \in Host : ~Fresh(h, a)
    BY DEF Fresh, Launches, RecordsInv, JobsInv, Entered
  <2>2. QED
    BY <2>1, Phases
<1>4. /\ runner'[a] = runner[a] /\ runner[a] \in Host
      /\ phase[a] = "running" \/ Admit(a)
  BY <1>3, Onward DEF Goes, RecordsInv, AttemptsOnRecord
<1>5. Open(runner[a])
  BY <1>2, <1>4, HostsMove DEF Open
<1>6. /\ store'[a[1]].attempt = a[2]
      /\ IsActive(store', a[1]) => store'[a[1]].host = runner'[a]
  BY <1>2 DEF OpenHostsOwn, Open, Underway, Entered, IsActive
<1>7. CASE Admit(a)
  <2>1. Write(With(store, a[1], "running"))
    BY <1>7 DEF Admit, To, RecordsInv, JobsInv
  <2>2. store[a[1]] \in StoredJob /\ a[1] \in Job
    BY AttemptIs DEF RecordsInv, JobsInv, StoreOK
  <2>3. store'[a[1]].state = "running"
    BY <2>1, <2>2 DEF Write, With, Change, Turned, StoredJob
  <2>4. QED
    BY <1>6, <2>3 DEF OnRecord, IsActive, ActiveStates
<1>8. CASE phase[a] = "running" /\ ~Admit(a)
  <2>1. ~BeingStopped(a)
    <3>1. phase[a] \in Entered /\ phase'[a] \in Entered
      BY <1>8 DEF Entered
    <3>2. QED
      BY <1>1, <1>4, <3>1, StopsStay DEF BeingStopped
  <2>2. \/ OnRecord(a, "running")
        \/ failures > 0 /\ store[a[1]].state \in {"cancelled", "evicted"}
    BY <1>8, <2>1 DEF RecordsInv, RecordsTellTheTruth, Is
  <2>3. JobMoves(a)
    BY <1>5, <1>8, JobOfOpenHost DEF Underway, Entered
  <2>4. failures' >= failures /\ failures \in Nat /\ failures' \in Nat
    BY HostsMove, JobsAssumption DEF RecordsInv, HostShape
  <2>5. CASE store'[a[1]] = store[a[1]]
    BY <1>4, <1>6, <2>2, <2>4, <2>5 DEF OnRecord
  <2>6. CASE store[a[1]].state \in Prunable /\ store'[a[1]].state = "evicted"
    <3>1. failures > 0
      BY <2>2, <2>6 DEF OnRecord, Prunable
    <3>2. QED
      BY <1>6, <2>4, <2>6, <3>1
  <2>7. CASE store'[a[1]].state = "cancelled" /\ failures' > 0
    BY <1>6, <2>7
  <2>8. QED
    BY <1>1, <1>4, <1>8, <2>3, <2>5, <2>6, <2>7 DEF JobMoves
<1>9. QED
  BY <1>4, <1>7, <1>8

LEMMA RecordsStep == ASSUME RecordsInv, [JobsNext]_jobVars PROVE RecordsInv'
<1>1. JobsInv'
  BY JobsStep DEF RecordsInv
<1>2. HostShape' /\ AttemptsOnRecord' /\ EntriesMatch' /\ OpenHostsOwn' /\ EndingsKnown' /\ LeavingStops'
  BY <1>1, HostsMove, AttemptsStayOnRecord, EntriesStay, OwnersStay, EndingsStayKnown, LeavingStaysStopped
<1>3. SuccessIsOver'
  BY <1>1, SuccessStaysOver DEF SuccessIsOver
<1>4. RecordsTellTheTruth'
  BY <1>1, <1>2, OperationsStayOnRecord, SuccessStaysOver DEF RecordsTellTheTruth, Is
<1>5. QED
  BY <1>1, <1>2, <1>3, <1>4 DEF RecordsInv

LEMMA RecordsInvHolds == JobsSpec => []RecordsInv
  BY RecordsInitHolds, RecordsStep, PTL DEF JobsSpec

(* However hosts are refreshed, processes die and writes fail, an          *)
(* operation of a job that nobody is stopping is the attempt its record    *)
(* speaks of, so a job never has two, and a job that has succeeded did so  *)
(* in the attempt on record: DurableJobSupervisor.                         *)
THEOREM RecordsTellTheTruthHolds == JobsSpec => []RecordsTellTheTruth
<1>1. RecordsInv => RecordsTellTheTruth
  BY DEF RecordsInv
<1>2. QED
  BY RecordsInvHolds, <1>1, PTL

LEMMA RecordsType == RecordsInv => JobsTypeOK
  BY DEF RecordsInv, JobsInv, HostShape, StoreOK, StoredJob, JobsTypeOK, Statuses

(* Every variable of the supervisors has its shape, whatever happens.      *)
THEOREM JobsTypeCorrect == JobsSpec => []JobsTypeOK
  BY RecordsInvHolds, RecordsType, PTL

-----------------------------------------------------------------------------
(* ManagedProcess.                                                         *)

Reasons == {"none", "cancel", "failure", "timeout"}

RecordShape ==
  /\ state \in [Process -> RecordStates] /\ reason \in [Process -> Reasons]
  /\ timers \in [Process -> SUBSET {"timeout", "escalation", "settlement", "drain"}]
  /\ bytes \in [Process -> Nat] /\ finished \in Seq(Process)

(* A record that has ended is at the end of its stream, and only the timer *)
(* of the pipe may still be set; the records kept are of such processes.   *)
EndedIsQuiet ==
  /\ \A p \in Process : "settlement" \in timers[p] => Runs(p)
  /\ \A p \in Process : HasEnded(p) => p \in eof
  /\ \A i \in DOMAIN finished : HasEnded(finished[i])
  /\ \A p \in Process : state[p] = "absent" => p \notin paused

ProcessInv == RecordShape /\ EndedIsQuiet /\ ReadersAreServed

(* The body of FirstReasonDecides.                                         *)
Decides(p) ==
  /\ reason[p] # "none" => reason'[p] = reason[p]
  /\ HasEnded(p) => state'[p] \in {state[p], "released"}
  /\ Runs(p) /\ state'[p] = "succeeded" => reason[p] = "none" /\ code[p] = "zero"
  /\ Runs(p) /\ state'[p] \in Ended =>
       /\ reason[p] = "timeout" <=> state'[p] = "timed_out"
       /\ reason[p] = "cancel" <=> state'[p] = "cancelled"

LEMMA ProcessInitHolds == ProcessInit => ProcessInv
BY ProcessAssumption
   DEF ProcessInit, ProcessInv, RecordShape, EndedIsQuiet, ReadersAreServed, RecordStates, Ended,
       Reasons, Runs, HasEnded

(* What #finish does to one record and to the others.                      *)
Finishes(p, verdict, gone) ==
  /\ \A q \in Process :
       state'[q] = IF q \in gone THEN "released" ELSE IF q = p THEN verdict ELSE state[q]
  /\ \A q \in Process : bytes'[q] = IF q \in gone THEN 0 ELSE bytes[q]
  /\ paused' = paused \ gone /\ eof' = eof \cup {p} /\ pending' = pending \ {p}
  /\ timers' = [timers EXCEPT ![p] = {}]
  /\ finished' \in Seq(Process)
  /\ \A i \in DOMAIN finished' : finished'[i] \in (Members(finished) \cup {p}) \ gone
  /\ state' \in [Process -> RecordStates] /\ bytes' \in [Process -> Nat]

LEMMA FinishDoes ==
  ASSUME RecordShape, NEW p \in Process, NEW verdict \in Ended, Finish(p, verdict)
  PROVE  \E gone \in SUBSET (Members(finished) \cup {p}) : Finishes(p, verdict, gone)
<1> DEFINE list == Append(finished, p)
           gone == Members(list) \ Members(Kept(list))
<1>1. list \in Seq(Process) /\ Members(list) \subseteq Members(finished) \cup {p}
  BY DEF RecordShape, Members
<1>2. Kept(list) \in Seq(Process) /\ Members(Kept(list)) \subseteq Members(list)
  <2>1. <<>> \in Seq(Process) /\ Members(<<>>) \subseteq Members(list)
    BY DEF Members
  <2>2. list # <<>>
    <3>1. Len(list) = Len(finished) + 1 /\ Len(finished) \in Nat
      BY DEF RecordShape
    <3>2. QED
      BY <3>1
  <2>3. Tail(list) \in Seq(Process) /\ Members(Tail(list)) \subseteq Members(list)
    BY <1>1, <2>2 DEF Members
  <2>4. QED
    BY <1>1, <2>1, <2>3 DEF Kept
<1>3. /\ \A q \in Process :
           state'[q] = IF q \in gone THEN "released" ELSE IF q = p THEN verdict ELSE state[q]
      /\ \A q \in Process : bytes'[q] = IF q \in gone THEN 0 ELSE bytes[q]
      /\ paused' = paused \ gone /\ eof' = eof \cup {p} /\ pending' = pending \ {p}
      /\ timers' = [timers EXCEPT ![p] = {}] /\ finished' = Kept(list)
  BY DEF Finish
<1>4. state' \in [Process -> RecordStates] /\ bytes' \in [Process -> Nat]
  BY DEF Finish, RecordShape, RecordStates
<1>5. \A i \in DOMAIN finished' : finished'[i] \in Members(Kept(list))
  BY <1>3 DEF Members
<1>6. gone \subseteq Members(finished) \cup {p}
  BY <1>1
<1>7. \A i \in DOMAIN finished' : finished'[i] \in (Members(finished) \cup {p}) \ gone
  BY <1>1, <1>2, <1>5
<1>8. QED
  BY <1>2, <1>3, <1>4, <1>6, <1>7 DEF Finishes

(* #finish settles a record that is not settled.                           *)
LEMMA FinishKeepsInv ==
  ASSUME ProcessInv, NEW p \in Process, ~HasEnded(p), NEW verdict \in Ended, Finish(p, verdict),
         UNCHANGED reason
  PROVE  /\ ProcessInv'
         /\ \A q \in Process : HasEnded(q) => state'[q] \in {state[q], "released"}
         /\ \A q \in Process : q # p /\ Runs(q) => state'[q] = state[q]
         /\ state'[p] \in {verdict, "released"}
<1>1. RecordShape /\ EndedIsQuiet /\ ReadersAreServed
  BY DEF ProcessInv
<1>2. PICK gone \in SUBSET (Members(finished) \cup {p}) : Finishes(p, verdict, gone)
  BY <1>1, FinishDoes
<1>3. /\ \A q \in Process :
           state'[q] = IF q \in gone THEN "released" ELSE IF q = p THEN verdict ELSE state[q]
      /\ \A q \in Process : bytes'[q] = IF q \in gone THEN 0 ELSE bytes[q]
      /\ paused' = paused \ gone /\ eof' = eof \cup {p} /\ pending' = pending \ {p}
      /\ timers' = [timers EXCEPT ![p] = {}]
      /\ finished' \in Seq(Process)
      /\ \A i \in DOMAIN finished' : finished'[i] \in (Members(finished) \cup {p}) \ gone
      /\ state' \in [Process -> RecordStates] /\ bytes' \in [Process -> Nat]
  BY <1>2 DEF Finishes
<1>4. \A q \in Members(finished) : q \in Process /\ HasEnded(q)
  BY <1>1 DEF EndedIsQuiet, Members, RecordShape
<1>5. \A q \in Process : q # p /\ Runs(q) => state'[q] = state[q] /\ q \notin gone
  BY <1>3, <1>4 DEF HasEnded, Runs, Ended
<1>6. \A q \in Process : HasEnded(q) => state'[q] \in {state[q], "released"}
  BY <1>3
<1>7. RecordShape'
  BY <1>1, <1>3 DEF RecordShape
<1>8. EndedIsQuiet'
  <2>1. \A q \in Process : "settlement" \in timers'[q] => q # p /\ "settlement" \in timers[q]
    BY <1>1, <1>3 DEF RecordShape
  <2>2. \A q \in Process : "settlement" \in timers'[q] => state'[q] \in {"starting", "running", "stopping"}
    BY <1>1, <1>5, <2>1 DEF EndedIsQuiet, Runs
  <2>3. \A q \in Process : state'[q] \in Ended => q \in eof'
    BY <1>1, <1>3 DEF EndedIsQuiet, HasEnded, Ended
  <2>4. \A i \in DOMAIN finished' : state'[finished'[i]] \in Ended
    BY <1>3, <1>4 DEF HasEnded
  <2>5. \A q \in Process : state'[q] = "absent" => q \notin paused'
    BY <1>1, <1>3 DEF EndedIsQuiet, Ended
  <2>6. QED
    BY <2>2, <2>3, <2>4, <2>5 DEF EndedIsQuiet, Runs, HasEnded
<1>9. ReadersAreServed'
  <2> SUFFICES ASSUME NEW q \in Process
               PROVE  /\ q \in paused' /\ state'[q] \in {"starting", "running", "stopping"} => bytes'[q] > 0
                      /\ q \in pending' =>
                           /\ bytes'[q] = 0 /\ q \notin eof'
                           /\ state'[q] \in {"starting", "running", "stopping"}
    BY DEF ReadersAreServed, Runs
  <2>1. CASE q = p
    BY <1>3, <2>1 DEF Ended
  <2>2. CASE q # p
    BY <1>1, <1>3, <1>5, <2>2 DEF ReadersAreServed, Runs
  <2>3. QED
    BY <2>1, <2>2
<1>10. QED
  BY <1>3, <1>5, <1>6, <1>7, <1>8, <1>9 DEF ProcessInv

LEMMA VerdictDecides ==
  ASSUME NEW why \in Reasons, NEW exit
  PROVE  /\ Verdict(why, exit) \in Ended
         /\ Verdict(why, exit) = "succeeded" => why = "none" /\ exit = "zero"
         /\ why = "timeout" <=> Verdict(why, exit) = "timed_out"
         /\ why = "cancel" <=> Verdict(why, exit) = "cancelled"
BY DEF Verdict, Ended, Reasons

Steps == ProcessInv' /\ \A p \in Process : Decides(p)

(* A step that settles p by the verdict on its reason.                     *)
LEMMA SettlingStep ==
  ASSUME ProcessInv, NEW p \in Process, Runs(p), NEW exit, exit = "zero" => code[p] = "zero",
         NEW verdict, verdict = Verdict(reason[p], exit), Finish(p, verdict), UNCHANGED reason
  PROVE  Steps
<1>1. reason[p] \in Reasons
  BY DEF ProcessInv, RecordShape
<1>2. /\ verdict \in Ended
      /\ verdict = "succeeded" => reason[p] = "none" /\ exit = "zero"
      /\ reason[p] = "timeout" <=> verdict = "timed_out"
      /\ reason[p] = "cancel" <=> verdict = "cancelled"
  BY <1>1, VerdictDecides
<1>3. ~HasEnded(p)
  BY DEF Runs, HasEnded, Ended
<1>4. /\ ProcessInv'
      /\ \A q \in Process : HasEnded(q) => state'[q] \in {state[q], "released"}
      /\ \A q \in Process : q # p /\ Runs(q) => state'[q] = state[q]
      /\ state'[p] \in {verdict, "released"}
  BY <1>2, <1>3, FinishKeepsInv
<1>5. \A q \in Process : Decides(q)
  BY <1>2, <1>4 DEF Decides, Runs, HasEnded, Ended
<1>6. QED
  BY <1>4, <1>5 DEF Steps

(* A step that leaves the states of records, or only makes them stop.      *)
LEMMA UnsettlingStep ==
  ASSUME \A p \in Process : /\ state'[p] = state[p] \/ (~HasEnded(p) /\ state'[p] \notin Ended)
                            /\ reason[p] # "none" => reason'[p] = reason[p]
  PROVE  \A p \in Process : Decides(p)
BY DEF Decides, HasEnded, Runs, Ended

LEMMA SpawnSteps ==
  ASSUME ProcessInv, NEW p \in Process, Spawn(p) \/ Spawned(p) \/ SpawnFailed(p) PROVE Steps
<1>1. CASE Spawn(p)
  <2>1. state[p] = "absent" /\ ~Runs(p) /\ ~HasEnded(p) /\ UNCHANGED reason /\ "failed" \in Ended
    BY <1>1 DEF Spawn, Runs, HasEnded, Ended
  <2>2. CASE Finish(p, "failed")
    <3>1. /\ ProcessInv'
          /\ \A q \in Process : HasEnded(q) => state'[q] \in {state[q], "released"}
          /\ \A q \in Process : q # p /\ Runs(q) => state'[q] = state[q]
      BY <2>1, <2>2, FinishKeepsInv
    <3>2. \A q \in Process : Decides(q)
      BY <2>1, <3>1 DEF Decides, Runs, HasEnded, Ended
    <3>3. QED
      BY <3>1, <3>2 DEF Steps
  <2>3. CASE ~Finish(p, "failed")
    <3>1. /\ state' = [state EXCEPT ![p] = "starting"]
          /\ \E limit \in {{}, {"timeout"}} : timers' = [timers EXCEPT ![p] = limit]
          /\ UNCHANGED <<reason, bytes, paused, eof, pending, finished>>
      BY <1>1, <2>3 DEF Spawn, stream
    <3>2. ProcessInv'
      BY <2>1, <3>1 DEF ProcessInv, RecordShape, EndedIsQuiet, ReadersAreServed, RecordStates,
                        Runs, HasEnded, Ended
    <3>3. \A q \in Process : Decides(q)
      BY <2>1, <3>1, UnsettlingStep DEF ProcessInv, RecordShape, Ended
    <3>4. QED
      BY <3>2, <3>3 DEF Steps
  <2>4. QED
    BY <2>2, <2>3
<1>2. CASE Spawned(p)
  <2>1. /\ state' = state \/ (state[p] = "starting" /\ state' = [state EXCEPT ![p] = "running"])
        /\ UNCHANGED <<reason, timers, bytes, paused, eof, pending, finished>>
    BY <1>2 DEF Spawned, stream
  <2>2. ProcessInv'
    <3>1. RecordShape'
      BY <2>1 DEF ProcessInv, RecordShape, RecordStates
    <3>2. \A q \in Process : /\ state'[q] \in {"starting", "running", "stopping"} <=> Runs(q)
                             /\ state'[q] \in Ended <=> HasEnded(q)
                             /\ state'[q] = "absent" => state[q] = "absent"
      BY <2>1 DEF ProcessInv, RecordShape, Runs, HasEnded, Ended
    <3>3. EndedIsQuiet'
      BY <2>1, <3>2 DEF ProcessInv, RecordShape, EndedIsQuiet, Runs, HasEnded
    <3>4. ReadersAreServed'
      BY <2>1, <3>2 DEF ProcessInv, ReadersAreServed, Runs
    <3>5. QED
      BY <3>1, <3>3, <3>4 DEF ProcessInv
  <2>3. \A q \in Process : Decides(q)
    BY <2>1, UnsettlingStep DEF ProcessInv, RecordShape, HasEnded, Ended
  <2>4. QED
    BY <2>2, <2>3 DEF Steps
<1>3. CASE SpawnFailed(p)
  <2>1. CASE Runs(p)
    <3>1. Finish(p, Verdict(reason[p], "other")) /\ UNCHANGED reason
      BY <1>3, <2>1 DEF SpawnFailed, Verdict
    <3>2. QED
      BY <2>1, <3>1, SettlingStep
  <2>2. CASE ~Runs(p)
    <3>1. UNCHANGED <<state, reason, timers, bytes, paused, eof, pending, finished>>
      BY <1>3, <2>2 DEF SpawnFailed, stream
    <3>2. QED
      BY <3>1, UnsettlingStep
         DEF Steps, ProcessInv, RecordShape, EndedIsQuiet, ReadersAreServed, Runs, HasEnded
  <2>3. QED
    BY <2>1, <2>2
<1>4. QED
  BY <1>1, <1>2, <1>3

LEMMA StopSteps ==
  ASSUME ProcessInv, NEW p \in Process, Cancelled(p) \/ TimeLimit(p) PROVE Steps
<1>1. PICK why \in {"cancel", "failure", "timeout"} : StopProcess(p, why)
  BY DEF Cancelled, TimeLimit
<1>2. /\ Runs(p) /\ reason[p] = "none" /\ reason' = [reason EXCEPT ![p] = why]
      /\ state' = [state EXCEPT ![p] = "stopping"]
      /\ timers' = [timers EXCEPT ![p] = (@ \ {why}) \cup {"escalation", "settlement"}]
      /\ UNCHANGED <<bytes, paused, eof, pending, finished>>
  BY <1>1 DEF StopProcess, StopReason, stream
<1>3. ProcessInv'
  BY <1>2 DEF ProcessInv, RecordShape, EndedIsQuiet, ReadersAreServed, RecordStates, Reasons,
              Runs, HasEnded, Ended
<1>4. \A q \in Process : Decides(q)
  BY <1>2, UnsettlingStep DEF ProcessInv, RecordShape, Runs, HasEnded, Ended
<1>5. QED
  BY <1>3, <1>4 DEF Steps

LEMMA OwnerSteps == ASSUME ProcessInv, OwnerEnds PROVE Steps
<1> DEFINE stopped  == {p \in Process : Runs(p) /\ reason[p] = "none"}
           released == IF \E p \in Process : Runs(p) THEN {} ELSE Members(finished)
<1>1. /\ reason' = [p \in Process |-> IF p \in stopped THEN "cancel" ELSE reason[p]]
      /\ state' = [p \in Process |-> IF p \in stopped THEN "stopping"
                                     ELSE IF p \in released THEN "released" ELSE state[p]]
      /\ timers' = [p \in Process |->
                      IF p \in stopped THEN timers[p] \cup {"escalation", "settlement"} ELSE timers[p]]
      /\ finished' = IF released = {} THEN finished ELSE <<>>
      /\ bytes' = [p \in Process |-> IF p \in released THEN 0 ELSE bytes[p]]
      /\ paused' = paused \ released /\ pending' = {} /\ eof' = eof
  BY DEF OwnerEnds
<1>2. \A p \in released : p \in Process /\ HasEnded(p) /\ ~Runs(p)
  BY DEF ProcessInv, EndedIsQuiet, Members, RecordShape, HasEnded, Runs, Ended
<1>3. RecordShape'
  BY <1>1 DEF ProcessInv, RecordShape, RecordStates, Reasons
<1>4. \A p \in Process : /\ state'[p] \in {"starting", "running", "stopping"} <=> Runs(p)
                         /\ state'[p] \in Ended => state'[p] = state[p]
                         /\ state'[p] = "absent" => state[p] = "absent"
  BY <1>1, <1>2 DEF Runs, HasEnded, Ended
<1>5. \A i \in DOMAIN finished' : state'[finished'[i]] \in Ended
  <2>1. CASE released = {}
    BY <1>1, <2>1 DEF ProcessInv, EndedIsQuiet, RecordShape, HasEnded, Runs, Ended
  <2>2. CASE released # {}
    BY <1>1, <2>2
  <2>3. QED
    BY <2>1, <2>2
<1>6. \A p \in Process : "settlement" \in timers'[p] => Runs(p)
  BY <1>1 DEF ProcessInv, EndedIsQuiet
<1>7. EndedIsQuiet'
  BY <1>1, <1>4, <1>5, <1>6 DEF ProcessInv, EndedIsQuiet, HasEnded, Runs
<1>8. ReadersAreServed'
  BY <1>1, <1>2, <1>4 DEF ProcessInv, ReadersAreServed, Runs
<1>9. \A p \in Process : Decides(p)
  BY <1>1, <1>2, <1>4 DEF Decides, Runs, HasEnded, Ended
<1>10. QED
  BY <1>3, <1>7, <1>8, <1>9 DEF Steps, ProcessInv

LEMMA PipeSteps ==
  ASSUME ProcessInv, NEW p \in Process, Data(p) \/ Read(p) \/ ReadAborted(p) \/ PipeEnds(p) PROVE Steps
<1>1. UNCHANGED <<state, reason, timers, finished>>
  BY DEF Data, Read, ReadAborted, PipeEnds
<1>2. \A q \in Process : Decides(q)
  BY <1>1, UnsettlingStep
<1>3. bytes' \in [Process -> Nat] /\ eof \subseteq eof' /\ (state[p] = "absent" => p \notin paused')
      /\ \A q \in Process : q # p => (q \in paused' <=> q \in paused)
  <2>1. CASE Data(p)
    <3>1. /\ bytes' = bytes \/ bytes' = [bytes EXCEPT ![p] = @ + 1]
          /\ paused' = paused \/ (Runs(p) /\ paused' = paused \cup {p})
          /\ eof' = eof
      BY <2>1 DEF Data, stream
    <3>2. QED
      BY <3>1 DEF ProcessInv, RecordShape, EndedIsQuiet, Runs
  <2>2. CASE Read(p)
    BY <2>2 DEF Read, ResumePipe, ProcessInv, RecordShape, EndedIsQuiet
  <2>3. CASE ReadAborted(p) \/ PipeEnds(p)
    BY <2>3 DEF ReadAborted, PipeEnds, ProcessInv, RecordShape, EndedIsQuiet
  <2>4. QED
    BY <2>1, <2>2, <2>3
<1>4. RecordShape' /\ EndedIsQuiet'
  BY <1>1, <1>3 DEF ProcessInv, RecordShape, EndedIsQuiet, Runs, HasEnded
<1>5. ReadersAreServed'
  <2>1. CASE Data(p)
    <3>1. \A q \in Process : (Runs(q))' <=> Runs(q)
      BY <1>1 DEF Runs
    <3>2. \A q \in Process : bytes[q] \in Nat
      BY DEF ProcessInv, RecordShape
    <3>3. eof' = eof
      BY <2>1 DEF Data, stream
    <3>4. CASE UNCHANGED stream
      BY <3>1, <3>4 DEF stream, ProcessInv, ReadersAreServed
    <3>5. CASE pending' = pending \ {p} /\ UNCHANGED <<bytes, paused, eof>>
      BY <3>1, <3>5 DEF ProcessInv, ReadersAreServed
    <3>6. CASE p \notin pending /\ bytes' = [bytes EXCEPT ![p] = @ + 1]
               /\ paused' \in {paused \cup {p}, paused} /\ pending' = pending
      <4>1. \A q \in Process : bytes'[q] = IF q = p THEN bytes[p] + 1 ELSE bytes[q]
        BY <3>6 DEF ProcessInv, RecordShape
      <4>2. ASSUME NEW q \in Process, q \in paused', Runs(q) PROVE bytes'[q] > 0
        BY <3>2, <3>6, <4>1, <4>2 DEF ProcessInv, ReadersAreServed
      <4>3. ASSUME NEW q \in Process, q \in pending' PROVE bytes'[q] = 0 /\ q \notin eof /\ Runs(q)
        BY <3>6, <4>1, <4>3 DEF ProcessInv, ReadersAreServed
      <4>4. QED
        BY <3>1, <3>3, <4>2, <4>3 DEF ReadersAreServed
    <3>7. QED
      BY <2>1, <3>4, <3>5, <3>6 DEF Data
  <2>2. CASE Read(p)
    BY <1>1, <2>2, ProcessAssumption
       DEF Read, ResumePipe, ProcessInv, RecordShape, EndedIsQuiet, ReadersAreServed, Runs, HasEnded
  <2>3. CASE ReadAborted(p) \/ PipeEnds(p)
    BY <1>1, <2>3 DEF ReadAborted, PipeEnds, ProcessInv, ReadersAreServed, Runs
  <2>4. QED
    BY <2>1, <2>2, <2>3
<1>6. QED
  BY <1>2, <1>4, <1>5 DEF Steps, ProcessInv

LEMMA SystemSteps ==
  ASSUME ProcessInv, NEW p \in Process,
         Writes(p) \/ Forks(p) \/ Exits(p) \/ Escalates(p) \/ Drains(p) \/ Closes(p) \/ Settles(p)
  PROVE  Steps
<1>1. CASE Writes(p) \/ Forks(p) \/ Exits(p) \/ Escalates(p) \/ Drains(p)
  <2>1. UNCHANGED <<state, reason, bytes, paused, eof, pending, finished>>
    BY <1>1 DEF Writes, Forks, Exits, Escalates, Drains, stream
  <2>2. \/ UNCHANGED timers
        \/ \E timer \in {"escalation", "drain"} :
             \/ timers' = [timers EXCEPT ![p] = @ \cup {timer}] /\ timer = "drain"
             \/ timers' = [timers EXCEPT ![p] = @ \ {timer}]
    BY <1>1 DEF Writes, Forks, Exits, ExitCleanup, Escalates, Drains, Fires
  <2>3. /\ timers' \in [Process -> SUBSET {"timeout", "escalation", "settlement", "drain"}]
        /\ \A q \in Process : "settlement" \in timers'[q] => "settlement" \in timers[q]
    BY <2>2 DEF ProcessInv, RecordShape
  <2>4. ProcessInv'
    BY <2>1, <2>3 DEF ProcessInv, RecordShape, EndedIsQuiet, ReadersAreServed, Runs, HasEnded
  <2>5. \A q \in Process : Decides(q)
    BY <2>1, UnsettlingStep
  <2>6. QED
    BY <2>4, <2>5 DEF Steps
<1>2. CASE Closes(p)
  <2>1. CASE Runs(p)
    BY <1>2, <2>1, SettlingStep DEF Closes
  <2>2. CASE ~Runs(p)
    <3>1. UNCHANGED <<state, reason, timers, bytes, paused, eof, pending, finished>>
      BY <1>2, <2>2 DEF Closes, stream
    <3>2. QED
      BY <3>1, UnsettlingStep
         DEF Steps, ProcessInv, RecordShape, EndedIsQuiet, ReadersAreServed, Runs, HasEnded
  <2>3. QED
    BY <2>1, <2>2
<1>3. CASE Settles(p)
  <2>1. Runs(p)
    BY <1>3 DEF Settles, ProcessInv, EndedIsQuiet
  <2>2. QED
    BY <1>3, <2>1, SettlingStep DEF Settles
<1>4. QED
  BY <1>1, <1>2, <1>3

LEMMA ProcessSteps == ASSUME ProcessInv, [ProcessNext]_processVars PROVE ProcessInv' /\ (UNCHANGED processVars \/ Steps)
<1>1. CASE UNCHANGED processVars
  BY <1>1 DEF processVars, stream, ProcessInv, RecordShape, EndedIsQuiet, ReadersAreServed, Runs, HasEnded
<1>2. ASSUME NEW p \in Process, TimerStep(p) \/ EventStep(p) \/ ProcessCall(p) \/ SystemStep(p) PROVE Steps
  BY <1>2, SpawnSteps, StopSteps, PipeSteps, SystemSteps
     DEF TimerStep, EventStep, ProcessCall, SystemStep
<1>3. CASE ProcessNext
  <2>1. Steps
    BY <1>2, <1>3, OwnerSteps DEF ProcessNext
  <2>2. QED
    BY <2>1 DEF Steps
<1>4. QED
  BY <1>1, <1>3

LEMMA ProcessInvHolds == ProcessSpec => []ProcessInv
<1>1. ProcessInv /\ [ProcessNext]_processVars => ProcessInv'
  BY ProcessSteps
<1>2. QED
  BY ProcessInitHolds, <1>1, PTL DEF ProcessSpec

(* Output is held back only while there is something to read, and a read   *)
(* waits only while something may come: #resumePipe and #finish.           *)
THEOREM ReadersAreServedHolds == ProcessSpec => []ReadersAreServed
<1>1. ProcessInv => ReadersAreServed
  BY DEF ProcessInv
<1>2. QED
  BY ProcessInvHolds, <1>1, PTL

LEMMA EveryStepDecides ==
  ProcessInv /\ [ProcessNext]_processVars => [\A p \in Process : Decides(p)]_processVars
  BY ProcessSteps DEF Steps

(* A record is settled once, by the first reason to stop its process: the  *)
(* timers and events of ManagedProcessSupervisor may come in any order.    *)
THEOREM FirstReasonDecidesHolds == ProcessSpec => FirstReasonDecides
BY ProcessInvHolds, EveryStepDecides, PTL DEF ProcessSpec, FirstReasonDecides, Decides

-----------------------------------------------------------------------------
(* The bounds of a process: what the pipe may hold, what is kept of it for *)
(* the extension, and how many records of ended processes there are.       *)

PipeShape ==
  /\ child \in [Process -> {"none", "spawning", "alive", "exited", "closed"}]
  /\ code \in [Process -> {"none", "zero", "other"}]
  /\ killed \cup kin \cup cut \cup paused \cup eof \cup pending \subseteq Process
  /\ unread \in [Process -> Nat] /\ output \in [Process -> Nat]
  /\ \A p \in Process : unread[p] + output[p] <= MaxOutput
  /\ ownerGone \in BOOLEAN

(* The pipe is held back from the moment the high water mark is reached,   *)
(* so that no chunk comes on top of it.                                    *)
HeldBack ==
  \A p \in Process : bytes[p] < HighWater \/ (bytes[p] = HighWater /\ p \in paused)

FewRecords == Len(finished) <= MaxTerminal

(* Whoever is to be stopped was spawned, and is no longer taken to run.    *)
StoppedForAReason ==
  \A p \in Process : reason[p] # "none" => state[p] \notin {"absent", "starting", "running"}

BoundInv == PipeShape /\ HeldBack /\ FewRecords /\ StoppedForAReason

LEMMA BoundInitHolds == ProcessInit => BoundInv
<1> SUFFICES ASSUME ProcessInit PROVE BoundInv
  OBVIOUS
<1>1. {MaxTerminal, HighWater} \subseteq Nat \ {0} /\ MaxOutput \in Nat
  BY ProcessAssumption
<1>2. PipeShape
  <2>1. /\ unread \in [Process -> Nat] /\ output \in [Process -> Nat]
        /\ \A p \in Process : unread[p] = 0 /\ output[p] = MaxOutput
    BY <1>1 DEF ProcessInit
  <2>2. \A p \in Process : unread[p] + output[p] <= MaxOutput
    BY <1>1, <2>1
  <2>3. /\ child \in [Process -> {"none", "spawning", "alive", "exited", "closed"}]
        /\ code \in [Process -> {"none", "zero", "other"}]
    BY DEF ProcessInit
  <2>4. killed \cup kin \cup cut \cup paused \cup eof \cup pending \subseteq Process /\ ownerGone \in BOOLEAN
    BY DEF ProcessInit
  <2>5. QED
    BY <2>1, <2>2, <2>3, <2>4 DEF PipeShape
<1>3. HeldBack
  BY <1>1 DEF ProcessInit, HeldBack
<1>4. FewRecords
  <2>1. Len(<<>>) = 0
    OBVIOUS
  <2>2. QED
    BY <1>1, <2>1 DEF ProcessInit, FewRecords
<1>5. StoppedForAReason
  BY DEF ProcessInit, StoppedForAReason
<1>6. QED
  BY <1>2, <1>3, <1>4, <1>5 DEF BoundInv

(* #finish releases the oldest record when there is one too many.          *)
LEMMA FinishKeepsFew ==
  ASSUME RecordShape, FewRecords, NEW p \in Process, NEW verdict, Finish(p, verdict)
  PROVE  FewRecords'
<1> DEFINE list == Append(finished, p)
<1>1. list \in Seq(Process) /\ Len(list) = Len(finished) + 1 /\ Len(finished) \in Nat
  BY DEF RecordShape
<1>2. MaxTerminal \in Nat \ {0}
  BY ProcessAssumption
<1>3. CASE Len(list) > MaxTerminal
  <2>1. Len(Tail(list)) = Len(list) - 1
    BY <1>1
  <2>2. Len(<<>>) = 0
    OBVIOUS
  <2>3. Kept(list) \in {<<>>, Tail(list)}
    BY <1>3 DEF Kept
  <2>4. 0 <= MaxTerminal /\ Len(list) - 1 <= MaxTerminal
    BY <1>1, <1>2 DEF FewRecords
  <2>5. Len(Kept(list)) <= MaxTerminal
    <3>1. Len(<<>>) <= MaxTerminal /\ Len(Tail(list)) <= MaxTerminal
      BY <2>1, <2>2, <2>4
    <3>2. QED
      BY <2>3, <3>1
  <2>6. QED
    BY <2>5 DEF Finish, FewRecords
<1>4. CASE Len(list) <= MaxTerminal
  <2>1. Kept(list) \in {<<>>, list}
    BY <1>1, <1>2, <1>4 DEF Kept
  <2>2. Len(<<>>) = 0
    OBVIOUS
  <2>3. Len(Kept(list)) <= MaxTerminal
    BY <1>2, <1>4, <2>1, <2>2
  <2>4. QED
    BY <2>3 DEF Finish, FewRecords
<1>5. QED
  BY <1>1, <1>2, <1>3, <1>4

(* #finish, of a record that is not in the list of those that ended.       *)
LEMMA FinishKeepsBounds ==
  ASSUME ProcessInv, BoundInv, NEW p \in Process, NEW verdict \in Ended, Finish(p, verdict),
         UNCHANGED reason
  PROVE  /\ HeldBack' /\ FewRecords' /\ StoppedForAReason'
         /\ paused' \cup eof' \cup pending' \subseteq Process
<1>1. PICK gone \in SUBSET (Members(finished) \cup {p}) : Finishes(p, verdict, gone)
  BY FinishDoes DEF ProcessInv
<1>2. /\ \A q \in Process :
           state'[q] = IF q \in gone THEN "released" ELSE IF q = p THEN verdict ELSE state[q]
      /\ \A q \in Process : bytes'[q] = IF q \in gone THEN 0 ELSE bytes[q]
      /\ paused' = paused \ gone /\ eof' = eof \cup {p} /\ pending' = pending \ {p}
  BY <1>1 DEF Finishes
<1>3. HeldBack'
  BY <1>2, ProcessAssumption DEF BoundInv, HeldBack
<1>4. FewRecords'
  BY FinishKeepsFew DEF BoundInv, ProcessInv
<1>5. StoppedForAReason'
  BY <1>2 DEF BoundInv, StoppedForAReason, Ended
<1>6. QED
  BY <1>2, <1>3, <1>4, <1>5 DEF BoundInv, PipeShape

(* What a step does to the rest, when #finish may be part of it.           *)
LEMMA SettlingKeepsBounds ==
  ASSUME ProcessInv, BoundInv, NEW p \in Process, NEW verdict \in Ended, Finish(p, verdict),
         UNCHANGED <<reason, code, cut, ownerGone, system>>,
         child' \in [Process -> {"none", "spawning", "alive", "exited", "closed"}]
  PROVE  BoundInv'
<1>1. HeldBack' /\ FewRecords' /\ StoppedForAReason' /\ paused' \cup eof' \cup pending' \subseteq Process
  BY FinishKeepsBounds
<1>2. PipeShape'
  BY <1>1 DEF BoundInv, PipeShape, system
<1>3. QED
  BY <1>1, <1>2 DEF BoundInv

LEMMA SpawnKeepsBounds ==
  ASSUME ProcessInv, BoundInv, NEW p \in Process, Spawn(p) \/ Spawned(p) \/ SpawnFailed(p)
  PROVE  BoundInv'
<1>1. CASE Spawn(p)
  <2>1. state[p] = "absent" /\ UNCHANGED <<reason, code, cut, ownerGone, system>> /\ "failed" \in Ended
    BY <1>1 DEF Spawn, Ended
  <2>2. CASE Finish(p, "failed") /\ UNCHANGED child
    BY <2>1, <2>2, SettlingKeepsBounds DEF BoundInv, PipeShape
  <2>3. CASE /\ state' = [state EXCEPT ![p] = "starting"] /\ child' = [child EXCEPT ![p] = "spawning"]
             /\ UNCHANGED <<stream, finished>>
    <3>1. PipeShape' /\ HeldBack' /\ FewRecords'
      BY <2>1, <2>3 DEF BoundInv, PipeShape, HeldBack, FewRecords, stream, system
    <3>2. StoppedForAReason'
      BY <2>1, <2>3 DEF BoundInv, StoppedForAReason, ProcessInv, RecordShape
    <3>3. QED
      BY <3>1, <3>2 DEF BoundInv
  <2>4. QED
    BY <1>1, <2>2, <2>3 DEF Spawn
<1>2. CASE Spawned(p)
  <2>1. /\ state' = state \/ (state[p] = "starting" /\ state' = [state EXCEPT ![p] = "running"])
        /\ child' = [child EXCEPT ![p] = "alive"]
        /\ UNCHANGED <<reason, code, cut, finished, ownerGone, system, stream>>
    BY <1>2 DEF Spawned
  <2>2. PipeShape' /\ HeldBack' /\ FewRecords'
    BY <2>1 DEF BoundInv, PipeShape, HeldBack, FewRecords, stream, system
  <2>3. StoppedForAReason'
    BY <2>1 DEF BoundInv, StoppedForAReason, ProcessInv, RecordShape
  <2>4. QED
    BY <2>2, <2>3 DEF BoundInv
<1>3. CASE SpawnFailed(p)
  <2>1. /\ child' = [child EXCEPT ![p] = "closed"] /\ UNCHANGED <<reason, code, cut, ownerGone, system>>
    BY <1>3 DEF SpawnFailed
  <2>2. child' \in [Process -> {"none", "spawning", "alive", "exited", "closed"}]
    BY <2>1 DEF BoundInv, PipeShape
  <2>3. CASE Runs(p)
    <3>1. Verdict(reason[p], "other") \in Ended /\ "failed" \in Ended
      BY VerdictDecides DEF ProcessInv, RecordShape, Ended
    <3>2. PICK verdict \in Ended : Finish(p, verdict)
      BY <1>3, <2>3, <3>1 DEF SpawnFailed
    <3>3. QED
      BY <2>1, <2>2, <3>2, SettlingKeepsBounds
  <2>4. CASE ~Runs(p)
    <3>1. UNCHANGED <<state, stream, finished>>
      BY <1>3, <2>4 DEF SpawnFailed
    <3>2. QED
      BY <2>1, <2>2, <3>1
         DEF BoundInv, PipeShape, HeldBack, FewRecords, StoppedForAReason, stream, system
  <2>5. QED
    BY <2>3, <2>4
<1>4. QED
  BY <1>1, <1>2, <1>3

LEMMA StopKeepsBounds ==
  ASSUME ProcessInv, BoundInv, NEW p \in Process, Cancelled(p) \/ TimeLimit(p) PROVE BoundInv'
<1>1. PICK why \in {"cancel", "failure", "timeout"} : StopProcess(p, why) /\ UNCHANGED ownerGone
  BY DEF Cancelled, TimeLimit
<1>2. /\ reason' = [reason EXCEPT ![p] = why] /\ state' = [state EXCEPT ![p] = "stopping"]
      /\ UNCHANGED <<child, code, cut, finished, ownerGone, system, stream>>
  BY <1>1 DEF StopProcess, StopReason
<1>3. PipeShape' /\ HeldBack' /\ FewRecords'
  BY <1>2 DEF BoundInv, PipeShape, HeldBack, FewRecords, stream, system
<1>4. StoppedForAReason'
  BY <1>2 DEF BoundInv, StoppedForAReason, ProcessInv, RecordShape
<1>5. QED
  BY <1>3, <1>4 DEF BoundInv

LEMMA OwnerKeepsBounds == ASSUME ProcessInv, BoundInv, OwnerEnds PROVE BoundInv'
<1> DEFINE stopped  == {p \in Process : Runs(p) /\ reason[p] = "none"}
           released == IF \E p \in Process : Runs(p) THEN {} ELSE Members(finished)
<1>1. /\ reason' = [p \in Process |-> IF p \in stopped THEN "cancel" ELSE reason[p]]
      /\ state' = [p \in Process |-> IF p \in stopped THEN "stopping"
                                     ELSE IF p \in released THEN "released" ELSE state[p]]
      /\ finished' = IF released = {} THEN finished ELSE <<>>
      /\ bytes' = [p \in Process |-> IF p \in released THEN 0 ELSE bytes[p]]
      /\ paused' = paused \ released /\ pending' = {} /\ ownerGone' = TRUE
      /\ UNCHANGED <<child, code, cut, eof, system>>
  BY DEF OwnerEnds
<1>2. PipeShape'
  BY <1>1 DEF BoundInv, PipeShape, system
<1>3. HeldBack'
  BY <1>1, ProcessAssumption DEF BoundInv, HeldBack
<1>4. FewRecords'
  <2>1. Len(<<>>) = 0 /\ MaxTerminal \in Nat
    BY ProcessAssumption
  <2>2. finished' = finished \/ finished' = <<>>
    BY <1>1
  <2>3. QED
    BY <2>1, <2>2 DEF BoundInv, FewRecords
<1>5. StoppedForAReason'
  BY <1>1 DEF BoundInv, StoppedForAReason
<1>6. QED
  BY <1>2, <1>3, <1>4, <1>5 DEF BoundInv

LEMMA PipeKeepsBounds ==
  ASSUME ProcessInv, BoundInv, NEW p \in Process, Data(p) \/ Read(p) \/ ReadAborted(p) \/ PipeEnds(p)
  PROVE  BoundInv'
<1>1. /\ UNCHANGED <<state, reason, child, code, finished, cut, ownerGone, killed, kin, output>>
      /\ UNCHANGED unread \/ (unread[p] > 0 /\ unread' = [unread EXCEPT ![p] = @ - 1])
  BY DEF Data, Read, ReadAborted, PipeEnds, system
<1>2. paused' \cup eof' \cup pending' \subseteq paused \cup eof \cup pending \cup {p}
  BY DEF Data, Read, ReadAborted, PipeEnds, ResumePipe, stream
<1>3. PipeShape'
  <2>1. unread' \in [Process -> Nat] /\ \A q \in Process : unread'[q] <= unread[q]
    BY <1>1 DEF BoundInv, PipeShape
  <2>2. \A q \in Process : unread'[q] + output[q] <= MaxOutput
    BY <2>1, ProcessAssumption DEF BoundInv, PipeShape
  <2>3. QED
    BY <1>1, <1>2, <2>1, <2>2 DEF BoundInv, PipeShape
<1>4. HeldBack'
  <2>1. /\ \A q \in Process : bytes[q] \in Nat
        /\ \A q \in Process : bytes[q] < HighWater \/ (bytes[q] = HighWater /\ q \in paused)
        /\ HighWater \in Nat /\ bytes \in [Process -> Nat]
    BY ProcessAssumption DEF ProcessInv, RecordShape, BoundInv, HeldBack
  <2>2. CASE UNCHANGED <<bytes, paused>>
    BY <2>1, <2>2 DEF HeldBack
  <2>3. CASE /\ p \notin paused /\ bytes' = [bytes EXCEPT ![p] = @ + 1]
             /\ paused' = IF bytes[p] + 1 >= HighWater THEN paused \cup {p} ELSE paused
    <3>1. \A q \in Process : bytes'[q] = IF q = p THEN bytes[p] + 1 ELSE bytes[q]
      BY <2>1, <2>3
    <3>2. ASSUME NEW q \in Process PROVE bytes'[q] < HighWater \/ (bytes'[q] = HighWater /\ q \in paused')
      BY <2>1, <2>3, <3>1
    <3>3. QED
      BY <3>2 DEF HeldBack
  <2>4. ASSUME NEW n \in 1 .. bytes[p], bytes' = [bytes EXCEPT ![p] = @ - n], ResumePipe(p, bytes[p] - n)
        PROVE  HeldBack'
    <3>1. \A q \in Process : bytes'[q] = IF q = p THEN bytes[p] - n ELSE bytes[q]
      BY <2>1, <2>4
    <3>2. \A q \in Process : q # p /\ q \in paused => q \in paused'
      BY <2>4 DEF ResumePipe
    <3>3. ASSUME NEW q \in Process PROVE bytes'[q] < HighWater \/ (bytes'[q] = HighWater /\ q \in paused')
      BY <2>1, <2>4, <3>1, <3>2
    <3>4. QED
      BY <3>3 DEF HeldBack
  <2>5. QED
    BY <2>2, <2>3, <2>4 DEF Data, Read, ReadAborted, PipeEnds, stream
<1>5. FewRecords' /\ StoppedForAReason'
  BY <1>1 DEF BoundInv, FewRecords, StoppedForAReason
<1>6. QED
  BY <1>3, <1>4, <1>5 DEF BoundInv

LEMMA SystemKeepsBounds ==
  ASSUME ProcessInv, BoundInv, NEW p \in Process,
         Writes(p) \/ Forks(p) \/ Exits(p) \/ Escalates(p) \/ Drains(p) \/ Closes(p) \/ Settles(p)
  PROVE  BoundInv'
<1>1. CASE Writes(p) \/ Forks(p) \/ Exits(p) \/ Escalates(p) \/ Drains(p)
  <2>1. UNCHANGED <<state, reason, finished, ownerGone, stream>>
    BY <1>1 DEF Writes, Forks, Exits, Escalates, Drains
  <2>2. child' \in {child, [child EXCEPT ![p] = "exited"]}
    BY <1>1 DEF Writes, Forks, Exits, Escalates, Drains
  <2>3. code' = code \/ \E exit \in {"zero", "other"} : code' = [code EXCEPT ![p] = exit]
    BY <1>1 DEF Writes, Forks, Exits, Escalates, Drains
  <2>4. killed' \cup kin' \cup cut' \subseteq killed \cup kin \cup cut \cup {p}
    BY <1>1 DEF Writes, Forks, Exits, ExitCleanup, Escalates, Drains, Kill, system
  <2>5. \/ UNCHANGED <<unread, output>>
        \/ /\ output[p] > 0
           /\ output' = [output EXCEPT ![p] = @ - 1] /\ unread' = [unread EXCEPT ![p] = @ + 1]
    BY <1>1 DEF Writes, Forks, Exits, ExitCleanup, Escalates, Drains, Kill, system
  <2>6. /\ unread' \in [Process -> Nat] /\ output' \in [Process -> Nat]
        /\ \A q \in Process : unread'[q] + output'[q] <= MaxOutput
    <3>1. /\ unread \in [Process -> Nat] /\ output \in [Process -> Nat]
          /\ \A q \in Process : unread[q] + output[q] <= MaxOutput
      BY DEF BoundInv, PipeShape
    <3>2. QED
      BY <2>5, <3>1
  <2>7. PipeShape'
    <3>1. child' \in [Process -> {"none", "spawning", "alive", "exited", "closed"}]
      BY <2>2 DEF BoundInv, PipeShape
    <3>2. code' \in [Process -> {"none", "zero", "other"}]
      BY <2>3 DEF BoundInv, PipeShape
    <3>3. QED
      BY <2>1, <2>4, <2>6, <3>1, <3>2 DEF BoundInv, PipeShape, stream
  <2>8. HeldBack' /\ FewRecords' /\ StoppedForAReason'
    BY <2>1 DEF BoundInv, HeldBack, FewRecords, StoppedForAReason, stream
  <2>9. QED
    BY <2>7, <2>8 DEF BoundInv
<1>2. CASE Closes(p)
  <2>1. /\ child' = [child EXCEPT ![p] = "closed"] /\ UNCHANGED <<reason, code, cut, ownerGone, system>>
    BY <1>2 DEF Closes
  <2>2. child' \in [Process -> {"none", "spawning", "alive", "exited", "closed"}]
    BY <2>1 DEF BoundInv, PipeShape
  <2>3. CASE Runs(p)
    <3>1. Verdict(reason[p], code[p]) \in Ended
      BY VerdictDecides DEF ProcessInv, RecordShape
    <3>2. Finish(p, Verdict(reason[p], code[p]))
      BY <1>2, <2>3 DEF Closes
    <3>3. QED
      BY <2>1, <2>2, <3>1, <3>2, SettlingKeepsBounds
  <2>4. CASE ~Runs(p)
    <3>1. UNCHANGED <<state, stream, finished>>
      BY <1>2, <2>4 DEF Closes
    <3>2. QED
      BY <2>1, <2>2, <3>1
         DEF BoundInv, PipeShape, HeldBack, FewRecords, StoppedForAReason, stream, system
  <2>5. QED
    BY <2>3, <2>4
<1>3. CASE Settles(p)
  <2>1. Verdict(reason[p], "other") \in Ended
    BY VerdictDecides DEF ProcessInv, RecordShape
  <2>2. QED
    BY <1>3, <2>1, SettlingKeepsBounds DEF Settles, BoundInv, PipeShape
<1>4. QED
  BY <1>1, <1>2, <1>3

LEMMA BoundSteps == ASSUME ProcessInv, BoundInv, [ProcessNext]_processVars PROVE BoundInv'
<1>1. CASE UNCHANGED processVars
  BY <1>1 DEF processVars, stream, system, BoundInv, PipeShape, HeldBack, FewRecords, StoppedForAReason
<1>2. ASSUME NEW p \in Process, TimerStep(p) \/ EventStep(p) \/ ProcessCall(p) \/ SystemStep(p)
      PROVE  BoundInv'
  BY <1>2, SpawnKeepsBounds, StopKeepsBounds, PipeKeepsBounds, SystemKeepsBounds
     DEF TimerStep, EventStep, ProcessCall, SystemStep
<1>3. QED
  BY <1>1, <1>2, OwnerKeepsBounds DEF ProcessNext

LEMMA BoundsType == ASSUME ProcessInv, BoundInv PROVE ProcessTypeOK
<1>1. /\ unread \in [Process -> 0 .. MaxOutput] /\ output \in [Process -> 0 .. MaxOutput]
  BY ProcessAssumption DEF BoundInv, PipeShape
<1>2. bytes \in [Process -> 0 .. HighWater]
  BY ProcessAssumption DEF ProcessInv, RecordShape, BoundInv, HeldBack
<1>3. QED
  BY <1>1, <1>2 DEF ProcessInv, RecordShape, Reasons, BoundInv, PipeShape, FewRecords,
                    StoppedForAReason, ProcessTypeOK

(* The supervisor keeps its bounds in every order of events and calls: no  *)
(* more chunks are kept than the high water mark, since event data pauses  *)
(* the pipe in time; no more records of ended processes than MaxTerminal,  *)
(* since #finish lets #prune release the oldest; and a process with a      *)
(* reason to stop is not taken to run.                                     *)
THEOREM ProcessTypeCorrect == ProcessSpec => []ProcessTypeOK
<1>1. ProcessInv /\ BoundInv /\ [ProcessNext]_processVars => BoundInv'
  BY BoundSteps
<1>2. QED
  BY ProcessInvHolds, BoundInitHolds, <1>1, BoundsType, PTL DEF ProcessSpec

-----------------------------------------------------------------------------
(* The parts beside one another: a step of the host is one of each part,   *)
(* or leaves it alone, so that each keeps what it promises.                *)

LEMMA PartsStep ==
  ASSUME [HostNext]_hostVars PROVE [Next]_vars /\ [JobsNext]_jobVars /\ [ProcessNext]_processVars
BY DEF HostNext, InTools, InJobs, InProcesses, hostVars

HostInv ==
  /\ ArbiterInv /\ WaitersAreBlocked /\ BatchInv
  /\ RecordsInv
  /\ ProcessInv /\ BoundInv

LEMMA HostInvHolds == HostSpec => []HostInv
<1>1. HostInit => HostInv
  BY ArbiterInitially, BatchInitially, RecordsInitHolds, ProcessInitHolds, BoundInitHolds
     DEF HostInit, HostInv
<1>2. HostInv /\ [HostNext]_hostVars => HostInv'
  <2> SUFFICES ASSUME HostInv, [HostNext]_hostVars PROVE HostInv'
    OBVIOUS
  <2>1. [Next]_vars /\ [JobsNext]_jobVars /\ [ProcessNext]_processVars
    BY PartsStep
  <2>2. ArbiterInv' /\ WaitersAreBlocked' /\ BatchInv'
    BY <2>1, ArbiterStep, BatchStepKeeps DEF HostInv
  <2>3. RecordsInv'
    BY <2>1, RecordsStep DEF HostInv
  <2>4. ProcessInv' /\ BoundInv'
    BY <2>1, ProcessSteps, BoundSteps DEF HostInv
  <2>5. QED
    BY <2>2, <2>3, <2>4 DEF HostInv
<1>3. QED
  BY <1>1, <1>2, PTL DEF HostSpec

(* A host that runs tools, jobs and processes keeps the state of each of   *)
(* them in its shape and within its limits.                                *)
THEOREM HostTypeCorrect == HostSpec => []HostTypeOK
<1>1. HostInv => HostTypeOK
  BY ArbiterType, RecordsType, BoundsType DEF HostInv, HostTypeOK
<1>2. QED
  BY HostInvHolds, <1>1, PTL

(* What the three parts promise of their states they promise beside one    *)
(* another too.                                                            *)
THEOREM HostKeepsPromises ==
  HostSpec => [](/\ EffectsAreExclusive /\ CallsKeepOrder /\ WaitersAreBlocked
                 /\ RecordsTellTheTruth /\ ReadersAreServed)
<1>1. HostInv => /\ EffectsAreExclusive /\ CallsKeepOrder /\ WaitersAreBlocked
                 /\ RecordsTellTheTruth /\ ReadersAreServed
  BY ArbiterExcludes, BatchesKeepOrder DEF HostInv, RecordsInv, ProcessInv
<1>2. QED
  BY HostInvHolds, <1>1, PTL

(* What they promise of their steps as well: no lease over the head of an  *)
(* earlier call (#pump), no finished job reopened (DurableJobSupervisor),  *)
(* no second reason for the end of a process (ManagedProcessSupervisor).   *)
THEOREM HostStepsKeepPromises ==
  HostSpec => NobodyOvertakes /\ FinishedJobsStay /\ FirstReasonDecides
<1>1. HostInv /\ [HostNext]_hostVars =>
        /\ [GrantsInOrder]_vars
        /\ [\A j \in Job : StaysRecorded(j)]_jobVars
        /\ [\A p \in Process : Decides(p)]_processVars
  BY PartsStep, EveryGrantIsInOrder, FinishedStay, EveryStepDecides DEF HostInv, RecordsInv
<1>2. HostSpec => [][GrantsInOrder]_vars
  BY HostInvHolds, <1>1, PTL DEF HostSpec
<1>3. HostSpec => [][\A j \in Job : StaysRecorded(j)]_jobVars
  BY HostInvHolds, <1>1, PTL DEF HostSpec
<1>4. HostSpec => [][\A p \in Process : Decides(p)]_processVars
  BY HostInvHolds, <1>1, PTL DEF HostSpec
<1>5. QED
  BY <1>2, <1>3, <1>4
     DEF NobodyOvertakes, FinishedJobsStay, FirstReasonDecides, GrantsInOrder, StaysRecorded, Decides
=============================================================================
