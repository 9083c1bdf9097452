---------------------------- MODULE RuntimeProofs ----------------------------
(* One session in use, and files that follow the sessions, for any number  *)
(* of calls and sessions of SessionRuntime: what is open at each stage of  *)
(* the call that operates, and who operates.  At the end, the parts around *)
(* a session beside one another.                                           *)
EXTENDS MCParts, ExclusionProofs, ContextProofs

-----------------------------------------------------------------------------
(* The invariant.                                                          *)

(* A call that operates comes after calls that have ended.                 *)
CallsInOrder ==
  /\ \A i, j \in DOMAIN calls : calls[i] = calls[j] => i = j
  /\ \A m \in Request : doing[m] # "idle" => \E i \in DOMAIN calls : calls[i] = m
  /\ \A i \in DOMAIN calls : doing[calls[i]] # "idle"
  /\ \A i, j \in DOMAIN calls : i < j /\ Operates(calls[j]) => doing[calls[i]] = "ended"

WritersAreOpen == writers = {s \in Session : life[s] \in {"opened", "live"}}

(* Sessions a call holds, and those it has not got to.                     *)
Untouched(m) == previous[m] = 0 /\ early[m] = 0 /\ candidate[m] = 0
Spare(m)     == {early[m]} \ {0}
Spared(m)    == early[m] # 0 => life[early[m]] # "live"
MakesFile(m) == kind[m] \in {"new", "fork", "import"}
InUse        == life[current] = "live" /\ ~disposed /\ writes[current] \in files

(* A replacement knows what it replaces, whose file is another than that   *)
(* of the store it opened early and than the one it makes.                 *)
Replacing(m) ==
  /\ previous[m] \in Session /\ writes[previous[m]] \in files \ {m}
  /\ early[m] # 0 => writes[early[m]] \in files \ {writes[previous[m]]}
  /\ kind[m] # "refresh"
  /\ kind[m] = "new" => early[m] # 0 /\ writes[early[m]] = m
  /\ early[m] # 0 => kind[m] \in {"new", "switch"}
  /\ kind[m] = "import" => m \in files
  /\ (m \in files => MakesFile(m))

AtGuard(m) ==
  /\ Untouched(m) /\ InUse /\ writers = {current}
  /\ kind[m] # "refresh" /\ (m \in files => kind[m] = "import")
BeforeIt(m) ==
  /\ Replacing(m) /\ candidate[m] = 0 /\ current = previous[m]
  /\ early[m] # 0 => life[early[m]] = "opened"
AtSetup(m) == BeforeIt(m) /\ InUse /\ early[m] # 0 /\ writers = {current, early[m]}
AtClose(m) ==
  BeforeIt(m) /\ disposed /\ life[current] = "live" /\ writers = {current} \cup Spare(m)
AtCreate(m) == BeforeIt(m) /\ disposed /\ writers = Spare(m)
Makes(m, state) ==
  /\ Replacing(m) /\ candidate[m] \in Session /\ writers = {candidate[m]}
  /\ early[m] \in {0, candidate[m]} /\ life[candidate[m]] = state
  /\ writes[candidate[m]] \in files /\ (MakesFile(m) => writes[candidate[m]] = m)
AtCreating(m) == Makes(m, "opened") /\ current = previous[m] /\ disposed
AtCreated(m)  == Makes(m, "live") /\ current = previous[m] /\ disposed
AtRebind(m)   == Makes(m, "live") /\ current = candidate[m] /\ ~disposed
AtDiscard(m) ==
  /\ Replacing(m)
  /\ \/ candidate[m] = 0 /\ writers \subseteq Spare(m) /\ Spared(m)
     \/ Makes(m, "live")
AtRecover(m) ==
  Replacing(m) /\ Spared(m) /\ candidate[m] = 0 /\ disposed /\ writers \subseteq Spare(m)
Recovers(m, state) ==
  /\ Replacing(m) /\ Spared(m) /\ candidate[m] \in Session /\ candidate[m] # early[m]
  /\ candidate[m] \in writers /\ writers \subseteq {candidate[m]} \cup Spare(m)
  /\ life[candidate[m]] = state /\ writes[candidate[m]] = writes[previous[m]]
AtRecovering(m) == Recovers(m, "opened") /\ disposed
AtRecovered(m)  == Recovers(m, "live") /\ disposed
AtRebound(m)    == Recovers(m, "live") /\ ~disposed /\ current = candidate[m]
AtFailing(m) ==
  /\ Replacing(m) /\ Spared(m) /\ candidate[m] = 0
  /\ \/ /\ InUse /\ current \in writers /\ writers \subseteq {current} \cup Spare(m)
        /\ current # early[m] /\ writes[current] = writes[previous[m]]
     \/ closing /\ disposed /\ writers \subseteq Spare(m)
AtWith(m) ==
  /\ InUse /\ writers = {current}
  /\ \/ kind[m] = "refresh" /\ Untouched(m) /\ m \notin files
     \/ Replacing(m) /\ candidate[m] = current /\ (MakesFile(m) => writes[current] = m)

(* What is open at each stage of a call that operates.                     *)
Stands(m) ==
  /\ doing[m] = "guard" => AtGuard(m)
  /\ doing[m] = "setup" => AtSetup(m)
  /\ doing[m] = "close" => AtClose(m)
  /\ doing[m] = "create" => AtCreate(m)
  /\ doing[m] = "creating" => AtCreating(m)
  /\ doing[m] = "created" => AtCreated(m)
  /\ doing[m] = "rebind" => AtRebind(m)
  /\ doing[m] = "discard" => AtDiscard(m)
  /\ doing[m] = "recover" => AtRecover(m)
  /\ doing[m] = "recovering" => AtRecovering(m)
  /\ doing[m] = "recovered" => AtRecovered(m)
  /\ doing[m] = "rebound" => AtRebound(m)
  /\ doing[m] = "failing" => AtFailing(m)
  /\ doing[m] = "with" => AtWith(m)

(* A call that has not begun holds nothing, and nobody writes the file it  *)
(* may make; one that has ended holds nothing it made.                     *)
Aside(m) ==
  /\ doing[m] \in {"idle", "queued"} => Untouched(m) /\ m \notin files
  /\ doing[m] \in {"idle", "queued", "guard"} => \A s \in Session : writes[s] # m
  /\ doing[m] = "ended" => candidate[m] = 0

(* Between two calls the session is in use, or the runtime is closed.      *)
AtRest ==
  (\A m \in Request : ~Operates(m)) =>
    \/ InUse /\ writers = {current} /\ disposal \in {"none", "waiting"}
    \/ /\ disposed /\ closing /\ disposal = "closing" /\ writers = {current}
       /\ writes[current] \in files
    \/ disposed /\ closing /\ disposal # "closing" /\ writers = {}

DisposedLast ==
  /\ disposal \in {"closing", "done"} => \A m \in Request : ~Operates(m)
  /\ disposal # "none" => closing

(* The file of a call that has ended was a session's that was replaced, or *)
(* is that of the session in use.                                          *)
FilesAccounted ==
  \A m \in files \cap Request : doing[m] = "ended" =>
    \E s \in Session :
      /\ writes[s] = m
      /\ \/ \E other \in Request : previous[other] = s
         \/ s = current /\ \A other \in Request : Operates(other) => previous[other] = 0

OperatorStands == \A m \in Request : Stands(m)
OthersWait == \A m \in Request : Aside(m)

RuntimeInv ==
  /\ RuntimeTypeOK /\ CallsInOrder /\ WritersAreOpen /\ OperatorStands /\ OthersWait /\ AtRest
  /\ DisposedLast /\ FilesAccounted

-----------------------------------------------------------------------------
(* Stores.                                                                 *)

LEMMA AppendsOne ==
  ASSUME NEW S, NEW q \in Seq(S), NEW e \in S, NEW l, l = Append(q, e)
  PROVE  /\ l \in Seq(S) /\ Len(l) = Len(q) + 1 /\ l[Len(q) + 1] = e
         /\ DOMAIN q = 1 .. Len(q) /\ DOMAIN l = 1 .. Len(q) + 1 /\ Len(q) \in Nat
         /\ \A i \in 1 .. Len(q) : l[i] = q[i] /\ q[i] \in S
  BY AppendProperties, LenProperties, ElementOfSeq

(* The stores are a table that grows, of files that are not renamed.       *)
StoresGrow ==
  /\ life' \in Seq(Lives) /\ writes' \in Seq(SessionFile) /\ Len(writes') = Len(life')
  /\ Len(life) <= Len(life') /\ \A s \in Session : writes'[s] = writes[s]
  /\ WritersAreOpen'

(* A session that changes its state, and no other does.                    *)
Turns(s, state) ==
  /\ writes' = writes /\ Len(life') = Len(life) /\ life' \in Seq(Lives)
  /\ life'[s] = state /\ \A t \in Session : t # s => life'[t] = life[t]

LEMMA OpensAddsOne ==
  ASSUME RuntimeTypeOK, WritersAreOpen, NEW where \in SessionFile, Opens(where)
  PROVE  /\ StoresGrow /\ Session' = Session \cup {Latest} /\ Latest \notin Session
         /\ Latest \in 0 .. Len(life') /\ Len(life') = Len(life) + 1 /\ Latest # 0
         /\ life'[Latest] = "opened" /\ writes'[Latest] = where /\ writers' = writers \cup {Latest}
         /\ \A s \in Session : life'[s] = life[s]
<1>1. /\ life \in Seq(Lives) /\ writes \in Seq(SessionFile) /\ Len(writes) = Len(life)
      /\ Len(life) \in Nat /\ "opened" \in Lives
  BY LenProperties DEF RuntimeTypeOK, Lives
<1>2. /\ life' = Append(life, "opened") /\ writes' = Append(writes, where)
      /\ writers' = writers \cup {Latest}
  BY DEF Opens
<1>3. /\ life' \in Seq(Lives) /\ Len(life') = Len(life) + 1 /\ life'[Latest] = "opened"
      /\ \A s \in Session : life'[s] = life[s]
  BY <1>1, <1>2, AppendProperties DEF Latest, Session
<1>4. /\ writes' \in Seq(SessionFile) /\ Len(writes') = Len(life') /\ writes'[Latest] = where
      /\ \A s \in Session : writes'[s] = writes[s]
  BY <1>1, <1>2, <1>3, AppendProperties DEF Latest, Session
<1>5. /\ Session' = Session \cup {Latest} /\ Latest \notin Session /\ Latest \in 0 .. Len(life')
      /\ Latest # 0
  BY <1>1, <1>3 DEF Session, Latest
<1>6. WritersAreOpen'
  BY <1>2, <1>3, <1>5 DEF WritersAreOpen
<1>7. StoresGrow
  BY <1>1, <1>3, <1>4, <1>6 DEF StoresGrow
<1>8. QED
  BY <1>2, <1>3, <1>4, <1>5, <1>7

LEMMA StateTurns ==
  ASSUME RuntimeTypeOK, NEW s \in Session, NEW state \in Lives,
         life' = [life EXCEPT ![s] = state], writes' = writes
  PROVE  Turns(s, state) /\ Session' = Session
<1>1. /\ life \in Seq(Lives) /\ Len(life) \in Nat /\ DOMAIN life = Session
  BY LenProperties DEF RuntimeTypeOK, Session
<1>2. life' \in Seq(Lives) /\ Len(life') = Len(life)
  BY <1>1, ExceptSeq
<1>3. QED
  BY <1>1, <1>2 DEF Turns, Session

(* A store is closed with its session, or its session is abandoned.        *)
LEMMA CloseTakesOne ==
  ASSUME RuntimeTypeOK, WritersAreOpen, NEW s \in Session, Close(s) \/ Abandon(s)
  PROVE  /\ StoresGrow /\ Session' = Session /\ writes' = writes /\ writers' = writers \ {s}
         /\ Len(life') = Len(life) /\ life'[s] \in {"closed", "abandoned"}
         /\ \A t \in Session : t # s => life'[t] = life[t]
<1>1. PICK state \in {"closed", "abandoned"} : life' = [life EXCEPT ![s] = state]
  BY DEF Close, Abandon
<1>2. writes' = writes /\ writers' = writers \ {s} /\ {"closed", "abandoned"} \subseteq Lives
  BY DEF Close, Abandon, Lives
<1>3. Turns(s, state) /\ Session' = Session
  BY <1>1, <1>2, StateTurns
<1>4. WritersAreOpen'
  BY <1>1, <1>2, <1>3 DEF WritersAreOpen, Turns
<1>5. QED
  BY <1>1, <1>2, <1>3, <1>4, LenProperties DEF StoresGrow, Turns, RuntimeTypeOK

LEMMA ReturnsTurnsLive ==
  ASSUME RuntimeTypeOK, WritersAreOpen, NEW s \in Session, life[s] = "opened",
         life' = [life EXCEPT ![s] = "live"], writes' = writes, writers' = writers
  PROVE  /\ StoresGrow /\ Session' = Session /\ Len(life') = Len(life) /\ life'[s] = "live"
         /\ \A t \in Session : t # s => life'[t] = life[t]
<1>1. Turns(s, "live") /\ Session' = Session
  BY StateTurns DEF Lives
<1>2. WritersAreOpen'
  BY <1>1 DEF WritersAreOpen, Turns
<1>3. QED
  BY <1>1, <1>2, LenProperties DEF StoresGrow, Turns, RuntimeTypeOK

LEMMA StoresStay ==
  ASSUME RuntimeTypeOK, WritersAreOpen, life' = life, writes' = writes, writers' = writers
  PROVE  StoresGrow /\ Session' = Session
  BY LenProperties DEF StoresGrow, WritersAreOpen, Session, RuntimeTypeOK

-----------------------------------------------------------------------------
(* A step of the call that operates.                                       *)

LEMMA OneOperates ==
  ASSUME RuntimeTypeOK, CallsInOrder, NEW m \in Request, NEW n \in Request,
         Operates(m), Operates(n)
  PROVE  m = n
<1>1. PICK i \in DOMAIN calls : calls[i] = m
  BY DEF CallsInOrder, Operates
<1>2. PICK j \in DOMAIN calls : calls[j] = n
  BY DEF CallsInOrder, Operates
<1>3. DOMAIN calls = 1 .. Len(calls) /\ Len(calls) \in Nat
  BY DEF RuntimeTypeOK
<1>4. ~(i < j) /\ ~(j < i)
  BY <1>1, <1>2 DEF CallsInOrder, Operates
<1>5. QED
  BY <1>1, <1>2, <1>3, <1>4

(* What it leaves alone.                                                   *)
OperatorStep(m, stage) ==
  /\ calls' = calls /\ kind' = kind /\ gaveUp' = gaveUp /\ disposal' = disposal
  /\ disposed' \in BOOLEAN /\ closing' \in {closing, TRUE} /\ closed' \in BOOLEAN
  /\ doing' = [doing EXCEPT ![m] = stage]
  /\ {previous', early', candidate'} \subseteq [Request -> 0 .. Len(life')]
  /\ \A n \in Request \ {m} :
       previous'[n] = previous[n] /\ early'[n] = early[n] /\ candidate'[n] = candidate[n]
  /\ StoresGrow /\ current' \in Session' /\ files' \subseteq files \cup {m}
  /\ \A s \in Session' \ Session : writes'[s] \in files \cup {m} \cup {writes[t] : t \in Session}

(* The file of the session it replaces is accounted for, and so is its own.*)
FilesStay(m) ==
  /\ previous[m] # 0 => previous'[m] = previous[m]
  /\ previous[m] = 0 =>
       \/ previous'[m] = current
       \/ previous'[m] = 0 /\ writes'[current'] = writes[current]
  /\ doing'[m] = "ended" /\ m \in files' => writes'[current'] = m

LEMMA OperatorKeepsInv ==
  ASSUME RuntimeInv, NEW m \in Request, Operates(m), NEW stage \in Stages \ {"idle", "queued"},
         OperatorStep(m, stage), FilesStay(m), Stands(m)', Aside(m)',
         stage = "ended" =>
           \/ InUse' /\ writers' = {current'}
           \/ disposed' /\ closing' /\ writers' = {}
  PROVE  RuntimeInv'
<1>1. RuntimeTypeOK /\ CallsInOrder /\ DisposedLast /\ OthersWait /\ FilesAccounted
  BY DEF RuntimeInv
<1>2. \A n \in Request \ {m} : ~Operates(n) /\ doing'[n] = doing[n] /\ ~Operates(n)'
  BY <1>1, OneOperates DEF OperatorStep, RuntimeTypeOK, Operates
<1>3. doing'[m] = stage /\ doing[m] \notin {"idle", "queued", "ended"}
  BY <1>1 DEF OperatorStep, RuntimeTypeOK, Operates
<1>4. RuntimeTypeOK'
  <2>1. current' \in Session' /\ {disposed', closing', closed'} \subseteq BOOLEAN
    BY <1>1 DEF OperatorStep, RuntimeTypeOK
  <2>2. doing' \in [Request -> Stages]
    BY <1>1 DEF OperatorStep, RuntimeTypeOK
  <2>3. files' \subseteq SessionFile /\ writers' \subseteq Session'
    BY <1>1 DEF OperatorStep, RuntimeTypeOK, SessionFile, StoresGrow, WritersAreOpen
  <2>4. QED
    BY <1>1, <2>1, <2>2, <2>3 DEF OperatorStep, RuntimeTypeOK, StoresGrow
<1>5. CallsInOrder'
  <2>1. calls' = calls /\ \A i \in DOMAIN calls : calls[i] \in Request
    BY <1>1 DEF OperatorStep, RuntimeTypeOK
  <2>2. \A i, j \in DOMAIN calls : i < j /\ Operates(calls[j])' => calls[j] = m /\ calls[i] # m
    <3>1. DOMAIN calls \subseteq Nat
      BY <1>1, LenProperties DEF RuntimeTypeOK
    <3>2. QED
      BY <1>1, <1>2, <2>1, <3>1 DEF CallsInOrder
  <2>3. \A i, j \in DOMAIN calls : i < j /\ Operates(calls[j])' => doing'[calls[i]] = "ended"
    BY <1>1, <1>2, <2>1, <2>2 DEF CallsInOrder
  <2>4. QED
    BY <1>1, <1>2, <1>3, <2>1, <2>3 DEF CallsInOrder, Operates
<1>6. WritersAreOpen'
  BY DEF OperatorStep, StoresGrow
<1>7. OperatorStands'
  BY <1>2 DEF OperatorStands, Stands, Operates
<1>8. OthersWait'
  <2>1. SUFFICES ASSUME NEW n \in Request, n # m PROVE Aside(n)'
    BY DEF OthersWait
  <2>2. doing[n] \in {"idle", "queued", "ended"} /\ doing'[n] = doing[n] /\ Aside(n)
    BY <1>1, <1>2, <2>1 DEF OthersWait, Operates
  <2>3. Untouched(n) <=> Untouched(n)'
    BY <2>1 DEF OperatorStep, Untouched
  <2>4. doing[n] \in {"idle", "queued"} => n \notin files' /\ \A s \in Session' : writes'[s] # n
    <3>1. SUFFICES ASSUME doing[n] \in {"idle", "queued"}
                   PROVE  n \notin files' /\ \A s \in Session' : writes'[s] # n
      OBVIOUS
    <3>2. n \notin files /\ \A t \in Session : writes[t] # n
      BY <2>2, <3>1 DEF Aside
    <3>3. n \notin files \cup {m} \cup {writes[t] : t \in Session}
      BY <2>1, <3>2
    <3>4. n \notin files'
      BY <3>3 DEF OperatorStep
    <3>5. \A s \in Session : writes'[s] = writes[s]
      BY DEF OperatorStep, StoresGrow
    <3>6. \A s \in Session' \ Session : writes'[s] # n
      BY <3>3 DEF OperatorStep
    <3>7. QED
      BY <3>2, <3>4, <3>5, <3>6
  <2>5. QED
    BY <2>1, <2>2, <2>3, <2>4 DEF Aside, OperatorStep
<1>9. disposal \notin {"closing", "done"} /\ disposal' = disposal
  BY <1>1 DEF DisposedLast, OperatorStep
<1>10. AtRest'
  BY <1>2, <1>3, <1>4, <1>9 DEF AtRest, Operates, RuntimeTypeOK
<1>11. DisposedLast'
  BY <1>1, <1>9 DEF DisposedLast, OperatorStep
<1>12. FilesAccounted'
  <2>1. SUFFICES ASSUME NEW e \in files' \cap Request, doing'[e] = "ended"
                 PROVE  \E s \in Session' :
                          /\ writes'[s] = e
                          /\ \/ \E other \in Request : previous'[other] = s
                             \/ /\ s = current'
                                /\ \A other \in Request : Operates(other)' => previous'[other] = 0
    BY DEF FilesAccounted
  <2>2. CASE e = m
    <3>1. writes'[current'] = m /\ current' \in Session'
      BY <2>1, <2>2 DEF FilesStay, OperatorStep
    <3>2. \A other \in Request : ~Operates(other)'
      BY <1>2, <2>1, <2>2 DEF Operates
    <3>3. QED
      BY <2>2, <3>1, <3>2
  <2>3. CASE e # m
    <3>1. e \in files /\ doing[e] = "ended"
      BY <1>2, <2>1, <2>3 DEF OperatorStep
    <3>2. PICK s \in Session :
             /\ writes[s] = e
             /\ \/ \E other \in Request : previous[other] = s
                \/ s = current /\ \A other \in Request : Operates(other) => previous[other] = 0
      BY <2>1, <3>1, <1>1 DEF FilesAccounted
    <3>3. s \in Session' /\ writes'[s] = e /\ s # 0
      <4>1. Len(life) \in Nat /\ Len(life') \in Nat /\ Len(life) <= Len(life')
        BY <1>1 DEF OperatorStep, StoresGrow, RuntimeTypeOK
      <4>2. Session \subseteq Session' /\ 0 \notin Session
        BY <4>1 DEF Session
      <4>3. QED
        BY <3>2, <4>2 DEF OperatorStep, StoresGrow
    <3>4. CASE \E other \in Request : previous[other] = s
      BY <3>3, <3>4 DEF OperatorStep, FilesStay
    <3>5. CASE s = current /\ previous[m] = 0
      <4>1. CASE previous'[m] = current
        BY <3>3, <3>5, <4>1
      <4>2. CASE previous'[m] = 0 /\ writes'[current'] = writes[current]
        BY <1>2, <3>2, <3>5, <4>2 DEF OperatorStep
      <4>3. QED
        BY <3>5, <4>1, <4>2 DEF FilesStay
    <3>6. QED
      BY <3>2, <3>4, <3>5
  <2>4. QED
    BY <2>2, <2>3
<1>13. QED
  BY <1>4, <1>5, <1>6, <1>7, <1>8, <1>10, <1>11, <1>12 DEF RuntimeInv

(* A step that opens, closes and renames no session.                       *)
LEMMA OnlyControlMoves ==
  ASSUME RuntimeInv, NEW m \in Request, Operates(m), NEW stage \in Stages \ {"idle", "queued"},
         Does(m, stage), UNCHANGED <<flags, callVars, life, writes, writers>>,
         disposed' \in BOOLEAN, current' \in Session, files' \subseteq files \cup {m},
         {previous', early', candidate'} \subseteq [Request -> 0 .. Len(life)],
         \A n \in Request \ {m} :
           previous'[n] = previous[n] /\ early'[n] = early[n] /\ candidate'[n] = candidate[n]
  PROVE  OperatorStep(m, stage) /\ Session' = Session
<1>1. RuntimeTypeOK /\ WritersAreOpen
  BY DEF RuntimeInv
<1>2. StoresGrow /\ Session' = Session
  BY <1>1, StoresStay
<1>3. QED
  BY <1>1, <1>2 DEF OperatorStep, RuntimeTypeOK, Does, flags, callVars

(* What the invariant says of the call that operates.                      *)
LEMMA Facts ==
  ASSUME RuntimeInv, NEW m \in Request
  PROVE  /\ RuntimeTypeOK /\ WritersAreOpen /\ Stands(m) /\ Aside(m) /\ DisposedLast
         /\ 0 \notin Session /\ Len(life) \in Nat /\ m \in SessionFile
         /\ {previous[m], early[m], candidate[m]} \subseteq Session \cup {0}
         /\ current \in Session
<1>1. RuntimeTypeOK /\ WritersAreOpen /\ Stands(m) /\ Aside(m) /\ DisposedLast /\ Len(life) \in Nat
  BY DEF RuntimeInv, OperatorStands, OthersWait, RuntimeTypeOK
<1>2. QED
  BY <1>1 DEF RuntimeTypeOK, Session, SessionFile

LEMMA CommitImportKeepsInv ==
  ASSUME RuntimeInv, NEW m \in Request, CommitImport(m) PROVE RuntimeInv'
<1>1. doing[m] = "guard" /\ kind[m] = "import" /\ Operates(m) /\ AtGuard(m)
  BY Facts DEF CommitImport, Operates, Stands
<1>2. doing' = doing /\ Does(m, "guard")
  BY <1>1, Facts DEF CommitImport, Does, RuntimeTypeOK
<1>3. OperatorStep(m, "guard") /\ Session' = Session
  BY <1>1, <1>2, Facts, OnlyControlMoves
  DEF CommitImport, heldVars, flags, callVars, RuntimeTypeOK, Stages
<1>4. FilesStay(m)
  BY <1>1, <1>2 DEF FilesStay, CommitImport, heldVars, AtGuard, Untouched
<1>5. Stands(m)' /\ Aside(m)'
  BY <1>1, <1>2, <1>3, Facts
  DEF CommitImport, Stands, Aside, AtGuard, Untouched, InUse, heldVars, callVars
<1>6. QED
  BY <1>1, <1>3, <1>4, <1>5, OperatorKeepsInv DEF Stages

LEMMA RefusedKeepsInv ==
  ASSUME RuntimeInv, NEW m \in Request, Refused(m) PROVE RuntimeInv'
<1>1. /\ doing[m] = "guard" /\ Operates(m) /\ AtGuard(m)
      /\ Does(m, "ended") /\ doing'[m] = "ended" /\ files' = files \ {m}
  BY Facts DEF Refused, Operates, Stands, Does, RuntimeTypeOK
<1>2. OperatorStep(m, "ended") /\ Session' = Session
  BY <1>1, Facts, OnlyControlMoves
  DEF Refused, heldVars, flags, callVars, RuntimeTypeOK, Stages
<1>3. FilesStay(m)
  BY <1>1 DEF FilesStay, Refused, heldVars, AtGuard, Untouched
<1>4. Stands(m)' /\ Aside(m)'
  BY <1>1 DEF Refused, Stands, Aside, AtGuard, Untouched, heldVars
<1>5. InUse' /\ writers' = {current'}
  BY <1>1, Facts DEF Refused, Aside, AtGuard, InUse
<1>6. QED
  BY <1>1, <1>2, <1>3, <1>4, <1>5, OperatorKeepsInv DEF Stages

LEMMA AllowedKeepsInv ==
  ASSUME RuntimeInv, NEW m \in Request, Allowed(m) PROVE RuntimeInv'
<1>1. /\ doing[m] = "guard" /\ Operates(m) /\ AtGuard(m) /\ Untouched(m) /\ InUse
      /\ previous' = [previous EXCEPT ![m] = current] /\ previous'[m] = current
      /\ \A s \in Session : writes[s] # m
      /\ UNCHANGED <<current, flags, callVars, candidate>>
  BY Facts DEF Allowed, Operates, Stands, Aside, AtGuard, RuntimeTypeOK
<1>2. RuntimeTypeOK /\ WritersAreOpen /\ current \in Session /\ Len(life) \in Nat
  BY Facts
<1>3. ASSUME NEW stage \in {"setup", "close"}, doing'[m] = stage, OperatorStep(m, stage), Stands(m)'
      PROVE  RuntimeInv'
  <2>1. FilesStay(m) /\ Aside(m)'
    BY <1>1, <1>3 DEF FilesStay, Aside, Untouched
  <2>2. QED
    BY <1>1, <1>3, <2>1, OperatorKeepsInv DEF Stages
<1>4. CASE /\ kind[m] = "new" /\ Opens(m) /\ early' = [early EXCEPT ![m] = Latest]
           /\ files' = files \cup {m} /\ Does(m, "setup") /\ UNCHANGED disposed
  <2>1. /\ StoresGrow /\ Session' = Session \cup {Latest} /\ Latest \notin Session
        /\ Latest \in 0 .. Len(life') /\ Len(life') = Len(life) + 1 /\ Latest # 0
        /\ life'[Latest] = "opened" /\ writes'[Latest] = m /\ writers' = writers \cup {Latest}
        /\ \A s \in Session : life'[s] = life[s]
    BY <1>2, <1>4, Facts, OpensAddsOne
  <2>2. OperatorStep(m, "setup")
    <3>1. {previous', early', candidate'} \subseteq [Request -> 0 .. Len(life')]
      <4>1. 0 .. Len(life) \subseteq 0 .. Len(life') /\ current \in 0 .. Len(life')
        BY <1>2, <2>1 DEF Session
      <4>2. QED
        BY <1>1, <1>2, <1>4, <2>1, <4>1 DEF RuntimeTypeOK
    <3>2. \A n \in Request \ {m} :
            previous'[n] = previous[n] /\ early'[n] = early[n] /\ candidate'[n] = candidate[n]
      BY <1>1, <1>2, <1>4 DEF RuntimeTypeOK
    <3>3. \A s \in Session' \ Session : writes'[s] \in files \cup {m}
      BY <1>1, <2>1
    <3>4. QED
      BY <1>1, <1>2, <1>4, <2>1, <3>1, <3>2, <3>3
      DEF OperatorStep, RuntimeTypeOK, Does, flags, callVars
  <2>3. doing'[m] = "setup" /\ early'[m] = Latest /\ candidate'[m] = 0 /\ kind'[m] = "new"
    BY <1>1, <1>2, <1>4 DEF RuntimeTypeOK, Does, Untouched, callVars
  <2>4. writes'[current] = writes[current] /\ writes[current] \in files \ {m} /\ current' = current
    BY <1>1, <1>2, <2>1 DEF InUse, StoresGrow
  <2>5. AtSetup(m)'
    BY <1>1, <1>2, <1>4, <2>1, <2>3, <2>4
    DEF AtSetup, BeforeIt, Replacing, AtGuard, InUse, MakesFile
  <2>6. Stands(m)'
    BY <2>3, <2>5 DEF Stands
  <2>7. QED
    BY <1>3, <1>4, <2>2, <2>3, <2>6
<1>5. CASE \E f \in files :
             /\ kind[m] = "switch" /\ f # writes[current] /\ Opens(f)
             /\ early' = [early EXCEPT ![m] = Latest] /\ Shutdown(m) /\ UNCHANGED files
  <2>1. PICK f \in files :
             /\ kind[m] = "switch" /\ f # writes[current] /\ Opens(f)
             /\ early' = [early EXCEPT ![m] = Latest] /\ Shutdown(m) /\ UNCHANGED files
    BY <1>5
  <2>2. /\ StoresGrow /\ Session' = Session \cup {Latest} /\ Latest \notin Session
        /\ Latest \in 0 .. Len(life') /\ Len(life') = Len(life) + 1 /\ Latest # 0
        /\ life'[Latest] = "opened" /\ writes'[Latest] = f /\ writers' = writers \cup {Latest}
        /\ \A s \in Session : life'[s] = life[s]
    BY <1>2, <2>1, OpensAddsOne DEF RuntimeTypeOK
  <2>3. OperatorStep(m, "close")
    <3>1. {previous', early', candidate'} \subseteq [Request -> 0 .. Len(life')]
      <4>1. 0 .. Len(life) \subseteq 0 .. Len(life') /\ current \in 0 .. Len(life')
        BY <1>2, <2>2 DEF Session
      <4>2. QED
        BY <1>1, <1>2, <2>1, <2>2, <4>1 DEF RuntimeTypeOK
    <3>2. \A n \in Request \ {m} :
            previous'[n] = previous[n] /\ early'[n] = early[n] /\ candidate'[n] = candidate[n]
      BY <1>1, <1>2, <2>1 DEF RuntimeTypeOK
    <3>3. \A s \in Session' \ Session : writes'[s] \in files \cup {m}
      BY <1>1, <2>2
    <3>4. QED
      BY <1>1, <1>2, <2>1, <2>2, <3>1, <3>2, <3>3
      DEF OperatorStep, RuntimeTypeOK, Does, Shutdown, flags, callVars
  <2>4. doing'[m] = "close" /\ early'[m] = Latest /\ candidate'[m] = 0 /\ kind'[m] = "switch"
    BY <1>1, <1>2, <2>1 DEF RuntimeTypeOK, Does, Shutdown, Untouched, callVars
  <2>5. writes'[current] = writes[current] /\ writes[current] \in files \ {m} /\ current' = current
    BY <1>1, <1>2, <2>2 DEF InUse, StoresGrow
  <2>6. AtClose(m)'
    BY <1>1, <1>2, <2>1, <2>2, <2>4, <2>5
    DEF AtClose, BeforeIt, Replacing, AtGuard, InUse, MakesFile, Shutdown, Spare
  <2>7. Stands(m)'
    BY <2>4, <2>6 DEF Stands
  <2>8. QED
    BY <1>3, <2>1, <2>3, <2>4, <2>7 DEF Shutdown
<1>6. CASE kind[m] # "new" /\ Shutdown(m) /\ UNCHANGED <<early, life, writes, writers, files>>
  <2>1. OperatorStep(m, "close") /\ Session' = Session
    <3>1. {previous', early', candidate'} \subseteq [Request -> 0 .. Len(life)]
      BY <1>1, <1>2, <1>6 DEF RuntimeTypeOK, Session
    <3>2. \A n \in Request \ {m} :
            previous'[n] = previous[n] /\ early'[n] = early[n] /\ candidate'[n] = candidate[n]
      BY <1>1, <1>2, <1>6 DEF RuntimeTypeOK
    <3>3. QED
      BY <1>1, <1>2, <1>6, <3>1, <3>2, OnlyControlMoves DEF Shutdown, Stages
  <2>2. /\ doing'[m] = "close" /\ early'[m] = 0 /\ candidate'[m] = 0 /\ kind'[m] = kind[m]
        /\ current' = current
    BY <1>1, <1>2, <1>6 DEF RuntimeTypeOK, Does, Shutdown, Untouched, callVars
  <2>3. kind[m] = "import" => m \in files
    BY DEF Allowed
  <2>4. AtClose(m)'
    BY <1>1, <1>2, <1>6, <2>1, <2>2, <2>3
    DEF AtClose, BeforeIt, Replacing, AtGuard, InUse, MakesFile, Shutdown, Spare
  <2>5. Stands(m)'
    BY <2>2, <2>4 DEF Stands
  <2>6. QED
    BY <1>3, <1>6, <2>1, <2>2, <2>5 DEF Shutdown
<1>7. QED
  BY <1>4, <1>5, <1>6 DEF Allowed

(* A replacement that goes on, with another candidate or the same.         *)
GoesOn(m, stage, c) ==
  /\ Does(m, stage) /\ UNCHANGED <<callVars, disposal, previous, early>>
  /\ Keeps(m, c) \/ (UNCHANGED candidate /\ c = candidate[m])
  /\ StoresGrow /\ c \in 0 .. Len(life') /\ current' \in Session'
  /\ disposed' \in BOOLEAN /\ closing' \in {closing, TRUE} /\ closed' \in BOOLEAN
  /\ files \subseteq files' /\ files' \subseteq files \cup {m} /\ (m \in files' => MakesFile(m))
  /\ \A s \in Session' \ Session : writes'[s] \in files \cup {m}

LEMMA ReplacementGoesOn ==
  ASSUME RuntimeInv, NEW m \in Request, Operates(m), Replacing(m),
         NEW stage \in Stages \ {"idle", "queued", "guard", "ended"}, NEW c, GoesOn(m, stage, c)
  PROVE  /\ Replacing(m)' /\ candidate'[m] = c /\ doing'[m] = stage /\ kind' = kind
         /\ writes'[previous[m]] = writes[previous[m]] /\ previous' = previous /\ early' = early
         /\ Stands(m)' => RuntimeInv'
<1>1. RuntimeTypeOK /\ Len(life) \in Nat /\ {early[m], previous[m]} \subseteq Session \cup {0}
      /\ 0 \notin Session
  BY Facts
<1>2. Len(life') \in Nat /\ Len(life) <= Len(life') /\ \A s \in Session : writes'[s] = writes[s]
  BY DEF GoesOn, StoresGrow
<1>3. Session \subseteq Session'
  BY <1>1, <1>2 DEF Session
<1>4. candidate'[m] = c /\ doing'[m] = stage
  BY <1>1 DEF GoesOn, RuntimeTypeOK, Does, Keeps
<1>5. /\ kind' = kind /\ calls' = calls /\ gaveUp' = gaveUp /\ disposal' = disposal
      /\ previous' = previous /\ early' = early
  BY DEF GoesOn, callVars
<1>6. Replacing(m)' /\ writes'[previous[m]] = writes[previous[m]]
  BY <1>1, <1>2, <1>3, <1>5 DEF GoesOn, Replacing, MakesFile
<1>7. OperatorStep(m, stage)
  <2>1. {previous', early', candidate'} \subseteq [Request -> 0 .. Len(life')]
    <3>1. 0 .. Len(life) \subseteq 0 .. Len(life')
      BY <1>1, <1>2
    <3>2. QED
      <4>1. {previous', early'} \subseteq [Request -> 0 .. Len(life')] /\ c \in 0 .. Len(life')
        BY <1>1, <1>5, <3>1 DEF GoesOn, RuntimeTypeOK
      <4>2. candidate \in [Request -> 0 .. Len(life')]
        BY <1>1, <3>1 DEF RuntimeTypeOK
      <4>3. candidate' \in [Request -> 0 .. Len(life')]
        BY <4>1, <4>2 DEF GoesOn, Keeps
      <4>4. QED
        BY <4>1, <4>3
  <2>2. \A n \in Request \ {m} : candidate'[n] = candidate[n]
    BY <1>1 DEF GoesOn, Keeps, RuntimeTypeOK
  <2>3. QED
    BY <1>5, <2>1, <2>2 DEF GoesOn, OperatorStep, Does
<1>8. FilesStay(m) /\ Aside(m)'
  BY <1>1, <1>4, <1>5 DEF GoesOn, FilesStay, Aside, Replacing
<1>9. ASSUME Stands(m)' PROVE RuntimeInv'
  BY <1>7, <1>8, <1>9, OperatorKeepsInv
<1>10. QED
  BY <1>4, <1>5, <1>6, <1>9

LEMMA SetupKeepsInv ==
  ASSUME RuntimeInv, NEW m \in Request, Setup(m) PROVE RuntimeInv'
<1>1. /\ doing[m] = "setup" /\ Operates(m) /\ AtSetup(m) /\ Replacing(m)
      /\ UNCHANGED <<current, flags, callVars, heldVars, life, stores>>
  BY Facts DEF Setup, Operates, Stands, AtSetup, BeforeIt
<1>2. StoresGrow /\ Session' = Session
  BY <1>1, Facts, StoresStay DEF stores
<1>3. candidate[m] \in 0 .. Len(life')
  BY <1>1, Facts DEF RuntimeTypeOK
<1>4. CASE ~Interrupted(m) /\ Shutdown(m)
  <2>1. /\ Replacing(m)' /\ doing'[m] = "close" /\ kind' = kind /\ candidate'[m] = candidate[m]
        /\ Stands(m)' => RuntimeInv'
    <3>1. GoesOn(m, "close", candidate[m])
      BY <1>1, <1>2, <1>3, <1>4, Facts
      DEF GoesOn, Shutdown, flags, heldVars, stores, Replacing, RuntimeTypeOK
    <3>2. QED
      BY <1>1, <3>1, ReplacementGoesOn DEF Stages
  <2>2. AtClose(m)'
    BY <1>1, <1>2, <1>4, <2>1
    DEF AtSetup, AtClose, BeforeIt, InUse, Spare, Shutdown, heldVars, stores
  <2>3. QED
    BY <2>1, <2>2 DEF Stands
<1>5. CASE Does(m, "failing") /\ UNCHANGED disposed
  <2>1. /\ Replacing(m)' /\ doing'[m] = "failing" /\ kind' = kind /\ candidate'[m] = candidate[m]
        /\ Stands(m)' => RuntimeInv'
    <3>1. GoesOn(m, "failing", candidate[m])
      BY <1>1, <1>2, <1>3, <1>5, Facts
      DEF GoesOn, flags, heldVars, stores, Replacing, RuntimeTypeOK
    <3>2. QED
      BY <1>1, <3>1, ReplacementGoesOn DEF Stages
  <2>2. AtFailing(m)'
    BY <1>1, <1>2, <1>5, <2>1
    DEF AtSetup, AtFailing, BeforeIt, InUse, Spare, Spared, heldVars, stores
  <2>3. QED
    BY <2>1, <2>2 DEF Stands
<1>6. QED
  BY <1>4, <1>5 DEF Setup

LEMMA CloseOldKeepsInv ==
  ASSUME RuntimeInv, NEW m \in Request, CloseOld(m) PROVE RuntimeInv'
<1>1. /\ doing[m] = "close" /\ Operates(m) /\ AtClose(m) /\ BeforeIt(m) /\ Replacing(m)
      /\ UNCHANGED <<current, disposed, flags, callVars, heldVars, files>> /\ Close(current)
  BY Facts DEF CloseOld, Operates, Stands, AtClose, BeforeIt
<1>2. /\ StoresGrow /\ Session' = Session /\ writes' = writes /\ writers' = writers \ {current}
      /\ Len(life') = Len(life) /\ \A t \in Session : t # current => life'[t] = life[t]
  BY <1>1, Facts, CloseTakesOne
<1>3. candidate[m] \in 0 .. Len(life') /\ candidate[m] = 0 /\ candidate' = candidate
  BY <1>1, <1>2, Facts DEF RuntimeTypeOK, BeforeIt, heldVars
<1>4. early[m] # 0 => early[m] \in Session /\ early[m] # current
  BY <1>1, Facts DEF AtClose, BeforeIt
<1>5. PICK stage \in {"create", "discard"} : Does(m, stage)
  BY DEF CloseOld
<1>6. /\ Replacing(m)' /\ doing'[m] = stage /\ kind' = kind /\ candidate'[m] = 0
      /\ Stands(m)' => RuntimeInv'
  <2>1. GoesOn(m, stage, 0)
    BY <1>1, <1>2, <1>3, <1>5, Facts
    DEF GoesOn, flags, heldVars, Replacing, RuntimeTypeOK, Keeps
  <2>2. QED
    BY <1>1, <1>5, <2>1, ReplacementGoesOn DEF Stages
<1>7. writers' = Spare(m) /\ (early[m] # 0 => life'[early[m]] = "opened") /\ early' = early
  BY <1>1, <1>2, <1>4 DEF AtClose, BeforeIt, Spare, heldVars
<1>8. AtCreate(m)'
  BY <1>1, <1>6, <1>7 DEF AtClose, AtCreate, BeforeIt, Spare, heldVars
<1>9. AtDiscard(m)'
  BY <1>6, <1>7 DEF AtDiscard, Spare, Spared
<1>10. QED
  BY <1>6, <1>8, <1>9 DEF Stands

LEMMA CreateKeepsInv ==
  ASSUME RuntimeInv, NEW m \in Request, Create(m) PROVE RuntimeInv'
<1>1. /\ doing[m] = "create" /\ Operates(m) /\ AtCreate(m) /\ BeforeIt(m) /\ Replacing(m)
      /\ Does(m, "creating")
      /\ UNCHANGED <<current, disposed, flags, callVars, previous, early>>
  BY Facts DEF Create, Operates, Stands, AtCreate, BeforeIt
<1>2. CASE early[m] # 0 /\ Keeps(m, early[m]) /\ UNCHANGED <<life, stores>>
  <2>1. StoresGrow /\ Session' = Session
    BY <1>2, Facts, StoresStay DEF stores
  <2>2. early[m] \in Session /\ early[m] \in 0 .. Len(life')
    BY <1>2, Facts DEF Session
  <2>3. /\ Replacing(m)' /\ doing'[m] = "creating" /\ kind' = kind /\ candidate'[m] = early[m]
        /\ Stands(m)' => RuntimeInv'
    <3>1. GoesOn(m, "creating", early[m])
      BY <1>1, <1>2, <2>1, <2>2, Facts DEF GoesOn, flags, RuntimeTypeOK, stores, Replacing
    <3>2. QED
      BY <1>1, <3>1, ReplacementGoesOn DEF Stages
  <2>4. AtCreating(m)'
    BY <1>1, <1>2, <2>1, <2>2, <2>3
    DEF AtCreate, BeforeIt, AtCreating, Makes, Replacing, MakesFile, Spare, stores
  <2>5. QED
    BY <2>3, <2>4 DEF Stands
<1>3. CASE early[m] = 0 /\ Keeps(m, Latest)
  <2>1. PICK f \in files \cup {m} :
          /\ Opens(f) /\ f \in files' /\ files' \subseteq files \cup {m} /\ files \subseteq files'
          /\ MakesFile(m) => f = m
          /\ (m \in files' => MakesFile(m))
    <3>1. CASE kind[m] = "switch" /\ Opens(writes[current]) /\ UNCHANGED files
      BY <1>1, <3>1 DEF AtCreate, BeforeIt, Replacing, MakesFile
    <3>2. CASE kind[m] = "import" /\ Opens(m) /\ UNCHANGED files
      BY <1>1, <3>2 DEF AtCreate, BeforeIt, Replacing, MakesFile
    <3>3. CASE kind[m] = "fork" /\ Opens(m) /\ files' = files \cup {m}
      BY <1>1, <3>3 DEF AtCreate, BeforeIt, Replacing, MakesFile
    <3>4. QED
      BY <1>3, <3>1, <3>2, <3>3 DEF Create
  <2>2. /\ StoresGrow /\ Session' = Session \cup {Latest} /\ Latest \notin Session
        /\ Latest \in 0 .. Len(life') /\ Latest # 0 /\ Len(life') = Len(life) + 1
        /\ life'[Latest] = "opened" /\ writes'[Latest] = f /\ writers' = writers \cup {Latest}
    BY <2>1, Facts, OpensAddsOne DEF RuntimeTypeOK
  <2>3. /\ current' \in Session' /\ disposed' \in BOOLEAN /\ closing' \in {closing, TRUE}
        /\ closed' \in BOOLEAN /\ UNCHANGED <<callVars, disposal, previous, early>>
        /\ candidate' = [candidate EXCEPT ![m] = Latest]
        /\ \A s \in Session' \ Session : writes'[s] \in files \cup {m}
    BY <1>1, <1>3, <2>2, Facts DEF flags, RuntimeTypeOK, Keeps
  <2>4. /\ Replacing(m)' /\ doing'[m] = "creating" /\ kind' = kind /\ candidate'[m] = Latest
        /\ Stands(m)' => RuntimeInv'
    <3>1. GoesOn(m, "creating", Latest)
      BY <1>1, <2>1, <2>2, <2>3
      DEF GoesOn, Replacing, Keeps
    <3>2. QED
      BY <1>1, <3>1, ReplacementGoesOn DEF Stages
  <2>5. AtCreating(m)'
    BY <1>1, <1>3, <2>1, <2>2, <2>4
    DEF AtCreate, BeforeIt, AtCreating, Makes, MakesFile, Spare
  <2>6. QED
    BY <2>4, <2>5 DEF Stands
<1>4. QED
  BY <1>2, <1>3 DEF Create

LEMMA CreatingKeepsInv ==
  ASSUME RuntimeInv, NEW m \in Request, Creating(m) PROVE RuntimeInv'
<1>1. /\ doing[m] = "creating" /\ Operates(m) /\ AtCreating(m) /\ Makes(m, "opened") /\ Replacing(m)
      /\ UNCHANGED <<current, disposed, flags, callVars, previous, early, files>>
  BY Facts DEF Creating, Operates, Stands, AtCreating, Makes
<1>2. /\ candidate[m] \in Session /\ candidate[m] \in 0 .. Len(life) /\ (m \in files => MakesFile(m))
      /\ current \in Session /\ disposed \in BOOLEAN /\ closed \in BOOLEAN /\ Len(life) \in Nat
  BY <1>1, Facts DEF Makes, Replacing, Session, RuntimeTypeOK
<1>3. CASE Returns(m, "created")
  <2>1. /\ StoresGrow /\ Session' = Session /\ Len(life') = Len(life)
        /\ life'[candidate[m]] = "live" /\ UNCHANGED <<candidate, writes, writers>>
    BY <1>1, <1>2, <1>3, Facts, ReturnsTurnsLive DEF Returns, Makes
  <2>2. /\ Replacing(m)' /\ doing'[m] = "created" /\ kind' = kind /\ candidate'[m] = candidate[m]
        /\ Stands(m)' => RuntimeInv'
    <3>1. GoesOn(m, "created", candidate[m])
      BY <1>1, <1>2, <1>3, <2>1
      DEF GoesOn, Returns, flags
    <3>2. QED
      BY <1>1, <3>1, ReplacementGoesOn DEF Stages
  <2>3. AtCreated(m)'
    BY <1>1, <2>1, <2>2 DEF AtCreating, AtCreated, Makes, MakesFile
  <2>4. QED
    BY <2>2, <2>3 DEF Stands
<1>4. CASE (Close(candidate[m]) \/ Abandon(candidate[m])) /\ Keeps(m, 0) /\ Does(m, "discard")
  <2>1. /\ StoresGrow /\ Session' = Session /\ writes' = writes /\ writers' = writers \ {candidate[m]}
        /\ Len(life') = Len(life) /\ life'[candidate[m]] \in {"closed", "abandoned"}
    BY <1>2, <1>4, Facts, CloseTakesOne
  <2>2. /\ Replacing(m)' /\ doing'[m] = "discard" /\ kind' = kind /\ candidate'[m] = 0
        /\ Stands(m)' => RuntimeInv'
    <3>1. GoesOn(m, "discard", 0)
      BY <1>1, <1>2, <1>4, <2>1
      DEF GoesOn, Keeps, flags
    <3>2. QED
      BY <1>1, <3>1, ReplacementGoesOn DEF Stages
  <2>3. AtDiscard(m)'
    BY <1>1, <2>1, <2>2 DEF Makes, AtDiscard, Spared
  <2>4. QED
    BY <2>2, <2>3 DEF Stands
<1>5. QED
  BY <1>3, <1>4 DEF Creating, Fails

LEMMA ApplyKeepsInv ==
  ASSUME RuntimeInv, NEW m \in Request, Apply(m) PROVE RuntimeInv'
<1>1. /\ doing[m] = "created" /\ Operates(m) /\ AtCreated(m) /\ Makes(m, "live") /\ Replacing(m)
      /\ UNCHANGED <<flags, callVars, heldVars, life, stores>>
  BY Facts DEF Apply, Operates, Stands, AtCreated, Makes
<1>2. /\ candidate[m] \in Session /\ candidate[m] \in 0 .. Len(life) /\ (m \in files => MakesFile(m))
      /\ current \in Session /\ disposed \in BOOLEAN /\ closed \in BOOLEAN
      /\ StoresGrow /\ Session' = Session
  BY <1>1, Facts, StoresStay DEF Makes, Replacing, Session, RuntimeTypeOK, stores
<1>3. CASE current' = candidate[m] /\ disposed' = FALSE /\ Does(m, "rebind")
  <2>1. /\ Replacing(m)' /\ doing'[m] = "rebind" /\ kind' = kind /\ candidate'[m] = candidate[m]
        /\ Stands(m)' => RuntimeInv'
    <3>1. GoesOn(m, "rebind", candidate[m])
      BY <1>1, <1>2, <1>3
      DEF GoesOn, flags, heldVars, stores
    <3>2. QED
      BY <1>1, <3>1, ReplacementGoesOn DEF Stages
  <2>2. AtRebind(m)'
    BY <1>1, <1>2, <1>3, <2>1 DEF AtRebind, Makes, MakesFile, heldVars, stores
  <2>3. QED
    BY <2>1, <2>2 DEF Stands
<1>4. CASE Does(m, "discard") /\ UNCHANGED <<current, disposed>>
  <2>1. /\ Replacing(m)' /\ doing'[m] = "discard" /\ kind' = kind /\ candidate'[m] = candidate[m]
        /\ Stands(m)' => RuntimeInv'
    <3>1. GoesOn(m, "discard", candidate[m])
      BY <1>1, <1>2, <1>4
      DEF GoesOn, flags, heldVars, stores
    <3>2. QED
      BY <1>1, <3>1, ReplacementGoesOn DEF Stages
  <2>2. AtDiscard(m)'
    BY <1>1, <1>2, <2>1 DEF AtDiscard, Makes, MakesFile, heldVars, stores
  <2>3. QED
    BY <2>1, <2>2 DEF Stands
<1>5. QED
  BY <1>3, <1>4 DEF Apply

LEMMA RebindKeepsInv ==
  ASSUME RuntimeInv, NEW m \in Request, Rebind(m) PROVE RuntimeInv'
<1>1. /\ doing[m] = "rebind" /\ Operates(m) /\ AtRebind(m) /\ Makes(m, "live") /\ Replacing(m)
      /\ UNCHANGED <<current, disposed, flags, callVars, heldVars, life, stores>>
  BY Facts DEF Rebind, Operates, Stands, AtRebind, Makes
<1>2. /\ candidate[m] \in Session /\ candidate[m] \in 0 .. Len(life) /\ (m \in files => MakesFile(m))
      /\ current \in Session /\ disposed \in BOOLEAN /\ closed \in BOOLEAN
      /\ StoresGrow /\ Session' = Session
  BY <1>1, Facts, StoresStay DEF Makes, Replacing, Session, RuntimeTypeOK, stores
<1>3. PICK stage \in {"with", "discard"} : Does(m, stage)
  BY DEF Rebind
<1>4. /\ Replacing(m)' /\ doing'[m] = stage /\ kind' = kind /\ candidate'[m] = candidate[m]
      /\ Stands(m)' => RuntimeInv'
  <2>1. GoesOn(m, stage, candidate[m])
    BY <1>1, <1>2, <1>3
    DEF GoesOn, flags, heldVars, stores
  <2>2. QED
    BY <1>1, <1>3, <2>1, ReplacementGoesOn DEF Stages
<1>5. AtWith(m)' /\ AtDiscard(m)'
  BY <1>1, <1>2, <1>4 DEF AtRebind, AtWith, AtDiscard, InUse, Makes, MakesFile, heldVars, stores
<1>6. QED
  BY <1>4, <1>5 DEF Stands

LEMMA DiscardKeepsInv ==
  ASSUME RuntimeInv, NEW m \in Request, Discard(m) PROVE RuntimeInv'
<1>1. /\ doing[m] = "discard" /\ Operates(m) /\ AtDiscard(m) /\ Replacing(m)
      /\ Keeps(m, 0) /\ disposed' = TRUE
      /\ UNCHANGED <<flags, callVars, previous, early, files>>
  BY Facts DEF Discard, Operates, Stands, AtDiscard
<1>2. StoresGrow /\ Session' = Session /\ Len(life') = Len(life) /\ writers' \subseteq Spare(m) /\ Spared(m)'
  <2>1. CASE candidate[m] = 0
    BY <1>1, <2>1, Facts, StoresStay DEF Discard, AtDiscard, Makes, Spared
  <2>2. CASE candidate[m] # 0
    <3>1. candidate[m] \in Session /\ Close(candidate[m]) /\ Makes(m, "live")
      BY <1>1, <2>2, Facts DEF Discard, AtDiscard
    <3>2. /\ StoresGrow /\ Session' = Session /\ writers' = writers \ {candidate[m]}
          /\ Len(life') = Len(life) /\ life'[candidate[m]] \in {"closed", "abandoned"}
      BY <3>1, Facts, CloseTakesOne
    <3>3. QED
      BY <1>1, <3>1, <3>2 DEF Makes, Spared
  <2>3. QED
    BY <2>1, <2>2
<1>3. /\ 0 \in 0 .. Len(life') /\ (m \in files => MakesFile(m)) /\ previous[m] \in Session
      /\ current \in Session /\ closed \in BOOLEAN
  BY <1>1, <1>2, Facts DEF Replacing, RuntimeTypeOK
<1>4. CASE Does(m, "recover") /\ UNCHANGED current
  <2>1. /\ Replacing(m)' /\ doing'[m] = "recover" /\ kind' = kind /\ candidate'[m] = 0
        /\ Stands(m)' => RuntimeInv'
    <3>1. GoesOn(m, "recover", 0)
      BY <1>1, <1>2, <1>3, <1>4
      DEF GoesOn, Keeps, flags, Replacing
    <3>2. QED
      BY <1>1, <3>1, ReplacementGoesOn DEF Stages
  <2>2. AtRecover(m)'
    BY <1>1, <1>2, <2>1 DEF AtRecover, Spare
  <2>3. QED
    BY <2>1, <2>2 DEF Stands
<1>5. CASE closing /\ Does(m, "failing") /\ current' = previous[m]
  <2>1. /\ Replacing(m)' /\ doing'[m] = "failing" /\ kind' = kind /\ candidate'[m] = 0
        /\ Stands(m)' => RuntimeInv'
    <3>1. GoesOn(m, "failing", 0)
      BY <1>1, <1>2, <1>3, <1>5
      DEF GoesOn, Keeps, flags, Replacing
    <3>2. QED
      BY <1>1, <3>1, ReplacementGoesOn DEF Stages
  <2>2. AtFailing(m)'
    BY <1>1, <1>2, <1>5, <2>1 DEF AtFailing, Spare, flags
  <2>3. QED
    BY <2>1, <2>2 DEF Stands
<1>6. QED
  BY <1>4, <1>5 DEF Discard

LEMMA RecoverKeepsInv ==
  ASSUME RuntimeInv, NEW m \in Request, Recover(m) PROVE RuntimeInv'
<1>1. /\ doing[m] = "recover" /\ Operates(m) /\ AtRecover(m) /\ Replacing(m)
      /\ Opens(writes[previous[m]]) /\ Keeps(m, Latest) /\ Does(m, "recovering")
      /\ UNCHANGED <<current, disposed, flags, callVars, previous, early, files>>
  BY Facts DEF Recover, Operates, Stands, AtRecover
<1>2. writes[previous[m]] \in files /\ writes[previous[m]] \in SessionFile
  BY <1>1, Facts DEF Replacing, RuntimeTypeOK
<1>3. /\ StoresGrow /\ Session' = Session \cup {Latest} /\ Latest \notin Session
      /\ Latest \in 0 .. Len(life') /\ Latest # 0 /\ Len(life') = Len(life) + 1
      /\ life'[Latest] = "opened" /\ writes'[Latest] = writes[previous[m]]
      /\ writers' = writers \cup {Latest} /\ \A s \in Session : life'[s] = life[s]
  BY <1>1, <1>2, Facts, OpensAddsOne
<1>4. /\ current' \in Session' /\ disposed' \in BOOLEAN /\ closing' \in {closing, TRUE}
      /\ closed' \in BOOLEAN /\ UNCHANGED <<callVars, disposal, previous, early, files>>
      /\ candidate' = [candidate EXCEPT ![m] = Latest] /\ (m \in files' => MakesFile(m))
      /\ \A s \in Session' \ Session : writes'[s] \in files \cup {m}
  BY <1>1, <1>2, <1>3, Facts DEF flags, RuntimeTypeOK, Keeps, Replacing
<1>5. /\ Replacing(m)' /\ doing'[m] = "recovering" /\ kind' = kind /\ candidate'[m] = Latest
      /\ writes'[previous[m]] = writes[previous[m]]
      /\ Stands(m)' => RuntimeInv'
  <2>1. GoesOn(m, "recovering", Latest)
    BY <1>1, <1>3, <1>4
    DEF GoesOn, Replacing, Keeps
  <2>2. QED
    BY <1>1, <2>1, ReplacementGoesOn DEF Stages
<1>6. Spared(m)' /\ early[m] # Latest
  BY <1>1, <1>3, Facts DEF AtRecover, Spared
<1>7. AtRecovering(m)'
  BY <1>1, <1>3, <1>4, <1>5, <1>6 DEF AtRecover, AtRecovering, Recovers, Spare
<1>8. QED
  BY <1>5, <1>7 DEF Stands

(* What was made to recover is closed, and the runtime with it.            *)
LEMMA UndoKeepsInv ==
  ASSUME RuntimeInv, NEW m \in Request, Operates(m), NEW state \in {"opened", "live"},
         Recovers(m, state), Close(candidate[m]) \/ Abandon(candidate[m]), Keeps(m, 0), Undo(m),
         UNCHANGED <<callVars, previous, early, files>>
  PROVE  RuntimeInv'
<1>1. /\ Replacing(m) /\ candidate[m] \in Session /\ candidate[m] # early[m] /\ Spared(m)
      /\ writers \subseteq {candidate[m]} \cup Spare(m)
  BY DEF Recovers
<1>2. /\ StoresGrow /\ Session' = Session /\ writers' = writers \ {candidate[m]}
      /\ Len(life') = Len(life) /\ \A t \in Session : t # candidate[m] => life'[t] = life[t]
  BY <1>1, Facts, CloseTakesOne
<1>3. /\ 0 \in 0 .. Len(life') /\ (m \in files => MakesFile(m)) /\ previous[m] \in Session
  BY <1>1, <1>2, Facts DEF Replacing
<1>4. /\ Replacing(m)' /\ doing'[m] = "failing" /\ kind' = kind /\ candidate'[m] = 0
      /\ Stands(m)' => RuntimeInv'
  <2>1. GoesOn(m, "failing", 0)
    BY <1>1, <1>2, <1>3
    DEF GoesOn, Undo, Keeps, Replacing
  <2>2. QED
    BY <1>1, <2>1, ReplacementGoesOn DEF Stages
<1>5. Spared(m)' /\ writers' \subseteq Spare(m)
  BY <1>1, <1>2, Facts DEF Spared
<1>6. AtFailing(m)'
  BY <1>4, <1>5 DEF AtFailing, Spare, Undo
<1>7. QED
  BY <1>4, <1>6 DEF Stands

LEMMA RecoveringKeepsInv ==
  ASSUME RuntimeInv, NEW m \in Request, Recovering(m) PROVE RuntimeInv'
<1>1. /\ doing[m] = "recovering" /\ Operates(m) /\ AtRecovering(m) /\ Recovers(m, "opened")
      /\ Replacing(m) /\ UNCHANGED <<callVars, previous, early, files>>
  BY Facts DEF Recovering, Operates, Stands, AtRecovering, Recovers
<1>2. /\ candidate[m] \in Session /\ candidate[m] \in 0 .. Len(life) /\ (m \in files => MakesFile(m))
      /\ current \in Session /\ disposed \in BOOLEAN /\ closed \in BOOLEAN /\ Len(life) \in Nat
  BY <1>1, Facts DEF Recovers, Replacing, Session, RuntimeTypeOK
<1>3. CASE Returns(m, "recovered") /\ UNCHANGED <<current, disposed, flags>>
  <2>1. /\ StoresGrow /\ Session' = Session /\ Len(life') = Len(life)
        /\ life'[candidate[m]] = "live" /\ UNCHANGED <<candidate, writes, writers>>
        /\ \A t \in Session : t # candidate[m] => life'[t] = life[t]
    BY <1>1, <1>2, <1>3, Facts, ReturnsTurnsLive DEF Returns, Recovers
  <2>2. /\ Replacing(m)' /\ doing'[m] = "recovered" /\ kind' = kind /\ candidate'[m] = candidate[m]
        /\ Stands(m)' => RuntimeInv'
    <3>1. GoesOn(m, "recovered", candidate[m])
      BY <1>1, <1>2, <1>3, <2>1 DEF GoesOn, Returns, flags
    <3>2. QED
      BY <1>1, <3>1, ReplacementGoesOn DEF Stages
  <2>3. Spared(m)'
    BY <1>1, <2>1, Facts DEF Recovers, Spared
  <2>4. AtRecovered(m)'
    BY <1>1, <1>3, <2>1, <2>2, <2>3 DEF AtRecovering, AtRecovered, Recovers, Spare
  <2>5. QED
    BY <2>2, <2>4 DEF Stands
<1>4. CASE (Close(candidate[m]) \/ Abandon(candidate[m])) /\ Keeps(m, 0) /\ Undo(m)
  BY <1>1, <1>4, UndoKeepsInv
<1>5. QED
  BY <1>3, <1>4 DEF Recovering, Fails

LEMMA RecoveredKeepsInv ==
  ASSUME RuntimeInv, NEW m \in Request, Recovered(m) PROVE RuntimeInv'
<1>1. /\ doing[m] = "recovered" /\ Operates(m) /\ AtRecovered(m) /\ Recovers(m, "live")
      /\ Replacing(m) /\ UNCHANGED <<callVars, previous, early, files>>
  BY Facts DEF Recovered, Operates, Stands, AtRecovered, Recovers
<1>2. CASE /\ current' = candidate[m] /\ disposed' = FALSE /\ Does(m, "rebound")
           /\ UNCHANGED <<flags, candidate, life, writes, writers>>
  <2>1. /\ candidate[m] \in Session /\ candidate[m] \in 0 .. Len(life)
        /\ (m \in files => MakesFile(m)) /\ closed \in BOOLEAN /\ StoresGrow /\ Session' = Session
    BY <1>1, <1>2, Facts, StoresStay DEF Recovers, Replacing, Session, RuntimeTypeOK
  <2>2. /\ Replacing(m)' /\ doing'[m] = "rebound" /\ kind' = kind /\ candidate'[m] = candidate[m]
        /\ Stands(m)' => RuntimeInv'
    <3>1. GoesOn(m, "rebound", candidate[m])
      BY <1>1, <1>2, <2>1 DEF GoesOn, flags
    <3>2. QED
      BY <1>1, <3>1, ReplacementGoesOn DEF Stages
  <2>3. AtRebound(m)'
    BY <1>1, <1>2, <2>1, <2>2 DEF AtRebound, Recovers, Spare, Spared
  <2>4. QED
    BY <2>2, <2>3 DEF Stands
<1>3. CASE Close(candidate[m]) /\ Keeps(m, 0) /\ Undo(m)
  BY <1>1, <1>3, UndoKeepsInv
<1>4. QED
  BY <1>2, <1>3 DEF Recovered, Fails

LEMMA ReboundKeepsInv ==
  ASSUME RuntimeInv, NEW m \in Request, Rebound(m) PROVE RuntimeInv'
<1>1. /\ doing[m] = "rebound" /\ Operates(m) /\ AtRebound(m) /\ Recovers(m, "live")
      /\ Replacing(m) /\ UNCHANGED <<callVars, previous, early, files>>
  BY Facts DEF Rebound, Operates, Stands, AtRebound, Recovers
<1>2. CASE /\ Does(m, "failing") /\ Keeps(m, 0)
           /\ UNCHANGED <<current, disposed, flags, life, writes, writers>>
  <2>1. /\ candidate[m] \in Session /\ current \in Session /\ 0 \in 0 .. Len(life')
        /\ (m \in files => MakesFile(m)) /\ closed \in BOOLEAN /\ disposed \in BOOLEAN
        /\ StoresGrow /\ Session' = Session
    BY <1>1, <1>2, Facts, StoresStay DEF Recovers, Replacing, Session, RuntimeTypeOK
  <2>2. /\ Replacing(m)' /\ doing'[m] = "failing" /\ kind' = kind /\ candidate'[m] = 0
        /\ Stands(m)' => RuntimeInv'
    <3>1. GoesOn(m, "failing", 0)
      BY <1>1, <1>2, <2>1 DEF GoesOn, flags
    <3>2. QED
      BY <1>1, <3>1, ReplacementGoesOn DEF Stages
  <2>3. AtFailing(m)'
    BY <1>1, <1>2, <2>1, <2>2
    DEF AtRebound, AtFailing, Recovers, Replacing, InUse, Spare, Spared
  <2>4. QED
    BY <2>2, <2>3 DEF Stands
<1>3. CASE Close(candidate[m]) /\ Keeps(m, 0) /\ Undo(m)
  BY <1>1, <1>3, UndoKeepsInv
<1>4. QED
  BY <1>2, <1>3 DEF Rebound, Fails

LEMMA FailingKeepsInv ==
  ASSUME RuntimeInv, NEW m \in Request, Failing(m) PROVE RuntimeInv'
<1>1. /\ doing[m] = "failing" /\ Operates(m) /\ AtFailing(m) /\ Replacing(m) /\ Spared(m)
      /\ Does(m, "ended") /\ files' = files \ {m} /\ writers' = writers \ {early[m]}
      /\ UNCHANGED <<current, disposed, flags, callVars, heldVars, writes>>
  BY Facts DEF Failing, Operates, Stands, AtFailing
<1>2. life' = [s \in Session |-> IF s = early[m] /\ life[s] = "opened" THEN "closed" ELSE life[s]]
  BY DEF Failing
<1>3. /\ life' \in Seq(Lives) /\ Len(life') = Len(life) /\ Session' = Session
      /\ Len(life) \in Nat /\ Len(writes) = Len(life) /\ writes \in Seq(SessionFile)
  <2>1. life \in Seq(Lives) /\ Session = 1 .. Len(life) /\ Len(life) \in Nat /\ "closed" \in Lives
    BY Facts DEF RuntimeTypeOK, Session, Lives
  <2>2. life' \in [1 .. Len(life) -> Lives]
    BY <1>2, <2>1
  <2>3. life' \in Seq(Lives) /\ Len(life') = Len(life)
    BY <2>1, <2>2
  <2>4. QED
    BY <2>1, <2>3, Facts DEF Session, RuntimeTypeOK
<1>4. /\ \A s \in Session : s # early[m] => life'[s] = life[s]
      /\ early[m] # 0 => life'[early[m]] \in {"closed", "abandoned"}
  BY <1>1, <1>2, Facts DEF Spared, RuntimeTypeOK, Lives
<1>5. WritersAreOpen'
  BY <1>1, <1>3, <1>4, Facts DEF WritersAreOpen
<1>6. StoresGrow
  BY <1>1, <1>3, <1>5 DEF StoresGrow
<1>7. doing'[m] = "ended" /\ candidate'[m] = 0
  BY <1>1, Facts DEF Does, RuntimeTypeOK, AtFailing, heldVars
<1>8. OperatorStep(m, "ended")
  BY <1>1, <1>3, <1>6, Facts DEF OperatorStep, Does, flags, callVars, heldVars, RuntimeTypeOK
<1>9. FilesStay(m) /\ Stands(m)' /\ Aside(m)'
  BY <1>1, <1>7, Facts DEF FilesStay, Stands, Aside, Replacing, heldVars
<1>10. \/ InUse' /\ writers' = {current'}
       \/ disposed' /\ closing' /\ writers' = {}
  <2>1. CASE /\ InUse /\ current \in writers /\ writers \subseteq {current} \cup Spare(m)
             /\ current # early[m] /\ writes[current] = writes[previous[m]]
    BY <1>1, <1>4, <2>1, Facts DEF InUse, Spare, Replacing
  <2>2. CASE closing /\ disposed /\ writers \subseteq Spare(m)
    BY <1>1, <2>2 DEF Spare, flags
  <2>3. QED
    BY <1>1, <2>1, <2>2 DEF AtFailing
<1>11. QED
  BY <1>1, <1>8, <1>9, <1>10, OperatorKeepsInv DEF Stages

LEMMA WithKeepsInv ==
  ASSUME RuntimeInv, NEW m \in Request, With(m) PROVE RuntimeInv'
<1>1. /\ doing[m] = "with" /\ Operates(m) /\ AtWith(m) /\ InUse /\ writers = {current}
      /\ Does(m, "ended") /\ Keeps(m, 0) /\ UNCHANGED <<disposed, flags, callVars, previous, early, files>>
  BY Facts DEF With, Operates, Stands, AtWith
<1>2. doing'[m] = "ended" /\ candidate'[m] = 0
  BY <1>1, Facts DEF Does, Keeps, RuntimeTypeOK
<1>3. Stands(m)' /\ Aside(m)'
  BY <1>2 DEF Stands, Aside
<1>4. ASSUME StoresGrow, current' \in Session', InUse', writers' = {current'},
             writes'[current'] = writes[current],
             \A s \in Session' \ Session : writes'[s] \in {writes[t] : t \in Session},
             \/ current' = current
             \/ Untouched(m) /\ m \notin files
      PROVE  RuntimeInv'
  <2>1. writes'[current'] \in files /\ Len(life) <= Len(life') /\ Len(life') \in Nat
    BY <1>1, <1>4 DEF InUse, StoresGrow
  <2>2. {previous', early', candidate'} \subseteq [Request -> 0 .. Len(life')]
    <3>1. 0 .. Len(life) \subseteq 0 .. Len(life') /\ 0 \in 0 .. Len(life')
      BY <2>1, Facts
    <3>2. QED
      BY <1>1, <3>1, Facts DEF RuntimeTypeOK, Keeps
  <2>3. OperatorStep(m, "ended")
    BY <1>1, <1>4, <2>2, Facts DEF OperatorStep, Does, Keeps, flags, callVars, RuntimeTypeOK
  <2>4. FilesStay(m)
    BY <1>1, <1>2, <1>4, Facts DEF FilesStay, AtWith, Untouched, Replacing, StoresGrow
  <2>5. QED
    BY <1>1, <1>3, <1>4, <2>3, <2>4, OperatorKeepsInv DEF Stages
<1>5. CASE UNCHANGED <<current, life, writes, writers>>
  <2>1. StoresGrow /\ Session' = Session
    BY <1>5, Facts, StoresStay
  <2>2. QED
    BY <1>1, <1>4, <1>5, <2>1, Facts DEF InUse
<1>6. CASE /\ kind[m] = "refresh" /\ Len(life) < MaxSessions
           /\ life' = Append([life EXCEPT ![current] = "closed"], "live")
           /\ writes' = Append(writes, writes[current])
           /\ writers' = (writers \ {current}) \cup {Latest}
           /\ current' = Latest
  <2>1. /\ life \in Seq(Lives) /\ writes \in Seq(SessionFile) /\ Len(writes) = Len(life)
        /\ Len(life) \in Nat /\ current \in Session /\ {"closed", "live"} \subseteq Lives
    BY Facts DEF RuntimeTypeOK, Lives
  <2>2. DEFINE closes == [life EXCEPT ![current] = "closed"]
  <2>3. /\ closes \in Seq(Lives) /\ Len(closes) = Len(life) /\ closes[current] = "closed"
        /\ \A s \in Session : s # current => closes[s] = life[s]
    BY <2>1, ExceptSeq DEF Session
  <2>4. HIDE DEF closes
  <2>5. /\ life' \in Seq(Lives) /\ Len(life') = Len(life) + 1 /\ life'[Latest] = "live"
        /\ life'[current] = "closed" /\ \A s \in Session : s # current => life'[s] = life[s]
    <3>1. life' = Append(closes, "live")
      BY <1>6 DEF closes
    <3>2. /\ life' \in Seq(Lives) /\ Len(life') = Len(closes) + 1 /\ life'[Len(closes) + 1] = "live"
          /\ \A s \in 1 .. Len(closes) : life'[s] = closes[s]
      BY <2>1, <2>3, <3>1, AppendsOne
    <3>3. QED
      BY <2>1, <2>3, <3>2 DEF Latest, Session
  <2>6. /\ writes' \in Seq(SessionFile) /\ Len(writes') = Len(life')
        /\ writes'[Latest] = writes[current] /\ \A s \in Session : writes'[s] = writes[s]
    <3>1. writes[current] \in SessionFile
      BY <1>1, Facts DEF InUse, RuntimeTypeOK
    <3>2. QED
      BY <1>6, <2>1, <2>5, <3>1, AppendProperties DEF Latest, Session
  <2>7. Session' = Session \cup {Latest} /\ Latest \notin Session
    BY <2>1, <2>5 DEF Session, Latest
  <2>8. WritersAreOpen' /\ writers' = {Latest}
    BY <1>1, <1>6, <2>1, <2>5, <2>7, Facts DEF WritersAreOpen
  <2>9. StoresGrow
    BY <2>1, <2>5, <2>6, <2>8 DEF StoresGrow
  <2>10. InUse'
    BY <1>1, <1>6, <2>5, <2>6 DEF InUse
  <2>11. Untouched(m) /\ m \notin files
    BY <1>1, <1>6 DEF AtWith, Replacing
  <2>12. QED
    BY <1>4, <1>6, <2>1, <2>6, <2>7, <2>8, <2>9, <2>10, <2>11
<1>7. QED
  BY <1>5, <1>6 DEF With

-----------------------------------------------------------------------------
(* Steps of calls that do not operate, of factories and of dispose().      *)

LEMMA EnterKeepsInv ==
  ASSUME RuntimeInv, NEW m \in Request, Enter(m) PROVE RuntimeInv'
<1>1. /\ RuntimeTypeOK /\ doing[m] = "idle" /\ calls' = Append(calls, m) /\ CallsInOrder
      /\ doing' = [doing EXCEPT ![m] = "queued"]
      /\ \E k \in Kinds : kind' = [kind EXCEPT ![m] = k]
      /\ UNCHANGED <<current, disposed, flags, gaveUp, heldVars, life, stores>>
  BY Facts DEF RuntimeInv, Enter, Does
<1>2. /\ \A n \in Request : Operates(n)' <=> Operates(n)
      /\ \A n \in Request \ {m} : doing'[n] = doing[n] /\ kind'[n] = kind[n]
      /\ doing'[m] = "queued" /\ Session' = Session
  BY <1>1 DEF Operates, RuntimeTypeOK, Session
<1>3. RuntimeTypeOK'
  BY <1>1, <1>2, AppendProperties
  DEF RuntimeTypeOK, Stages, flags, heldVars, stores
<1>4. CallsInOrder'
  <2>1. /\ DOMAIN calls = 1 .. Len(calls) /\ DOMAIN calls' = 1 .. Len(calls) + 1
        /\ Len(calls) \in Nat /\ calls'[Len(calls) + 1] = m
        /\ \A i \in DOMAIN calls : calls'[i] = calls[i] /\ calls[i] \in Request /\ calls[i] # m
    <3>1. calls \in Seq(Request) /\ calls' = Append(calls, m)
      BY <1>1 DEF RuntimeTypeOK
    <3>2. QED
      BY <1>1, <3>1, AppendsOne DEF CallsInOrder
  <2>2. ~Operates(m)'
    BY <1>2 DEF Operates
  <2>3. \A i, j \in DOMAIN calls' : i < j /\ Operates(calls[j])' => doing'[calls'[i]] = "ended"
    <3>1. SUFFICES ASSUME NEW i \in DOMAIN calls', NEW j \in DOMAIN calls', i < j, Operates(calls[j])'
                   PROVE  doing'[calls'[i]] = "ended"
      OBVIOUS
    <3>2. calls'[j] # m
      BY <1>2, <3>1 DEF Operates
    <3>3. i \in DOMAIN calls /\ j \in DOMAIN calls
      BY <2>1, <3>1, <3>2
    <3>4. Operates(calls[j])
      BY <1>2, <2>1, <3>1, <3>3 DEF Operates
    <3>5. QED
      BY <1>1, <1>2, <2>1, <3>1, <3>3, <3>4 DEF CallsInOrder
  <2>4. \A i, j \in DOMAIN calls' : calls'[i] = calls'[j] => i = j
    BY <1>1, <2>1 DEF CallsInOrder
  <2>5. \A n \in Request : doing'[n] # "idle" => \E i \in DOMAIN calls' : calls'[i] = n
    BY <1>1, <1>2, <2>1 DEF CallsInOrder
  <2>6. \A i \in DOMAIN calls' : doing'[calls'[i]] # "idle"
    BY <1>1, <1>2, <2>1 DEF CallsInOrder
  <2>7. QED
    BY <2>3, <2>4, <2>5, <2>6 DEF CallsInOrder
<1>5. OperatorStands'
  <2>1. SUFFICES ASSUME NEW n \in Request, n # m PROVE Stands(n)'
    BY <1>2 DEF OperatorStands, Stands
  <2>2. Stands(n) /\ doing'[n] = doing[n] /\ kind'[n] = kind[n]
    BY <1>2, <2>1, Facts
  <2>3. QED
    BY <1>1, <1>2, <2>2
    DEF Stands, AtGuard, AtSetup, AtClose, AtCreate, AtCreating, AtCreated, AtRebind, AtDiscard,
        AtRecover, AtRecovering, AtRecovered, AtRebound, AtFailing, AtWith, BeforeIt, Makes, Recovers,
        Replacing, Untouched, Spare, Spared, MakesFile, InUse, flags, heldVars, stores
<1>6. OthersWait'
  BY <1>1, <1>2 DEF RuntimeInv, OthersWait, Aside, Untouched, heldVars, stores
<1>7. WritersAreOpen' /\ AtRest' /\ DisposedLast'
  BY <1>1, <1>2 DEF RuntimeInv, WritersAreOpen, AtRest, DisposedLast, InUse, flags, stores
<1>8. FilesAccounted'
  BY <1>1, <1>2 DEF RuntimeInv, FilesAccounted, heldVars, stores
<1>9. QED
  BY <1>3, <1>4, <1>5, <1>6, <1>7, <1>8 DEF RuntimeInv

LEMMA GiveUpKeepsInv ==
  ASSUME RuntimeInv, NEW m \in Request, GiveUpCall(m) PROVE RuntimeInv'
<1>1. /\ gaveUp' \subseteq Request /\ RuntimeTypeOK
      /\ UNCHANGED <<current, disposed, flags, calls, kind, doing, heldVars, life, stores>>
  BY Facts DEF RuntimeTypeOK, GiveUpCall
<1>2. RuntimeTypeOK' /\ CallsInOrder' /\ WritersAreOpen' /\ AtRest' /\ DisposedLast'
  BY <1>1
  DEF RuntimeInv, RuntimeTypeOK, CallsInOrder, WritersAreOpen, AtRest, DisposedLast, Operates, InUse,
      Session, flags, heldVars, stores
<1>3. OthersWait' /\ FilesAccounted'
  BY <1>1
  DEF RuntimeInv, OthersWait, FilesAccounted, Aside, Untouched, Operates, Session, heldVars, stores
<1>4. OperatorStands'
  BY <1>1
  DEF RuntimeInv, OperatorStands, Stands, AtGuard, AtSetup, AtClose, AtCreate, AtCreating, AtCreated,
      AtRebind, AtDiscard, AtRecover, AtRecovering, AtRecovered, AtRebound, AtFailing, AtWith,
      BeforeIt, Makes, Recovers, Replacing, Untouched, Spare, Spared, MakesFile, InUse, Session,
      flags, heldVars, stores
<1>5. QED
  BY <1>2, <1>3, <1>4 DEF RuntimeInv

(* A call that leaves the queue without having operated.                   *)
LEMMA EndsKeepsInv ==
  ASSUME RuntimeInv, NEW m \in Request, doing[m] = "queued", Does(m, "ended"),
         UNCHANGED <<current, disposed, flags, callVars, heldVars, life, stores>>
  PROVE  RuntimeInv'
<1>1. /\ RuntimeTypeOK /\ doing' = [doing EXCEPT ![m] = "ended"] /\ CallsInOrder
      /\ UNCHANGED <<current, disposed, flags, callVars, heldVars, life, stores>>
      /\ Untouched(m) /\ m \notin files
  BY Facts DEF RuntimeInv, Does, Aside
<1>2. /\ \A n \in Request : Operates(n)' <=> Operates(n)
      /\ \A n \in Request \ {m} : doing'[n] = doing[n]
      /\ doing'[m] = "ended" /\ Session' = Session
  BY <1>1 DEF Operates, RuntimeTypeOK, Session
<1>3. RuntimeTypeOK'
  <2>1. doing' \in [Request -> Stages]
    BY <1>1 DEF RuntimeTypeOK, Stages
  <2>2. QED
    BY <1>1, <1>2, <2>1 DEF RuntimeTypeOK, flags, callVars, heldVars, stores
<1>4. CallsInOrder'
  <2>1. calls' = calls /\ \A i \in DOMAIN calls : calls[i] \in Request
    BY <1>1 DEF RuntimeTypeOK, callVars
  <2>2. \A i, j \in DOMAIN calls : i < j /\ Operates(calls[j])' => doing'[calls[i]] = "ended"
    BY <1>1, <1>2, <2>1 DEF CallsInOrder
  <2>3. QED
    BY <1>1, <1>2, <2>1, <2>2 DEF CallsInOrder, Operates
<1>5. OperatorStands'
  <2>1. SUFFICES ASSUME NEW n \in Request, n # m PROVE Stands(n)'
    BY <1>2 DEF OperatorStands, Stands
  <2>2. Stands(n) /\ doing'[n] = doing[n]
    BY <1>2, <2>1, Facts
  <2>3. QED
    BY <1>1, <1>2, <2>2
    DEF Stands, AtGuard, AtSetup, AtClose, AtCreate, AtCreating, AtCreated, AtRebind, AtDiscard,
        AtRecover, AtRecovering, AtRecovered, AtRebound, AtFailing, AtWith, BeforeIt, Makes, Recovers,
        Replacing, Untouched, Spare, Spared, MakesFile, InUse, flags, callVars, heldVars, stores
<1>6. OthersWait'
  BY <1>1, <1>2 DEF RuntimeInv, OthersWait, Aside, Untouched, heldVars, stores
<1>7. WritersAreOpen' /\ AtRest' /\ DisposedLast'
  BY <1>1, <1>2 DEF RuntimeInv, WritersAreOpen, AtRest, DisposedLast, InUse, flags, stores
<1>8. FilesAccounted'
  BY <1>1, <1>2 DEF RuntimeInv, FilesAccounted, heldVars, stores
<1>9. QED
  BY <1>3, <1>4, <1>5, <1>6, <1>7, <1>8 DEF RuntimeInv

(* Those before a call in the queue have ended, so nobody operates.        *)
LEMMA TurnIsFree ==
  ASSUME RuntimeTypeOK, CallsInOrder, NEW m \in Request, doing[m] = "queued",
         \A other \in Ahead(m) : doing[other] = "ended"
  PROVE  /\ \A n \in Request : ~Operates(n)
         /\ \A i, j \in DOMAIN calls : i < j /\ calls[j] = m => doing[calls[i]] = "ended"
<1>1. /\ DOMAIN calls = 1 .. Len(calls) /\ Len(calls) \in Nat
      /\ \A i \in DOMAIN calls : calls[i] \in Request
  BY DEF RuntimeTypeOK
<1>2. PICK k \in DOMAIN calls : calls[k] = m
  BY DEF CallsInOrder
<1>3. (CHOOSE j \in DOMAIN calls : calls[j] = m) = k
  BY <1>2 DEF CallsInOrder
<1>4. \A i \in DOMAIN calls : i < k => doing[calls[i]] = "ended"
  <2>1. Ahead(m) = {calls[j] : j \in 1 .. k - 1}
    BY <1>3 DEF Ahead
  <2>2. SUFFICES ASSUME NEW i \in DOMAIN calls, i < k PROVE doing[calls[i]] = "ended"
    OBVIOUS
  <2>3. i \in 1 .. k - 1
    BY <1>1, <2>2
  <2>4. QED
    BY <2>1, <2>3
<1>5. \A n \in Request : ~Operates(n)
  <2>1. SUFFICES ASSUME NEW n \in Request, Operates(n) PROVE FALSE
    OBVIOUS
  <2>2. PICK j \in DOMAIN calls : calls[j] = n
    BY <2>1 DEF CallsInOrder, Operates
  <2>3. ~(k < j)
    BY <1>2, <2>1, <2>2 DEF CallsInOrder
  <2>4. k # j
    BY <1>2, <2>1, <2>2 DEF Operates
  <2>5. doing[n] = "ended"
    BY <1>1, <1>4, <2>2, <2>3, <2>4
  <2>6. QED
    BY <2>1, <2>5 DEF Operates
<1>6. QED
  BY <1>2, <1>4, <1>5 DEF CallsInOrder

LEMMA TakesTurnKeepsInv ==
  ASSUME RuntimeInv, NEW m \in Request, TakesTurn(m) PROVE RuntimeInv'
<1>1. CASE Does(m, "ended")
  BY <1>1, EndsKeepsInv DEF TakesTurn
<1>2. CASE ~closing /\ ~Interrupted(m) /\ Does(m, IF kind[m] = "refresh" THEN "with" ELSE "guard")
  <2>1. /\ RuntimeTypeOK /\ CallsInOrder /\ doing[m] = "queued"
        /\ Untouched(m) /\ m \notin files /\ \A s \in Session : writes[s] # m
        /\ UNCHANGED <<current, disposed, flags, callVars, heldVars, life, stores>>
    BY Facts DEF RuntimeInv, TakesTurn, Aside
  <2>2. PICK stage \in {"with", "guard"} :
          /\ doing' = [doing EXCEPT ![m] = stage]
          /\ stage = "with" <=> kind[m] = "refresh"
    BY <1>2 DEF Does
  <2>3. /\ \A n \in Request : ~Operates(n)
        /\ \A i, j \in DOMAIN calls : i < j /\ calls[j] = m => doing[calls[i]] = "ended"
    BY <2>1, TurnIsFree DEF TakesTurn
  <2>4. InUse /\ writers = {current}
    BY <1>2, <2>3 DEF RuntimeInv, AtRest
  <2>5. /\ \A n \in Request \ {m} : doing'[n] = doing[n] /\ ~Operates(n)'
        /\ doing'[m] = stage /\ Operates(m)' /\ Session' = Session
    BY <2>1, <2>2, <2>3 DEF Operates, RuntimeTypeOK, Session
  <2>6. RuntimeTypeOK'
    <3>1. doing' \in [Request -> Stages]
      BY <2>1, <2>2 DEF RuntimeTypeOK, Stages
    <3>2. QED
      BY <2>1, <2>5, <3>1 DEF RuntimeTypeOK, flags, callVars, heldVars, stores
  <2>7. CallsInOrder'
    <3>1. calls' = calls /\ \A i \in DOMAIN calls : calls[i] \in Request
      BY <2>1 DEF RuntimeTypeOK, callVars
    <3>2. \A i, j \in DOMAIN calls : i < j /\ Operates(calls[j])' => doing'[calls[i]] = "ended"
      BY <2>1, <2>3, <2>5, <3>1
    <3>3. QED
      BY <2>1, <2>2, <2>5, <3>1, <3>2 DEF CallsInOrder, Operates
  <2>8. OperatorStands'
    <3>1. Stands(m)'
      BY <2>1, <2>2, <2>4, <2>5
      DEF Stands, AtGuard, AtWith, Untouched, InUse, flags, callVars, heldVars, stores
    <3>2. QED
      BY <2>5, <3>1 DEF OperatorStands, Stands, Operates
  <2>9. OthersWait'
    BY <2>1, <2>2, <2>5 DEF RuntimeInv, OthersWait, Aside, Untouched, heldVars, stores
  <2>10. WritersAreOpen' /\ AtRest' /\ DisposedLast'
    BY <1>2, <2>1, <2>5 DEF RuntimeInv, WritersAreOpen, AtRest, DisposedLast, flags, stores
  <2>11. FilesAccounted'
    <3>1. \A e \in Request : doing'[e] = "ended" => doing[e] = "ended"
      BY <2>2, <2>5
    <3>2. \A other \in Request : Operates(other)' => previous'[other] = 0
      BY <2>1, <2>5 DEF Untouched, heldVars
    <3>3. QED
      BY <2>1, <2>5, <3>1, <3>2 DEF RuntimeInv, FilesAccounted, heldVars, stores
  <2>12. QED
    BY <2>6, <2>7, <2>8, <2>9, <2>10, <2>11 DEF RuntimeInv
<1>3. QED
  BY <1>1, <1>2 DEF TakesTurn

LEMMA ReturnsLateKeepsInv ==
  ASSUME RuntimeInv, NEW s \in Session, ReturnsLate(s) PROVE RuntimeInv'
<1>1. /\ RuntimeTypeOK /\ WritersAreOpen /\ life[s] = "abandoned" /\ Close(s)
      /\ UNCHANGED <<current, disposed, flags, callVars, doing, heldVars, files>>
  BY DEF RuntimeInv, ReturnsLate
<1>2. /\ StoresGrow /\ Session' = Session /\ writes' = writes /\ writers' = writers
      /\ Len(life') = Len(life) /\ life'[s] \in {"closed", "abandoned"}
      /\ \A t \in Session : t # s => life'[t] = life[t]
  BY <1>1, CloseTakesOne DEF WritersAreOpen
<1>3. RuntimeTypeOK' /\ CallsInOrder' /\ DisposedLast' /\ WritersAreOpen' /\ FilesAccounted'
  <2>1. RuntimeTypeOK'
    BY <1>1, <1>2 DEF RuntimeTypeOK, StoresGrow, flags, callVars, heldVars
  <2>2. CallsInOrder' /\ DisposedLast'
    BY <1>1, <1>2 DEF RuntimeInv, CallsInOrder, DisposedLast, Operates, flags, callVars
  <2>3. FilesAccounted'
    BY <1>1, <1>2 DEF RuntimeInv, FilesAccounted, Operates, callVars, heldVars
  <2>4. QED
    BY <1>2, <2>1, <2>2, <2>3 DEF StoresGrow
<1>4. OthersWait'
  BY <1>1, <1>2 DEF RuntimeInv, OthersWait, Aside, Untouched, heldVars
<1>5. \A t \in Session : life[t] \in {"live", "opened"} => life'[t] = life[t]
  BY <1>1, <1>2
<1>6. AtRest'
  BY <1>1, <1>2, <1>5 DEF RuntimeInv, AtRest, InUse, Operates, RuntimeTypeOK, flags
<1>7. OperatorStands'
  <2>1. SUFFICES ASSUME NEW n \in Request PROVE Stands(n)'
    BY DEF OperatorStands
  <2>2. /\ Stands(n) /\ current \in Session
        /\ {early[n], candidate[n], previous[n]} \subseteq Session \cup {0}
    BY Facts
  <2>3. \A t \in Session : life[t] # "live" => life'[t] # "live"
    BY <1>1, <1>2
  <2>4. Spared(n) => Spared(n)'
    BY <1>1, <2>2, <2>3 DEF Spared, heldVars
  <2>5. Spare(n)' = Spare(n) /\ (Replacing(n) => Replacing(n)') /\ (InUse => InUse')
    BY <1>1, <1>2, <1>5, <2>2
    DEF Spare, Replacing, MakesFile, InUse, heldVars, callVars
  <2>6. QED
    BY <1>1, <1>2, <1>5, <2>2, <2>4, <2>5
    DEF Stands, AtGuard, AtSetup, AtClose, AtCreate, AtCreating, AtCreated, AtRebind, AtDiscard,
        AtRecover, AtRecovering, AtRecovered, AtRebound, AtFailing, AtWith, BeforeIt, Makes, Recovers,
        Untouched, MakesFile, flags, heldVars, callVars
<1>8. QED
  BY <1>3, <1>4, <1>6, <1>7 DEF RuntimeInv

LEMMA DisposeKeepsInv ==
  ASSUME RuntimeInv, Dispose PROVE RuntimeInv'
<1>1. /\ RuntimeTypeOK /\ disposal = "none" /\ disposal' = "waiting" /\ closing' = TRUE
      /\ UNCHANGED <<current, disposed, closed, callVars, doing, heldVars, life, stores>>
  BY DEF RuntimeInv, Dispose
<1>2. RuntimeTypeOK' /\ CallsInOrder' /\ WritersAreOpen' /\ DisposedLast'
  BY <1>1
  DEF RuntimeInv, RuntimeTypeOK, CallsInOrder, WritersAreOpen, DisposedLast, Operates, Session,
      callVars, heldVars, stores
<1>3. OthersWait' /\ FilesAccounted' /\ AtRest'
  BY <1>1
  DEF RuntimeInv, OthersWait, FilesAccounted, AtRest, Aside, Untouched, Operates, InUse, Session,
      callVars, heldVars, stores
<1>4. OperatorStands'
  <2>1. /\ UNCHANGED <<current, disposed, kind, doing, previous, early, candidate>>
        /\ UNCHANGED <<life, writes, writers, files, Session>>
    BY <1>1 DEF Session, callVars, heldVars, stores
  <2>2. SUFFICES ASSUME NEW n \in Request PROVE Stands(n)'
    BY DEF OperatorStands
  <2>3. Stands(n) /\ (Replacing(n) => Replacing(n)') /\ (Spared(n) <=> Spared(n)')
        /\ Spare(n)' = Spare(n) /\ (InUse <=> InUse') /\ (Untouched(n) <=> Untouched(n)')
    BY <2>1, Facts DEF Replacing, Spared, Spare, InUse, Untouched, MakesFile
  <2>4. BeforeIt(n) => BeforeIt(n)'
    BY <2>1, <2>3 DEF BeforeIt
  <2>5. \A state \in {"opened", "live"} :
          (Makes(n, state) => Makes(n, state)') /\ (Recovers(n, state) => Recovers(n, state)')
    BY <2>1, <2>3 DEF Makes, Recovers, MakesFile
  <2>6. AtFailing(n) => AtFailing(n)'
    BY <1>1, <2>1, <2>3 DEF AtFailing
  <2>7. QED
    BY <2>1, <2>3, <2>4, <2>5, <2>6
    DEF Stands, AtGuard, AtSetup, AtClose, AtCreate, AtCreating, AtCreated, AtRebind, AtDiscard,
        AtRecover, AtRecovering, AtRecovered, AtRebound, AtWith, MakesFile
<1>5. QED
  BY <1>2, <1>3, <1>4 DEF RuntimeInv

LEMMA DisposeTurnKeepsInv ==
  ASSUME RuntimeInv, DisposeTurn PROVE RuntimeInv'
<1>1. /\ RuntimeTypeOK /\ disposal = "waiting" /\ \A m \in Request : doing[m] \in {"idle", "ended"}
      /\ closed' = TRUE /\ disposed' = TRUE
      /\ disposal' = IF disposed THEN "done" ELSE "closing"
      /\ UNCHANGED <<current, closing, callVars, doing, heldVars, life, stores>>
  BY DEF RuntimeInv, DisposeTurn
<1>2. closing /\ \A m \in Request : ~Operates(m) /\ ~Operates(m)'
  BY <1>1 DEF RuntimeInv, DisposedLast, Operates
<1>3. RuntimeTypeOK' /\ CallsInOrder' /\ WritersAreOpen' /\ DisposedLast'
  BY <1>1, <1>2
  DEF RuntimeInv, RuntimeTypeOK, CallsInOrder, WritersAreOpen, DisposedLast, Session,
      callVars, heldVars, stores
<1>4. OthersWait' /\ OperatorStands'
  <2>1. OthersWait'
    BY <1>1 DEF RuntimeInv, OthersWait, Aside, Untouched, Session, heldVars, stores
  <2>2. OperatorStands'
    BY <1>1 DEF OperatorStands, Stands
  <2>3. QED
    BY <2>1, <2>2
<1>5. AtRest'
  BY <1>1, <1>2 DEF RuntimeInv, AtRest, InUse, stores
<1>6. FilesAccounted'
  BY <1>1, <1>2 DEF RuntimeInv, FilesAccounted, Session, heldVars, stores
<1>7. QED
  BY <1>3, <1>4, <1>5, <1>6 DEF RuntimeInv

LEMMA DisposeCloseKeepsInv ==
  ASSUME RuntimeInv, DisposeClose PROVE RuntimeInv'
<1>1. /\ RuntimeTypeOK /\ WritersAreOpen /\ disposal = "closing" /\ disposal' = "done"
      /\ Close(current) /\ current \in Session
      /\ UNCHANGED <<current, disposed, closing, closed, callVars, doing, heldVars, files>>
  BY DEF RuntimeInv, DisposeClose, RuntimeTypeOK
<1>2. \A m \in Request : ~Operates(m) /\ ~Operates(m)'
  BY <1>1 DEF RuntimeInv, DisposedLast, Operates
<1>3. /\ StoresGrow /\ Session' = Session /\ writes' = writes /\ writers' = writers \ {current}
      /\ Len(life') = Len(life)
  BY <1>1, CloseTakesOne
<1>4. RuntimeTypeOK' /\ CallsInOrder' /\ WritersAreOpen' /\ DisposedLast'
  BY <1>1, <1>2, <1>3
  DEF RuntimeInv, RuntimeTypeOK, CallsInOrder, DisposedLast, StoresGrow, callVars, heldVars
<1>5. OthersWait' /\ OperatorStands'
  BY <1>1, <1>2, <1>3
  DEF RuntimeInv, OthersWait, OperatorStands, Stands, Aside, Untouched, Operates, heldVars
<1>6. AtRest'
  BY <1>1, <1>2, <1>3 DEF RuntimeInv, AtRest
<1>7. FilesAccounted'
  BY <1>1, <1>2, <1>3 DEF RuntimeInv, FilesAccounted, heldVars
<1>8. QED
  BY <1>4, <1>5, <1>6, <1>7 DEF RuntimeInv

-----------------------------------------------------------------------------
(* The invariant, and what it says.                                        *)

LEMMA RuntimeInitInv ==
  ASSUME RuntimeInit PROVE RuntimeInv
<1>1. /\ Session = {1} /\ Len(life) = 1 /\ life[1] = "live" /\ writes[1] = Home /\ current = 1
      /\ \A m \in Request : doing[m] = "idle" /\ Untouched(m) /\ ~Operates(m) /\ m \notin files
      /\ calls = <<>> /\ files = {Home, Elsewhere} /\ writers = {1} /\ Home \notin Request
  BY RuntimeAssumption DEF RuntimeInit, Session, Untouched, Operates
<1>2. RuntimeTypeOK
  <2>1. life \in Seq(Lives) /\ writes \in Seq(SessionFile) /\ calls \in Seq(Request) /\ Len(writes) = 1
    BY DEF RuntimeInit, Lives, SessionFile
  <2>2. /\ doing \in [Request -> Stages] /\ kind \in [Request -> Kinds]
        /\ {previous, early, candidate} \subseteq [Request -> 0 .. Len(life)]
    BY <1>1 DEF RuntimeInit, Stages, Kinds
  <2>3. QED
    BY <1>1, <2>1, <2>2 DEF RuntimeInit, RuntimeTypeOK, SessionFile
<1>3. CallsInOrder /\ WritersAreOpen
  BY <1>1 DEF CallsInOrder, WritersAreOpen
<1>4. OperatorStands /\ OthersWait
  BY <1>1 DEF OperatorStands, OthersWait, Stands, Aside
<1>5. AtRest /\ DisposedLast /\ FilesAccounted
  BY <1>1 DEF RuntimeInit, AtRest, DisposedLast, FilesAccounted, InUse
<1>6. QED
  BY <1>2, <1>3, <1>4, <1>5 DEF RuntimeInv

LEMMA RuntimeStepKeepsInv ==
  ASSUME RuntimeInv, [RuntimeNext]_runtimeVars PROVE RuntimeInv'
<1>1. ASSUME NEW m \in Request, RequestSteps(m) PROVE RuntimeInv'
  <2>1. CASE LeavesQueue(m)
    BY <2>1, EndsKeepsInv DEF LeavesQueue
  <2>2. QED
    BY <1>1, <2>1, EnterKeepsInv, GiveUpKeepsInv, TakesTurnKeepsInv, CommitImportKeepsInv,
       RefusedKeepsInv, AllowedKeepsInv, SetupKeepsInv, CloseOldKeepsInv, CreateKeepsInv,
       CreatingKeepsInv, ApplyKeepsInv, RebindKeepsInv, DiscardKeepsInv, RecoverKeepsInv,
       RecoveringKeepsInv, RecoveredKeepsInv, ReboundKeepsInv, FailingKeepsInv, WithKeepsInv
    DEF RequestSteps
<1>2. CASE UNCHANGED runtimeVars
  <2>1. UNCHANGED <<current, disposed, closing, closed, disposal, calls, kind, gaveUp, doing,
                    previous, early, candidate, life, writes, writers, files>>
    BY <1>2 DEF runtimeVars, flags, callVars, heldVars, stores
  <2>2. RuntimeTypeOK' /\ CallsInOrder' /\ WritersAreOpen' /\ AtRest' /\ DisposedLast'
    BY <2>1
    DEF RuntimeInv, RuntimeTypeOK, CallsInOrder, WritersAreOpen, AtRest, DisposedLast, Operates,
        InUse, Session
  <2>3. OthersWait' /\ FilesAccounted'
    BY <2>1 DEF RuntimeInv, OthersWait, FilesAccounted, Aside, Untouched, Operates, Session
  <2>4. OperatorStands'
    BY <2>1
    DEF RuntimeInv, OperatorStands, Stands, AtGuard, AtSetup, AtClose, AtCreate, AtCreating,
        AtCreated, AtRebind, AtDiscard, AtRecover, AtRecovering, AtRecovered, AtRebound, AtFailing,
        AtWith, BeforeIt, Makes, Recovers, Replacing, Untouched, Spare, Spared, MakesFile, InUse,
        Session
  <2>5. QED
    BY <2>2, <2>3, <2>4 DEF RuntimeInv
<1>3. QED
  BY <1>1, <1>2, ReturnsLateKeepsInv, DisposeKeepsInv, DisposeTurnKeepsInv, DisposeCloseKeepsInv
  DEF RuntimeNext

(* What a call that operates keeps open: each store has a file of its own, *)
(* and the only session that lives is the one in use or the one it makes.  *)
LEMMA OperatorsStores ==
  ASSUME RuntimeInv, NEW m \in Request, Operates(m)
  PROVE  /\ \A s, t \in writers : writes[s] = writes[t] => s = t
         /\ \A s \in writers : life[s] = "live" =>
              /\ writes[s] \in files
              /\ \/ s = current /\ (~disposed \/ doing[m] = "close")
                 \/ s = candidate[m]
<1>1. RuntimeTypeOK /\ Stands(m) /\ WritersAreOpen /\ 0 \notin Session
  BY Facts
<1>2. CASE doing[m] \in {"guard", "setup"}
  BY <1>1, <1>2 DEF Stands, AtGuard, AtSetup, BeforeIt, Replacing, InUse
<1>3. CASE doing[m] \in {"close", "create"}
  BY <1>1, <1>3 DEF Stands, AtClose, AtCreate, BeforeIt, Replacing, Spare
<1>4. CASE doing[m] \in {"creating", "created", "rebind"}
  BY <1>1, <1>4 DEF Stands, AtCreating, AtCreated, AtRebind, Makes
<1>5. CASE doing[m] \in {"discard", "recover"}
  BY <1>1, <1>5 DEF Stands, AtDiscard, AtRecover, Makes, Spare, Spared
<1>6. CASE doing[m] \in {"recovering", "recovered", "rebound"}
  BY <1>1, <1>6 DEF Stands, AtRecovering, AtRecovered, AtRebound, Recovers, Replacing, Spare, Spared
<1>7. CASE doing[m] = "failing"
  BY <1>1, <1>7 DEF Stands, AtFailing, Replacing, InUse, Spare, Spared
<1>8. CASE doing[m] = "with"
  BY <1>1, <1>8 DEF Stands, AtWith, InUse
<1>9. QED
  BY <1>1, <1>2, <1>3, <1>4, <1>5, <1>6, <1>7, <1>8 DEF Operates, RuntimeTypeOK, Stages

(* The same between two calls, when one session may be open.               *)
LEMMA StoresAtRest ==
  ASSUME RuntimeInv, \A m \in Request : ~Operates(m)
  PROVE  /\ \A s, t \in writers : s = t
         /\ \A s \in writers :
              /\ writes[s] \in files
              /\ s = current /\ (~disposed \/ disposal = "closing")
         /\ ~closing => life[current] = "live" /\ ~disposed
         /\ disposal = "done" => writers = {}
  BY DEF RuntimeInv, AtRest, InUse

LEMMA RuntimeInvImplies ==
  ASSUME RuntimeInv PROVE OneSessionInUse /\ FilesFollowSessions
<1>1. RuntimeTypeOK /\ WritersAreOpen /\ DisposedLast /\ FilesAccounted
  BY DEF RuntimeInv
<1>2. \A s \in Session : life[s] = "live" => s \in writers
  BY <1>1 DEF WritersAreOpen
<1>3. CASE \A m \in Request : ~Operates(m)
  <2>1. OneSessionInUse
    <3>1. disposal = "done" => \A s \in Session : life[s] \in {"abandoned", "closed"}
      <4>1. \A s \in Session : life[s] \in Lives
        BY <1>1 DEF RuntimeTypeOK, Session
      <4>2. disposal = "done" => writers = {}
        BY <1>3, StoresAtRest
      <4>3. QED
        BY <1>1, <4>1, <4>2 DEF WritersAreOpen, Lives
    <3>2. QED
      BY <1>2, <1>3, <3>1, StoresAtRest DEF OneSessionInUse
  <2>2. FilesFollowSessions
    BY <1>1, <1>2, <1>3, StoresAtRest DEF FilesFollowSessions, FilesAccounted
  <2>3. QED
    BY <2>1, <2>2
<1>4. ASSUME NEW m \in Request, Operates(m) PROVE OneSessionInUse /\ FilesFollowSessions
  <2>1. disposal # "done"
    BY <1>1, <1>4 DEF DisposedLast
  <2>2. OneSessionInUse
    BY <1>2, <1>4, <2>1, OperatorsStores DEF OneSessionInUse
  <2>3. FilesFollowSessions
    BY <1>1, <1>2, <1>4, OperatorsStores DEF FilesFollowSessions, FilesAccounted
  <2>4. QED
    BY <2>2, <2>3
<1>5. QED
  BY <1>3, <1>4

LEMMA RuntimeInvHolds == RuntimeSpec => []RuntimeInv
<1>1. RuntimeInit => RuntimeInv
  BY RuntimeInitInv
<1>2. RuntimeInv /\ [RuntimeNext]_runtimeVars => RuntimeInv'
  BY RuntimeStepKeepsInv
<1>3. QED
  BY <1>1, <1>2, PTL DEF RuntimeSpec

(* Whatever the callers of a session runtime and their aborts do, and      *)
(* whenever it is disposed of: between two calls an open runtime has a     *)
(* live session, no session lives that nobody will close, and none is left *)
(* after dispose(), by the turns of #mutate and the recovery of #replace.  *)
THEOREM OneSessionInUseHolds == RuntimeSpec => []OneSessionInUse
<1>1. RuntimeInv => OneSessionInUse
  BY RuntimeInvImplies
<1>2. QED
  BY <1>1, RuntimeInvHolds, PTL

(* However a replacement ends, no two open stores of the runtime write one *)
(* file, a live session finds its file in place, and a file a call made is *)
(* left behind only by a session that came into use.                       *)
THEOREM FilesFollowSessionsHolds == RuntimeSpec => []FilesFollowSessions
<1>1. RuntimeInv => FilesFollowSessions
  BY RuntimeInvImplies
<1>2. QED
  BY <1>1, RuntimeInvHolds, PTL

(* The state of the session runtime keeps its shape: a call holds sessions *)
(* that were made, and a writer is one of them.                            *)
THEOREM RuntimeTypeCorrect == RuntimeSpec => []RuntimeTypeOK
<1>1. RuntimeInv => RuntimeTypeOK
  BY DEF RuntimeInv
<1>2. QED
  BY <1>1, RuntimeInvHolds, PTL

-----------------------------------------------------------------------------
(* The parts around a session beside one another: a step of the whole is   *)
(* one of each part or leaves it alone, so that a behaviour of the whole   *)
(* is one of every part.                                                   *)
LEMMA BehavioursOfParts ==
  Spec => /\ LockSpec /\ LeaseSpec /\ MutationSpec /\ QuestionSpec /\ RuntimeSpec
          /\ ContextSpec
<1>1. Init => /\ LockInit /\ LeaseInit /\ MutationInit /\ QuestionInit /\ RuntimeInit /\ ContextInit
  BY DEF Init
<1>2. [Next]_vars =>
        /\ [LockNext]_lockVars /\ [LeaseNext]_leaseVars /\ [MutationNext]_mutationVars
        /\ [QuestionNext]_questionVars /\ [RuntimeNext]_runtimeVars /\ [ContextNext]_contextVars
  BY DEF Next, LockPart, LeasePart, MutationPart, QuestionPart, RuntimePart, ContextPart, vars
<1>3. QED
  BY <1>1, <1>2, PTL
     DEF Spec, LockSpec, LeaseSpec, MutationSpec, QuestionSpec, RuntimeSpec, ContextSpec

(* Every part around a session keeps the shape of its state while the      *)
(* others are at work: the lock, the lease, the two queues, the runtime    *)
(* and the context.                                                        *)
THEOREM PartsTypeCorrect == Spec => []PartsTypeOK
<1>1. LockTypeOK /\ LeaseTypeOK /\ MutationTypeOK /\ QuestionTypeOK /\ RuntimeTypeOK /\ ContextTypeOK
        => PartsTypeOK
  BY DEF PartsTypeOK
<1>2. QED
  BY <1>1, BehavioursOfParts, LockTypeCorrect, LeaseTypeCorrect, MutationTypeCorrect,
     QuestionTypeCorrect, RuntimeTypeCorrect, ContextTypeCorrect, PTL

(* What the parts promise, they promise beside one another too: whatever   *)
(* has its own theorem holds in every behaviour of the whole.              *)
THEOREM PartsKeepPromises ==
  Spec => [](/\ SecondOperationWasLetIn /\ SecondWriterWasLetIn
             /\ MutationsInOrder /\ QuestionsInTurn /\ OneSessionInUse /\ FilesFollowSessions
             /\ CompactionsAreBounded /\ OverflowCutIsFirst /\ ContextIsWhole)
BY BehavioursOfParts, SecondOperationWasLetInHolds, SecondWriterWasLetInHolds,
   MutationsInOrderHolds, QuestionsInTurnHolds, OneSessionInUseHolds, FilesFollowSessionsHolds,
   CompactionsAreBoundedHolds, OverflowCutIsFirstHolds, ContextIsWholeHolds, PTL
=============================================================================
