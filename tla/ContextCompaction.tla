-------------------------- MODULE ContextCompaction --------------------------
(***************************************************************************)
(* What the model gets to see of a session: the projection of a branch     *)
(* (packages/kernel/src/runtime/context/projection.ts), its compaction     *)
(* (compaction.ts beside it), the loop that asks for them (#run and        *)
(* #compact of runtime/core/agent.ts) and the record of a compaction in    *)
(* the session (packages/ohm/src/service/agent-session.ts and storage/     *)
(* session-manager.ts).                                                    *)
(*                                                                         *)
(* A step is the code between two awaits: while a summary is made the host *)
(* may append to the branch, and everything may fail or be aborted.        *)
(***************************************************************************)
EXTENDS Selection, FiniteSetsExt

CONSTANTS
  ToolSizes,    \* tokens of a message with results; others have one token
  BoundedSize,  \* tokens it has when the results in it are bounded
  Extra,        \* tokens that system and extensions may add to a request
  MaxInput,     \* hard budget of a request
  Target,       \* what triggers a compaction, and what it must get down to
  Recent,       \* recentTokens
  RetainTurns,  \* compactionRetainRecentTurns
  MaxSummary,   \* tokens of a summary
  MaxEntries, MaxOf  \* bounds of the model: entries, and entries of a rare type

ASSUME ContextAssumption ==
  /\ ToolSizes \subseteq Nat \ {0} /\ BoundedSize \in ToolSizes /\ Extra \in Nat
  /\ {Target, Recent, RetainTurns, MaxSummary} \subseteq Nat \ {0}
  /\ MaxInput \in Nat /\ MaxInput >= Target

VARIABLES
  branch,     \* entries of the active branch
  context,    \* messages for the next request
  loaded,     \* length of the branch when they were loaded
  loop,       \* where the loop is
  plan,       \* the compaction under way
  recovered,  \* overflowRecoveryVersion = progressVersion
  tries       \* compactions since the last progress (history)

contextVars == <<branch, context, loaded, loop, plan, recovered, tries>>

(* An entry.  "call" is an assistant message with tool calls, "tool" the   *)
(* message with their results, "lost" an assistant message that failed or  *)
(* was aborted, "note" a message of an extension, the output of a user's   *)
(* command or the summary of an abandoned branch.  of is the call a tool   *)
(* message answers, or the first entry a compaction keeps; about is what a *)
(* summary was made from (history).                                        *)
Entry(type, size, of, about) == [type |-> type, size |-> size, of |-> of, about |-> about]
Types == {"user", "note", "assistant", "call", "tool", "lost", "compaction"}

(* A message stands for an entry, or is made up for a call without result. *)
Message(type, at, size, of) == [type |-> type, at |-> at, size |-> size, of |-> of]
MessageOf(b, p) == Message(b[p].type, p, b[p].size, b[p].of)

IsUser(m)      == m.type \in {"user", "note", "compaction"}
IsAssistant(m) == m.type \in {"assistant", "call"}
IsResult(m)    == m.type \in {"tool", "missing"}

Tokens(ms) ==
  LET sum[i \in 0 .. Len(ms)] == IF i = 0 THEN 0 ELSE sum[i - 1] + ms[i].size IN sum[Len(ms)]

Beyond(ms, n) == SubSeq(ms, n + 1, Len(ms))

-----------------------------------------------------------------------------
(* Projection.                                                             *)

LatestCompaction(b) == Max({0} \cup {p \in DOMAIN b : b[p].type = "compaction"})

\* Mutant: summaries among the kept entries are kept as well.
KeepsAnySummary(b, p) == b[LatestCompaction(b)].of <= p /\ p < LatestCompaction(b)

(* What the latest compaction keeps of the entries before it.              *)
KeepsEntry(b, p) == b[LatestCompaction(b)].of <= p /\ p < LatestCompaction(b) /\ b[p].type # "compaction"

(* buildContextEntries: the summary, what it keeps, and what came after.   *)
BuildContextEntries(b) ==
  LET all == [p \in DOMAIN b |-> p]  c == LatestCompaction(b) IN
  IF c = 0 THEN all
  ELSE <<c>> \o Among(all, {p \in DOMAIN b : KeepsEntry(b, p)}) \o Beyond(all, c)

(* isReplayableMessage                                                     *)
Replayable(b) == LET shown == Among(BuildContextEntries(b), {p \in DOMAIN b : b[p].type # "lost"}) IN
  [i \in DOMAIN shown |-> MessageOf(b, shown[i])]

(* groupContextMessages: a turn begins at a message of the user.           *)
Begins(ms, i) == i = 1 \/ IsUser(ms[i])
SameTurn(ms, i, j) == i <= j /\ \A k \in i + 1 .. j : ~Begins(ms, k)

AnswersIn(ms, i, j) == IsResult(ms[j]) /\ ms[i].type = "call" /\ ms[j].of = ms[i].at

(* repairToolBlocks drops results without a call in their turn.            *)
RepairToolBlocks(ms) ==
  Picked(ms, {j \in DOMAIN ms :
    IsResult(ms[j]) => \E i \in DOMAIN ms : SameTurn(ms, i, j) /\ AnswersIn(ms, i, j)})

(* fillMissingToolResults makes up an answer for calls that have none      *)
(* before the next message of somebody else.  Of the places, 2 * i is for  *)
(* message i and the odd one after it for the answer made up.              *)
Unanswered(ms, i) ==
  /\ ms[i].type = "call"
  /\ ~(\E j \in i + 1 .. Len(ms) : AnswersIn(ms, i, j) /\ \A k \in i + 1 .. j : IsResult(ms[k]))

FillMissingToolResults(ms) ==
  LET unanswered == {i \in DOMAIN ms : Unanswered(ms, i)}
      filled == [p \in {2 * i : i \in DOMAIN ms} \cup {2 * i + 1 : i \in unanswered} |->
                   LET i == p \div 2 IN
                   IF p = 2 * i THEN ms[i] ELSE Message("missing", ms[i].at, 1, ms[i].at)]
  IN  Picked(filled, DOMAIN filled)

(* projectMessagesForProvider, and the context of a branch.                *)
Projected(ms)  == FillMissingToolResults(RepairToolBlocks(ms))
LoadContext(b) == Projected(Replayable(b))

(* elideOldToolResults, here for all turns.                                *)
Elided(ms) ==
  [i \in DOMAIN ms |-> IF ms[i].type = "tool" /\ ms[i].size > BoundedSize
                       THEN [ms[i] EXCEPT !.size = BoundedSize] ELSE ms[i]]

-----------------------------------------------------------------------------
(* Choice of a cut: the number of messages to be summarized, or 0.         *)

Calls(ms)     == {i \in DOMAIN ms : ms[i].type = "call"}
Result(ms, i) == {j \in DOMAIN ms : AnswersIn(ms, i, j)}

(* safeToolBoundary: no call is cut off from its result.                   *)
SafeToolBoundary(ms, cut) ==
  \A i \in Calls(ms) :
    IF Result(ms, i) = {} THEN i > cut ELSE \A j \in Result(ms, i) : i <= cut <=> j <= cut

ValidCut(ms, cut) == cut < Len(ms) /\ (IsUser(ms[cut + 1]) \/ IsAssistant(ms[cut + 1]))

(* recentBoundary: in the latest turn that, with those after it, has the   *)
(* recent tokens, the first valid cut that keeps fewer, or the last one.   *)
RecentBoundary(ms) ==
  LET enough == {i \in DOMAIN ms : Begins(ms, i) /\ Tokens(Beyond(ms, i - 1)) >= Recent} IN
  IF enough = {} THEN 0
  ELSE LET first == Max(enough)
           inTurn == {i \in DOMAIN ms : SameTurn(ms, first, i)}
           cuts == {i - 1 : i \in {j \in inTurn : ValidCut(ms, j - 1) /\ SafeToolBoundary(ms, j - 1)}}
           from == Max({i \in inTurn : Tokens(Beyond(ms, i - 1)) >= Recent}) - 1
       IN IF cuts = {} THEN 0
          ELSE IF \E c \in cuts : c >= from THEN Min({c \in cuts : c >= from}) ELSE Max(cuts)

(* turnBoundary: the latest turns are kept.                                *)
TurnBoundary(ms) ==
  LET turns == {i \in DOMAIN ms : Begins(ms, i)} IN
  IF Cardinality(turns) <= RetainTurns THEN 0
  ELSE CHOOSE i \in {t - 1 : t \in turns} : Cardinality({t \in turns : t > i}) = RetainTurns

Boundary(ms) == IF RecentBoundary(ms) # 0 THEN RecentBoundary(ms) ELSE TurnBoundary(ms)

Fits(ms, cut, extra) == Tokens(Beyond(ms, cut)) + extra + MaxSummary <= Target

\* Mutant: the cut after a result is taken for one before it.
UnsafeCutsOneMore(ms, cut) ==
  LET ResultAt(i) == IF Result(ms, i) = {} THEN Len(ms) ELSE Max(Result(ms, i)) + 1 IN
  Cardinality({i \in Calls(ms) : i <= cut}) - Cardinality({i \in Calls(ms) : ResultAt(i) <= cut})

(* The counter of laterFittingBoundary: pairs that are open at the cut.    *)
UnsafeCuts(ms, cut) ==
  LET ResultAt(i) == IF Result(ms, i) = {} THEN Len(ms) ELSE Max(Result(ms, i)) IN
  Cardinality({i \in Calls(ms) : i <= cut}) - Cardinality({i \in Calls(ms) : ResultAt(i) <= cut})

(* laterFittingBoundary                                                    *)
LaterFittingBoundary(ms, after, extra) ==
  LET cuts == {c \in after + 1 .. Len(ms) - 1 :
                 UnsafeCuts(ms, c) = 0 /\ ValidCut(ms, c) /\ Fits(ms, c, extra)} IN
  IF cuts = {} THEN 0 ELSE Min(cuts)

(* selectInternal                                                          *)
Cut(ms, extra, overflow) ==
  LET boundary == Boundary(ms) IN
  IF boundary # 0 /\ Fits(ms, boundary, extra) THEN boundary
  ELSE IF overflow THEN LaterFittingBoundary(ms, boundary, extra) ELSE 0

(* rebaseCompactionPlan: the cuts an extension may ask for instead.        *)
RebasedCuts(ms, extra) == {c \in 1 .. Len(ms) - 1 : SafeToolBoundary(ms, c) /\ Fits(ms, c, extra)}

-----------------------------------------------------------------------------
NoPlan == [mode |-> "none", cut |-> 0]

ContextInit ==
  /\ branch = <<>> /\ context = <<>> /\ loaded = 0
  /\ loop = "idle" /\ plan = NoPlan /\ recovered = FALSE /\ tries = 0

CountOf(type) == Cardinality({p \in DOMAIN branch : branch[p].type = type})

Log(type, size, of, about) ==
  /\ Len(branch) < MaxEntries
  /\ type \in {"note", "lost"} => CountOf(type) < MaxOf
  /\ branch' = Append(branch, Entry(type, size, of, about))

(* The next iteration of the loop, or the end of the run.                  *)
Continue(at) == loop' = at /\ context' = <<>> /\ loaded' = 0 /\ plan' = NoPlan
(* A response or a result is progress: progressVersion + 1.                *)
MadeProgress == recovered' = FALSE /\ tries' = 0
NoProgress == UNCHANGED <<recovered, tries>>

(* A run begins with a prompt, or continues from what is there.            *)
BeginRun ==
  /\ loop = "idle" /\ Continue("load") /\ MadeProgress
  /\ \/ Log("user", 1, 0, {})
     \/ branch # <<>> /\ UNCHANGED branch

(* A queued message of the user is delivered between two turns.            *)
DeliverMessage ==
  /\ loop = "load" /\ Log("user", 1, 0, {})
  /\ UNCHANGED <<context, loaded, loop, plan, recovered, tries>>

(* An extension, or a command of the user, adds to the branch.             *)
AddNote ==
  /\ loop # "tools" /\ branch # <<>> /\ Log("note", 1, 0, {})
  /\ UNCHANGED <<context, loaded, loop, plan, recovered, tries>>

(* A branch of the tree is left for an earlier entry of it.                *)
Navigate ==
  /\ loop = "idle"
  /\ \E n \in 1 .. Len(branch) - 1 : branch' = SubSeq(branch, 1, n)
  /\ UNCHANGED <<context, loaded, loop, plan, recovered, tries>>

(* A summary is asked for, of what is before the cut or one that an        *)
(* extension has chosen.                                                   *)
BeginCompaction(mode, ms, cut, extra) ==
  /\ cut # 0 /\ loop' = "compacting"
  /\ \E c \in {cut} \cup RebasedCuts(ms, extra) : plan' = [mode |-> mode, cut |-> c]

(* The user, or the host after a run, asks for a compaction: the user's    *)
(* request is for a cut, the host's for one that fits if need be.          *)
CompactNow ==
  /\ loop = "idle"
  /\ LET ms == LoadContext(branch) IN
     /\ context' = ms /\ loaded' = Len(branch)
     /\ \E overflow \in {TRUE, Tokens(ms) > MaxInput} :
          BeginCompaction("manual", ms, Cut(ms, 0, overflow), 0)
  /\ MadeProgress /\ UNCHANGED branch

(* An iteration of the loop: the branch is loaded.                         *)
Load ==
  /\ loop = "load"
  /\ LET ms == LoadContext(branch)
         overflow == Tokens(ms) > MaxInput
         cut == IF Tokens(ms) <= Target THEN 0 ELSE Cut(ms, 0, overflow) IN
     \/ /\ cut # 0
        /\ context' = ms /\ loaded' = Len(branch)
        /\ BeginCompaction("automatic", ms, cut, 0)
     \/ /\ cut = 0 /\ ~overflow
        /\ context' = ms /\ loaded' = Len(branch) /\ loop' = "final" /\ UNCHANGED plan
     \/ /\ cut = 0 /\ overflow
        /\ IF Elided(ms) # ms /\ Tokens(Elided(ms)) <= MaxInput
           THEN context' = Elided(ms) /\ loaded' = Len(branch) /\ loop' = "final" /\ UNCHANGED plan
           ELSE Continue("idle")
  /\ NoProgress /\ UNCHANGED branch

\* Mutant: the attempt is not remembered.
OverflowAgain(extra) ==
  LET cut == Cut(context, extra, TRUE) IN
  \/ BeginCompaction("overflow", context, cut, extra) /\ UNCHANGED <<recovered, tries, context, loaded>>
  \/ cut = 0 /\ Continue("idle") /\ NoProgress

(* A request is too large once more: one compaction, then reload, unless   *)
(* there was one already; otherwise the run fails.                         *)
Overflow(extra) ==
  LET cut == Cut(context, extra, TRUE) IN
  \/ /\ ~recovered
     /\ BeginCompaction("overflow", context, cut, extra)
     /\ recovered' = TRUE /\ UNCHANGED <<tries, context, loaded>>
  \/ /\ recovered \/ cut = 0
     /\ Continue("idle") /\ NoProgress

(* System and extensions make the final projection.                        *)
Send ==
  /\ loop = "final" /\ UNCHANGED branch
  /\ \E extra \in {0, Extra} :
       IF Tokens(context) + extra <= MaxInput
       THEN loop' = "sent" /\ UNCHANGED <<context, loaded, plan, recovered, tries>>
       ELSE Overflow(extra)

(* The provider answers; a turn without calls ends the run, or a queued    *)
(* message is next.                                                        *)
Respond ==
  /\ loop = "sent" /\ MadeProgress
  /\ \/ Log("assistant", 1, 0, {}) /\ (Continue("idle") \/ Continue("load"))
     \/ Log("call", 1, 0, {}) /\ Continue("tools")

(* A limit of the provider comes as the reason of an end or as an error.   *)
ReportOverflow ==
  /\ loop = "sent" /\ Overflow(0)
  /\ UNCHANGED branch \/ Log("lost", 1, 0, {})

(* Any other error fails the run, or the request is repeated.              *)
LoseAnswer ==
  /\ loop = "sent" /\ Log("lost", 1, 0, {}) /\ NoProgress
  /\ Continue("idle") \/ UNCHANGED <<context, loaded, loop, plan>>

ReturnResults ==
  /\ loop = "tools" /\ MadeProgress /\ Continue("load")
  /\ \E size \in ToolSizes : Log("tool", size, Len(branch), {})

(* The summary is made and recorded: the entry of the first message that   *)
(* is kept must be found in the branch.                                    *)
FinishCompaction ==
  LET source == SubSeq(context, 1, plan.cut)  kept == Beyond(context, plan.cut)
      seen   == {source[i].at : i \in DOMAIN source}
      first  == kept[1].at
      about  == seen \cup UNION {branch[p].about : p \in seen} IN
  /\ loop = "compacting" /\ kept[1].type \in {"user", "assistant", "call", "tool"}
  /\ \E size \in 1 .. MaxSummary :
       /\ Log("compaction", size, first, about)
       /\ IF plan.mode = "automatic"
          THEN /\ context' = Projected(<<Message("compaction", Len(branch) + 1, size, first)>> \o kept)
               /\ loop' = "final" /\ plan' = NoPlan /\ UNCHANGED loaded
          ELSE Continue(IF plan.mode = "overflow" THEN "load" ELSE "idle")
  /\ tries' = tries + 1 /\ UNCHANGED recovered

(* The summary fails: without it an automatic compaction is given up and   *)
(* the run goes on.                                                        *)
FailCompaction ==
  /\ loop = "compacting"
  /\ IF plan.mode = "automatic"
     THEN loop' = "final" /\ plan' = NoPlan /\ UNCHANGED <<context, loaded>>
     ELSE Continue("idle")
  /\ NoProgress /\ UNCHANGED branch

(* The run is aborted, or fails for another reason.                        *)
StopRun ==
  /\ loop \in {"load", "final", "sent", "compacting"}
  /\ Continue("idle") /\ NoProgress /\ UNCHANGED branch

ContextNext ==
  \/ BeginRun \/ DeliverMessage \/ AddNote \/ Navigate \/ CompactNow
  \/ Load \/ Send \/ Respond \/ ReportOverflow \/ LoseAnswer \/ ReturnResults
  \/ FinishCompaction \/ FailCompaction \/ StopRun

ContextSpec == ContextInit /\ [][ContextNext]_contextVars

-----------------------------------------------------------------------------
(* Every variable has its shape.                                           *)
ContextTypeOK ==
  /\ \A p \in DOMAIN branch :
       /\ branch[p].type \in Types /\ branch[p].size \in Nat /\ branch[p].of \in 0 .. p - 1
       /\ branch[p].about \subseteq 1 .. p - 1
  /\ \A i \in DOMAIN context : context[i].at \in DOMAIN branch /\ context[i].size \in Nat
  /\ loaded \in 0 .. Len(branch) /\ recovered \in BOOLEAN /\ tries \in Nat
  /\ loop \in {"idle", "load", "final", "sent", "tools", "compacting"}
  /\ plan.mode \in {"none", "automatic", "overflow", "manual"}
  /\ loop = "compacting" <=> plan # NoPlan
  /\ plan # NoPlan => plan.cut \in 1 .. Len(context) - 1

Positions(ms) == [i \in DOMAIN ms |-> <<ms[i].type, ms[i].at>>]

(* Whatever is summarized, cut and recorded, each entry of the branch is   *)
(* in the context that the branch gives, or is behind the summary in it;   *)
(* and what is sent after a compaction in memory is what a reload of the   *)
(* session would give: the two know the same entries, in the same order.   *)
ContextIsWhole ==
  LET ms == LoadContext(branch)  c == LatestCompaction(branch) IN
  /\ \A p \in DOMAIN branch :
       branch[p].type \notin {"lost", "compaction"} =>
         \/ c # 0 /\ p \in branch[c].about
         \/ \E i \in DOMAIN ms : ms[i].at = p /\ ms[i].type = branch[p].type
  /\ loop \in {"final", "sent"} =>
       Positions(context) =
         Positions(Among(ms, {m \in Items(ms) : m.at <= loaded \/ m.type = "compaction"}))

(* After an overflow a compaction is refused only when no cut keeps calls  *)
(* with their results and fits; and the cut that is used is the first such *)
(* cut from the recent boundary on, whichever of the two ways of looking   *)
(* for it has found it (docs/compaction.md:55).                            *)
OverflowCutIsFirst ==
  loop \in {"final", "sent"} =>
    \A extra \in {0, Extra} :
      LET cut  == Cut(context, extra, TRUE)
          good == {c \in 1 .. Len(context) - 1 :
                     SafeToolBoundary(context, c) /\ ValidCut(context, c) /\ Fits(context, c, extra)} IN
      /\ cut = 0 <=> good = {}
      /\ cut # 0 => cut = Min({c \in good : c >= Boundary(context)})

(* Between two steps of progress there are at most three compactions, one  *)
(* before a request, one when it was too large still, and one more when    *)
(* something was added meanwhile: overflow cannot loop                     *)
(* (docs/compaction.md:138).                                               *)
CompactionsAreBounded == tries <= 3
=============================================================================
