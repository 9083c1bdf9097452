---------------------------- MODULE ContextProofs ----------------------------
(* That compaction cannot loop, finds the cut it promises and loses        *)
(* nothing of a session, for any budgets, sizes and branches.              *)
EXTENDS ContextCompaction, SelectionProofs

-----------------------------------------------------------------------------
(* Compactions are counted.                                                *)

(* Compactions there may have been since the last progress: what is left   *)
(* of the three depends on where the loop is and whether the recovery of   *)
(* an overflow has been used.                                              *)
SpentIn ==
  /\ loop = "idle" => tries <= 3
  /\ loop = "load" => tries <= IF recovered = TRUE THEN 2 ELSE 0
  /\ loop \in {"final", "sent"} => tries <= IF recovered = TRUE THEN 3 ELSE 1
  /\ loop = "tools" => tries = 0
  /\ loop = "compacting" =>
       \/ plan.mode = "automatic" /\ tries <= IF recovered = TRUE THEN 2 ELSE 0
       \/ plan.mode = "overflow" /\ recovered = TRUE /\ tries <= 1
       \/ plan.mode = "manual" /\ tries = 0

CountInv ==
  /\ loop \in {"idle", "load", "final", "sent", "tools", "compacting"}
  /\ recovered \in BOOLEAN /\ tries \in Nat
  /\ SpentIn

LEMMA CountInit == ContextInit => CountInv
<1> SUFFICES ASSUME ContextInit PROVE CountInv
  OBVIOUS
<1>1. loop = "idle" /\ tries = 0
  BY DEF ContextInit
<1>2. recovered \in BOOLEAN
  BY Zenon DEF ContextInit
<1>3. QED
  BY <1>1, <1>2 DEF CountInv, SpentIn

LEMMA OverflowCounts ==
  ASSUME CountInv, loop \in {"final", "sent"}, NEW extra, Overflow(extra) PROVE CountInv'
<1>1. \/ loop' = "idle" /\ recovered' = recovered /\ tries' = tries
      \/ /\ ~recovered /\ recovered' = TRUE /\ tries' = tries /\ loop' = "compacting"
         /\ \E c : plan' = [mode |-> "overflow", cut |-> c]
  BY Zenon DEF Overflow, Continue, NoProgress, BeginCompaction
<1>2. ~recovered => recovered = FALSE
  BY Zenon DEF CountInv
<1>3. CASE loop' = "idle" /\ recovered' = recovered /\ tries' = tries
  BY <1>3 DEF CountInv, SpentIn
<1>4. CASE /\ recovered = FALSE /\ recovered' = TRUE /\ tries' = tries /\ loop' = "compacting"
           /\ \E c : plan' = [mode |-> "overflow", cut |-> c]
  BY <1>4 DEF CountInv, SpentIn
<1>5. QED
  BY <1>1, <1>2, <1>3, <1>4

LEMMA LoadCounts == ASSUME CountInv, Load PROVE CountInv'
<1>1. loop = "load" /\ UNCHANGED <<recovered, tries>>
  BY DEF Load, NoProgress
<1>2. \/ loop' = "compacting" /\ plan'.mode = "automatic"
      \/ loop' \in {"final", "idle"}
  BY DEF Load, BeginCompaction, Continue
<1>3. QED
  BY <1>1, <1>2 DEF CountInv, SpentIn

LEMMA FinishCounts == ASSUME CountInv, FinishCompaction PROVE CountInv'
<1>1. loop = "compacting" /\ tries' = tries + 1 /\ recovered' = recovered
  BY DEF FinishCompaction
<1>2. loop' = IF plan.mode = "automatic" THEN "final" ELSE IF plan.mode = "overflow" THEN "load" ELSE "idle"
  BY DEF FinishCompaction, Continue
<1>3. QED
  BY <1>1, <1>2 DEF CountInv, SpentIn

LEMMA OtherStepsCount ==
  ASSUME CountInv,
         \/ BeginRun \/ DeliverMessage \/ AddNote \/ Navigate \/ CompactNow
         \/ Respond \/ LoseAnswer \/ ReturnResults \/ FailCompaction \/ StopRun
  PROVE  CountInv'
<1>1. CASE BeginRun \/ Respond \/ ReturnResults
  <2>1. loop' \in {"load", "idle", "tools"} /\ tries' = 0
    BY <1>1 DEF BeginRun, Respond, ReturnResults, Continue, MadeProgress
  <2>2. recovered' \in BOOLEAN
    BY <1>1, Zenon DEF BeginRun, Respond, ReturnResults, MadeProgress
  <2>3. QED
    BY <2>1, <2>2 DEF CountInv, SpentIn
<1>2. CASE DeliverMessage \/ AddNote \/ Navigate
  <2>1. UNCHANGED <<loop, plan, recovered, tries>>
    BY <1>2 DEF DeliverMessage, AddNote, Navigate
  <2>2. QED
    BY <2>1 DEF CountInv, SpentIn
<1>3. CASE CompactNow
  <2>1. loop' = "compacting" /\ plan'.mode = "manual" /\ recovered' = FALSE /\ tries' = 0
    BY <1>3 DEF CompactNow, BeginCompaction, MadeProgress
  <2>2. QED
    BY <2>1 DEF CountInv, SpentIn
<1>4. CASE LoseAnswer
  <2>1. /\ loop = "sent" /\ UNCHANGED <<recovered, tries>>
        /\ loop' = "idle" \/ UNCHANGED <<loop, plan>>
    BY <1>4 DEF LoseAnswer, Continue, NoProgress
  <2>2. QED
    BY <2>1 DEF CountInv, SpentIn
<1>5. CASE FailCompaction
  <2>1. /\ loop = "compacting" /\ UNCHANGED <<recovered, tries>>
        /\ loop' = IF plan.mode = "automatic" THEN "final" ELSE "idle"
    BY <1>5 DEF FailCompaction, Continue, NoProgress
  <2>2. QED
    BY <2>1 DEF CountInv, SpentIn
<1>6. CASE StopRun
  <2>1. loop' = "idle" /\ UNCHANGED <<recovered, tries>>
    BY <1>6 DEF StopRun, Continue, NoProgress
  <2>2. QED
    BY <2>1 DEF CountInv, SpentIn
<1>7. QED
  BY <1>1, <1>2, <1>3, <1>4, <1>5, <1>6

LEMMA CountInvariant == ContextSpec => []CountInv
<1>1. CountInv /\ [ContextNext]_contextVars => CountInv'
  <2> SUFFICES ASSUME CountInv, [ContextNext]_contextVars PROVE CountInv'
    OBVIOUS
  <2>1. CASE UNCHANGED contextVars
    BY <2>1 DEF contextVars, CountInv, SpentIn
  <2>2. CASE Send
    <3>1. CASE \E extra \in {0, Extra} : Overflow(extra)
      BY <2>2, <3>1, OverflowCounts DEF Send
    <3>2. CASE loop' = "sent" /\ UNCHANGED <<plan, recovered, tries>>
      BY <2>2, <3>2 DEF Send, CountInv, SpentIn
    <3>3. QED
      BY <2>2, <3>1, <3>2 DEF Send
  <2>3. CASE ReportOverflow
    BY <2>3, OverflowCounts DEF ReportOverflow
  <2>4. QED
    BY <2>1, <2>2, <2>3, LoadCounts, FinishCounts, OtherStepsCount DEF ContextNext
<1>2. QED
  BY CountInit, <1>1, PTL DEF ContextSpec

(* Between two steps of progress there are at most three compactions:      *)
(* overflowRecoveryVersion of runtime/core/agent.ts.                       *)
THEOREM CompactionsAreBoundedHolds == ContextSpec => []CompactionsAreBounded
<1>1. CountInv => CompactionsAreBounded
  BY DEF CountInv, SpentIn, CompactionsAreBounded
<1>2. QED
  BY <1>1, CountInvariant, PTL

-----------------------------------------------------------------------------
(* What is projected.                                                      *)

(* Calls and their results: a result answers a call of its turn, calls are *)
(* told apart by their entries, and every call is answered.                *)
AnswersStay(ms) == \A i, j \in DOMAIN ms : AnswersIn(ms, i, j) => SameTurn(ms, i, j)
CallsApart(ms)  == \A i, j \in Calls(ms) : ms[i].at = ms[j].at => i = j
Paired(ms) == AnswersStay(ms) /\ CallsApart(ms) /\ \A i \in Calls(ms) : Result(ms, i) # {}

(* Indices of an array that have a property.                               *)
LEMMA SomeIndices ==
  ASSUME NEW T, NEW q \in Seq(T), NEW K \in SUBSET DOMAIN q
  PROVE  IsIndices(K)
<1>1. Len(q) \in Nat /\ DOMAIN q = 1..Len(q)
  BY LenProperties
<1>2. IsFiniteSet(1..Len(q)) /\ K \in SUBSET (1..Len(q))
  BY <1>1, FS_Interval
<1>3. IsFiniteSet(K)
  BY <1>2, FS_Subset
<1>4. K \subseteq Nat
  BY <1>2
<1>5. QED
  BY <1>3, <1>4 DEF IsIndices

LEMMA RepairIs ==
  ASSUME NEW T, NEW ms \in Seq(T), CallsApart(ms)
  PROVE  /\ RepairToolBlocks(ms) \in Seq(T)
         /\ AnswersStay(RepairToolBlocks(ms)) /\ CallsApart(RepairToolBlocks(ms))
<1> DEFINE K == {j \in DOMAIN ms :
                   IsResult(ms[j]) => \E i \in DOMAIN ms : SameTurn(ms, i, j) /\ AnswersIn(ms, i, j)}
           N == Cardinality(K)
           at == Ascending(K)
           r == RepairToolBlocks(ms)
<1>1. Len(ms) \in Nat /\ DOMAIN ms = 1..Len(ms) /\ \A i \in DOMAIN ms : ms[i] \in T
  BY LenProperties, ElementOfSeq
<1>2. IsIndices(K) /\ \A k \in K : ms[k] \in T /\ k \in DOMAIN ms
  <2>1. K \in SUBSET DOMAIN ms
    OBVIOUS
  <2> HIDE DEF K
  <2>2. QED
    BY <1>1, <2>1, SomeIndices
<1>3. r = Picked(ms, K)
  BY DEF RepairToolBlocks
<1>4. \A j \in K : IsResult(ms[j]) =>
        \E i \in DOMAIN ms : SameTurn(ms, i, j) /\ AnswersIn(ms, i, j)
  OBVIOUS
<1> HIDE DEF K, r
<1>5. r \in Seq(T)
  BY <1>2, <1>3, PickedSeq
<1>6. Lists(at, K) /\ DOMAIN r = 1..N /\ \A j \in 1..N : r[j] = ms[at[j]]
  BY <1>2, <1>3, PickedIs
<1> HIDE DEF at
<1>7. /\ N \in Nat /\ at \in [1..N -> K]
      /\ \A i, j \in 1..N : i < j <=> at[i] < at[j]
  BY <1>6 DEF Lists
<1> HIDE DEF N
<1>8. \A i \in 1..N : at[i] \in DOMAIN ms /\ at[i] \in Nat /\ i \in Nat /\ at[i] \in K
  BY <1>1, <1>2, <1>7
<1>9. \A i, j \in 1..N : at[i] = at[j] => i = j
  BY <1>7, <1>8
<1>10. CallsApart(r)
  <2>1. SUFFICES ASSUME NEW i \in Calls(r), NEW j \in Calls(r), r[i].at = r[j].at PROVE i = j
    BY DEF CallsApart
  <2>2. i \in 1..N /\ j \in 1..N /\ at[i] \in Calls(ms) /\ at[j] \in Calls(ms)
    BY <1>6, <1>8 DEF Calls
  <2>3. at[i] = at[j]
    BY <1>6, <2>1, <2>2 DEF CallsApart
  <2>4. QED
    BY <1>9, <2>2, <2>3
<1>11. AnswersStay(r)
  <2>1. SUFFICES ASSUME NEW i \in 1..N, NEW j \in 1..N, AnswersIn(r, i, j) PROVE SameTurn(r, i, j)
    BY <1>6 DEF AnswersStay
  <2>2. AnswersIn(ms, at[i], at[j]) /\ IsResult(ms[at[j]])
    BY <1>6, <2>1 DEF AnswersIn
  <2>3. PICK h \in DOMAIN ms : SameTurn(ms, h, at[j]) /\ AnswersIn(ms, h, at[j])
    BY <1>4, <1>8, <2>2
  <2>4. h = at[i]
    BY <1>8, <2>2, <2>3 DEF AnswersIn, CallsApart, Calls
  <2>5. /\ at[i] <= at[j]
        /\ \A k \in at[i] + 1 .. at[j] : ~Begins(ms, k)
    BY <2>3, <2>4 DEF SameTurn
  <2>6. i <= j
    <3>1. ~(at[j] < at[i])
      BY <1>8, <2>5
    <3>2. QED
      BY <1>7, <1>8, <3>1
  <2>7. ASSUME NEW k \in i + 1 .. j PROVE ~Begins(r, k)
    <3>1. k \in 1..N /\ i < k /\ ~(j < k) /\ k # 1
      BY <1>7, <1>8, <2>7
    <3>2. at[i] < at[k] /\ ~(at[j] < at[k])
      BY <1>7, <3>1
    <3>3. at[k] \in at[i] + 1 .. at[j]
      BY <1>8, <3>1, <3>2
    <3>4. ~IsUser(ms[at[k]])
      BY <2>5, <3>3 DEF Begins
    <3>5. QED
      BY <1>6, <3>1, <3>4 DEF Begins
  <2>8. QED
    BY <2>6, <2>7 DEF SameTurn
<1>12. QED
  BY <1>5, <1>10, <1>11 DEF r

(* Messages of the entries up to n.                                        *)
MessageUpTo(n) == [type : Types \cup {"missing"}, at : 1..n, size : Nat, of : 0..n]

LEMMA MissingIs ==
  ASSUME NEW n \in Nat, NEW p \in 1..n
  PROVE  /\ Message("missing", p, 1, p) \in MessageUpTo(n)
         /\ Message("missing", p, 1, p).type = "missing"
         /\ Message("missing", p, 1, p).at = p /\ Message("missing", p, 1, p).of = p
<1>1. p \in 0..n /\ 1 \in Nat /\ "missing" \in Types \cup {"missing"}
  OBVIOUS
<1>2. QED
  BY <1>1 DEF Message, MessageUpTo

(* What fillMissingToolResults puts where: a message at its place, and the *)
(* answer made up for it at the next.                                      *)
MadeUp(m) == Message("missing", m.at, 1, m.at)

FilledAt(f, ms, N, place) ==
  /\ N \in Nat /\ DOMAIN f = 1..N
  /\ \A j \in 1..N : place[j] \in Nat
  /\ \A i, j \in 1..N : i < j <=> place[i] < place[j]
  /\ \A j \in 1..N : \E i \in DOMAIN ms :
       \/ place[j] = 2 * i /\ f[j] = ms[i]
       \/ place[j] = 2 * i + 1 /\ Unanswered(ms, i) /\ f[j] = MadeUp(ms[i])
  /\ \A i \in DOMAIN ms : \E j \in 1..N : place[j] = 2 * i /\ f[j] = ms[i]
  /\ \A i \in DOMAIN ms : Unanswered(ms, i) =>
       \E j \in 1..N : place[j] = 2 * i + 1 /\ f[j] = MadeUp(ms[i])

LEMMA FilledIs ==
  ASSUME NEW T, NEW ms \in Seq(T), \A i \in DOMAIN ms : Unanswered(ms, i) => MadeUp(ms[i]) \in T
  PROVE  LET f == FillMissingToolResults(ms)
         IN  f \in Seq(T) /\ \E N, place : FilledAt(f, ms, N, place)
<1> DEFINE unanswered == {i \in DOMAIN ms : Unanswered(ms, i)}
           M == {2 * i : i \in DOMAIN ms} \cup {2 * i + 1 : i \in unanswered}
           filled == [p \in M |->
                        LET i == p \div 2 IN
                        IF p = 2 * i THEN ms[i] ELSE Message("missing", ms[i].at, 1, ms[i].at)]
           N == Cardinality(M)
           at == Ascending(M)
           f == FillMissingToolResults(ms)
<1>1. /\ Len(ms) \in Nat /\ DOMAIN ms = 1..Len(ms) /\ unanswered \subseteq DOMAIN ms
      /\ \A i \in DOMAIN ms : ms[i] \in T
  BY LenProperties, ElementOfSeq
<1>2. IsIndices(M)
  <2>1. M \in SUBSET (0..2 * Len(ms) + 1)
    <3>1. \A i \in DOMAIN ms : 2 * i \in 0..2 * Len(ms) + 1 /\ 2 * i + 1 \in 0..2 * Len(ms) + 1
      BY <1>1
    <3> HIDE DEF unanswered
    <3>2. QED
      BY <1>1, <3>1
  <2>2. IsFiniteSet(0..2 * Len(ms) + 1)
    BY <1>1, FS_Interval
  <2> HIDE DEF M
  <2>3. IsFiniteSet(M)
    BY <2>1, <2>2, FS_Subset
  <2>4. M \subseteq Nat
    BY <2>1
  <2>5. QED
    BY <2>3, <2>4 DEF IsIndices
<1>3. f = Picked(filled, M)
  BY DEF FillMissingToolResults
<1>4. \A i \in DOMAIN ms : 2 * i \in M /\ filled[2 * i] = ms[i]
  <2>1. SUFFICES ASSUME NEW i \in DOMAIN ms PROVE 2 * i \in M /\ filled[2 * i] = ms[i]
    OBVIOUS
  <2>2. (2 * i) \div 2 = i
    BY <1>1
  <2>3. 2 * i \in M
    OBVIOUS
  <2> HIDE DEF M
  <2>4. QED
    BY <2>2, <2>3
<1>5. \A i \in unanswered : /\ 2 * i + 1 \in M
                            /\ filled[2 * i + 1] = Message("missing", ms[i].at, 1, ms[i].at)
  <2>1. SUFFICES ASSUME NEW i \in unanswered
                 PROVE  /\ 2 * i + 1 \in M
                        /\ filled[2 * i + 1] = Message("missing", ms[i].at, 1, ms[i].at)
    OBVIOUS
  <2>2. (2 * i + 1) \div 2 = i /\ 2 * i + 1 # 2 * i
    BY <1>1
  <2>3. 2 * i + 1 \in M
    OBVIOUS
  <2> HIDE DEF M, unanswered
  <2>4. QED
    BY <2>2, <2>3
<1>6. \A p \in M : \E i \in DOMAIN ms : \/ p = 2 * i
                                        \/ p = 2 * i + 1 /\ i \in unanswered
  BY <1>1
<1>7. \A i \in DOMAIN ms : i \in unanswered <=> Unanswered(ms, i)
  OBVIOUS
<1> HIDE DEF unanswered, M, filled, f
<1>8. f \in Seq(T)
  <2>1. ASSUME NEW p \in M PROVE filled[p] \in T
    <3>1. PICK i \in DOMAIN ms : \/ p = 2 * i
                                 \/ p = 2 * i + 1 /\ i \in unanswered
      BY <1>6, <2>1
    <3>2. CASE p = 2 * i
      BY <1>1, <1>4, <3>2
    <3>3. CASE p = 2 * i + 1 /\ i \in unanswered
      BY <1>5, <1>7, <3>3 DEF MadeUp
    <3>4. QED
      BY <3>1, <3>2, <3>3
  <2>2. QED
    BY <1>2, <1>3, <2>1, PickedSeq
<1>9. Lists(at, M) /\ DOMAIN f = 1..N /\ \A j \in 1..N : f[j] = filled[at[j]]
  BY <1>2, <1>3, PickedIs
<1> HIDE DEF at
<1>10. /\ N \in Nat /\ at \in [1..N -> M]
       /\ \A i, j \in 1..N : i < j <=> at[i] < at[j]
       /\ \A p \in M : \E i \in 1..N : at[i] = p
  BY <1>9 DEF Lists
<1> HIDE DEF N
<1>11. \A j \in 1..N : at[j] \in M /\ at[j] \in Nat /\ j \in Nat
  <2>1. M \subseteq Nat
    BY <1>2 DEF IsIndices
  <2>2. ASSUME NEW j \in 1..N PROVE at[j] \in M /\ j \in Nat
    BY <1>10
  <2>3. QED
    BY <2>1, <2>2
<1>12. \A i, j \in 1..N : at[i] = at[j] => i = j
  BY <1>10, <1>11
(* What stands at a place of the outcome.                                  *)
<1>13. \A j \in 1..N : \E i \in DOMAIN ms :
         \/ at[j] = 2 * i /\ f[j] = ms[i]
         \/ at[j] = 2 * i + 1 /\ i \in unanswered /\ f[j] = Message("missing", ms[i].at, 1, ms[i].at)
  <2>1. SUFFICES ASSUME NEW j \in 1..N
                 PROVE  \E i \in DOMAIN ms :
                          \/ at[j] = 2 * i /\ f[j] = ms[i]
                          \/ /\ at[j] = 2 * i + 1 /\ i \in unanswered
                             /\ f[j] = Message("missing", ms[i].at, 1, ms[i].at)
    OBVIOUS
  <2>2. f[j] = filled[at[j]] /\ at[j] \in M
    BY <1>9, <1>11
  <2>3. PICK i \in DOMAIN ms : \/ at[j] = 2 * i
                               \/ at[j] = 2 * i + 1 /\ i \in unanswered
    BY <1>6, <2>2
  <2>4. CASE at[j] = 2 * i
    BY <1>4, <2>2, <2>4
  <2>5. CASE at[j] = 2 * i + 1 /\ i \in unanswered
    BY <1>5, <2>2, <2>5
  <2>6. QED
    BY <2>3, <2>4, <2>5
<1>14. \A i \in DOMAIN ms : \E j \in 1..N : at[j] = 2 * i /\ f[j] = ms[i]
  BY <1>4, <1>9, <1>10
<1>15. \A i \in DOMAIN ms : Unanswered(ms, i) =>
         \E j \in 1..N : at[j] = 2 * i + 1 /\ f[j] = MadeUp(ms[i])
  BY <1>5, <1>7, <1>9, <1>10 DEF MadeUp
<1>16. \A j \in 1..N : \E i \in DOMAIN ms :
         \/ at[j] = 2 * i /\ f[j] = ms[i]
         \/ at[j] = 2 * i + 1 /\ Unanswered(ms, i) /\ f[j] = MadeUp(ms[i])
  BY <1>7, <1>13 DEF MadeUp
<1>17. DOMAIN f = 1..N
  BY <1>9
<1>18. FilledAt(f, ms, N, at)
  BY <1>10, <1>11, <1>14, <1>15, <1>16, <1>17 DEF FilledAt
<1>19. QED
  BY <1>8, <1>18 DEF f

LEMMA FillIs ==
  ASSUME NEW n \in Nat, NEW ms \in Seq(MessageUpTo(n)), AnswersStay(ms), CallsApart(ms)
  PROVE  FillMissingToolResults(ms) \in Seq(MessageUpTo(n)) /\ Paired(FillMissingToolResults(ms))
<1> DEFINE f == FillMissingToolResults(ms)
<1>1. /\ Len(ms) \in Nat /\ DOMAIN ms = 1..Len(ms)
      /\ \A i \in DOMAIN ms : ms[i] \in MessageUpTo(n) /\ MadeUp(ms[i]) \in MessageUpTo(n)
  <2>1. \A i \in 1..Len(ms) : ms[i] \in MessageUpTo(n)
    BY ElementOfSeq
  <2>2. \A i \in 1..Len(ms) : ms[i].at \in 1..n
    BY <2>1 DEF MessageUpTo
  <2>3. QED
    BY <2>1, <2>2, LenProperties, MissingIs DEF MadeUp
<1>2. f \in Seq(MessageUpTo(n)) /\ \E N, place : FilledAt(f, ms, N, place)
  BY <1>1, FilledIs
<1> HIDE DEF f
<1>3. PICK N, at : FilledAt(f, ms, N, at)
  BY <1>2
<1>8. f \in Seq(MessageUpTo(n)) /\ DOMAIN f = 1..N
  BY <1>2, <1>3 DEF FilledAt
<1>10. N \in Nat /\ \A i, j \in 1..N : i < j <=> at[i] < at[j]
  BY <1>3 DEF FilledAt
<1>11. \A j \in 1..N : at[j] \in Nat /\ j \in Nat
  BY <1>3 DEF FilledAt
<1>12. \A i, j \in 1..N : at[i] = at[j] => i = j
  BY <1>10, <1>11
<1>13. \A j \in 1..N : \E i \in DOMAIN ms :
         \/ at[j] = 2 * i /\ f[j] = ms[i]
         \/ at[j] = 2 * i + 1 /\ Unanswered(ms, i) /\ f[j] = MadeUp(ms[i])
  BY <1>3 DEF FilledAt
<1>4. \A i \in DOMAIN ms : \E j \in 1..N : at[j] = 2 * i /\ f[j] = ms[i]
  BY <1>3 DEF FilledAt
<1>5. \A i \in DOMAIN ms : Unanswered(ms, i) =>
        \E j \in 1..N : at[j] = 2 * i + 1 /\ f[j] = MadeUp(ms[i])
  BY <1>3 DEF FilledAt
<1>14. \A j \in 1..N : f[j].type = "call" =>
         \E i \in DOMAIN ms : at[j] = 2 * i /\ f[j] = ms[i] /\ i \in Calls(ms)
  <2>1. SUFFICES ASSUME NEW j \in 1..N, f[j].type = "call"
                 PROVE  \E i \in DOMAIN ms : at[j] = 2 * i /\ f[j] = ms[i] /\ i \in Calls(ms)
    OBVIOUS
  <2>2. PICK i \in DOMAIN ms :
          \/ at[j] = 2 * i /\ f[j] = ms[i]
          \/ at[j] = 2 * i + 1 /\ Unanswered(ms, i) /\ f[j] = MadeUp(ms[i])
    BY <1>13
  <2>3. f[j] # MadeUp(ms[i])
    BY <2>1 DEF MadeUp, Message
  <2>4. QED
    BY <2>1, <2>2, <2>3 DEF Calls
<1>15. CallsApart(f)
  <2>1. SUFFICES ASSUME NEW j \in 1..N, NEW k \in 1..N, f[j].type = "call", f[k].type = "call",
                        f[j].at = f[k].at
                 PROVE  j = k
    BY <1>8 DEF CallsApart, Calls
  <2>2. PICK i \in DOMAIN ms : at[j] = 2 * i /\ f[j] = ms[i] /\ i \in Calls(ms)
    BY <1>14, <2>1
  <2>3. PICK h \in DOMAIN ms : at[k] = 2 * h /\ f[k] = ms[h] /\ h \in Calls(ms)
    BY <1>14, <2>1
  <2>4. i = h
    BY <2>1, <2>2, <2>3 DEF CallsApart
  <2>5. QED
    BY <1>12, <2>2, <2>3, <2>4
<1>16. AnswersStay(f)
  <2>1. SUFFICES ASSUME NEW j \in 1..N, NEW k \in 1..N, AnswersIn(f, j, k) PROVE SameTurn(f, j, k)
    BY <1>8 DEF AnswersStay
  <2>2. PICK i \in DOMAIN ms : at[j] = 2 * i /\ f[j] = ms[i] /\ i \in Calls(ms)
    BY <1>14, <2>1 DEF AnswersIn
  <2>3. PICK h \in DOMAIN ms :
          \/ at[k] = 2 * h /\ f[k] = ms[h]
          \/ at[k] = 2 * h + 1 /\ Unanswered(ms, h) /\ f[k] = MadeUp(ms[h])
    BY <1>13
  (* Between the two there is no message of the user.                      *)
  <2>4. /\ at[j] <= at[k]
        /\ \A g \in DOMAIN ms : 2 * g > at[j] /\ 2 * g <= at[k] => ~IsUser(ms[g])
    <3>1. CASE at[k] = 2 * h /\ f[k] = ms[h]
      <4>1. AnswersIn(ms, i, h)
        BY <2>1, <2>2, <3>1 DEF AnswersIn
      <4>2. i <= h /\ \A g \in i + 1 .. h : ~IsUser(ms[g])
        BY <4>1 DEF AnswersStay, SameTurn, Begins
      <4>3. \A g \in DOMAIN ms : 2 * g > 2 * i /\ 2 * g <= 2 * h => g \in i + 1 .. h
        BY <1>1
      <4>4. QED
        BY <1>1, <2>2, <3>1, <4>2, <4>3
    <3>2. CASE at[k] = 2 * h + 1 /\ Unanswered(ms, h) /\ f[k] = MadeUp(ms[h])
      <4>1. h \in Calls(ms)
        BY <3>2 DEF Unanswered, Calls
      <4>2. ms[h].at = ms[i].at
        BY <2>1, <2>2, <3>2 DEF AnswersIn, MadeUp, Message
      <4>3. h = i
        BY <2>2, <4>1, <4>2 DEF CallsApart
      <4>4. QED
        BY <1>1, <2>2, <3>2, <4>3
    <3>3. QED
      BY <2>3, <3>1, <3>2
  <2>5. j <= k
    <3>1. ~(at[k] < at[j])
      BY <1>11, <2>4
    <3>2. QED
      BY <1>10, <1>11, <3>1
  <2>6. ASSUME NEW l \in j + 1 .. k PROVE ~Begins(f, l)
    <3>1. l \in 1..N /\ j < l /\ ~(k < l) /\ l # 1
      BY <1>10, <1>11, <2>6
    <3>2. at[j] < at[l] /\ ~(at[k] < at[l])
      BY <1>10, <3>1
    <3>3. PICK g \in DOMAIN ms :
            \/ at[l] = 2 * g /\ f[l] = ms[g]
            \/ at[l] = 2 * g + 1 /\ Unanswered(ms, g) /\ f[l] = MadeUp(ms[g])
      BY <1>13, <3>1
    <3>4. CASE at[l] = 2 * g /\ f[l] = ms[g]
      <4>1. 2 * g > at[j] /\ 2 * g <= at[k]
        BY <1>11, <3>1, <3>2, <3>4
      <4>2. QED
        BY <2>4, <3>1, <3>4, <4>1 DEF Begins
    <3>5. CASE f[l] = MadeUp(ms[g])
      BY <3>1, <3>5 DEF Begins, IsUser, MadeUp, Message
    <3>6. QED
      BY <3>3, <3>4, <3>5
  <2>7. QED
    BY <2>5, <2>6 DEF SameTurn
<1>17. ASSUME NEW j \in Calls(f) PROVE Result(f, j) # {}
  <2>1. j \in 1..N /\ f[j].type = "call"
    BY <1>8, <1>17 DEF Calls
  <2>2. PICK i \in DOMAIN ms : at[j] = 2 * i /\ f[j] = ms[i] /\ i \in Calls(ms)
    BY <1>14, <2>1
  <2>3. CASE Unanswered(ms, i)
    <3>1. PICK k \in 1..N : f[k] = MadeUp(ms[i])
      BY <1>5, <2>3
    <3>2. AnswersIn(f, j, k)
      BY <2>1, <2>2, <3>1 DEF AnswersIn, IsResult, MadeUp, Message
    <3>3. QED
      BY <1>8, <3>2 DEF Result
  <2>4. CASE ~Unanswered(ms, i)
    <3>1. PICK g \in i + 1 .. Len(ms) : AnswersIn(ms, i, g)
      BY <2>2, <2>4 DEF Unanswered, Calls
    <3>2. g \in DOMAIN ms
      BY <1>1, <3>1
    <3>3. PICK k \in 1..N : f[k] = ms[g]
      BY <1>4, <3>2
    <3>4. AnswersIn(f, j, k)
      BY <2>2, <3>1, <3>3 DEF AnswersIn
    <3>5. QED
      BY <1>8, <3>4 DEF Result
  <2>5. QED
    BY <2>3, <2>4
<1>18. QED
  BY <1>8, <1>15, <1>16, <1>17 DEF Paired, f

LEMMA ProjectedIs ==
  ASSUME NEW n \in Nat, NEW ms \in Seq(MessageUpTo(n)), CallsApart(ms)
  PROVE  Projected(ms) \in Seq(MessageUpTo(n)) /\ Paired(Projected(ms))
<1> DEFINE r == RepairToolBlocks(ms)
<1>1. r \in Seq(MessageUpTo(n)) /\ AnswersStay(r) /\ CallsApart(r)
  BY RepairIs
<1> HIDE DEF r
<1>2. FillMissingToolResults(r) \in Seq(MessageUpTo(n)) /\ Paired(FillMissingToolResults(r))
  BY <1>1, FillIs
<1>3. QED
  BY <1>2 DEF Projected, r

-----------------------------------------------------------------------------
(* Branches.                                                               *)

Branches == Seq([type : Types, size : Nat, of : Nat, about : SUBSET Nat])

(* What an entry is of, and what it is about, came before it.              *)
BranchOK(b) ==
  /\ b \in Branches
  /\ \A p \in DOMAIN b : b[p].of \in 0 .. p - 1 /\ b[p].about \subseteq 1 .. p - 1

LEMMA BranchIs ==
  ASSUME NEW b \in Branches
  PROVE  /\ Len(b) \in Nat /\ DOMAIN b = 1..Len(b)
         /\ \A p \in DOMAIN b : /\ b[p].type \in Types /\ b[p].size \in Nat
                                /\ b[p].of \in Nat /\ b[p].about \subseteq Nat
<1>1. /\ Len(b) \in Nat /\ DOMAIN b = 1..Len(b)
      /\ \A p \in DOMAIN b : b[p] \in [type : Types, size : Nat, of : Nat, about : SUBSET Nat]
  BY LenProperties, ElementOfSeq DEF Branches
<1>2. QED
  BY <1>1

LEMMA MaxIs ==
  ASSUME NEW K, IsFiniteSet(K), K \subseteq Nat, K # {}
  PROVE  Max(K) \in K /\ \A k \in K : k <= Max(K)
<1>1. \E k \in K : \A j \in K : j <= k
  BY Extremes
<1>2. QED
  BY <1>1 DEF Max

LEMMA MinIs ==
  ASSUME NEW K, IsFiniteSet(K), K \subseteq Nat, K # {}
  PROVE  Min(K) \in K /\ \A k \in K : Min(K) <= k
<1>1. \E k \in K : \A j \in K : k <= j
  BY Extremes
<1>2. QED
  BY <1>1 DEF Min

LEMMA LatestCompactionIs ==
  ASSUME NEW b \in Branches
  PROVE  /\ LatestCompaction(b) \in 0..Len(b)
         /\ LatestCompaction(b) # 0 => b[LatestCompaction(b)].type = "compaction"
         /\ \A p \in DOMAIN b : b[p].type = "compaction" => p <= LatestCompaction(b)
<1> DEFINE K == {0} \cup {p \in DOMAIN b : b[p].type = "compaction"}
<1>1. Len(b) \in Nat /\ DOMAIN b = 1..Len(b)
  BY BranchIs
<1>2. /\ IsFiniteSet(0..Len(b)) /\ K \in SUBSET (0..Len(b)) /\ 0 \in K
      /\ \A p \in K : p # 0 => b[p].type = "compaction"
      /\ \A p \in DOMAIN b : b[p].type = "compaction" => p \in K
  BY <1>1, FS_Interval
<1>3. LatestCompaction(b) = Max(K)
  BY DEF LatestCompaction
<1> HIDE DEF K
<1>4. IsFiniteSet(K)
  BY <1>2, FS_Subset
<1>5. K \subseteq Nat /\ K # {}
  BY <1>2
<1>6. Max(K) \in K /\ \A k \in K : k <= Max(K)
  BY <1>4, <1>5, MaxIs
<1>7. QED
  BY <1>2, <1>3, <1>6

(* Entries in an order that is given by numbers, each of them once.        *)
Rising(s, k) == \A i, j \in DOMAIN s : i < j => k[s[i]] < k[s[j]]

LEMMA RisingIs ==
  ASSUME NEW T, NEW s \in Seq(T), NEW k, Rising(s, k), \A x \in T : k[x] \in Nat
  PROVE  \A i, j \in DOMAIN s : s[i] = s[j] => i = j
<1>1. DOMAIN s = 1..Len(s) /\ Len(s) \in Nat /\ \A i \in 1..Len(s) : s[i] \in T
  BY LenProperties, ElementOfSeq
<1>2. SUFFICES ASSUME NEW i \in DOMAIN s, NEW j \in DOMAIN s, s[i] = s[j] PROVE i = j
  OBVIOUS
<1>3. ~(i < j) /\ ~(j < i)
  BY <1>1, <1>2 DEF Rising
<1>4. QED
  BY <1>1, <1>3

LEMMA AmongRising ==
  ASSUME NEW T, NEW s \in Seq(T), NEW S, NEW k, Rising(s, k)
  PROVE  /\ Among(s, S) \in Seq(T) /\ Rising(Among(s, S), k)
         /\ Items(Among(s, S)) = Items(s) \cap S
<1> DEFINE kept == Among(s, S)
<1>1. /\ kept \in Seq(T) /\ Items(kept) = Items(s) \cap S
      /\ \E at \in [DOMAIN kept -> DOMAIN s] :
           /\ \A i \in DOMAIN kept : kept[i] = s[at[i]]
           /\ \A i, j \in DOMAIN kept : i < j <=> at[i] < at[j]
  BY AmongIs
<1> HIDE DEF kept
<1>2. PICK at \in [DOMAIN kept -> DOMAIN s] :
        /\ \A i \in DOMAIN kept : kept[i] = s[at[i]]
        /\ \A i, j \in DOMAIN kept : i < j <=> at[i] < at[j]
  BY <1>1
<1>3. Rising(kept, k)
  BY <1>2 DEF Rising
<1>4. QED
  BY <1>1, <1>3 DEF kept

LEMMA BeyondIs ==
  ASSUME NEW T, NEW s \in Seq(T), NEW n \in 0..Len(s)
  PROVE  /\ Beyond(s, n) \in Seq(T) /\ Len(Beyond(s, n)) = Len(s) - n
         /\ DOMAIN Beyond(s, n) = 1..Len(s) - n
         /\ \A i \in 1..Len(s) - n : Beyond(s, n)[i] = s[n + i]
<1>1. Len(s) \in Nat /\ DOMAIN s = 1..Len(s) /\ \A i \in 1..Len(s) : s[i] \in T
  BY LenProperties, ElementOfSeq
<1>2. /\ Beyond(s, n) \in Seq(T)
      /\ Len(Beyond(s, n)) = IF n + 1 <= Len(s) THEN Len(s) - (n + 1) + 1 ELSE 0
      /\ \A i \in 1 .. Len(s) - (n + 1) + 1 : Beyond(s, n)[i] = s[n + 1 + i - 1]
  BY <1>1, SubSeqProperties DEF Beyond
<1> DEFINE l == Len(s)
           t == Beyond(s, n)
<1>3. l \in Nat /\ n \in Nat /\ n <= l
  BY <1>1
<1>4. /\ t \in Seq(T) /\ Len(t) = IF n + 1 <= l THEN l - (n + 1) + 1 ELSE 0
      /\ \A i \in 1 .. l - (n + 1) + 1 : t[i] = s[n + 1 + i - 1]
  BY <1>2
<1> HIDE DEF l, t
<1>5. Len(t) = l - n
  BY <1>3, <1>4
<1>6. ASSUME NEW i \in 1 .. l - n PROVE t[i] = s[n + i]
  <2>1. i \in 1 .. l - (n + 1) + 1 /\ n + 1 + i - 1 = n + i
    BY <1>3
  <2>2. QED
    BY <1>4, <2>1
<1>7. DOMAIN t = 1..Len(t)
  BY <1>4, LenProperties
<1>8. QED
  BY <1>4, <1>5, <1>6, <1>7 DEF l, t

LEMMA JoinIs ==
  ASSUME NEW T, NEW s \in Seq(T), NEW t \in Seq(T)
  PROVE  /\ s \o t \in Seq(T) /\ DOMAIN (s \o t) = 1..Len(s) + Len(t)
         /\ Len(s) \in Nat /\ Len(t) \in Nat /\ DOMAIN s = 1..Len(s) /\ DOMAIN t = 1..Len(t)
         /\ \A i \in 1..Len(s) + Len(t) :
              \/ i \in DOMAIN s /\ (s \o t)[i] = s[i]
              \/ i - Len(s) \in DOMAIN t /\ (s \o t)[i] = t[i - Len(s)]
<1>1. /\ Len(s) \in Nat /\ Len(t) \in Nat /\ DOMAIN s = 1..Len(s) /\ DOMAIN t = 1..Len(t)
      /\ s \o t \in Seq(T) /\ Len(s \o t) = Len(s) + Len(t)
      /\ \A i \in 1..Len(s) + Len(t) : (s \o t)[i] = IF i <= Len(s) THEN s[i] ELSE t[i - Len(s)]
  BY LenProperties, ConcatProperties
<1>2. DOMAIN (s \o t) = 1..Len(s) + Len(t)
  BY <1>1, LenProperties
<1> DEFINE c == s \o t
<1>3. ASSUME NEW i \in 1..Len(s) + Len(t)
      PROVE  \/ i \in DOMAIN s /\ c[i] = s[i]
             \/ i - Len(s) \in DOMAIN t /\ c[i] = t[i - Len(s)]
  <2>1. c[i] = IF i <= Len(s) THEN s[i] ELSE t[i - Len(s)]
    BY <1>1
  <2> HIDE DEF c
  <2>2. QED
    BY <1>1, <2>1
<1>4. QED
  BY <1>1, <1>2, <1>3

LEMMA JoinRising ==
  ASSUME NEW T, NEW s \in Seq(T), NEW t \in Seq(T), NEW k, Rising(s, k), Rising(t, k),
         \A x \in Items(s), y \in Items(t) : k[x] < k[y]
  PROVE  s \o t \in Seq(T) /\ Rising(s \o t, k) /\ Items(s \o t) = Items(s) \cup Items(t)
<1> DEFINE c == s \o t  m == Len(s)  n == Len(t)
<1>1. /\ c \in Seq(T) /\ DOMAIN c = 1..m + n
      /\ m \in Nat /\ n \in Nat /\ DOMAIN s = 1..m /\ DOMAIN t = 1..n
      /\ \A i \in 1..m + n : \/ i \in DOMAIN s /\ c[i] = s[i]
                             \/ i - m \in DOMAIN t /\ c[i] = t[i - m]
  BY JoinIs
<1> HIDE DEF c, m, n
<1>2. ASSUME NEW i \in DOMAIN c, NEW j \in DOMAIN c, i < j PROVE k[c[i]] < k[c[j]]
  <2>1. \/ i \in DOMAIN s /\ c[i] = s[i]
        \/ i - m \in DOMAIN t /\ c[i] = t[i - m]
    BY <1>1
  <2>2. \/ j \in DOMAIN s /\ c[j] = s[j]
        \/ j - m \in DOMAIN t /\ c[j] = t[j - m]
    BY <1>1
  <2>3. \A g \in DOMAIN s, h \in DOMAIN t : k[s[g]] < k[t[h]]
    BY DEF Items
  <2>4. CASE i \in DOMAIN s /\ c[i] = s[i] /\ j \in DOMAIN s /\ c[j] = s[j]
    BY <1>2, <2>4 DEF Rising
  <2>5. CASE i - m \in DOMAIN t /\ c[i] = t[i - m] /\ j - m \in DOMAIN t /\ c[j] = t[j - m]
    <3>1. i - m < j - m
      BY <1>1, <1>2
    <3>2. QED
      BY <2>5, <3>1 DEF Rising
  <2>6. ~(i - m \in DOMAIN t /\ j \in DOMAIN s)
    BY <1>1, <1>2
  <2>7. QED
    BY <2>1, <2>2, <2>3, <2>4, <2>5, <2>6
<1>3. Rising(c, k)
  BY <1>2 DEF Rising
<1>4. Items(c) = Items(s) \cup Items(t)
  <2>1. ASSUME NEW i \in DOMAIN c PROVE c[i] \in Items(s) \cup Items(t)
    BY <1>1 DEF Items
  <2>2. ASSUME NEW i \in DOMAIN s PROVE s[i] \in Items(c)
    <3>1. i \in 1..m + n /\ i - m \notin DOMAIN t
      BY <1>1, <2>2
    <3>2. QED
      BY <1>1, <3>1 DEF Items
  <2>3. ASSUME NEW i \in DOMAIN t PROVE t[i] \in Items(c)
    <3>1. m + i \in 1..m + n /\ m + i \notin DOMAIN s /\ m + i - m = i
      BY <1>1, <2>3
    <3>2. QED
      BY <1>1, <3>1 DEF Items
  <2>4. QED
    BY <2>1, <2>2, <2>3 DEF Items
<1>5. QED
  BY <1>1, <1>3, <1>4 DEF c

(* The entries of a context: the latest compaction before all the others.  *)
EntryOrder(b) == [p \in DOMAIN b |-> IF p = LatestCompaction(b) THEN 0 ELSE 2 * p]

LEMMA EntryOrderIs ==
  ASSUME NEW b \in Branches, NEW p \in DOMAIN b
  PROVE  EntryOrder(b)[p] \in Nat /\ EntryOrder(b)[p] = IF p = LatestCompaction(b) THEN 0 ELSE 2 * p
BY BranchIs DEF EntryOrder

LEMMA BuiltEntries ==
  ASSUME NEW b \in Branches
  PROVE  /\ BuildContextEntries(b) \in Seq(DOMAIN b) /\ Rising(BuildContextEntries(b), EntryOrder(b))
         /\ Items(BuildContextEntries(b)) =
              {p \in DOMAIN b : LatestCompaction(b) # 0 => p >= LatestCompaction(b) \/ KeepsEntry(b, p)}
<1> DEFINE all == [p \in DOMAIN b |-> p]
           c == LatestCompaction(b)
           K == {p \in DOMAIN b : KeepsEntry(b, p)}
           kept == Among(all, K)
           new == Beyond(all, c)
           k == EntryOrder(b)
<1>1. Len(b) \in Nat /\ DOMAIN b = 1..Len(b) /\ c \in 0..Len(b)
  BY BranchIs, LatestCompactionIs
<1>2. all \in Seq(DOMAIN b) /\ Len(all) = Len(b) /\ DOMAIN all = DOMAIN b /\ \A p \in DOMAIN b : all[p] = p
  <2>1. all \in [1..Len(b) -> DOMAIN b]
    BY <1>1
  <2>2. all \in Seq(DOMAIN b)
    BY <1>1, <2>1, SeqDef
  <2>3. Len(all) = Len(b)
    BY <1>1, <2>1, <2>2, LenProperties
  <2>4. QED
    BY <2>2, <2>3
<1>3. BuildContextEntries(b) = IF c = 0 THEN all ELSE <<c>> \o kept \o new
  BY DEF BuildContextEntries
<1>4. \A p \in DOMAIN b : k[p] = IF p = c THEN 0 ELSE 2 * p
  BY EntryOrderIs
<1>5. \A p \in K : p < c /\ p \in DOMAIN b
  BY DEF KeepsEntry
<1>6. \A p \in DOMAIN b : p \in K <=> KeepsEntry(b, p)
  OBVIOUS
<1> HIDE DEF all, c, k, K
<1>7. Items(all) = DOMAIN b
  BY <1>2 DEF Items
<1>8. CASE c = 0
  <2>1. Rising(all, k)
    BY <1>1, <1>2, <1>4, <1>8 DEF Rising
  <2>2. QED
    BY <1>2, <1>3, <1>7, <1>8, <2>1 DEF c, k
<1>9. CASE c # 0
  <2>1. c \in DOMAIN b
    BY <1>1, <1>9
  (* Apart from the summary, the entries ascend as they are numbered.      *)
  <2>2. \A p, q \in DOMAIN b : p < q /\ q # c => k[p] < k[q]
    BY <1>1, <1>4
  <2>3. kept \in Seq(K) /\ Items(kept) = K /\ Rising(kept, k)
    <3> DEFINE id == [p \in DOMAIN b |-> p]
    <3>1. Rising(all, id)
      BY <1>2 DEF Rising
    <3> HIDE DEF id
    <3>2. kept \in Seq(DOMAIN b) /\ Rising(kept, id) /\ Items(kept) = K
      <4>1. all \in Seq(DOMAIN b)
        BY <1>2
      <4>2. kept \in Seq(DOMAIN b) /\ Rising(kept, id) /\ Items(kept) = Items(all) \cap K
        BY <3>1, <4>1, AmongRising
      <4>3. QED
        BY <1>5, <1>7, <4>2
    <3>3. \A i \in DOMAIN kept : kept[i] \in K
      BY <3>2 DEF Items
    <3>4. Rising(kept, k)
      <4>1. \A p \in DOMAIN b : id[p] = p
        BY DEF id
      <4>2. SUFFICES ASSUME NEW i \in DOMAIN kept, NEW j \in DOMAIN kept, i < j
                     PROVE  k[kept[i]] < k[kept[j]]
        BY DEF Rising
      <4>3. kept[i] \in DOMAIN b /\ kept[j] \in DOMAIN b /\ kept[j] < c
        BY <1>5, <3>3
      <4>4. kept[i] < kept[j]
        BY <3>2, <4>1, <4>2, <4>3 DEF Rising
      <4>5. QED
        BY <1>1, <2>2, <4>3, <4>4
    <3>5. kept \in Seq(K)
      <4>1. kept \in [1..Len(kept) -> K] /\ Len(kept) \in Nat
        BY <3>2, <3>3, LenProperties
      <4>2. QED
        BY <4>1, SeqDef
    <3>6. QED
      BY <3>2, <3>4, <3>5
  <2>4. /\ new \in Seq(DOMAIN b) /\ DOMAIN new = 1..Len(b) - c
        /\ \A i \in 1..Len(b) - c : new[i] = c + i /\ c + i \in DOMAIN b /\ c + i # c
    <3>1. c \in 0..Len(all)
      BY <1>1, <1>2
    <3>2. /\ new \in Seq(DOMAIN b) /\ DOMAIN new = 1..Len(all) - c
          /\ \A i \in 1..Len(all) - c : new[i] = all[c + i]
      <4>1. all \in Seq(DOMAIN b)
        BY <1>2
      <4>2. QED
        BY <3>1, <4>1, BeyondIs
    <3> HIDE DEF new
    <3>3. \A i \in 1..Len(b) - c : c + i \in DOMAIN b /\ c + i # c
      BY <1>1
    <3>4. QED
      BY <1>2, <3>2, <3>3
  <2> DEFINE head == <<c>>
  <2>5. head \in Seq(DOMAIN b) /\ DOMAIN head = 1..1 /\ head[1] = c
    BY <2>1
  <2> HIDE DEF kept, new, head
  <2>6. Rising(head, k) /\ Items(head) = {c}
    <3>1. \A i \in 1..1 : i = 1
      OBVIOUS
    <3>2. QED
      BY <2>5, <3>1 DEF Rising, Items
  <2>7. Rising(new, k) /\ Items(new) = {p \in DOMAIN b : p > c}
    <3>1. \A i, j \in 1..Len(b) - c : i < j => c + i < c + j
      BY <1>1
    <3>2. \A p \in DOMAIN b : p > c => p - c \in 1..Len(b) - c /\ c + (p - c) = p
      BY <1>1
    <3>3. \A i \in 1..Len(b) - c : c + i > c
      BY <1>1
    <3>4. Rising(new, k)
      BY <2>2, <2>4, <3>1 DEF Rising
    <3>5. \A p \in DOMAIN b : p > c => p \in Items(new)
      BY <2>4, <3>2 DEF Items
    <3>6. \A p \in Items(new) : p \in DOMAIN b /\ p > c
      BY <2>4, <3>3 DEF Items
    <3>7. QED
      BY <3>4, <3>5, <3>6
  <2> DEFINE front == head \o kept
  <2>8. front \in Seq(DOMAIN b) /\ Rising(front, k) /\ Items(front) = {c} \cup K
    <3>1. \A x \in Items(head), y \in Items(kept) : k[x] < k[y]
      <4>1. \A y \in K : k[c] < k[y]
        BY <1>1, <1>4, <1>5, <2>1
      <4>2. QED
        BY <2>3, <2>6, <4>1
    <3>2. kept \in Seq(DOMAIN b)
      <4>1. kept \in [1..Len(kept) -> DOMAIN b] /\ Len(kept) \in Nat
        BY <1>5, <2>3, LenProperties
      <4>2. QED
        BY <4>1, SeqDef
    <3>3. front \in Seq(DOMAIN b) /\ Rising(front, k) /\ Items(front) = Items(head) \cup Items(kept)
      BY <2>3, <2>5, <2>6, <3>1, <3>2, JoinRising
    <3>4. QED
      BY <2>3, <2>6, <3>3
  <2> HIDE DEF front
  <2>9. /\ front \o new \in Seq(DOMAIN b) /\ Rising(front \o new, k)
        /\ Items(front \o new) = Items(front) \cup Items(new)
    <3>1. ASSUME NEW x \in Items(front), NEW y \in Items(new) PROVE k[x] < k[y]
      <4>1. x \in DOMAIN b /\ x <= c
        BY <1>1, <1>5, <2>1, <2>8
      <4>2. y \in DOMAIN b /\ y > c
        BY <2>7
      <4>3. QED
        BY <1>1, <2>2, <4>1, <4>2
    <3>2. QED
      BY <2>4, <2>7, <2>8, <3>1, JoinRising
  <2>10. Items(front \o new) = {p \in DOMAIN b : p >= c \/ KeepsEntry(b, p)}
    <3>1. \A p \in DOMAIN b : p \in Items(front \o new) <=> p >= c \/ KeepsEntry(b, p)
      BY <1>1, <1>6, <2>1, <2>7, <2>8, <2>9
    <3>2. \A p \in Items(front \o new) : p \in DOMAIN b
      BY <1>5, <2>1, <2>7, <2>8, <2>9
    <3>3. QED
      BY <3>1, <3>2
  <2>11. BuildContextEntries(b) = front \o new
    BY <1>3, <1>9 DEF front, head
  <2>12. QED
    BY <1>9, <2>9, <2>10, <2>11 DEF c, k
<1>10. QED
  BY <1>8, <1>9

(* The order of messages: a summary comes first, what is made up for a     *)
(* call right after it, and the others as their entries do.                *)
Key(m) == IF m.type = "compaction" THEN 0 ELSE IF m.type = "missing" THEN 2 * m.at + 1 ELSE 2 * m.at

Sorted(ms) == \A i, j \in DOMAIN ms : i < j => Key(ms[i]) < Key(ms[j])

(* The entries that are shown beside the latest summary.                   *)
Shown(b, p) ==
  /\ p \in DOMAIN b /\ b[p].type \notin {"lost", "compaction"}
  /\ LatestCompaction(b) # 0 => b[LatestCompaction(b)].of <= p

Summary(b, p) == p # 0 /\ p = LatestCompaction(b)

(* Exactly these entries are replayed, in order.                           *)
Replays(ms, b) ==
  /\ Sorted(ms)
  /\ \A i \in DOMAIN ms : LET p == ms[i].at IN ms[i] = MessageOf(b, p) /\ (Summary(b, p) \/ Shown(b, p))
  /\ \A p \in DOMAIN b : Summary(b, p) \/ Shown(b, p) => \E i \in DOMAIN ms : ms[i] = MessageOf(b, p)

LEMMA MessageOfIs ==
  ASSUME NEW b, BranchOK(b), NEW p \in DOMAIN b
  PROVE  /\ MessageOf(b, p) \in MessageUpTo(Len(b)) /\ MessageOf(b, p).at = p
         /\ MessageOf(b, p).type = b[p].type /\ MessageOf(b, p).of = b[p].of
         /\ Key(MessageOf(b, p)) = IF b[p].type = "compaction" THEN 0 ELSE 2 * p
<1>1. /\ b \in Branches /\ Len(b) \in Nat /\ DOMAIN b = 1..Len(b)
      /\ b[p].type \in Types /\ b[p].size \in Nat /\ b[p].of \in 0 .. p - 1
  BY BranchIs DEF BranchOK
<1>2. /\ p \in 1..Len(b) /\ b[p].type \in Types \cup {"missing"} /\ b[p].size \in Nat
      /\ b[p].of \in 0..Len(b) /\ b[p].type # "missing"
  BY <1>1 DEF Types
<1>3. /\ MessageOf(b, p) \in MessageUpTo(Len(b)) /\ MessageOf(b, p).at = p
      /\ MessageOf(b, p).type = b[p].type /\ MessageOf(b, p).of = b[p].of
  BY <1>2 DEF MessageOf, Message, MessageUpTo
<1>4. QED
  BY <1>2, <1>3 DEF Key

LEMMA ReplayableIs ==
  ASSUME NEW b, BranchOK(b)
  PROVE  Replayable(b) \in Seq(MessageUpTo(Len(b))) /\ CallsApart(Replayable(b)) /\ Replays(Replayable(b), b)
<1> DEFINE built == BuildContextEntries(b)
           S == {p \in DOMAIN b : b[p].type # "lost"}
           shown == Among(built, S)
           ms == Replayable(b)
           c == LatestCompaction(b)
           k == EntryOrder(b)
           B == {p \in DOMAIN b : c # 0 => p >= c \/ KeepsEntry(b, p)}
<1>1. /\ b \in Branches /\ Len(b) \in Nat /\ DOMAIN b = 1..Len(b)
      /\ \A p \in DOMAIN b : b[p].type \in Types /\ b[p].size \in Nat /\ b[p].of \in 0 .. p - 1
  BY BranchIs DEF BranchOK
<1>2. /\ c \in 0..Len(b)
      /\ c # 0 => b[c].type = "compaction"
      /\ \A p \in DOMAIN b : b[p].type = "compaction" => p <= c
  BY <1>1, LatestCompactionIs
<1>3. built \in Seq(DOMAIN b) /\ Rising(built, k) /\ Items(built) = B
  BY <1>1, BuiltEntries
<1>4. ms = [i \in DOMAIN shown |-> MessageOf(b, shown[i])]
  BY DEF Replayable
<1>5. \A p \in DOMAIN b : k[p] \in Nat /\ k[p] = IF p = c THEN 0 ELSE 2 * p
  BY <1>1, EntryOrderIs
<1>6. /\ \A p \in DOMAIN b : p \in B <=> (c # 0 => p >= c \/ KeepsEntry(b, p))
      /\ \A p \in DOMAIN b : p \in S <=> b[p].type # "lost"
  OBVIOUS
<1> HIDE DEF built, ms, k, B, S
<1>7. shown \in Seq(DOMAIN b) /\ Rising(shown, k) /\ Items(shown) = Items(built) \cap S
  BY <1>3, AmongRising
<1> HIDE DEF shown
<1>8. /\ Len(shown) \in Nat /\ DOMAIN shown = 1..Len(shown)
      /\ \A i \in DOMAIN shown : shown[i] \in DOMAIN b
  BY <1>7, LenProperties, ElementOfSeq
<1>9. ms \in Seq(MessageUpTo(Len(b)))
  <2>1. \A i \in 1..Len(shown) : MessageOf(b, shown[i]) \in MessageUpTo(Len(b))
    BY <1>8, MessageOfIs
  <2>2. ms = [i \in 1..Len(shown) |-> MessageOf(b, shown[i])]
    BY <1>4, <1>8
  <2>3. ms \in [1..Len(shown) -> MessageUpTo(Len(b))]
    BY <2>1, <2>2
  <2>4. QED
    BY <1>8, <2>3, SeqDef
<1>10. /\ DOMAIN ms = DOMAIN shown
       /\ \A i \in DOMAIN shown : ms[i] = MessageOf(b, shown[i]) /\ ms[i].at = shown[i]
  BY <1>4, <1>8, MessageOfIs
<1>11. \A i, j \in DOMAIN shown : shown[i] = shown[j] => i = j
  BY <1>5, <1>7, RisingIs
<1>12. CallsApart(ms)
  BY <1>10, <1>11 DEF CallsApart, Calls
(* What is shown is the summary, or Shown.                                 *)
<1>13. \A p \in DOMAIN b : p \in Items(shown) <=> Summary(b, p) \/ Shown(b, p)
  <2>1. SUFFICES ASSUME NEW p \in DOMAIN b PROVE p \in Items(shown) <=> Summary(b, p) \/ Shown(b, p)
    OBVIOUS
  <2>2. p \in Items(shown) <=> (c # 0 => p >= c \/ KeepsEntry(b, p)) /\ b[p].type # "lost"
    BY <1>3, <1>6, <1>7
  <2>3. CASE c = 0
    <3>1. b[p].type # "compaction"
      BY <1>1, <1>2, <2>3
    <3>2. QED
      BY <2>2, <2>3, <3>1 DEF Summary, Shown, c
  <2>4. CASE c # 0
    <3>1. c \in DOMAIN b /\ b[c].type = "compaction" /\ b[c].of <= c /\ b[c].of \in Nat
      BY <1>1, <1>2, <2>4
    <3>2. CASE p = c
      BY <1>1, <2>2, <2>4, <3>1, <3>2 DEF Summary, c
    <3>3. CASE p > c
      <4>1. b[p].type # "compaction" /\ b[c].of <= p
        BY <1>1, <1>2, <3>1, <3>3
      <4>2. QED
        BY <1>1, <2>2, <2>4, <3>1, <3>3, <4>1 DEF Summary, Shown, c
    <3>4. CASE p < c
      BY <1>1, <2>2, <2>4, <3>1, <3>4 DEF Summary, Shown, KeepsEntry, c
    <3>5. QED
      BY <1>1, <3>1, <3>2, <3>3, <3>4
  <2>5. QED
    BY <2>3, <2>4
<1>14. \A p \in Items(shown) : Key(MessageOf(b, p)) = k[p]
  <2>1. SUFFICES ASSUME NEW p \in Items(shown) PROVE Key(MessageOf(b, p)) = k[p]
    OBVIOUS
  <2>2. p \in DOMAIN b
    BY <1>8 DEF Items
  <2>3. Summary(b, p) \/ Shown(b, p)
    BY <1>13, <2>2
  <2>4. b[p].type = "compaction" <=> p = c
    BY <1>1, <1>2, <2>2, <2>3 DEF Summary, Shown, c
  <2>5. QED
    BY <1>5, <2>2, <2>4, MessageOfIs
<1>15. Sorted(ms)
  BY <1>7, <1>10, <1>14 DEF Sorted, Rising, Items
<1>16. ASSUME NEW i \in DOMAIN ms
       PROVE  LET p == ms[i].at IN ms[i] = MessageOf(b, p) /\ (Summary(b, p) \/ Shown(b, p))
  BY <1>8, <1>10, <1>13 DEF Items
<1>17. ASSUME NEW p \in DOMAIN b, Summary(b, p) \/ Shown(b, p)
       PROVE  \E i \in DOMAIN ms : ms[i] = MessageOf(b, p)
  BY <1>10, <1>13, <1>17 DEF Items
<1>18. Replays(ms, b)
  BY <1>15, <1>16, <1>17 DEF Replays
<1>19. QED
  BY <1>9, <1>12, <1>18 DEF ms

(* What is loaded of a branch can be sent.                                 *)
LEMMA LoadedIs ==
  ASSUME NEW b, BranchOK(b)
  PROVE  LoadContext(b) \in Seq(MessageUpTo(Len(b))) /\ Paired(LoadContext(b))
<1> DEFINE ms == Replayable(b)  n == Len(b)
<1>1. n \in Nat /\ ms \in Seq(MessageUpTo(n)) /\ CallsApart(ms)
  BY ReplayableIs, BranchIs DEF BranchOK
<1> HIDE DEF ms, n
<1>2. Projected(ms) \in Seq(MessageUpTo(n)) /\ Paired(Projected(ms))
  BY <1>1, ProjectedIs
<1>3. QED
  BY <1>2 DEF LoadContext, ms, n

LEMMA ElidedIs ==
  ASSUME NEW n \in Nat, NEW ms \in Seq(MessageUpTo(n)), Paired(ms)
  PROVE  Elided(ms) \in Seq(MessageUpTo(n)) /\ Paired(Elided(ms))
<1> DEFINE es == Elided(ms)
<1>1. /\ Len(ms) \in Nat /\ DOMAIN ms = 1..Len(ms)
      /\ \A i \in DOMAIN ms : ms[i] \in MessageUpTo(n)
  BY LenProperties, ElementOfSeq
<1>2. es = [i \in DOMAIN ms |-> IF ms[i].type = "tool" /\ ms[i].size > BoundedSize
                                THEN [ms[i] EXCEPT !.size = BoundedSize] ELSE ms[i]]
  BY DEF Elided
<1> HIDE DEF es
<1>3. BoundedSize \in Nat
  BY ContextAssumption
<1>4. ASSUME NEW i \in DOMAIN ms
      PROVE  /\ es[i] \in MessageUpTo(n)
             /\ es[i].type = ms[i].type /\ es[i].at = ms[i].at /\ es[i].of = ms[i].of
  BY <1>1, <1>2, <1>3 DEF MessageUpTo
<1>5. DOMAIN es = 1..Len(ms) /\ es \in Seq(MessageUpTo(n))
  <2>1. es \in [1..Len(ms) -> MessageUpTo(n)]
    BY <1>1, <1>2, <1>4
  <2>2. QED
    BY <1>1, <2>1, SeqDef
<1>6. \A i, j \in DOMAIN ms : AnswersIn(es, i, j) <=> AnswersIn(ms, i, j)
  BY <1>4 DEF AnswersIn, IsResult
<1>7. \A i, j \in DOMAIN ms : SameTurn(ms, i, j) => SameTurn(es, i, j)
  <2>1. SUFFICES ASSUME NEW i \in DOMAIN ms, NEW j \in DOMAIN ms, SameTurn(ms, i, j),
                        NEW k \in i + 1 .. j
                 PROVE  ~Begins(es, k)
    BY DEF SameTurn
  <2>2. k \in DOMAIN ms
    BY <1>1, <2>1
  <2>3. ~Begins(ms, k)
    BY <2>1 DEF SameTurn
  <2>4. QED
    BY <1>4, <2>2, <2>3 DEF Begins, IsUser
<1>8. Calls(es) = Calls(ms) /\ \A i \in Calls(ms) : Result(es, i) = Result(ms, i)
  BY <1>1, <1>4, <1>5, <1>6 DEF Calls, Result
<1>9. AnswersStay(es)
  BY <1>1, <1>5, <1>6, <1>7 DEF AnswersStay, Paired
<1>10. CallsApart(es)
  BY <1>4, <1>8 DEF CallsApart, Paired, Calls
<1>11. \A i \in Calls(es) : Result(es, i) # {}
  BY <1>8 DEF Paired
<1>12. QED
  BY <1>5, <1>9, <1>10, <1>11 DEF Paired, es

(* A summary before the messages kept.                                     *)
LEMMA SummaryIs ==
  ASSUME NEW n \in Nat, NEW ms \in Seq(MessageUpTo(n)), CallsApart(ms),
         NEW cut \in 1..Len(ms) - 1, NEW size \in Nat
  PROVE  LET kept == Beyond(ms, cut)
             new  == <<Message("compaction", n + 1, size, kept[1].at)>> \o kept
         IN  new \in Seq(MessageUpTo(n + 1)) /\ CallsApart(new)
<1> DEFINE kept == Beyond(ms, cut)
           first == kept[1].at
           summary == Message("compaction", n + 1, size, first)
           head == <<summary>>
           new == head \o kept
<1>1. /\ Len(ms) \in Nat /\ DOMAIN ms = 1..Len(ms) /\ cut \in 0..Len(ms)
      /\ \A i \in DOMAIN ms : ms[i] \in MessageUpTo(n)
  BY LenProperties, ElementOfSeq
<1>2. /\ kept \in Seq(MessageUpTo(n)) /\ DOMAIN kept = 1..Len(ms) - cut
      /\ \A i \in 1..Len(ms) - cut : kept[i] = ms[cut + i]
  BY <1>1, BeyondIs
<1> HIDE DEF kept
<1>3. 1 \in 1..Len(ms) - cut /\ cut + 1 \in DOMAIN ms
  BY <1>1
<1>4. first \in 1..n
  BY <1>1, <1>2, <1>3 DEF MessageUpTo
<1> HIDE DEF first
<1>5. MessageUpTo(n) \subseteq MessageUpTo(n + 1)
  BY DEF MessageUpTo
<1>6. summary \in MessageUpTo(n + 1) /\ summary.type = "compaction"
  <2>1. n + 1 \in 1..n + 1 /\ first \in 0..n + 1 /\ "compaction" \in Types \cup {"missing"}
    BY <1>4 DEF Types
  <2>2. QED
    BY <2>1 DEF Message, MessageUpTo
<1> HIDE DEF summary
<1>7. head \in Seq(MessageUpTo(n + 1)) /\ DOMAIN head = 1..1 /\ Len(head) = 1 /\ head[1] = summary
  BY <1>6
<1> HIDE DEF head
<1>8. kept \in Seq(MessageUpTo(n + 1))
  <2>1. /\ Len(kept) \in Nat /\ DOMAIN kept = 1..Len(kept) /\ \A i \in DOMAIN kept : kept[i] \in MessageUpTo(n)
    BY <1>2, LenProperties, ElementOfSeq
  <2>2. kept \in [1..Len(kept) -> MessageUpTo(n + 1)]
    <3>1. kept = [i \in 1..Len(kept) |-> kept[i]]
      BY <1>2, <2>1
    <3>2. \A i \in 1..Len(kept) : kept[i] \in MessageUpTo(n + 1)
      BY <1>5, <2>1
    <3>3. QED
      BY <3>1, <3>2
  <2>3. QED
    BY <2>1, <2>2, SeqDef
<1>9. /\ new \in Seq(MessageUpTo(n + 1)) /\ DOMAIN new = 1..Len(head) + Len(kept)
      /\ \A i \in 1..Len(head) + Len(kept) :
           \/ i \in DOMAIN head /\ new[i] = head[i]
           \/ i - Len(head) \in DOMAIN kept /\ new[i] = kept[i - Len(head)]
  <2> DEFINE M == MessageUpTo(n + 1)
  <2>1. head \in Seq(M) /\ kept \in Seq(M)
    BY <1>7, <1>8
  <2> HIDE DEF M
  <2>2. /\ head \o kept \in Seq(M) /\ DOMAIN (head \o kept) = 1..Len(head) + Len(kept)
        /\ \A i \in 1..Len(head) + Len(kept) :
             \/ i \in DOMAIN head /\ (head \o kept)[i] = head[i]
             \/ i - Len(head) \in DOMAIN kept /\ (head \o kept)[i] = kept[i - Len(head)]
    BY <2>1, JoinIs
  <2>3. QED
    BY <2>2 DEF M
<1> HIDE DEF new
<1>10. \A i \in Calls(new) : /\ i \in Nat /\ i - 1 \in 1..Len(ms) - cut
                             /\ cut + (i - 1) \in Calls(ms) /\ new[i].at = ms[cut + (i - 1)].at
  <2>1. SUFFICES ASSUME NEW i \in Calls(new)
                 PROVE  /\ i \in Nat /\ i - 1 \in 1..Len(ms) - cut
                        /\ cut + (i - 1) \in Calls(ms) /\ new[i].at = ms[cut + (i - 1)].at
    OBVIOUS
  <2>2. i \in 1..Len(head) + Len(kept) /\ new[i].type = "call"
    BY <1>9 DEF Calls
  <2>3. i - 1 \in DOMAIN kept /\ new[i] = kept[i - 1]
    <3>1. ~(i \in DOMAIN head /\ new[i] = head[i])
      BY <1>6, <1>7, <2>2
    <3>2. QED
      BY <1>7, <1>9, <2>2, <3>1
  <2>4. i - 1 \in 1..Len(ms) - cut /\ new[i] = ms[cut + (i - 1)]
    BY <1>2, <2>3
  <2>5. cut + (i - 1) \in DOMAIN ms
    BY <1>1, <2>4
  <2>6. i \in Nat
    BY <1>7, <1>8, <2>2, LenProperties
  <2>7. QED
    BY <2>2, <2>4, <2>5, <2>6 DEF Calls
<1>11. CallsApart(new)
  <2>1. SUFFICES ASSUME NEW i \in Calls(new), NEW j \in Calls(new), new[i].at = new[j].at PROVE i = j
    BY DEF CallsApart
  <2>2. cut + (i - 1) = cut + (j - 1)
    BY <1>10, <2>1 DEF CallsApart
  <2>3. QED
    BY <1>1, <1>10, <2>2
<1>12. QED
  BY <1>9, <1>11 DEF new, head, summary, first, kept

-----------------------------------------------------------------------------
(* Cuts.                                                                   *)

Sizes(ms) == \A i \in DOMAIN ms : ms[i].size \in Nat

(* A sum of the sizes, message by message.                                 *)
SumsOf(s, ms, n) ==
  s = [i \in 0..n |-> IF i = 0 THEN 0 ELSE s[i - 1] + ms[i].size]

LEMMA SumsExist ==
  ASSUME NEW ms
  PROVE  \A n \in Nat : \E s : SumsOf(s, ms, n)
<1> DEFINE T == {n \in Nat : \E s : SumsOf(s, ms, n)}
<1>1. 0 \in T
  <2> DEFINE s == [i \in 0..0 |-> 0]
  <2>1. SumsOf(s, ms, 0)
    BY DEF SumsOf
  <2>2. QED
    BY <2>1
<1>2. ASSUME NEW n \in Nat, n \in T PROVE n + 1 \in T
  <2>1. PICK s : SumsOf(s, ms, n)
    BY <1>2
  <2>2. DOMAIN s = 0..n /\ s[0] = 0 /\ \A i \in 1..n : s[i] = s[i - 1] + ms[i].size
    <3>1. s = [i \in 0..n |-> IF i = 0 THEN 0 ELSE s[i - 1] + ms[i].size]
      BY <2>1 DEF SumsOf
    <3>2. QED
      BY <3>1
  <2> DEFINE t == [i \in 0..n + 1 |-> IF i <= n THEN s[i] ELSE s[n] + ms[n + 1].size]
  <2>3. \A i \in 0..n + 1 : t[i] = IF i = 0 THEN 0 ELSE t[i - 1] + ms[i].size
    <3>1. SUFFICES ASSUME NEW i \in 0..n + 1 PROVE t[i] = IF i = 0 THEN 0 ELSE t[i - 1] + ms[i].size
      OBVIOUS
    <3>2. CASE i = 0
      BY <2>2, <3>2
    <3>3. CASE i # 0 /\ i <= n
      <4>1. i \in 1..n /\ i - 1 \in 0..n + 1 /\ i - 1 <= n
        BY <3>3
      <4>2. t[i] = s[i] /\ t[i - 1] = s[i - 1]
        BY <3>3, <4>1
      <4>3. QED
        BY <2>2, <3>3, <4>1, <4>2
    <3>4. CASE i = n + 1
      <4>1. i - 1 = n /\ n \in 0..n + 1 /\ n <= n /\ ~(i <= n) /\ i # 0
        BY <3>4
      <4>2. t[n] = s[n] /\ t[i] = s[n] + ms[n + 1].size
        BY <3>4, <4>1
      <4>3. QED
        BY <3>4, <4>1, <4>2
    <3>5. QED
      BY <3>2, <3>3, <3>4
  <2>4. SumsOf(t, ms, n + 1)
    <3>1. t = [i \in 0..n + 1 |-> t[i]]
      OBVIOUS
    <3> HIDE DEF t
    <3>2. QED
      BY <2>3, <3>1 DEF SumsOf
  <2>5. QED
    BY <2>4
<1>3. \A n \in Nat : n \in T => n + 1 \in T
  BY <1>2
<1> HIDE DEF T
<1>4. \A n \in Nat : n \in T
  BY <1>1, <1>3, NatSets
<1>5. QED
  BY <1>4 DEF T

(* Two sums of the same sizes are the same.                                *)
LEMMA SumsAgree ==
  ASSUME NEW n \in Nat, NEW s, NEW t,
         s[0] = t[0], \A i \in 1..n : s[i - 1] = t[i - 1] => s[i] = t[i]
  PROVE  \A i \in 0..n : s[i] = t[i]
<1> DEFINE T == {i \in Nat : i <= n => s[i] = t[i]}
<1>1. 0 \in T
  OBVIOUS
<1>2. ASSUME NEW i \in Nat, i \in T PROVE i + 1 \in T
  <2>1. SUFFICES ASSUME i + 1 <= n PROVE s[i + 1] = t[i + 1]
    OBVIOUS
  <2>2. s[i] = t[i] /\ i + 1 \in 1..n /\ i + 1 - 1 = i
    BY <1>2, <2>1
  <2>3. QED
    BY <2>2
<1>3. \A i \in Nat : i \in T => i + 1 \in T
  BY <1>2
<1> HIDE DEF T
<1>4. \A i \in Nat : i \in T
  BY <1>1, <1>3, NatSets
<1>5. QED
  BY <1>4 DEF T

(* Tokens is the last of the sums.                                         *)
LEMMA TokensIs ==
  ASSUME NEW ms, Len(ms) \in Nat
  PROVE  /\ \E s : SumsOf(s, ms, Len(ms))
         /\ \A s : SumsOf(s, ms, Len(ms)) => Tokens(ms) = s[Len(ms)]
<1> DEFINE n == Len(ms)
           sum == CHOOSE s : s = [i \in 0..n |-> IF i = 0 THEN 0 ELSE s[i - 1] + ms[i].size]
<1>1. \E s : SumsOf(s, ms, n)
  BY SumsExist
<1>2. SumsOf(sum, ms, n)
  BY <1>1 DEF SumsOf
<1>3. Tokens(ms) = sum[n]
  BY DEF Tokens
<1> HIDE DEF sum, n
<1>4. ASSUME NEW s, SumsOf(s, ms, n) PROVE Tokens(ms) = s[n]
  <2>1. n \in Nat
    BY DEF n
  <2>2. /\ s[0] = 0 /\ \A i \in 1..n : s[i] = s[i - 1] + ms[i].size
        /\ sum[0] = 0 /\ \A i \in 1..n : sum[i] = sum[i - 1] + ms[i].size
    <3>1. s = [i \in 0..n |-> IF i = 0 THEN 0 ELSE s[i - 1] + ms[i].size]
      BY <1>4 DEF SumsOf
    <3>2. sum = [i \in 0..n |-> IF i = 0 THEN 0 ELSE sum[i - 1] + ms[i].size]
      BY <1>2 DEF SumsOf
    <3>3. 0 \in 0..n /\ \A i \in 1..n : i \in 0..n /\ i # 0
      BY <2>1
    <3>4. QED
      BY <3>1, <3>2, <3>3
  <2>3. \A i \in 0..n : s[i] = sum[i]
    <3>1. s[0] = sum[0] /\ \A i \in 1..n : s[i - 1] = sum[i - 1] => s[i] = sum[i]
      BY <2>2
    <3>2. QED
      BY <2>1, <3>1, SumsAgree, SMTT(20)
  <2>4. QED
    BY <1>3, <2>1, <2>3
<1>5. QED
  BY <1>1, <1>4 DEF n

LEMMA SumsAre ==
  ASSUME NEW n \in Nat, NEW ms, NEW s, SumsOf(s, ms, n)
  PROVE  s[0] = 0 /\ \A i \in 1..n : s[i] = s[i - 1] + ms[i].size
<1>1. s = [i \in 0..n |-> IF i = 0 THEN 0 ELSE s[i - 1] + ms[i].size]
  BY DEF SumsOf
<1>2. 0 \in 0..n /\ \A i \in 1..n : i \in 0..n /\ i # 0
  OBVIOUS
<1>3. QED
  BY <1>1, <1>2

(* The sums do not fall.                                                   *)
LEMMA SumsGrow ==
  ASSUME NEW n \in Nat, NEW ms, \A i \in 1..n : ms[i].size \in Nat, NEW s, SumsOf(s, ms, n)
  PROVE  \A i \in 0..n : s[i] \in Nat /\ \A j \in 0..i : s[j] <= s[i]
<1> DEFINE T == {i \in Nat : i <= n => s[i] \in Nat /\ \A j \in 0..i : s[j] \in Nat /\ s[j] <= s[i]}
<1>1. s[0] = 0 /\ \A i \in 1..n : s[i] = s[i - 1] + ms[i].size
  BY SumsAre
<1>2. 0 \in T
  BY <1>1
<1>3. ASSUME NEW i \in Nat, i \in T PROVE i + 1 \in T
  <2>1. SUFFICES ASSUME i + 1 <= n
                 PROVE  s[i + 1] \in Nat /\ \A j \in 0..i + 1 : s[j] \in Nat /\ s[j] <= s[i + 1]
    OBVIOUS
  <2>2. s[i] \in Nat /\ \A j \in 0..i : s[j] \in Nat /\ s[j] <= s[i]
    BY <1>3, <2>1
  <2>3. s[i + 1] = s[i] + ms[i + 1].size /\ ms[i + 1].size \in Nat
    <3>1. i + 1 \in 1..n /\ i + 1 - 1 = i
      BY <2>1
    <3>2. QED
      BY <1>1, <3>1
  <2>4. s[i + 1] \in Nat /\ s[i] <= s[i + 1]
    BY <2>2, <2>3
  <2>5. ASSUME NEW j \in 0..i + 1 PROVE s[j] \in Nat /\ s[j] <= s[i + 1]
    <3>1. CASE j = i + 1
      BY <2>4, <3>1
    <3>2. CASE j \in 0..i
      <4>1. s[j] \in Nat /\ s[j] <= s[i]
        BY <2>2, <3>2
      <4>2. QED
        BY <2>2, <2>4, <4>1
    <3>3. QED
      BY <3>1, <3>2
  <2>6. QED
    BY <2>4, <2>5
<1>4. \A i \in Nat : i \in T => i + 1 \in T
  BY <1>3
<1> HIDE DEF T
<1>5. \A i \in Nat : i \in T
  BY <1>2, <1>4, NatSets
<1>6. QED
  BY <1>5 DEF T

(* The tokens beyond a cut.                                                *)
LEMMA BeyondTokens ==
  ASSUME NEW T, NEW ms \in Seq(T), \A i \in 1..Len(ms) : ms[i].size \in Nat,
         NEW s, SumsOf(s, ms, Len(ms)), NEW c \in 0..Len(ms)
  PROVE  Tokens(Beyond(ms, c)) = s[Len(ms)] - s[c]
<1> DEFINE n == Len(ms)
           m == n - c
           rest == Beyond(ms, c)
           t == [i \in 0..m |-> s[c + i] - s[c]]
<1>1. n \in Nat /\ c \in 0..n /\ m \in Nat /\ c \in Nat
  BY LenProperties
<1>2. Len(rest) = m /\ \A i \in 1..m : rest[i] = ms[c + i]
  BY BeyondIs
<1>3. s[0] = 0 /\ \A i \in 1..n : s[i] = s[i - 1] + ms[i].size
  BY <1>1, SumsAre
<1>4. \A i \in 0..n : s[i] \in Nat
  BY <1>1, SumsGrow
<1> HIDE DEF n, rest
<1>5. \A i \in 0..m : t[i] = IF i = 0 THEN 0 ELSE t[i - 1] + rest[i].size
  <2>1. SUFFICES ASSUME NEW i \in 0..m PROVE t[i] = IF i = 0 THEN 0 ELSE t[i - 1] + rest[i].size
    OBVIOUS
  <2>2. c + i \in 0..n /\ s[c] \in Nat /\ s[c + i] \in Nat
    BY <1>1, <1>4
  <2>3. CASE i = 0
    BY <1>1, <2>2, <2>3
  <2>4. CASE i # 0
    <3>1. i \in 1..m /\ i - 1 \in 0..m /\ c + i \in 1..n /\ c + (i - 1) = (c + i) - 1 /\ c + (i - 1) \in 0..n
      BY <1>1, <2>4
    <3>2. s[c + i] = s[c + (i - 1)] + rest[i].size
      BY <1>2, <1>3, <3>1
    <3>3. t[i] = s[c + i] - s[c] /\ t[i - 1] = s[c + (i - 1)] - s[c]
      BY <3>1
    <3>4. s[c + (i - 1)] \in Nat /\ rest[i].size \in Nat
      <4>1. ms[c + i].size \in Nat
        BY <3>1 DEF n
      <4>2. QED
        BY <1>2, <1>4, <3>1, <4>1
    <3> HIDE DEF t
    <3>5. QED
      BY <2>2, <2>4, <3>2, <3>3, <3>4
  <2>5. QED
    BY <2>3, <2>4
<1>6. t = [i \in 0..m |-> t[i]]
  OBVIOUS
<1>7. t[m] = s[n] - s[c]
  <2>1. m \in 0..m /\ c + m = n
    BY <1>1
  <2>2. QED
    BY <2>1
<1> HIDE DEF t
<1>8. SumsOf(t, rest, m)
  BY <1>5, <1>6 DEF SumsOf
<1> HIDE DEF m
<1>9. Tokens(rest) = t[m]
  BY <1>1, <1>2, <1>8, TokensIs
<1>10. QED
  BY <1>7, <1>9 DEF rest, n

LEMMA TokensFall ==
  ASSUME NEW T, NEW ms \in Seq(T), \A i \in 1..Len(ms) : ms[i].size \in Nat,
         NEW c \in 0..Len(ms), NEW d \in c..Len(ms)
  PROVE  /\ Tokens(Beyond(ms, c)) \in Nat /\ Tokens(Beyond(ms, d)) \in Nat
         /\ Tokens(Beyond(ms, d)) <= Tokens(Beyond(ms, c))
<1>1. Len(ms) \in Nat /\ d \in 0..Len(ms) /\ Len(ms) \in 0..Len(ms) /\ c \in 0..d
  BY LenProperties
<1>2. PICK s : SumsOf(s, ms, Len(ms))
  BY <1>1, TokensIs
<1>3. Tokens(Beyond(ms, c)) = s[Len(ms)] - s[c] /\ Tokens(Beyond(ms, d)) = s[Len(ms)] - s[d]
  BY <1>1, <1>2, BeyondTokens
<1>4. \A i \in 0..Len(ms) : s[i] \in Nat /\ \A j \in 0..i : s[j] <= s[i]
  BY <1>1, <1>2, SumsGrow
<1>5. s[c] \in Nat /\ s[d] \in Nat /\ s[Len(ms)] \in Nat /\ s[c] <= s[d] /\ s[d] <= s[Len(ms)]
  BY <1>1, <1>4
<1>6. QED
  BY <1>3, <1>5

(* The counter of laterFittingBoundary is 0 where no call is cut off.      *)
LEMMA UnsafeCutsIs ==
  ASSUME NEW T, NEW ms \in Seq(T), AnswersStay(ms), NEW cut \in 0..Len(ms) - 1
  PROVE  UnsafeCuts(ms, cut) = 0 <=> SafeToolBoundary(ms, cut)
<1> DEFINE ResultAt(i) == IF Result(ms, i) = {} THEN Len(ms) ELSE Max(Result(ms, i))
           A == {i \in Calls(ms) : i <= cut}
           B == {i \in Calls(ms) : ResultAt(i) <= cut}
<1>1. Len(ms) \in Nat /\ DOMAIN ms = 1..Len(ms) /\ cut \in Nat /\ Calls(ms) \subseteq DOMAIN ms
  BY LenProperties DEF Calls
<1>2. \A i \in Calls(ms) : i \in Nat
  BY <1>1
<1>3. ASSUME NEW i \in Calls(ms), NEW j \in Result(ms, i) PROVE i < j /\ j \in DOMAIN ms /\ j \in Nat
  <2>1. i \in DOMAIN ms /\ j \in DOMAIN ms /\ AnswersIn(ms, i, j)
    BY <1>1 DEF Result
  <2>2. i <= j
    BY <2>1 DEF AnswersStay, SameTurn
  <2>3. i # j
    BY <2>1 DEF AnswersIn, IsResult
  <2>4. QED
    BY <1>1, <2>1, <2>2, <2>3
<1>4. ASSUME NEW i \in Calls(ms), Result(ms, i) # {}
      PROVE  Max(Result(ms, i)) \in Result(ms, i) /\ \A j \in Result(ms, i) : j <= Max(Result(ms, i))
  <2> DEFINE K == Result(ms, i)
  <2>1. K \in SUBSET DOMAIN ms
    BY DEF Result
  <2>2. K # {}
    BY <1>4
  <2> HIDE DEF K
  <2>3. IsIndices(K)
    BY <2>1, SomeIndices
  <2>4. Max(K) \in K /\ \A j \in K : j <= Max(K)
    BY <2>2, <2>3, MaxIs DEF IsIndices
  <2>5. QED
    BY <2>4 DEF K
<1>5. \A i \in Calls(ms) : ResultAt(i) <= cut <=> /\ Result(ms, i) # {}
                                                  /\ Max(Result(ms, i)) <= cut
  BY <1>1
<1>6. \A i \in Calls(ms) : ResultAt(i) <= cut => i <= cut
  <2>1. SUFFICES ASSUME NEW i \in Calls(ms), ResultAt(i) <= cut PROVE i <= cut
    OBVIOUS
  <2>2. Result(ms, i) # {} /\ Max(Result(ms, i)) <= cut
    BY <1>5, <2>1
  <2>3. i < Max(Result(ms, i)) /\ Max(Result(ms, i)) \in Nat /\ i \in Nat
    BY <1>2, <1>3, <1>4, <2>2
  <2>4. QED
    BY <1>1, <2>2, <2>3
<1>7. B \in SUBSET A
  BY <1>6
<1>8. UnsafeCuts(ms, cut) = Cardinality(A) - Cardinality(B)
  BY DEF UnsafeCuts
<1>9. IsFiniteSet(A)
  <2>1. A \in SUBSET DOMAIN ms
    BY <1>1
  <2> HIDE DEF A
  <2>2. QED
    BY <2>1, SomeIndices DEF IsIndices
<1>10. UnsafeCuts(ms, cut) = 0 <=> A = B
  <2> HIDE DEF A, B
  <2>1. IsFiniteSet(B) /\ (Cardinality(B) = Cardinality(A) => B = A)
    BY <1>7, <1>9, FS_Subset
  <2>2. Cardinality(A) \in Nat /\ Cardinality(B) \in Nat
    BY <1>9, <2>1, FS_CardinalityType
  <2>3. QED
    BY <1>8, <2>1, <2>2
<1>11. A = B <=> \A i \in Calls(ms) : i <= cut => ResultAt(i) <= cut
  <2>1. A = B <=> A \subseteq B
    BY <1>7
  <2>2. QED
    BY <2>1
<1>12. ASSUME NEW i \in Calls(ms)
       PROVE  (i <= cut => ResultAt(i) <= cut) <=>
                IF Result(ms, i) = {} THEN i > cut ELSE \A j \in Result(ms, i) : i <= cut <=> j <= cut
  <2>1. CASE Result(ms, i) = {}
    <3>1. ~(ResultAt(i) <= cut)
      BY <1>5, <2>1
    <3> HIDE DEF ResultAt
    <3>2. QED
      BY <1>1, <1>2, <2>1, <3>1
  <2>2. CASE Result(ms, i) # {}
    <3>1. ResultAt(i) = Max(Result(ms, i))
      BY <2>2
    <3> HIDE DEF ResultAt
    <3>2. /\ ResultAt(i) \in Result(ms, i)
          /\ \A j \in Result(ms, i) : j <= ResultAt(i) /\ i < j /\ j \in Nat
      BY <1>3, <1>4, <2>2, <3>1
    <3>3. i \in Nat /\ cut \in Nat /\ ResultAt(i) \in Nat
      BY <1>1, <1>2, <3>2
    <3>4. ASSUME i <= cut => ResultAt(i) <= cut, NEW j \in Result(ms, i) PROVE i <= cut <=> j <= cut
      <4>1. j <= ResultAt(i) /\ i < j /\ j \in Nat
        BY <3>2
      <4>2. QED
        BY <3>3, <3>4, <4>1
    <3>5. QED
      BY <2>2, <3>2, <3>4
  <2>3. QED
    BY <2>1, <2>2
<1> HIDE DEF A, B, ResultAt
<1>13. QED
  BY <1>10, <1>11, <1>12 DEF SafeToolBoundary

(* A cut before a turn keeps calls with their results.                     *)
LEMMA TurnsAreSafe ==
  ASSUME NEW T, NEW ms \in Seq(T), Paired(ms), NEW cut \in 1..Len(ms) - 1, Begins(ms, cut + 1)
  PROVE  SafeToolBoundary(ms, cut) /\ ValidCut(ms, cut)
<1>1. /\ Len(ms) \in Nat /\ DOMAIN ms = 1..Len(ms) /\ cut \in Nat /\ cut # 0 /\ cut < Len(ms)
      /\ cut + 1 # 1 /\ cut + 1 \in Nat
  BY LenProperties
<1>2. ValidCut(ms, cut)
  BY <1>1 DEF ValidCut, Begins
<1>3. ASSUME NEW i \in Calls(ms), NEW j \in Result(ms, i) PROVE i <= cut <=> j <= cut
  <2>1. i \in DOMAIN ms /\ j \in DOMAIN ms /\ AnswersIn(ms, i, j)
    BY DEF Calls, Result
  <2>2. i <= j /\ \A k \in i + 1 .. j : ~Begins(ms, k)
    BY <2>1 DEF Paired, AnswersStay, SameTurn
  <2>3. cut + 1 \notin i + 1 .. j
    BY <2>2
  <2>4. i \in Nat /\ j \in Nat
    BY <1>1, <2>1
  <2>5. QED
    BY <1>1, <2>2, <2>3, <2>4
<1>4. \A i \in Calls(ms) : Result(ms, i) # {}
  BY DEF Paired
<1>5. QED
  BY <1>2, <1>3, <1>4 DEF SafeToolBoundary

GoodCut(ms, c) == c \in 1..Len(ms) - 1 /\ SafeToolBoundary(ms, c) /\ ValidCut(ms, c)

LEMMA RecentBoundaryIs ==
  ASSUME NEW T, NEW ms \in Seq(T)
  PROVE  RecentBoundary(ms) = 0 \/ GoodCut(ms, RecentBoundary(ms))
<1> DEFINE enough == {i \in DOMAIN ms : Begins(ms, i) /\ Tokens(Beyond(ms, i - 1)) >= Recent}
           first == Max(enough)
           inTurn == {i \in DOMAIN ms : SameTurn(ms, first, i)}
           cuts == {i - 1 : i \in {j \in inTurn : ValidCut(ms, j - 1) /\ SafeToolBoundary(ms, j - 1)}}
           from == Max({i \in inTurn : Tokens(Beyond(ms, i - 1)) >= Recent}) - 1
           later == {c \in cuts : c >= from}
<1>1. Len(ms) \in Nat /\ DOMAIN ms = 1..Len(ms)
  BY LenProperties
<1>2. RecentBoundary(ms) = IF enough = {} THEN 0
                           ELSE IF cuts = {} THEN 0
                           ELSE IF \E c \in cuts : c >= from THEN Min(later) ELSE Max(cuts)
  BY DEF RecentBoundary
<1>3. \A c \in cuts : c \in 0..Len(ms) - 1 /\ ValidCut(ms, c) /\ SafeToolBoundary(ms, c)
  <2>1. SUFFICES ASSUME NEW j \in inTurn, ValidCut(ms, j - 1), SafeToolBoundary(ms, j - 1)
                 PROVE  j - 1 \in 0..Len(ms) - 1
    OBVIOUS
  <2>2. j \in 1..Len(ms)
    BY <1>1
  <2>3. QED
    BY <1>1, <2>2
<1> HIDE DEF cuts, from, enough
<1>4. IsFiniteSet(cuts) /\ cuts \subseteq Nat
  <2>1. cuts \in SUBSET (0..Len(ms) - 1)
    BY <1>3
  <2>2. IsFiniteSet(0..Len(ms) - 1)
    BY <1>1, FS_Interval
  <2>3. IsFiniteSet(cuts)
    BY <2>1, <2>2, FS_Subset
  <2>4. QED
    BY <2>1, <2>3
<1>5. cuts # {} => Max(cuts) \in cuts
  BY <1>4, MaxIs
<1>6. (\E c \in cuts : c >= from) => Min(later) \in cuts
  <2>1. later \in SUBSET cuts /\ ((\E c \in cuts : c >= from) => later # {})
    OBVIOUS
  <2> HIDE DEF later
  <2>2. IsFiniteSet(later)
    BY <1>4, <2>1, FS_Subset
  <2>3. later \subseteq Nat
    BY <1>4, <2>1
  <2>4. later # {} => Min(later) \in later
    BY <2>2, <2>3, MinIs
  <2>5. QED
    BY <2>1, <2>4
<1>7. RecentBoundary(ms) = 0 \/ RecentBoundary(ms) \in cuts
  <2> HIDE DEF later
  <2>1. QED
    BY <1>2, <1>5, <1>6
<1>8. ASSUME RecentBoundary(ms) \in cuts, RecentBoundary(ms) # 0 PROVE GoodCut(ms, RecentBoundary(ms))
  <2>1. PICK c \in cuts : c = RecentBoundary(ms) /\ c # 0
    BY <1>8
  <2>2. c \in 1..Len(ms) - 1 /\ ValidCut(ms, c) /\ SafeToolBoundary(ms, c)
    BY <1>1, <1>3, <2>1
  <2>3. QED
    BY <2>1, <2>2 DEF GoodCut
<1>9. QED
  BY <1>7, <1>8

(* Of a set of numbers one has a given number of them from itself on.      *)
LEMMA LatestOf ==
  ASSUME NEW K, IsFiniteSet(K), K \subseteq Nat, NEW r \in 1..Cardinality(K)
  PROVE  \E k \in K : Cardinality({j \in K : j >= k}) = r
<1> DEFINE N == Cardinality(K)
           at == Ascending(K)
           p == N - r + 1
           S == {j \in K : j >= at[p]}
           last == [i \in 1..r |-> at[p - 1 + i]]
<1>1. /\ N \in Nat /\ at \in [1..N -> K]
      /\ \A i, j \in 1..N : i < j => at[i] < at[j]
      /\ \A k \in K : \E i \in 1..N : at[i] = k
  BY AscendingIs
<1>2. r \in Nat /\ p \in 1..N /\ \A i \in 1..r : p - 1 + i \in 1..N /\ p <= p - 1 + i
  BY <1>1
<1>3. \A i \in 1..N : p <= i => i - p + 1 \in 1..r /\ p - 1 + (i - p + 1) = i
  BY <1>1
<1> HIDE DEF N, at, p
<1>4. \A i \in 1..N : at[i] \in K /\ at[i] \in Nat /\ i \in Nat
  <2>1. \A i \in 1..N : at[i] \in K
    BY <1>1
  <2>2. \A i \in 1..N : at[i] \in Nat
    BY <2>1
  <2>3. QED
    BY <1>1, <2>1, <2>2
<1>5. ASSUME NEW i \in 1..N PROVE at[i] >= at[p] <=> p <= i
  <2>1. p < i => at[p] < at[i]
    BY <1>1, <1>2
  <2>2. i < p => at[i] < at[p]
    BY <1>1, <1>2
  <2>3. p \in Nat /\ i \in Nat /\ at[i] \in Nat /\ at[p] \in Nat
    BY <1>2, <1>4
  <2>4. p = i => at[i] = at[p]
    OBVIOUS
  <2>5. QED
    BY <2>1, <2>2, <2>3, <2>4
<1>6. last \in Bijection(1..r, S)
  <2>1. \A i \in 1..r : last[i] = at[p - 1 + i] /\ last[i] \in S
    BY <1>2, <1>4, <1>5
  <2>2. last \in [1..r -> S]
    <3> HIDE DEF S
    <3>1. QED
      BY <2>1
  <2>3. ASSUME NEW i \in 1..r, NEW j \in 1..r, last[i] = last[j] PROVE i = j
    <3>1. at[p - 1 + i] = at[p - 1 + j]
      BY <2>1, <2>3
    <3>2. /\ ~(p - 1 + i < p - 1 + j) /\ ~(p - 1 + j < p - 1 + i)
      BY <1>1, <1>2, <1>4, <3>1
    <3>3. p \in Nat /\ i \in Nat /\ j \in Nat
      BY <1>2, <1>4
    <3>4. QED
      BY <3>2, <3>3
  <2>4. ASSUME NEW k \in S PROVE \E i \in 1..r : last[i] = k
    <3>1. k \in K /\ k >= at[p]
      OBVIOUS
    <3>2. PICK i \in 1..N : at[i] = k
      BY <1>1, <3>1
    <3>3. p <= i
      BY <1>5, <3>1, <3>2
    <3>4. i - p + 1 \in 1..r /\ p - 1 + (i - p + 1) = i
      BY <1>3, <3>3
    <3>5. last[i - p + 1] = at[p - 1 + (i - p + 1)]
      BY <2>1, <3>4
    <3>6. QED
      BY <3>2, <3>4, <3>5
  <2> HIDE DEF last, S
  <2>5. QED
    BY <2>2, <2>3, <2>4 DEF Bijection, Injection, Surjection, IsInjective
<1>7. Cardinality(S) = r
  <2>1. IsFiniteSet(1..r) /\ Cardinality(1..r) = r
    BY <1>2, FS_Interval
  <2> HIDE DEF last, S
  <2>2. IsFiniteSet(S) /\ Cardinality(S) = Cardinality(1..r)
    <3>1. ExistsBijection(1..r, S)
      BY <1>6 DEF ExistsBijection
    <3>2. QED
      BY <2>1, <3>1, FS_Bijection
  <2>3. QED
    BY <2>1, <2>2
<1>8. QED
  BY <1>2, <1>4, <1>7

LEMMA TurnBoundaryIs ==
  ASSUME NEW T, NEW ms \in Seq(T), Paired(ms)
  PROVE  TurnBoundary(ms) = 0 \/ GoodCut(ms, TurnBoundary(ms))
<1> DEFINE turns == {i \in DOMAIN ms : Begins(ms, i)}
           cut == TurnBoundary(ms)
<1>1. Len(ms) \in Nat /\ DOMAIN ms = 1..Len(ms)
  BY LenProperties
<1>2. cut = IF Cardinality(turns) <= RetainTurns THEN 0
            ELSE CHOOSE i \in {t - 1 : t \in turns} : Cardinality({t \in turns : t > i}) = RetainTurns
  BY DEF TurnBoundary
<1>3. turns \in SUBSET DOMAIN ms /\ \A t \in turns : t \in 1..Len(ms) /\ Begins(ms, t)
  BY <1>1
<1> HIDE DEF turns, cut
<1>4. IsFiniteSet(turns) /\ turns \subseteq Nat
  BY <1>3, SomeIndices DEF IsIndices
<1>5. CASE Cardinality(turns) <= RetainTurns
  BY <1>2, <1>5 DEF cut
<1>6. CASE ~(Cardinality(turns) <= RetainTurns)
  <2>1. RetainTurns \in 1..Cardinality(turns)
    <3>1. Cardinality(turns) \in Nat /\ RetainTurns \in Nat \ {0}
      BY <1>4, FS_CardinalityType, ContextAssumption
    <3>2. QED
      BY <1>6, <3>1
  <2>2. PICK k \in turns : Cardinality({t \in turns : t >= k}) = RetainTurns
    BY <1>4, <2>1, LatestOf
  <2>3. {t \in turns : t >= k} = {t \in turns : t > k - 1}
    <3>1. \A t \in turns : t >= k <=> t > k - 1
      BY <1>4
    <3>2. QED
      BY <3>1
  <2>4. \E i \in {t - 1 : t \in turns} : Cardinality({t \in turns : t > i}) = RetainTurns
    BY <2>2, <2>3
  <2>5. cut \in {t - 1 : t \in turns}
    BY <1>2, <1>6, <2>4
  <2>6. PICK t \in turns : cut = t - 1
    BY <2>5
  <2>7. cut + 1 = t /\ cut \in 0..Len(ms) - 1
    BY <1>1, <1>3, <2>6
  <2>8. CASE cut = 0
    BY <2>8 DEF cut
  <2>9. CASE cut # 0
    <3>1. cut \in 1..Len(ms) - 1 /\ Begins(ms, cut + 1)
      BY <1>3, <2>7, <2>9
    <3>2. SafeToolBoundary(ms, cut) /\ ValidCut(ms, cut)
      BY <3>1, TurnsAreSafe
    <3>3. QED
      BY <3>1, <3>2 DEF GoodCut, cut
  <2>10. QED
    BY <2>8, <2>9
<1>7. QED
  BY <1>5, <1>6

(* Later cuts leave less, so that one fits after every one that fits.      *)
LEMMA LaterFits ==
  ASSUME NEW n \in Nat, NEW ms \in Seq(MessageUpTo(n)), NEW extra \in Nat,
         NEW c \in 0..Len(ms), NEW d \in c..Len(ms), Fits(ms, c, extra)
  PROVE  Fits(ms, d, extra)
<1>1. \A i \in 1..Len(ms) : ms[i].size \in Nat
  <2>1. \A i \in 1..Len(ms) : ms[i] \in MessageUpTo(n)
    BY ElementOfSeq
  <2>2. QED
    BY <2>1 DEF MessageUpTo
<1>2. /\ Tokens(Beyond(ms, c)) \in Nat /\ Tokens(Beyond(ms, d)) \in Nat
      /\ Tokens(Beyond(ms, d)) <= Tokens(Beyond(ms, c))
  BY <1>1, TokensFall
<1>3. MaxSummary \in Nat /\ Target \in Nat
  BY ContextAssumption
<1>4. QED
  BY <1>2, <1>3 DEF Fits

LEMMA BoundaryIs ==
  ASSUME NEW T, NEW ms \in Seq(T), Paired(ms)
  PROVE  Boundary(ms) = 0 \/ GoodCut(ms, Boundary(ms))
  BY RecentBoundaryIs, TurnBoundaryIs DEF Boundary

(* The cuts that may be used.                                              *)
Fitting(ms, extra) ==
  {c \in 1 .. Len(ms) - 1 : SafeToolBoundary(ms, c) /\ ValidCut(ms, c) /\ Fits(ms, c, extra)}

LEMMA LaterFittingIs ==
  ASSUME NEW T, NEW ms \in Seq(T), Paired(ms), NEW after \in Nat, NEW extra
  PROVE  LET cuts == {c \in Fitting(ms, extra) : c > after}
         IN  LaterFittingBoundary(ms, after, extra) = IF cuts = {} THEN 0 ELSE Min(cuts)
<1> DEFINE cuts == {c \in Fitting(ms, extra) : c > after}
           found == {c \in after + 1 .. Len(ms) - 1 :
                       UnsafeCuts(ms, c) = 0 /\ ValidCut(ms, c) /\ Fits(ms, c, extra)}
<1>1. Len(ms) \in Nat
  BY LenProperties
<1>2. \A c \in 1 .. Len(ms) - 1 : UnsafeCuts(ms, c) = 0 <=> SafeToolBoundary(ms, c)
  <2>1. SUFFICES ASSUME NEW c \in 1 .. Len(ms) - 1
                 PROVE  UnsafeCuts(ms, c) = 0 <=> SafeToolBoundary(ms, c)
    OBVIOUS
  <2>2. c \in 0 .. Len(ms) - 1 /\ AnswersStay(ms)
    BY <1>1 DEF Paired
  <2>3. QED
    BY <2>2, UnsafeCutsIs
<1>3. \A c : c \in after + 1 .. Len(ms) - 1 <=> c \in 1 .. Len(ms) - 1 /\ c > after
  BY <1>1
<1>4. found = cuts
  BY <1>2, <1>3 DEF Fitting
<1>5. LaterFittingBoundary(ms, after, extra) = IF found = {} THEN 0 ELSE Min(found)
  BY DEF LaterFittingBoundary
<1> HIDE DEF found, cuts
<1>6. LaterFittingBoundary(ms, after, extra) = IF cuts = {} THEN 0 ELSE Min(cuts)
  BY <1>4, <1>5
<1>7. QED
  BY <1>6 DEF cuts

LEMMA SomeFitting ==
  ASSUME NEW ms, Len(ms) \in Nat, NEW extra, NEW K \in SUBSET Fitting(ms, extra), K # {}
  PROVE  Min(K) \in K /\ Min(K) \in 1 .. Len(ms) - 1 /\ \A k \in K : Min(K) <= k
<1>1. K \in SUBSET (1 .. Len(ms) - 1)
  BY DEF Fitting
<1>2. IsFiniteSet(1 .. Len(ms) - 1)
  BY FS_Interval
<1>3. IsFiniteSet(K)
  BY <1>1, <1>2, FS_Subset
<1>4. K \subseteq Nat
  BY <1>1
<1>5. Min(K) \in K /\ \A k \in K : Min(K) <= k
  BY <1>3, <1>4, MinIs
<1>6. QED
  BY <1>1, <1>5

(* A cut is within the messages.                                           *)
LEMMA CutIs ==
  ASSUME NEW n \in Nat, NEW ms \in Seq(MessageUpTo(n)), Paired(ms), NEW extra, NEW overflow
  PROVE  Cut(ms, extra, overflow) = 0 \/ Cut(ms, extra, overflow) \in 1 .. Len(ms) - 1
<1> DEFINE b == Boundary(ms)
           later == LaterFittingBoundary(ms, b, extra)
           cuts == {c \in Fitting(ms, extra) : c > b}
<1>1. Len(ms) \in Nat /\ (b = 0 \/ b \in 1 .. Len(ms) - 1)
  BY BoundaryIs, LenProperties DEF GoodCut
<1>2. b \in Nat
  BY <1>1
<1>3. \/ Cut(ms, extra, overflow) = b
      \/ Cut(ms, extra, overflow) = later
      \/ Cut(ms, extra, overflow) = 0
  BY DEF Cut
<1> HIDE DEF b
<1>4. later = IF cuts = {} THEN 0 ELSE Min(cuts)
  BY <1>2, LaterFittingIs
<1>5. cuts # {} => Min(cuts) \in 1 .. Len(ms) - 1
  <2>1. cuts \in SUBSET Fitting(ms, extra)
    OBVIOUS
  <2> HIDE DEF cuts
  <2>2. QED
    BY <1>1, <2>1, SomeFitting
<1> HIDE DEF cuts, later
<1>6. QED
  BY <1>1, <1>3, <1>4, <1>5

(* An overflow gets the first cut that may be used, from the boundary on,  *)
(* and none only if there is none.                                         *)
LEMMA FirstCut ==
  ASSUME NEW n \in Nat, NEW ms \in Seq(MessageUpTo(n)), Paired(ms), NEW extra \in Nat
  PROVE  LET cut == Cut(ms, extra, TRUE)  good == Fitting(ms, extra)
         IN  /\ cut = 0 <=> good = {}
             /\ cut # 0 => cut = Min({c \in good : c >= Boundary(ms)})
<1> DEFINE b == Boundary(ms)
           cut == Cut(ms, extra, TRUE)
           good == Fitting(ms, extra)
           from == {c \in good : c >= b}
           cuts == {c \in good : c > b}
<1>1. Len(ms) \in Nat /\ (b = 0 \/ GoodCut(ms, b))
  BY BoundaryIs, LenProperties
<1>2. b \in Nat /\ b \in 0..Len(ms) /\ (b # 0 => b \in 1..Len(ms) - 1)
  BY <1>1 DEF GoodCut
<1>3. \A c \in good : c \in 1..Len(ms) - 1 /\ c \in Nat /\ Fits(ms, c, extra)
  BY <1>1 DEF Fitting
<1>4. cut = IF b # 0 /\ Fits(ms, b, extra) THEN b ELSE LaterFittingBoundary(ms, b, extra)
  BY DEF Cut
<1>5. good \in SUBSET Fitting(ms, extra) /\ from \in SUBSET good /\ cuts \in SUBSET good
  OBVIOUS
<1>6. b # 0 /\ Fits(ms, b, extra) => b \in good
  BY <1>1 DEF GoodCut, Fitting
<1>7. LaterFittingBoundary(ms, b, extra) = IF cuts = {} THEN 0 ELSE Min(cuts)
  <2> HIDE DEF b
  <2>1. QED
    BY <1>2, LaterFittingIs
<1> HIDE DEF b, cut, good
<1>8. CASE b # 0 /\ Fits(ms, b, extra)
  <2>1. b \in from /\ cut = b
    BY <1>2, <1>4, <1>6, <1>8
  <2>2. \A c \in from : b <= c
    OBVIOUS
  <2>3. Min(from) \in from /\ Min(from) \in 1..Len(ms) - 1 /\ Min(from) <= b
    <3> HIDE DEF from
    <3>1. from \in SUBSET Fitting(ms, extra) /\ from # {}
      BY <1>5, <2>1
    <3>2. Min(from) \in from /\ Min(from) \in 1..Len(ms) - 1 /\ \A c \in from : Min(from) <= c
      BY <1>1, <3>1, SomeFitting
    <3>3. QED
      BY <2>1, <3>2
  <2>4. Min(from) = b
    <3>1. b <= Min(from) /\ Min(from) \in Nat
      BY <2>2, <2>3
    <3> HIDE DEF from
    <3>2. QED
      BY <1>2, <2>3, <3>1
  <2>5. good # {} /\ cut # 0
    BY <1>6, <1>8, <2>1
  <2> HIDE DEF from
  <2>6. cut = Min(from)
    BY <2>1, <2>4
  <2>7. QED
    BY <2>5, <2>6 DEF b, cut, good, from
<1>9. CASE ~(b # 0 /\ Fits(ms, b, extra))
  <2>1. b \notin good
    BY <1>2, <1>3, <1>9
  <2>2. from = cuts
    <3>1. \A c \in good : c >= b <=> c > b
      BY <1>2, <1>3, <2>1
    <3>2. QED
      BY <3>1
  <2>3. ASSUME NEW c \in good PROVE c > b
    <3>1. CASE b = 0
      BY <1>3, <3>1
    <3>2. CASE b # 0 /\ c < b
      <4>1. c \in 0..Len(ms) /\ b \in c..Len(ms) /\ Fits(ms, c, extra)
        BY <1>1, <1>2, <1>3, <3>2
      <4>2. Fits(ms, b, extra)
        BY <4>1, LaterFits
      <4>3. QED
        BY <1>9, <3>2, <4>2
    <3>3. c # b
      BY <2>1
    <3>4. QED
      BY <1>2, <1>3, <3>1, <3>2, <3>3
  <2>4. cuts = good
    BY <2>3
  <2>5. cut = IF cuts = {} THEN 0 ELSE Min(cuts)
    <3> HIDE DEF cuts
    <3>1. QED
      BY <1>4, <1>7, <1>9
  <2> HIDE DEF from, cuts
  <2>6. good # {} => Min(good) \in 1..Len(ms) - 1
    BY <1>1, <1>5, SomeFitting
  <2>7. cut = 0 <=> good = {}
    BY <2>4, <2>5, <2>6
  <2>8. cut # 0 => cut = Min(from)
    BY <2>2, <2>5
  <2>9. QED
    BY <2>7, <2>8 DEF b, cut, good, from
<1>10. QED
  BY <1>8, <1>9

-----------------------------------------------------------------------------
(* The inductive invariant: what is in memory was projected, so that every *)
(* call in it has its results, and it is of the branch as far as it goes.  *)
Modes == {"none", "automatic", "overflow", "manual"}

ShapeInv ==
  /\ BranchOK(branch)
  /\ context \in Seq(MessageUpTo(Len(branch))) /\ Paired(context)
  /\ loaded \in 0 .. Len(branch)
  /\ loop \in {"idle", "load", "tools"} => context = <<>> /\ loaded = 0
  /\ plan.mode \in Modes /\ (loop = "compacting" <=> plan # NoPlan)
  /\ plan # NoPlan => plan.cut \in 1 .. Len(context) - 1

LEMMA BranchLength ==
  ASSUME NEW b, BranchOK(b)
  PROVE  Len(b) \in Nat /\ DOMAIN b = 1..Len(b)
  BY BranchIs DEF BranchOK

LEMMA NothingIs == ASSUME NEW n PROVE <<>> \in Seq(MessageUpTo(n)) /\ Paired(<<>>)
<1>1. <<>> \in Seq(MessageUpTo(n)) /\ DOMAIN <<>> = {}
  BY EmptySeq
<1>2. QED
  BY <1>1 DEF Paired, AnswersStay, CallsApart, Calls

LEMMA Grown ==
  ASSUME NEW n \in Nat, NEW m \in Nat, n <= m, NEW ms \in Seq(MessageUpTo(n))
  PROVE  ms \in Seq(MessageUpTo(m))
<1>1. Len(ms) \in Nat /\ DOMAIN ms = 1..Len(ms) /\ \A i \in 1..Len(ms) : ms[i] \in MessageUpTo(n)
  BY LenProperties, ElementOfSeq
<1>2. MessageUpTo(n) \subseteq MessageUpTo(m)
  BY DEF MessageUpTo
<1>3. ms \in [1..Len(ms) -> MessageUpTo(m)]
  <2>1. ms = [i \in 1..Len(ms) |-> ms[i]]
    BY <1>1
  <2>2. \A i \in 1..Len(ms) : ms[i] \in MessageUpTo(m)
    BY <1>1, <1>2
  <2>3. QED
    BY <2>1, <2>2
<1>4. QED
  BY <1>1, <1>3, SeqDef

LEMMA LogIs ==
  ASSUME BranchOK(branch), NEW type \in Types, NEW size \in Nat, NEW of \in 0..Len(branch),
         NEW about \in SUBSET (1..Len(branch)), Log(type, size, of, about)
  PROVE  BranchOK(branch') /\ Len(branch') = Len(branch) + 1
<1> DEFINE e == Entry(type, size, of, about)
           T == [type : Types, size : Nat, of : Nat, about : SUBSET Nat]
<1>1. /\ Len(branch) \in Nat /\ DOMAIN branch = 1..Len(branch) /\ branch \in Seq(T)
      /\ \A p \in DOMAIN branch : branch[p].of \in 0 .. p - 1 /\ branch[p].about \subseteq 1 .. p - 1
  BY BranchLength DEF BranchOK, Branches
<1>2. e \in T /\ e.of = of /\ e.about = about
  <2>1. of \in Nat /\ about \in SUBSET Nat
    BY <1>1
  <2>2. QED
    BY <2>1 DEF Entry
<1>3. branch' = Append(branch, e)
  BY DEF Log
<1> HIDE DEF e, T
<1>4. /\ branch' \in Seq(T) /\ Len(branch') = Len(branch) + 1
      /\ \A p \in 1..Len(branch) : branch'[p] = branch[p]
      /\ branch'[Len(branch) + 1] = e
  BY <1>1, <1>2, <1>3, AppendProperties
<1>5. DOMAIN branch' = 1..Len(branch) + 1
  BY <1>4, LenProperties
<1>6. ASSUME NEW p \in DOMAIN branch'
      PROVE  branch'[p].of \in 0 .. p - 1 /\ branch'[p].about \subseteq 1 .. p - 1
  <2>1. CASE p \in 1..Len(branch)
    BY <1>1, <1>4, <2>1
  <2>2. CASE p = Len(branch) + 1
    <3>1. p - 1 = Len(branch)
      BY <1>1, <2>2
    <3>2. QED
      BY <1>2, <1>4, <2>2, <3>1
  <2>3. QED
    BY <1>1, <1>5, <2>1, <2>2
<1>7. QED
  BY <1>4, <1>6 DEF BranchOK, Branches, T

(* The loop rests, or goes on to load.                                     *)
LEMMA RestIs ==
  ASSUME BranchOK(branch'), context' = <<>>, loaded' = 0, plan' = NoPlan, loop' # "compacting"
  PROVE  ShapeInv'
<1>1. <<>> \in Seq(MessageUpTo(Len(branch'))) /\ Paired(<<>>)
  BY NothingIs
<1>2. Paired(context')
  BY <1>1
<1>3. 0 \in 0..Len(branch')
  BY BranchLength
<1>4. plan'.mode \in Modes
  BY DEF NoPlan, Modes
<1>5. QED
  BY <1>1, <1>2, <1>3, <1>4 DEF ShapeInv, Paired, AnswersStay, CallsApart

LEMMA StayIs ==
  ASSUME ShapeInv, BranchOK(branch'), Len(branch) <= Len(branch'), UNCHANGED <<context, loaded, plan>>,
         loop' \in {loop, "final", "sent"}, loop = "compacting" => loop' = loop
  PROVE  ShapeInv'
<1>1. Len(branch) \in Nat /\ Len(branch') \in Nat
  BY BranchLength DEF ShapeInv
<1>2. context \in Seq(MessageUpTo(Len(branch')))
  BY <1>1, Grown DEF ShapeInv
<1>3. loaded \in 0..Len(branch')
  BY <1>1 DEF ShapeInv
<1>4. QED
  BY <1>2, <1>3 DEF ShapeInv

(* A compaction begins, at one of the cuts of what is in memory.           *)
LEMMA CompactIs ==
  ASSUME BranchOK(branch'), NEW ms \in Seq(MessageUpTo(Len(branch'))), Paired(ms), context' = ms,
         loaded' \in 0..Len(branch'), NEW extra, NEW overflow,
         NEW mode \in {"automatic", "overflow", "manual"},
         BeginCompaction(mode, ms, Cut(ms, extra, overflow), extra)
  PROVE  ShapeInv'
<1>1. Len(branch') \in Nat
  BY BranchLength
<1>2. Cut(ms, extra, overflow) # 0 /\ loop' = "compacting"
  BY DEF BeginCompaction
<1>3. Cut(ms, extra, overflow) \in 1 .. Len(ms) - 1
  BY <1>1, <1>2, CutIs
<1>4. PICK c \in {Cut(ms, extra, overflow)} \cup RebasedCuts(ms, extra) : plan' = [mode |-> mode, cut |-> c]
  BY DEF BeginCompaction
<1>5. c \in 1 .. Len(ms) - 1
  BY <1>3, <1>4 DEF RebasedCuts
<1>6. plan'.mode \in Modes /\ plan' # NoPlan /\ plan'.cut = c
  BY <1>4 DEF Modes, NoPlan
<1>7. QED
  BY <1>2, <1>5, <1>6 DEF ShapeInv, Paired, AnswersStay, CallsApart

LEMMA OverflowIs ==
  ASSUME ShapeInv, BranchOK(branch'), Len(branch) <= Len(branch'), NEW extra, Overflow(extra)
  PROVE  ShapeInv'
<1>1. Len(branch) \in Nat /\ Len(branch') \in Nat
  BY BranchLength DEF ShapeInv
<1>2. context \in Seq(MessageUpTo(Len(branch'))) /\ Paired(context)
  BY <1>1, Grown DEF ShapeInv
<1>3. CASE Continue("idle")
  BY <1>3, RestIs DEF Continue
<1>4. CASE /\ BeginCompaction("overflow", context, Cut(context, extra, TRUE), extra)
           /\ UNCHANGED <<tries, context, loaded>>
  <2>1. loaded' \in 0..Len(branch')
    BY <1>1, <1>4 DEF ShapeInv
  <2>2. QED
    BY <1>2, <1>4, <2>1, CompactIs
<1>5. QED
  BY <1>3, <1>4 DEF Overflow

(* What is added to the branch, but for a summary.                         *)
LEMMA LogsAre ==
  ASSUME BranchOK(branch)
  PROVE  /\ \A type \in Types : Log(type, 1, 0, {}) =>
              BranchOK(branch') /\ Len(branch) <= Len(branch')
         /\ \A size \in ToolSizes : Log("tool", size, Len(branch), {}) => BranchOK(branch')
<1>1. Len(branch) \in Nat /\ 0 \in 0..Len(branch) /\ Len(branch) \in 0..Len(branch)
      /\ {} \in SUBSET (1..Len(branch)) /\ 1 \in Nat
  BY BranchLength
<1>2. ASSUME NEW type \in Types, Log(type, 1, 0, {})
      PROVE  BranchOK(branch') /\ Len(branch) <= Len(branch')
  <2>1. BranchOK(branch') /\ Len(branch') = Len(branch) + 1
    BY <1>1, <1>2, LogIs
  <2>2. QED
    BY <1>1, <2>1
<1>3. ASSUME NEW size \in ToolSizes, Log("tool", size, Len(branch), {}) PROVE BranchOK(branch')
  <2>1. size \in Nat /\ "tool" \in Types
    BY ContextAssumption DEF Types
  <2>2. QED
    BY <1>1, <1>3, <2>1, LogIs
<1>4. QED
  BY <1>2, <1>3

LEMMA NavigateIs == ASSUME ShapeInv, Navigate PROVE ShapeInv'
<1>1. /\ BranchOK(branch) /\ Len(branch) \in Nat /\ DOMAIN branch = 1..Len(branch)
      /\ branch \in Branches
  BY BranchLength DEF ShapeInv, BranchOK
<1>2. PICK n \in 1 .. Len(branch) - 1 : branch' = SubSeq(branch, 1, n)
  BY DEF Navigate
<1>3. loop' = "idle" /\ context' = <<>> /\ loaded' = 0 /\ plan' = NoPlan
  BY DEF Navigate, ShapeInv
<1> DEFINE T == [type : Types, size : Nat, of : Nat, about : SUBSET Nat]
<1>4. n \in Nat /\ 1 <= n /\ \A p \in 1..n : p \in DOMAIN branch /\ branch[p] \in T
  <2>1. \A p \in DOMAIN branch : branch[p] \in T
    BY <1>1, ElementOfSeq DEF Branches
  <2> HIDE DEF T
  <2>2. \A p \in 1..n : p \in DOMAIN branch
    BY <1>1, <1>2
  <2>3. QED
    BY <1>2, <2>1, <2>2
<1> HIDE DEF T
<1>5. /\ branch' \in Seq(T) /\ Len(branch') = n - 1 + 1
      /\ \A p \in 1 .. n - 1 + 1 : branch'[p] = branch[1 + p - 1]
  BY <1>2, <1>4, SubSeqProperties
<1>6. Len(branch') = n /\ \A p \in 1..n : branch'[p] = branch[p]
  <2>1. n - 1 + 1 = n /\ \A p \in 1..n : 1 + p - 1 = p
    BY <1>4
  <2>2. QED
    BY <1>5, <2>1
<1>7. DOMAIN branch' = 1..n
  BY <1>5, <1>6, LenProperties
<1>8. BranchOK(branch')
  BY <1>1, <1>4, <1>5, <1>6, <1>7 DEF BranchOK, Branches, T
<1>9. QED
  BY <1>3, <1>8, RestIs

LEMMA LoadIs == ASSUME ShapeInv, Load PROVE ShapeInv'
<1> DEFINE ms == LoadContext(branch)
           n == Len(branch)
           overflow == Tokens(ms) > MaxInput
           cut == IF Tokens(ms) <= Target THEN 0 ELSE Cut(ms, 0, overflow)
<1>1. BranchOK(branch) /\ branch' = branch /\ loop = "load" /\ plan = NoPlan /\ n \in Nat /\ n \in 0..n
  BY BranchLength DEF Load, ShapeInv
<1>2. ms \in Seq(MessageUpTo(n)) /\ Paired(ms)
  BY <1>1, LoadedIs
<1>3. Elided(ms) \in Seq(MessageUpTo(n)) /\ Paired(Elided(ms))
  BY <1>1, <1>2, ElidedIs
<1>4. \/ cut # 0 /\ context' = ms /\ loaded' = n /\ BeginCompaction("automatic", ms, cut, 0)
      \/ context' = ms /\ loaded' = n /\ loop' = "final" /\ UNCHANGED plan
      \/ context' = Elided(ms) /\ loaded' = n /\ loop' = "final" /\ UNCHANGED plan
      \/ Continue("idle")
  BY DEF Load
<1> HIDE DEF ms
<1>5. ASSUME NEW q \in Seq(MessageUpTo(n)), Paired(q), context' = q, loaded' = n, loop' = "final",
             UNCHANGED plan
      PROVE  ShapeInv'
  BY <1>1, <1>5 DEF ShapeInv, NoPlan, Modes, Paired, AnswersStay, CallsApart
<1>6. CASE cut # 0 /\ context' = ms /\ loaded' = n /\ BeginCompaction("automatic", ms, cut, 0)
  <2>1. BeginCompaction("automatic", ms, Cut(ms, 0, overflow), 0)
    BY <1>6
  <2> HIDE DEF cut, overflow
  <2>2. QED
    BY <1>1, <1>2, <1>6, <2>1, CompactIs
<1>7. CASE Continue("idle")
  BY <1>1, <1>7, RestIs DEF Continue
<1>8. QED
  BY <1>2, <1>3, <1>4, <1>5, <1>6, <1>7

LEMMA CompactNowIs == ASSUME ShapeInv, CompactNow PROVE ShapeInv'
<1> DEFINE ms == LoadContext(branch)
           n == Len(branch)
<1>1. BranchOK(branch) /\ branch' = branch /\ n \in Nat /\ n \in 0..n
  BY BranchLength DEF CompactNow, ShapeInv
<1>2. ms \in Seq(MessageUpTo(n)) /\ Paired(ms)
  BY <1>1, LoadedIs
<1>3. PICK overflow \in {TRUE, Tokens(ms) > MaxInput} :
        BeginCompaction("manual", ms, Cut(ms, 0, overflow), 0)
  BY DEF CompactNow
<1>4. context' = ms /\ loaded' = n
  BY DEF CompactNow
<1> HIDE DEF ms
<1>5. QED
  BY <1>1, <1>2, <1>3, <1>4, CompactIs

LEMMA FinishIs == ASSUME ShapeInv, FinishCompaction PROVE ShapeInv'
<1> DEFINE n == Len(branch)
           source == SubSeq(context, 1, plan.cut)
           kept == Beyond(context, plan.cut)
           seen == {source[i].at : i \in DOMAIN source}
           about == seen \cup UNION {branch[p].about : p \in seen}
           summary(size) == <<Message("compaction", n + 1, size, kept[1].at)>> \o kept
<1>1. /\ BranchOK(branch) /\ n \in Nat /\ DOMAIN branch = 1..n
      /\ \A p \in 1..n : branch[p].about \subseteq 1 .. p - 1
  BY BranchLength DEF ShapeInv, BranchOK
<1>2. /\ context \in Seq(MessageUpTo(n)) /\ CallsApart(context)
      /\ plan.cut \in 1 .. Len(context) - 1
  BY DEF ShapeInv, FinishCompaction, Paired
<1>3. Len(context) \in Nat /\ \A i \in 1..Len(context) : context[i] \in MessageUpTo(n)
  BY <1>2, LenProperties, ElementOfSeq
<1>4. seen \subseteq 1..n
  <2>1. \A i \in 1..plan.cut : context[i] \in MessageUpTo(n)
    BY <1>2, <1>3
  <2>2. source \in Seq(MessageUpTo(n))
    BY <1>2, <1>3, <2>1, SubSeqProperties
  <2> HIDE DEF source
  <2>3. \A i \in DOMAIN source : source[i] \in MessageUpTo(n)
    BY <2>2, LenProperties, ElementOfSeq
  <2>4. QED
    BY <2>3 DEF MessageUpTo
<1>5. about \in SUBSET (1..n)
  <2> HIDE DEF seen
  <2>1. ASSUME NEW p \in seen PROVE branch[p].about \subseteq 1..n
    <3>1. p \in 1..n /\ branch[p].about \subseteq 1 .. p - 1
      BY <1>1, <1>4
    <3>2. 1 .. p - 1 \subseteq 1..n
      BY <1>1, <3>1
    <3>3. QED
      BY <3>1, <3>2
  <2>2. QED
    BY <1>4, <2>1
<1>6. kept[1].at \in 0..n
  <2>1. plan.cut \in 0..Len(context) /\ 1 \in 1..Len(context) - plan.cut
    BY <1>2, <1>3
  <2>2. kept[1] = context[plan.cut + 1]
    BY <1>2, <2>1, BeyondIs
  <2>3. plan.cut + 1 \in 1..Len(context)
    BY <1>2, <1>3
  <2>4. context[plan.cut + 1] \in MessageUpTo(n)
    BY <1>3, <2>3
  <2>5. QED
    BY <2>2, <2>4 DEF MessageUpTo
<1>7. PICK size \in 1..MaxSummary :
        /\ Log("compaction", size, kept[1].at, about)
        /\ IF plan.mode = "automatic"
           THEN context' = Projected(summary(size)) /\ loop' = "final" /\ plan' = NoPlan /\ UNCHANGED loaded
           ELSE Continue(IF plan.mode = "overflow" THEN "load" ELSE "idle")
  BY DEF FinishCompaction
<1>8. size \in Nat
  BY <1>7, ContextAssumption
<1> HIDE DEF about, seen, source
<1>9. BranchOK(branch') /\ Len(branch') = n + 1
  <2>1. "compaction" \in Types
    BY DEF Types
  <2> HIDE DEF kept
  <2>2. QED
    BY <1>1, <1>5, <1>6, <1>7, <1>8, <2>1, LogIs
<1>10. CASE plan.mode = "automatic"
  <2>1. summary(size) \in Seq(MessageUpTo(n + 1)) /\ CallsApart(summary(size))
    <3> HIDE DEF n
    <3>1. QED
      BY <1>1, <1>2, <1>8, SummaryIs
  <2>2. context' = Projected(summary(size)) /\ loop' = "final" /\ plan' = NoPlan /\ loaded' = loaded
    BY <1>7, <1>10
  <2> DEFINE s == summary(size)
  <2> HIDE DEF s
  <2>3. Projected(s) \in Seq(MessageUpTo(n + 1)) /\ Paired(Projected(s))
    <3>1. n + 1 \in Nat /\ s \in Seq(MessageUpTo(n + 1)) /\ CallsApart(s)
      BY <1>1, <2>1 DEF s
    <3>2. QED
      BY <3>1, ProjectedIs
  <2>4. context' \in Seq(MessageUpTo(Len(branch'))) /\ Paired(context')
    BY <1>9, <2>2, <2>3 DEF s
  <2>5. loaded' \in 0..Len(branch')
    <3>1. loaded \in 0..n
      BY DEF ShapeInv
    <3>2. QED
      BY <1>1, <1>9, <2>2, <3>1
  <2>6. plan'.mode \in Modes
    BY <2>2 DEF NoPlan, Modes
  <2>7. QED
    BY <1>9, <2>2, <2>4, <2>5, <2>6 DEF ShapeInv, Paired, AnswersStay, CallsApart
<1>11. CASE plan.mode # "automatic"
  <2>1. PICK at \in {"load", "idle"} : Continue(at)
    BY <1>7, <1>11
  <2>2. QED
    BY <1>9, <2>1, RestIs DEF Continue
<1>12. QED
  BY <1>10, <1>11

LEMMA ShapeStep == ASSUME ShapeInv, [ContextNext]_contextVars PROVE ShapeInv'
<1> DEFINE Still == UNCHANGED <<context, loaded, plan>>
<1>1. BranchOK(branch) /\ Len(branch) \in Nat /\ Len(branch) <= Len(branch)
  BY BranchLength DEF ShapeInv
<1>2. ASSUME NEW type \in Types, Log(type, 1, 0, {})
      PROVE  BranchOK(branch') /\ Len(branch) <= Len(branch')
  BY <1>1, <1>2, LogsAre
<1>3. "user" \in Types /\ "note" \in Types /\ "assistant" \in Types /\ "call" \in Types /\ "lost" \in Types
  BY DEF Types
<1>4. ASSUME NEW at \in {"idle", "load", "tools"}, Continue(at), BranchOK(branch') PROVE ShapeInv'
  BY <1>4, RestIs DEF Continue
<1>5. CASE BeginRun
  <2>1. Continue("load") /\ (Log("user", 1, 0, {}) \/ UNCHANGED branch)
    BY <1>5 DEF BeginRun
  <2>2. BranchOK(branch')
    BY <1>1, <1>2, <1>3, <2>1
  <2>3. QED
    BY <1>4, <2>1, <2>2
<1>6. CASE DeliverMessage
  <2>1. Log("user", 1, 0, {}) /\ Still /\ loop' = loop
    BY <1>6 DEF DeliverMessage
  <2>2. BranchOK(branch') /\ Len(branch) <= Len(branch')
    BY <1>2, <1>3, <2>1
  <2>3. QED
    BY <2>1, <2>2, StayIs
<1>7. CASE AddNote
  <2>1. Log("note", 1, 0, {}) /\ Still /\ loop' = loop
    BY <1>7 DEF AddNote
  <2>2. BranchOK(branch') /\ Len(branch) <= Len(branch')
    BY <1>2, <1>3, <2>1
  <2>3. QED
    BY <2>1, <2>2, StayIs
<1>8. CASE Send
  <2>1. UNCHANGED branch
    BY <1>8 DEF Send
  <2>2. \/ loop' = "sent" /\ loop = "final" /\ Still
        \/ \E extra \in {0, Extra} : Overflow(extra)
    BY <1>8 DEF Send
  <2>3. CASE loop' = "sent" /\ loop = "final" /\ Still
    BY <1>1, <2>1, <2>3, StayIs
  <2>4. CASE \E extra \in {0, Extra} : Overflow(extra)
    BY <1>1, <2>1, <2>4, OverflowIs
  <2>5. QED
    BY <2>2, <2>3, <2>4
<1>9. CASE Respond
  <2>1. PICK type \in {"assistant", "call"}, at \in {"idle", "load", "tools"} :
          Log(type, 1, 0, {}) /\ Continue(at)
    BY <1>9 DEF Respond
  <2>2. QED
    BY <1>2, <1>3, <1>4, <2>1
<1>10. CASE ReportOverflow
  <2>1. Overflow(0) /\ (UNCHANGED branch \/ Log("lost", 1, 0, {}))
    BY <1>10 DEF ReportOverflow
  <2>2. BranchOK(branch') /\ Len(branch) <= Len(branch')
    BY <1>1, <1>2, <1>3, <2>1
  <2>3. QED
    BY <2>1, <2>2, OverflowIs
<1>11. CASE LoseAnswer
  <2>1. Log("lost", 1, 0, {})
    BY <1>11 DEF LoseAnswer
  <2>2. BranchOK(branch') /\ Len(branch) <= Len(branch')
    BY <1>2, <1>3, <2>1
  <2>3. CASE Continue("idle")
    BY <1>4, <2>2, <2>3
  <2>4. CASE UNCHANGED <<context, loaded, loop, plan>>
    <3>1. Still /\ loop' = loop
      BY <2>4
    <3>2. QED
      BY <2>2, <3>1, StayIs
  <2>5. QED
    BY <1>11, <2>3, <2>4 DEF LoseAnswer
<1>12. CASE ReturnResults
  <2>1. BranchOK(branch') /\ Continue("load")
    BY <1>1, <1>12, LogsAre DEF ReturnResults
  <2>2. QED
    BY <1>4, <2>1
<1>13. CASE FailCompaction
  <2>1. UNCHANGED branch /\ loop = "compacting"
    BY <1>13 DEF FailCompaction
  <2>2. CASE Continue("idle")
    BY <1>1, <1>4, <2>1, <2>2
  <2>3. CASE loop' = "final" /\ plan' = NoPlan /\ UNCHANGED <<context, loaded>>
    <3>1. context' \in Seq(MessageUpTo(Len(branch'))) /\ loaded' \in 0..Len(branch')
      BY <2>1, <2>3 DEF ShapeInv
    <3>2. Paired(context')
      BY <2>3 DEF ShapeInv
    <3>3. plan'.mode \in Modes
      BY <2>3 DEF NoPlan, Modes
    <3>4. QED
      BY <1>1, <2>1, <2>3, <3>1, <3>2, <3>3 DEF ShapeInv, Paired, AnswersStay, CallsApart
  <2>4. QED
    BY <1>13, <2>2, <2>3 DEF FailCompaction
<1>14. CASE StopRun
  <2>1. Continue("idle") /\ UNCHANGED branch
    BY <1>14 DEF StopRun
  <2>2. QED
    BY <1>1, <1>4, <2>1
<1>15. CASE UNCHANGED contextVars
  <2>1. UNCHANGED branch /\ Still /\ loop' = loop
    BY <1>15 DEF contextVars
  <2>2. BranchOK(branch') /\ Len(branch) <= Len(branch')
    BY <1>1, <2>1
  <2>3. QED
    BY <2>1, <2>2, StayIs
<1>16. QED
  BY <1>5, <1>6, <1>7, <1>8, <1>9, <1>10, <1>11, <1>12, <1>13, <1>14, <1>15,
     NavigateIs, CompactNowIs, LoadIs, FinishIs DEF ContextNext

LEMMA ShapeInvariant == ContextSpec => []ShapeInv
<1>1. ContextInit => ShapeInv
  <2>1. SUFFICES ASSUME ContextInit PROVE ShapeInv
    OBVIOUS
  <2>2. /\ branch = <<>> /\ context = <<>> /\ loaded = 0 /\ loop = "idle" /\ plan = NoPlan
    BY <2>1 DEF ContextInit
  <2>3. BranchOK(<<>>) /\ Len(<<>>) = 0 /\ 0 \in 0..0
    BY EmptySeq DEF BranchOK, Branches
  <2>4. <<>> \in Seq(MessageUpTo(0)) /\ Paired(<<>>)
    BY NothingIs
  <2>5. plan.mode \in Modes
    BY <2>2 DEF NoPlan, Modes
  <2>6. QED
    BY <2>2, <2>3, <2>4, <2>5 DEF ShapeInv
<1>2. QED
  BY <1>1, ShapeStep, PTL DEF ContextSpec

(* After an overflow, the cut of any messages that may be sent is the      *)
(* first one from the recent boundary on that keeps calls with their       *)
(* results and fits, by whichever of the two searches of compaction.ts it  *)
(* is found; and a compaction is refused only if no cut is such.           *)
THEOREM OverflowCutIsFirstHolds == ContextSpec => []OverflowCutIsFirst
<1>1. ShapeInv => OverflowCutIsFirst
  <2>1. SUFFICES ASSUME ShapeInv, NEW extra \in {0, Extra}
                 PROVE  LET cut  == Cut(context, extra, TRUE)
                            good == Fitting(context, extra)
                        IN  /\ cut = 0 <=> good = {}
                            /\ cut # 0 => cut = Min({c \in good : c >= Boundary(context)})
    BY DEF OverflowCutIsFirst, Fitting
  <2>2. Len(branch) \in Nat /\ context \in Seq(MessageUpTo(Len(branch))) /\ Paired(context)
    BY <2>1, BranchLength DEF ShapeInv
  <2>3. extra \in Nat
    BY <2>1, ContextAssumption
  <2>4. QED
    BY <2>2, <2>3, FirstCut
<1>2. QED
  BY <1>1, ShapeInvariant, PTL

(* The variables keep their shape: above all, a compaction under way cuts  *)
(* between two messages, and what is in memory is of entries there are.    *)
THEOREM ContextTypeCorrect == ContextSpec => []ContextTypeOK
<1>1. CountInv /\ ShapeInv => ContextTypeOK
  <2>1. SUFFICES ASSUME CountInv, ShapeInv PROVE ContextTypeOK
    OBVIOUS
  <2>2. ASSUME NEW p \in DOMAIN branch
        PROVE  /\ branch[p].type \in Types /\ branch[p].size \in Nat /\ branch[p].of \in 0 .. p - 1
               /\ branch[p].about \subseteq 1 .. p - 1
    BY <2>1, BranchIs DEF ShapeInv, BranchOK
  <2>3. ASSUME NEW i \in DOMAIN context
        PROVE  context[i].at \in DOMAIN branch /\ context[i].size \in Nat
    <3>1. context[i] \in MessageUpTo(Len(branch))
      BY <2>1, LenProperties, ElementOfSeq DEF ShapeInv
    <3>2. DOMAIN branch = 1..Len(branch)
      BY <2>1, BranchLength DEF ShapeInv
    <3>3. QED
      BY <3>1, <3>2 DEF MessageUpTo
  <2>4. QED
    BY <2>1, <2>2, <2>3 DEF ContextTypeOK, CountInv, ShapeInv, Modes
<1>2. QED
  BY <1>1, CountInvariant, ShapeInvariant, PTL

-----------------------------------------------------------------------------
(* What a branch gives.                                                    *)

(* A result is right after its call, and a call has one right after it.    *)
AfterCalls(ms)  == \A j \in DOMAIN ms : IsResult(ms[j]) => j # 1 /\ AnswersIn(ms, j - 1, j)
AllAnswered(ms) == \A i \in Calls(ms) : i + 1 \in DOMAIN ms /\ AnswersIn(ms, i, i + 1)

(* Such messages are projected to themselves.                              *)
LEMMA RepairedIs ==
  ASSUME NEW T, NEW ms \in Seq(T), AfterCalls(ms)
  PROVE  RepairToolBlocks(ms) = ms
<1> DEFINE K == {j \in DOMAIN ms :
                   IsResult(ms[j]) => \E i \in DOMAIN ms : SameTurn(ms, i, j) /\ AnswersIn(ms, i, j)}
<1>1. Len(ms) \in Nat /\ DOMAIN ms = 1..Len(ms)
  BY LenProperties
<1>2. ASSUME NEW j \in DOMAIN ms, IsResult(ms[j])
      PROVE  \E i \in DOMAIN ms : SameTurn(ms, i, j) /\ AnswersIn(ms, i, j)
  <2>1. j - 1 \in DOMAIN ms /\ AnswersIn(ms, j - 1, j) /\ j - 1 <= j
    BY <1>1, <1>2 DEF AfterCalls
  <2>2. \A k \in j - 1 + 1 .. j : k = j
    BY <1>1
  <2>3. ~Begins(ms, j)
    BY <1>2 DEF AfterCalls, Begins, IsUser, IsResult
  <2>4. SameTurn(ms, j - 1, j)
    BY <2>1, <2>2, <2>3 DEF SameTurn
  <2>5. QED
    BY <2>1, <2>4
<1>3. K = DOMAIN ms
  BY <1>2
<1>4. RepairToolBlocks(ms) = Picked(ms, K)
  BY DEF RepairToolBlocks
<1>5. QED
  BY <1>3, <1>4, PickedAll

LEMMA CompleteIs ==
  ASSUME NEW T, NEW ms \in Seq(T), AllAnswered(ms)
  PROVE  FillMissingToolResults(ms) = ms
<1> DEFINE f == FillMissingToolResults(ms)
           n == Len(ms)
           even == [i \in 1..n |-> 2 * i]
<1>1. n \in Nat /\ DOMAIN ms = 1..n
  BY LenProperties
<1>2. ASSUME NEW i \in DOMAIN ms PROVE ~Unanswered(ms, i)
  <2>1. SUFFICES ASSUME ms[i].type = "call"
                 PROVE  \E j \in i + 1 .. Len(ms) :
                          AnswersIn(ms, i, j) /\ \A k \in i + 1 .. j : IsResult(ms[k])
    BY DEF Unanswered
  <2>2. i + 1 \in i + 1 .. Len(ms) /\ AnswersIn(ms, i, i + 1)
    BY <1>1, <2>1 DEF AllAnswered, Calls
  <2>3. \A k \in i + 1 .. i + 1 : k = i + 1
    BY <1>1
  <2>4. IsResult(ms[i + 1])
    BY <2>2 DEF AnswersIn
  <2>5. QED
    BY <2>2, <2>3, <2>4
<1>3. f \in Seq(T) /\ \E N, place : FilledAt(f, ms, N, place)
  BY <1>2, FilledIs
<1>4. \A i \in 1..n : even[i] = 2 * i
  OBVIOUS
<1> HIDE DEF f, n, even
<1>5. PICK N, place : FilledAt(f, ms, N, place)
  BY <1>3
<1>6. /\ N \in Nat /\ DOMAIN f = 1..N
      /\ \A j \in 1..N : place[j] \in Nat
      /\ \A i, j \in 1..N : i < j <=> place[i] < place[j]
      /\ \A j \in 1..N : \E i \in 1..n : place[j] = 2 * i /\ f[j] = ms[i]
      /\ \A i \in 1..n : \E j \in 1..N : place[j] = 2 * i
  BY <1>1, <1>2, <1>5 DEF FilledAt
<1>7. RisesIn(N, place, n, even)
  BY <1>4, <1>6 DEF RisesIn
<1>8. RisesIn(n, even, N, place)
  BY <1>1, <1>4, <1>6 DEF RisesIn
<1>9. N = n /\ \A j \in 1..N : place[j] = even[j]
  BY <1>1, <1>6, <1>7, <1>8, SameListing
<1>10. \A j \in 1..N : f[j] = ms[j]
  <2>1. SUFFICES ASSUME NEW j \in 1..N PROVE f[j] = ms[j]
    OBVIOUS
  <2>2. PICK i \in 1..n : place[j] = 2 * i /\ f[j] = ms[i]
    BY <1>6
  <2>3. i = j
    BY <1>1, <1>4, <1>6, <1>9, <2>2
  <2>4. QED
    BY <2>2, <2>3
<1>11. Len(f) = N
  BY <1>3, <1>6, LenProperties
<1>12. f = ms
  BY <1>3, <1>9, <1>10, <1>11, SeqEqual DEF n
<1>13. QED
  BY <1>12 DEF f

(* A branch as sessions make them: a result is right after its call; and a *)
(* summary knows what is before the entries it keeps, which do not begin   *)
(* with a result.                                                          *)
ResultsInPlace(b) ==
  \A p \in DOMAIN b : b[p].type = "tool" => p # 1 /\ b[p].of = p - 1 /\ b[p - 1].type = "call"

SummariesKnow(b) ==
  \A c \in DOMAIN b : b[c].type = "compaction" =>
    /\ b[c].of # 0 /\ b[b[c].of].type # "tool"
    /\ \A p \in 1 .. b[c].of - 1 : b[p].type \in {"lost", "compaction"} \/ p \in b[c].about

BranchWhole(b) == BranchOK(b) /\ ResultsInPlace(b) /\ SummariesKnow(b)

Answered(b, p) == p + 1 \in DOMAIN b /\ b[p + 1].type = "tool"

(* With a result, its call is shown, and with a call its result.           *)
LEMMA ShownTogether ==
  ASSUME NEW b, BranchWhole(b), NEW p \in DOMAIN b
  PROVE  /\ b[p].type = "tool" /\ Shown(b, p) =>
              p - 1 \in DOMAIN b /\ Shown(b, p - 1) /\ b[p - 1].type = "call" /\ b[p].of = p - 1
         /\ Shown(b, p) /\ Answered(b, p) => Shown(b, p + 1) /\ b[p + 1].of = p
<1> DEFINE c == LatestCompaction(b)
<1>1. /\ b \in Branches /\ Len(b) \in Nat /\ DOMAIN b = 1..Len(b)
      /\ c \in 0..Len(b)
      /\ c # 0 => b[c].type = "compaction"
  BY BranchIs, LatestCompactionIs DEF BranchWhole, BranchOK
<1>2. c # 0 => c \in DOMAIN b /\ b[c].of \in Nat /\ b[b[c].of].type # "tool"
  BY <1>1, BranchIs DEF BranchWhole, SummariesKnow
<1> HIDE DEF c
<1>3. ASSUME b[p].type = "tool", Shown(b, p)
      PROVE  p - 1 \in DOMAIN b /\ Shown(b, p - 1) /\ b[p - 1].type = "call" /\ b[p].of = p - 1
  <2>1. p - 1 \in DOMAIN b /\ b[p - 1].type = "call" /\ b[p].of = p - 1
    BY <1>1, <1>3 DEF BranchWhole, ResultsInPlace
  <2>2. c # 0 => b[c].of <= p - 1
    BY <1>1, <1>2, <1>3 DEF Shown, c
  <2>3. QED
    BY <2>1, <2>2 DEF Shown, c
<1>4. ASSUME Shown(b, p), Answered(b, p) PROVE Shown(b, p + 1) /\ b[p + 1].of = p
  <2>1. b[p + 1].of = p
    BY <1>1, <1>4 DEF BranchWhole, ResultsInPlace, Answered
  <2>2. c # 0 => b[c].of <= p + 1
    BY <1>1, <1>2, <1>4 DEF Shown, c
  <2>3. QED
    BY <1>4, <2>1, <2>2 DEF Shown, Answered, c
<1>5. QED
  BY <1>3, <1>4

(* Of messages in order, one that is next in the order is next.            *)
LEMMA NextIs ==
  ASSUME NEW T, NEW ms \in Seq(T), Sorted(ms), \A k \in DOMAIN ms : Key(ms[k]) \in Nat,
         NEW i \in DOMAIN ms, NEW j \in DOMAIN ms, Key(ms[i]) < Key(ms[j]),
         \A k \in DOMAIN ms : ~(Key(ms[i]) < Key(ms[k]) /\ Key(ms[k]) < Key(ms[j]))
  PROVE  j = i + 1
<1>1. Len(ms) \in Nat /\ DOMAIN ms = 1..Len(ms)
  BY LenProperties
<1>2. i < j
  BY <1>1 DEF Sorted
<1>3. ~(i + 1 < j)
  <2>1. SUFFICES ASSUME i + 1 < j PROVE FALSE
    OBVIOUS
  <2>2. i + 1 \in DOMAIN ms /\ i < i + 1
    BY <1>1, <2>1
  <2>3. QED
    BY <2>1, <2>2 DEF Sorted
<1>4. QED
  BY <1>1, <1>2, <1>3

LEMMA KeysAre ==
  ASSUME NEW n \in Nat, NEW ms \in Seq(MessageUpTo(n))
  PROVE  \A i \in DOMAIN ms : /\ ms[i] \in MessageUpTo(n) /\ ms[i].at \in 1..n
                              /\ ms[i].type \in Types \cup {"missing"} /\ Key(ms[i]) \in Nat
<1>1. ASSUME NEW i \in DOMAIN ms PROVE ms[i] \in MessageUpTo(n)
  BY LenProperties, ElementOfSeq
<1>2. ASSUME NEW m \in MessageUpTo(n)
      PROVE  m.at \in 1..n /\ m.type \in Types \cup {"missing"} /\ Key(m) \in Nat
  <2>1. m.at \in 1..n /\ m.type \in Types \cup {"missing"}
    BY DEF MessageUpTo
  <2>2. QED
    BY <2>1 DEF Key
<1>3. QED
  BY <1>1, <1>2

LEMMA ReplayedAfterCalls ==
  ASSUME NEW b, BranchWhole(b), NEW ms \in Seq(MessageUpTo(Len(b))), Replays(ms, b)
  PROVE  AfterCalls(ms)
<1>1. Len(b) \in Nat /\ DOMAIN b = 1..Len(b) /\ BranchOK(b) /\ b \in Branches
  BY BranchIs DEF BranchWhole, BranchOK
<1>2. \A i \in DOMAIN ms : ms[i].at \in DOMAIN b /\ Key(ms[i]) \in Nat
  BY <1>1, KeysAre
<1>3. SUFFICES ASSUME NEW j \in DOMAIN ms, IsResult(ms[j]) PROVE j # 1 /\ AnswersIn(ms, j - 1, j)
  BY DEF AfterCalls
<1> DEFINE p == ms[j].at
<1>4. p \in DOMAIN b /\ ms[j] = MessageOf(b, p) /\ (Summary(b, p) \/ Shown(b, p))
  BY <1>2 DEF Replays
<1> HIDE DEF p
<1>5. b[p].type = "tool" /\ ms[j].of = b[p].of /\ Key(ms[j]) = 2 * p
  <2>1. ms[j].type = b[p].type /\ ms[j].of = b[p].of /\ b[p].type # "missing"
    BY <1>1, <1>4, MessageOfIs, BranchIs DEF Types
  <2>2. b[p].type = "tool"
    BY <1>3, <2>1 DEF IsResult
  <2>3. QED
    BY <1>1, <1>4, <2>1, <2>2, MessageOfIs
<1>6. Shown(b, p)
  <2>1. Summary(b, p) => b[p].type = "compaction"
    BY <1>1, LatestCompactionIs DEF Summary
  <2>2. QED
    BY <1>4, <1>5, <2>1
<1>7. p - 1 \in DOMAIN b /\ Shown(b, p - 1) /\ b[p - 1].type = "call" /\ b[p].of = p - 1
  BY <1>4, <1>5, <1>6, ShownTogether
<1>8. PICK i \in DOMAIN ms : ms[i] = MessageOf(b, p - 1)
  BY <1>7 DEF Replays
<1>9. ms[i].type = "call" /\ ms[i].at = p - 1 /\ Key(ms[i]) = 2 * (p - 1)
  BY <1>1, <1>7, <1>8, MessageOfIs
<1>10. \A k \in DOMAIN ms : ~(Key(ms[i]) < Key(ms[k]) /\ Key(ms[k]) < Key(ms[j]))
  <2>1. SUFFICES ASSUME NEW k \in DOMAIN ms, Key(ms[i]) < Key(ms[k]), Key(ms[k]) < Key(ms[j]) PROVE FALSE
    OBVIOUS
  <2>2. Key(ms[k]) = 0 \/ Key(ms[k]) = 2 * ms[k].at
    <3>1. ms[k] = MessageOf(b, ms[k].at)
      BY DEF Replays
    <3>2. QED
      BY <1>1, <1>2, <3>1, MessageOfIs
  <2>3. QED
    BY <1>1, <1>2, <1>4, <1>5, <1>9, <2>1, <2>2
<1>11. j = i + 1
  <2>1. Key(ms[i]) < Key(ms[j])
    BY <1>1, <1>4, <1>5, <1>9
  <2>2. QED
    BY <1>2, <1>10, <2>1, NextIs DEF Replays
<1>12. i \in Nat /\ i # 0
  BY <1>8, LenProperties
<1>13. j - 1 = i /\ j # 1
  BY <1>11, <1>12
<1>14. QED
  BY <1>3, <1>5, <1>7, <1>9, <1>13 DEF AnswersIn

(* What a branch gives to a context: the summary, what is shown, and       *)
(* answers for calls without one.                                          *)
Gives(b, type, at) ==
  \/ type = "compaction" /\ Summary(b, at)
  \/ type # "missing" /\ Shown(b, at) /\ type = b[at].type
  \/ type = "missing" /\ Shown(b, at) /\ b[at].type = "call" /\ ~Answered(b, at)

(* Results name the entry of their call.                                   *)
NamesCall(m) ==
  /\ m.type = "tool" => m.of = m.at - 1
  /\ m.type = "missing" => m.of = m.at

(* The messages are what the branch gives of its first n entries, in       *)
(* order, whatever their sizes are.                                        *)
Told(b, n, type, at) == Gives(b, type, at) /\ (at <= n \/ type = "compaction")

Gathers(ms, b, n) ==
  /\ Sorted(ms)
  /\ \A i \in DOMAIN ms : NamesCall(ms[i]) /\ Told(b, n, ms[i].type, ms[i].at)
  /\ \A type \in Types \cup {"missing"}, at \in DOMAIN b : Told(b, n, type, at) =>
       \E i \in DOMAIN ms : ms[i].type = type /\ ms[i].at = at

(* A call has a result in the context where it has one in the branch.      *)
LEMMA UnansweredIs ==
  ASSUME NEW b, BranchWhole(b), NEW ms \in Seq(MessageUpTo(Len(b))), Replays(ms, b),
         NEW i \in DOMAIN ms
  PROVE  Unanswered(ms, i) <=> ms[i].type = "call" /\ ~Answered(b, ms[i].at)
<1> DEFINE p == ms[i].at
<1>1. Len(b) \in Nat /\ DOMAIN b = 1..Len(b) /\ BranchOK(b) /\ b \in Branches
  BY BranchIs DEF BranchWhole, BranchOK
<1>2. /\ Len(ms) \in Nat /\ DOMAIN ms = 1..Len(ms)
      /\ \A j \in DOMAIN ms : ms[j].at \in DOMAIN b /\ Key(ms[j]) \in Nat
  BY <1>1, KeysAre, LenProperties
<1>3. \A j \in DOMAIN ms : LET q == ms[j].at IN
        /\ ms[j].type = b[q].type /\ ms[j].of = b[q].of /\ b[q].type \in Types
        /\ Key(ms[j]) = IF b[q].type = "compaction" THEN 0 ELSE 2 * q
        /\ Summary(b, q) \/ Shown(b, q)
  <2>1. SUFFICES ASSUME NEW j \in DOMAIN ms
                 PROVE  LET q == ms[j].at IN
                        /\ ms[j].type = b[q].type /\ ms[j].of = b[q].of /\ b[q].type \in Types
                        /\ Key(ms[j]) = IF b[q].type = "compaction" THEN 0 ELSE 2 * q
                        /\ Summary(b, q) \/ Shown(b, q)
    OBVIOUS
  <2> DEFINE q == ms[j].at
  <2>2. q \in DOMAIN b /\ ms[j] = MessageOf(b, q) /\ (Summary(b, q) \/ Shown(b, q))
    BY <1>2 DEF Replays
  <2> HIDE DEF q
  <2>3. /\ MessageOf(b, q).type = b[q].type /\ MessageOf(b, q).of = b[q].of
        /\ Key(MessageOf(b, q)) = IF b[q].type = "compaction" THEN 0 ELSE 2 * q
    BY <1>1, <2>2, MessageOfIs
  <2>4. b[q].type \in Types
    BY <1>1, <2>2, BranchIs
  <2>5. QED
    BY <2>2, <2>3, <2>4 DEF q
<1>4. SUFFICES ASSUME ms[i].type = "call" PROVE Unanswered(ms, i) <=> ~Answered(b, p)
  BY DEF Unanswered
<1>5. p \in DOMAIN b /\ b[p].type = "call" /\ Shown(b, p) /\ Key(ms[i]) = 2 * p
  <2>1. Summary(b, p) => b[p].type = "compaction"
    BY <1>1, LatestCompactionIs DEF Summary
  <2>2. QED
    BY <1>2, <1>3, <1>4, <2>1
<1> HIDE DEF p
<1>6. ASSUME Answered(b, p) PROVE ~Unanswered(ms, i)
  <2>1. Shown(b, p + 1) /\ b[p + 1].of = p /\ p + 1 \in DOMAIN b /\ b[p + 1].type = "tool"
    BY <1>5, <1>6, ShownTogether DEF Answered
  <2>2. PICK j \in DOMAIN ms : ms[j] = MessageOf(b, p + 1)
    BY <2>1 DEF Replays
  <2>3. ms[j].type = "tool" /\ ms[j].of = p
    BY <1>1, <2>1, <2>2, MessageOfIs
  <2>4. j # 1 /\ AnswersIn(ms, j - 1, j)
    BY <2>3, ReplayedAfterCalls DEF AfterCalls, IsResult
  <2>5. j - 1 \in DOMAIN ms /\ ms[j - 1].type = "call" /\ ms[j - 1].at = p
    BY <1>2, <2>3, <2>4 DEF AnswersIn
  <2>6. i = j - 1
    <3>1. PICK h \in DOMAIN ms : h = j - 1
      BY <2>5
    <3>2. Key(ms[h]) = Key(ms[i]) /\ Key(ms[i]) \in Nat
      BY <1>2, <1>4, <2>5, <3>1 DEF Key, p
    <3>3. ~(i < h) /\ ~(h < i)
      BY <3>2 DEF Replays, Sorted
    <3>4. QED
      BY <1>2, <3>1, <3>3
  <2>7. j \in i + 1 .. Len(ms) /\ \A k \in i + 1 .. j : k = j
    BY <1>2, <2>6
  <2>8. QED
    BY <2>4, <2>6, <2>7 DEF Unanswered, AnswersIn
<1>7. ASSUME ~Unanswered(ms, i) PROVE Answered(b, p)
  <2>1. PICK j \in i + 1 .. Len(ms) : AnswersIn(ms, i, j)
    BY <1>4, <1>7 DEF Unanswered
  <2>2. j \in DOMAIN ms
    BY <1>2, <2>1
  <2> DEFINE q == ms[j].at
  <2>3. q \in DOMAIN b /\ b[q].type = "tool" /\ b[q].of = p
    BY <1>2, <1>3, <2>1, <2>2 DEF AnswersIn, IsResult, Types, p
  <2> HIDE DEF q
  <2>4. q = p + 1
    BY <1>1, <1>5, <2>3 DEF BranchWhole, ResultsInPlace
  <2>5. QED
    BY <2>3, <2>4 DEF Answered
<1>8. QED
  BY <1>6, <1>7

(* A branch loaded gives all it has.                                       *)
LEMMA LoadHolds ==
  ASSUME NEW b, BranchWhole(b)
  PROVE  Gathers(LoadContext(b), b, Len(b))
<1> DEFINE ms == Replayable(b)
           f == FillMissingToolResults(ms)
<1>1. Len(b) \in Nat /\ DOMAIN b = 1..Len(b) /\ BranchOK(b) /\ b \in Branches
  BY BranchIs DEF BranchWhole, BranchOK
<1>2. ms \in Seq(MessageUpTo(Len(b))) /\ Replays(ms, b)
  BY <1>1, ReplayableIs
<1> HIDE DEF ms
<1>3. RepairToolBlocks(ms) = ms
  BY <1>2, ReplayedAfterCalls, RepairedIs
<1>4. LoadContext(b) = f
  BY <1>3 DEF LoadContext, Projected, ms
<1>5. /\ Len(ms) \in Nat /\ DOMAIN ms = 1..Len(ms)
      /\ \A i \in DOMAIN ms : ms[i].at \in DOMAIN b /\ Key(ms[i]) \in Nat
  BY <1>1, <1>2, KeysAre, LenProperties
(* What is replayed, as it is given.                                       *)
<1>6. ASSUME NEW i \in DOMAIN ms
      PROVE  /\ Key(ms[i]) = 0 \/ Key(ms[i]) = 2 * ms[i].at
             /\ NamesCall(ms[i]) /\ ms[i].type # "missing"
             /\ Gives(b, ms[i].type, ms[i].at)
  <2> DEFINE p == ms[i].at
  <2>1. p \in DOMAIN b /\ ms[i] = MessageOf(b, p) /\ (Summary(b, p) \/ Shown(b, p))
    BY <1>2, <1>5 DEF Replays
  <2> HIDE DEF p
  <2>2. /\ ms[i].type = b[p].type /\ ms[i].of = b[p].of
        /\ Key(ms[i]) = IF b[p].type = "compaction" THEN 0 ELSE 2 * p
    BY <1>1, <2>1, MessageOfIs
  <2>3. b[p].type # "missing"
    BY <1>1, <2>1, BranchIs DEF Types
  <2>4. b[p].type = "tool" => b[p].of = p - 1
    BY <2>1 DEF BranchWhole, ResultsInPlace
  <2>5. Summary(b, p) => b[p].type = "compaction"
    BY <1>1, LatestCompactionIs DEF Summary
  <2>6. QED
    BY <2>1, <2>2, <2>3, <2>4, <2>5 DEF NamesCall, Gives, p
<1>7. \A i \in DOMAIN ms : Unanswered(ms, i) <=> ms[i].type = "call" /\ ~Answered(b, ms[i].at)
  BY <1>2, UnansweredIs
<1>8. ASSUME NEW i \in DOMAIN ms, Unanswered(ms, i)
      PROVE  /\ MadeUp(ms[i]) \in MessageUpTo(Len(b))
             /\ MadeUp(ms[i]).type = "missing" /\ MadeUp(ms[i]).at = ms[i].at
             /\ NamesCall(MadeUp(ms[i])) /\ Key(MadeUp(ms[i])) = Key(ms[i]) + 1
             /\ Gives(b, "missing", ms[i].at)
  <2>1. ms[i].at \in 1..Len(b)
    BY <1>1, <1>5
  <2>2. /\ MadeUp(ms[i]) \in MessageUpTo(Len(b))
        /\ MadeUp(ms[i]).type = "missing" /\ MadeUp(ms[i]).at = ms[i].at /\ MadeUp(ms[i]).of = ms[i].at
    BY <1>1, <2>1, MissingIs DEF MadeUp
  <2>3. ms[i].type = "call" /\ ~Answered(b, ms[i].at)
    BY <1>7, <1>8
  <2>4. Key(ms[i]) = 2 * ms[i].at /\ Key(MadeUp(ms[i])) = 2 * ms[i].at + 1
    BY <2>2, <2>3 DEF Key
  <2>5. Shown(b, ms[i].at) /\ b[ms[i].at].type = "call"
    BY <1>6, <2>3 DEF Gives
  <2>6. QED
    BY <2>2, <2>3, <2>4, <2>5 DEF NamesCall, Gives
<1>9. f \in Seq(MessageUpTo(Len(b))) /\ \E N, place : FilledAt(f, ms, N, place)
  BY <1>2, <1>8, FilledIs
<1> HIDE DEF f
<1>10. PICK N, place : FilledAt(f, ms, N, place)
  BY <1>9
<1>11. /\ N \in Nat /\ DOMAIN f = 1..N
       /\ \A i, j \in 1..N : i < j => place[i] < place[j]
       /\ \A j \in 1..N : \E i \in DOMAIN ms :
            \/ place[j] = 2 * i /\ f[j] = ms[i]
            \/ place[j] = 2 * i + 1 /\ Unanswered(ms, i) /\ f[j] = MadeUp(ms[i])
       /\ \A i \in DOMAIN ms : \E j \in 1..N : f[j] = ms[i]
       /\ \A i \in DOMAIN ms : Unanswered(ms, i) => \E j \in 1..N : f[j] = MadeUp(ms[i])
  BY <1>10 DEF FilledAt
<1>12. Sorted(f)
  <2>1. SUFFICES ASSUME NEW g \in 1..N, NEW h \in 1..N, g < h PROVE Key(f[g]) < Key(f[h])
    BY <1>11 DEF Sorted
  <2>2. place[g] < place[h]
    BY <1>11, <2>1
  <2>3. PICK i \in DOMAIN ms : \/ place[g] = 2 * i /\ Key(f[g]) = Key(ms[i])
                               \/ place[g] = 2 * i + 1 /\ Key(f[g]) = Key(ms[i]) + 1
    BY <1>8, <1>11
  <2>4. PICK j \in DOMAIN ms : \/ place[h] = 2 * j /\ Key(f[h]) = Key(ms[j])
                               \/ place[h] = 2 * j + 1 /\ Key(f[h]) = Key(ms[j]) + 1
    BY <1>8, <1>11
  <2>5. i \in Nat /\ j \in Nat /\ Key(ms[i]) \in Nat /\ Key(ms[j]) \in Nat
    BY <1>5
  <2>6. CASE i = j
    BY <2>2, <2>3, <2>4, <2>5, <2>6
  <2>7. CASE i < j
    <3>1. Key(ms[i]) < Key(ms[j])
      BY <1>2, <2>7 DEF Replays, Sorted
    <3>2. /\ Key(ms[i]) = 0 \/ Key(ms[i]) = 2 * ms[i].at
          /\ Key(ms[j]) = 0 \/ Key(ms[j]) = 2 * ms[j].at
          /\ ms[i].at \in Nat /\ ms[j].at \in Nat
      BY <1>1, <1>5, <1>6
    <3>3. Key(ms[i]) + 1 < Key(ms[j])
      BY <3>1, <3>2
    <3>4. QED
      BY <2>3, <2>4, <2>5, <3>1, <3>3
  <2>8. ~(j < i)
    BY <2>2, <2>3, <2>4, <2>5
  <2>9. QED
    BY <2>5, <2>6, <2>7, <2>8
<1>13. ASSUME NEW j \in DOMAIN f PROVE NamesCall(f[j]) /\ Told(b, Len(b), f[j].type, f[j].at)
  <2>1. PICK i \in DOMAIN ms : f[j] = ms[i] \/ (Unanswered(ms, i) /\ f[j] = MadeUp(ms[i]))
    BY <1>11
  <2>2. NamesCall(f[j]) /\ Gives(b, f[j].type, f[j].at) /\ f[j].at = ms[i].at
    BY <1>6, <1>8, <2>1
  <2>3. f[j].at <= Len(b)
    BY <1>1, <1>5, <2>2
  <2>4. QED
    BY <2>2, <2>3 DEF Told
<1>14. ASSUME NEW type, NEW p \in DOMAIN b, Gives(b, type, p)
       PROVE  \E j \in DOMAIN f : f[j].type = type /\ f[j].at = p
  <2>1. CASE Shown(b, p) /\ b[p].type = "call" /\ ~Answered(b, p) /\ type = "missing"
    <3>1. PICK i \in DOMAIN ms : ms[i] = MessageOf(b, p)
      BY <1>2, <2>1 DEF Replays
    <3>2. Unanswered(ms, i) /\ ms[i].at = p
      BY <1>1, <1>7, <2>1, <3>1, MessageOfIs
    <3>3. PICK j \in 1..N : f[j] = MadeUp(ms[i])
      BY <1>11, <3>2
    <3>4. MadeUp(ms[i]).type = "missing" /\ MadeUp(ms[i]).at = p
      BY <1>8, <3>2
    <3>5. QED
      BY <1>11, <2>1, <3>3, <3>4
  <2>2. CASE (Summary(b, p) \/ Shown(b, p)) /\ type = b[p].type
    <3>1. PICK i \in DOMAIN ms : ms[i] = MessageOf(b, p)
      BY <1>2, <2>2 DEF Replays
    <3>2. ms[i].type = type /\ ms[i].at = p
      BY <1>1, <2>2, <3>1, MessageOfIs
    <3>3. QED
      BY <1>11, <3>2
  <2>3. Summary(b, p) => b[p].type = "compaction"
    BY <1>1, LatestCompactionIs DEF Summary
  <2>4. QED
    BY <1>14, <2>1, <2>2, <2>3 DEF Gives
<1>15. Gathers(f, b, Len(b))
  BY <1>12, <1>13, <1>14 DEF Gathers, Told
<1>16. QED
  BY <1>4, <1>15

(* In what a branch gives, calls and results stand side by side.           *)
LEMMA HeldTogether ==
  ASSUME NEW b, BranchWhole(b), NEW ms \in Seq(MessageUpTo(Len(b))), NEW n \in Nat,
         Gathers(ms, b, n), ~Answered(b, n)
  PROVE  AfterCalls(ms) /\ AllAnswered(ms)
<1>1. Len(b) \in Nat /\ DOMAIN b = 1..Len(b) /\ BranchOK(b) /\ b \in Branches
  BY BranchIs DEF BranchWhole, BranchOK
<1>2. /\ Len(ms) \in Nat /\ DOMAIN ms = 1..Len(ms)
      /\ \A i \in DOMAIN ms : ms[i].at \in DOMAIN b /\ Key(ms[i]) \in Nat /\ ms[i].type \in Types \cup {"missing"}
  BY <1>1, KeysAre, LenProperties
<1>3. /\ Sorted(ms)
      /\ \A i \in DOMAIN ms : /\ NamesCall(ms[i]) /\ Gives(b, ms[i].type, ms[i].at)
                              /\ ms[i].at <= n \/ ms[i].type = "compaction"
      /\ \A type \in Types \cup {"missing"}, at \in DOMAIN b : Gives(b, type, at) /\ at <= n =>
           \E i \in DOMAIN ms : ms[i].type = type /\ ms[i].at = at
  BY DEF Gathers, Told
(* A result has its call before it.                                        *)
<1>4. ASSUME NEW j \in DOMAIN ms, IsResult(ms[j])
      PROVE  \E i \in DOMAIN ms : ms[i].type = "call" /\ ms[j].of = ms[i].at /\ j = i + 1
  <2> DEFINE p == ms[j].at
  <2>1. p \in DOMAIN b /\ Gives(b, ms[j].type, p) /\ p <= n /\ NamesCall(ms[j]) /\ ms[j].type \in {"tool", "missing"}
    BY <1>2, <1>3, <1>4 DEF IsResult
  <2> HIDE DEF p
  <2>2. CASE ms[j].type = "missing"
    <3>1. Shown(b, p) /\ b[p].type = "call" /\ ~Answered(b, p)
      BY <2>1, <2>2 DEF Gives
    <3>2. PICK i \in DOMAIN ms : ms[i].type = "call" /\ ms[i].at = p
      <4>1. Gives(b, "call", p) /\ "call" \in Types
        BY <3>1 DEF Gives, Types
      <4>2. QED
        BY <1>3, <2>1, <4>1
    <3>3. Key(ms[i]) = 2 * p /\ Key(ms[j]) = 2 * p + 1
      BY <2>2, <3>2 DEF Key, p
    <3>4. j = i + 1
      <4>1. Key(ms[i]) < Key(ms[j])
        BY <1>1, <2>1, <3>3
      <4>2. \A k \in DOMAIN ms : Key(ms[k]) \in Nat
        BY <1>2
      <4>3. \A k \in DOMAIN ms : ~(Key(ms[i]) < Key(ms[k]) /\ Key(ms[k]) < Key(ms[j]))
        BY <1>1, <2>1, <3>3, <4>2
      <4>4. QED
        BY <1>3, <4>1, <4>2, <4>3, NextIs
    <3>5. QED
      BY <2>1, <2>2, <3>2, <3>4 DEF NamesCall, p
  <2>3. CASE ms[j].type = "tool"
    <3>1. Shown(b, p) /\ b[p].type = "tool"
      BY <2>1, <2>3 DEF Gives
    <3>2. p - 1 \in DOMAIN b /\ Shown(b, p - 1) /\ b[p - 1].type = "call"
      BY <2>1, <3>1, ShownTogether
    <3>3. PICK i \in DOMAIN ms : ms[i].type = "call" /\ ms[i].at = p - 1
      <4>1. Gives(b, "call", p - 1) /\ "call" \in Types /\ p - 1 <= n
        BY <1>1, <2>1, <3>2 DEF Gives, Types
      <4>2. QED
        BY <1>3, <3>2, <4>1
    <3>4. Key(ms[i]) = 2 * (p - 1) /\ Key(ms[j]) = 2 * p
      BY <2>3, <3>3 DEF Key, p
    <3>5. \A k \in DOMAIN ms : ~(Key(ms[i]) < Key(ms[k]) /\ Key(ms[k]) < Key(ms[j]))
      <4>1. SUFFICES ASSUME NEW k \in DOMAIN ms, Key(ms[i]) < Key(ms[k]), Key(ms[k]) < Key(ms[j])
                     PROVE  FALSE
        OBVIOUS
      <4>2. ms[k].at \in DOMAIN b /\ Gives(b, ms[k].type, ms[k].at)
        BY <1>2, <1>3
      <4>3. Key(ms[k]) = 2 * p - 1
        BY <1>1, <1>2, <2>1, <3>4, <4>1
      <4>4. ms[k].type = "missing" /\ ms[k].at = p - 1
        BY <1>1, <2>1, <4>2, <4>3 DEF Key
      <4>5. ~Answered(b, p - 1)
        BY <4>2, <4>4 DEF Gives
      <4>6. QED
        BY <1>1, <2>1, <3>1, <4>5 DEF Answered
    <3>6. j = i + 1
      <4>1. Key(ms[i]) < Key(ms[j])
        BY <1>1, <2>1, <3>4
      <4>2. \A k \in DOMAIN ms : Key(ms[k]) \in Nat
        BY <1>2
      <4>3. QED
        BY <1>3, <3>5, <4>1, <4>2, NextIs
    <3>7. QED
      BY <2>1, <2>3, <3>3, <3>6 DEF NamesCall, p
  <2>4. QED
    BY <2>1, <2>2, <2>3
<1>5. AfterCalls(ms)
  <2>1. SUFFICES ASSUME NEW j \in DOMAIN ms, IsResult(ms[j]) PROVE j # 1 /\ AnswersIn(ms, j - 1, j)
    BY DEF AfterCalls
  <2>2. PICK i \in DOMAIN ms : ms[i].type = "call" /\ ms[j].of = ms[i].at /\ j = i + 1
    BY <1>4, <2>1
  <2>3. j - 1 = i /\ j # 1
    BY <1>2, <2>2
  <2>4. QED
    BY <2>1, <2>2, <2>3 DEF AnswersIn
(* A call has its result after it.                                         *)
<1>6. ASSUME NEW i \in DOMAIN ms, ms[i].type = "call"
      PROVE  \E j \in DOMAIN ms : IsResult(ms[j]) /\ ms[j].of = ms[i].at
  <2> DEFINE p == ms[i].at
  <2>1. p \in DOMAIN b /\ p <= n /\ Shown(b, p) /\ b[p].type = "call"
    BY <1>2, <1>3, <1>6 DEF Gives
  <2> HIDE DEF p
  <2>2. CASE Answered(b, p)
    <3>1. Shown(b, p + 1) /\ p + 1 \in DOMAIN b /\ b[p + 1].type = "tool"
      BY <2>1, <2>2, ShownTogether DEF Answered
    <3>2. p # n
      BY <2>2
    <3>3. Gives(b, "tool", p + 1) /\ "tool" \in Types /\ p + 1 <= n
      BY <1>1, <2>1, <3>1, <3>2 DEF Gives, Types
    <3>4. PICK j \in DOMAIN ms : ms[j].type = "tool" /\ ms[j].at = p + 1
      BY <1>3, <3>1, <3>3
    <3>5. ms[j].of = p
      BY <1>1, <1>3, <2>1, <3>4 DEF NamesCall
    <3>6. QED
      BY <3>4, <3>5 DEF IsResult, p
  <2>3. CASE ~Answered(b, p)
    <3>1. Gives(b, "missing", p)
      BY <2>1, <2>3 DEF Gives
    <3>2. PICK j \in DOMAIN ms : ms[j].type = "missing" /\ ms[j].at = p
      <4>1. "missing" \in Types \cup {"missing"}
        OBVIOUS
      <4>2. \A at \in DOMAIN b : Gives(b, "missing", at) /\ at <= n =>
              \E j \in DOMAIN ms : ms[j].type = "missing" /\ ms[j].at = at
        BY <1>3, <4>1
      <4>3. QED
        BY <2>1, <3>1, <4>2
    <3>3. QED
      BY <1>3, <3>2 DEF IsResult, NamesCall, p
  <2>4. QED
    BY <2>2, <2>3
<1>7. AllAnswered(ms)
  <2>1. SUFFICES ASSUME NEW i \in DOMAIN ms, ms[i].type = "call"
                 PROVE  i + 1 \in DOMAIN ms /\ AnswersIn(ms, i, i + 1)
    BY DEF AllAnswered, Calls
  <2>2. PICK j \in DOMAIN ms : IsResult(ms[j]) /\ ms[j].of = ms[i].at
    BY <1>6, <2>1
  <2>3. PICK h \in DOMAIN ms : ms[h].type = "call" /\ ms[j].of = ms[h].at /\ j = h + 1
    BY <1>4, <2>2
  <2>4. h = i
    <3>1. Key(ms[h]) = Key(ms[i])
      BY <2>1, <2>2, <2>3 DEF Key
    <3>2. ~(i < h) /\ ~(h < i)
      BY <1>2, <1>3, <3>1 DEF Sorted
    <3>3. QED
      BY <1>2, <3>2
  <2>5. QED
    BY <2>1, <2>2, <2>3, <2>4 DEF AnswersIn
<1>8. QED
  BY <1>5, <1>7

(* A cut that is chosen keeps calls with their results.                    *)
LEMMA CutIsSafe ==
  ASSUME NEW n \in Nat, NEW ms \in Seq(MessageUpTo(n)), Paired(ms), NEW extra, NEW overflow,
         Cut(ms, extra, overflow) # 0
  PROVE  SafeToolBoundary(ms, Cut(ms, extra, overflow))
<1> DEFINE b == Boundary(ms)
           later == LaterFittingBoundary(ms, b, extra)
           cuts == {c \in Fitting(ms, extra) : c > b}
<1>1. Len(ms) \in Nat /\ (b = 0 \/ GoodCut(ms, b))
  BY BoundaryIs, LenProperties
<1>2. b \in Nat
  BY <1>1 DEF GoodCut
<1>3. Cut(ms, extra, overflow) = b \/ Cut(ms, extra, overflow) = later
  BY DEF Cut
<1> HIDE DEF b
<1>4. later = IF cuts = {} THEN 0 ELSE Min(cuts)
  BY <1>2, LaterFittingIs
<1>5. cuts \in SUBSET Fitting(ms, extra)
  OBVIOUS
<1> HIDE DEF cuts
<1>6. cuts # {} => Min(cuts) \in cuts
  BY <1>1, <1>5, SomeFitting
<1>7. later # 0 => later \in Fitting(ms, extra)
  BY <1>4, <1>5, <1>6
<1> HIDE DEF later
<1>8. later # 0 => SafeToolBoundary(ms, later)
  BY <1>7 DEF Fitting
<1>9. b # 0 => SafeToolBoundary(ms, b)
  BY <1>1 DEF GoodCut
<1>10. QED
  BY <1>3, <1>8, <1>9

LEMMA SafeCompaction ==
  ASSUME NEW n \in Nat, NEW ms \in Seq(MessageUpTo(n)), Paired(ms), NEW extra, NEW overflow, NEW mode,
         BeginCompaction(mode, ms, Cut(ms, extra, overflow), extra)
  PROVE  loop' = "compacting" /\ SafeToolBoundary(ms, plan'.cut)
<1>1. Cut(ms, extra, overflow) # 0 /\ loop' = "compacting"
  BY DEF BeginCompaction
<1>2. PICK c \in {Cut(ms, extra, overflow)} \cup RebasedCuts(ms, extra) : plan' = [mode |-> mode, cut |-> c]
  BY DEF BeginCompaction
<1>3. SafeToolBoundary(ms, c)
  <2>1. CASE c = Cut(ms, extra, overflow)
    BY <1>1, <2>1, CutIsSafe
  <2>2. CASE c \in RebasedCuts(ms, extra)
    BY <2>2 DEF RebasedCuts
  <2>3. QED
    BY <1>2, <2>1, <2>2
<1>4. plan'.cut = c
  BY <1>2
<1>5. QED
  BY <1>1, <1>3, <1>4

(* Messages of the same entries, both in order, are at the same positions. *)
Matched(s, t) == \A i \in DOMAIN s : \E j \in DOMAIN t : t[j].type = s[i].type /\ t[j].at = s[i].at

LEMMA SamePositions ==
  ASSUME NEW T, NEW s \in Seq(T), NEW t \in Seq(T), Sorted(s), Sorted(t), Matched(s, t), Matched(t, s),
         \A i \in DOMAIN s : Key(s[i]) \in Nat, \A i \in DOMAIN t : Key(t[i]) \in Nat
  PROVE  Positions(s) = Positions(t)
<1> DEFINE m == Len(s)  n == Len(t)
           a == [i \in 1..m |-> Key(s[i])]
           b == [i \in 1..n |-> Key(t[i])]
<1>1. m \in Nat /\ DOMAIN s = 1..m /\ n \in Nat /\ DOMAIN t = 1..n
  BY LenProperties
<1>2. (\A i \in 1..m : a[i] = Key(s[i])) /\ (\A i \in 1..n : b[i] = Key(t[i]))
  OBVIOUS
<1> HIDE DEF m, n, a, b
<1>3. /\ \A i \in 1..m : \E j \in 1..n : t[j].type = s[i].type /\ t[j].at = s[i].at
      /\ \A j \in 1..n : \E i \in 1..m : s[i].type = t[j].type /\ s[i].at = t[j].at
  BY <1>1 DEF Matched
<1>4. \A i \in 1..m, j \in 1..n : t[j].type = s[i].type /\ t[j].at = s[i].at => Key(t[j]) = Key(s[i])
  BY DEF Key
<1>5. \A i \in 1..m : \E j \in 1..n : b[j] = a[i]
  BY <1>2, <1>3, <1>4
<1>6. \A j \in 1..n : \E i \in 1..m : a[i] = b[j]
  BY <1>2, <1>3, <1>4
<1>7. RisesIn(m, a, n, b)
  <2>1. \A i \in 1..m : a[i] \in Nat
    BY <1>1, <1>2
  <2>2. \A i, j \in 1..m : i < j => a[i] < a[j]
    BY <1>1, <1>2 DEF Sorted
  <2>3. QED
    BY <1>5, <2>1, <2>2 DEF RisesIn
<1>8. RisesIn(n, b, m, a)
  <2>1. \A i \in 1..n : b[i] \in Nat
    BY <1>1, <1>2
  <2>2. \A i, j \in 1..n : i < j => b[i] < b[j]
    BY <1>1, <1>2 DEF Sorted
  <2>3. QED
    BY <1>6, <2>1, <2>2 DEF RisesIn
<1>9. m = n /\ \A i \in 1..m : a[i] = b[i]
  BY <1>1, <1>7, <1>8, SameListing
<1>10. \A i \in 1..m : t[i].type = s[i].type /\ t[i].at = s[i].at
  <2>1. SUFFICES ASSUME NEW i \in 1..m PROVE t[i].type = s[i].type /\ t[i].at = s[i].at
    OBVIOUS
  <2>2. PICK j \in 1..n : t[j].type = s[i].type /\ t[j].at = s[i].at
    BY <1>3
  <2>3. Key(t[j]) = Key(t[i]) /\ Key(t[i]) \in Nat
    BY <1>1, <1>2, <1>4, <1>9, <2>2
  <2>4. ~(i < j) /\ ~(j < i)
    BY <1>1, <1>9, <2>3 DEF Sorted
  <2>5. i = j
    BY <1>1, <2>4
  <2>6. QED
    BY <2>2, <2>5
<1>11. QED
  BY <1>1, <1>9, <1>10 DEF Positions

(* What a branch gives of its first entries is told by those loaded.       *)
LEMMA SameAsLoaded ==
  ASSUME NEW b, BranchWhole(b), NEW ms \in Seq(MessageUpTo(Len(b))), NEW n \in 0..Len(b), Gathers(ms, b, n)
  PROVE  LET all == LoadContext(b)
         IN  Positions(ms) = Positions(Among(all, {m \in Items(all) : m.at <= n \/ m.type = "compaction"}))
<1> DEFINE all == LoadContext(b)
           S == {m \in Items(all) : m.at <= n \/ m.type = "compaction"}
           q == Among(all, S)
           T == MessageUpTo(Len(b))
<1>1. BranchOK(b) /\ Len(b) \in Nat /\ DOMAIN b = 1..Len(b) /\ n \in Nat /\ n <= Len(b)
  BY BranchLength DEF BranchWhole
<1>2. all \in Seq(T) /\ Gathers(all, b, Len(b))
  BY <1>1, LoadedIs, LoadHolds
<1> HIDE DEF all
<1>3. S \subseteq Items(all) /\ \A m \in Items(all) : m \in S <=> m.at <= n \/ m.type = "compaction"
  OBVIOUS
<1> HIDE DEF S
<1>4. /\ q \in Seq(T) /\ Items(q) = Items(all) \cap S
      /\ \E at \in [DOMAIN q -> DOMAIN all] :
           /\ \A i \in DOMAIN q : q[i] = all[at[i]]
           /\ \A i, j \in DOMAIN q : i < j <=> at[i] < at[j]
  BY <1>2, AmongIs
<1> HIDE DEF q
<1>5. Sorted(q) /\ \A i \in DOMAIN q : q[i] \in S
  <2>1. PICK at \in [DOMAIN q -> DOMAIN all] :
          /\ \A i \in DOMAIN q : q[i] = all[at[i]]
          /\ \A i, j \in DOMAIN q : i < j <=> at[i] < at[j]
    BY <1>4
  <2>2. \A i \in DOMAIN q : at[i] \in DOMAIN all
    BY <2>1
  <2>3. Sorted(all)
    BY <1>2 DEF Gathers
  <2>4. Sorted(q)
    BY <2>1, <2>2, <2>3 DEF Sorted
  <2>5. \A i \in DOMAIN q : q[i] \in S
    BY <1>4 DEF Items
  <2>6. QED
    BY <2>4, <2>5
<1>6. /\ \A i \in DOMAIN ms : /\ ms[i].at \in DOMAIN b /\ ms[i].type \in Types \cup {"missing"}
                              /\ Key(ms[i]) \in Nat
      /\ \A i \in DOMAIN all : /\ all[i].at \in DOMAIN b /\ all[i].type \in Types \cup {"missing"}
                               /\ Key(all[i]) \in Nat
      /\ \A i \in DOMAIN q : Key(q[i]) \in Nat
  <2> HIDE DEF T
  <2>1. \A i \in DOMAIN ms : ms[i].at \in DOMAIN b /\ ms[i].type \in Types \cup {"missing"} /\ Key(ms[i]) \in Nat
    BY <1>1, KeysAre
  <2>2. \A i \in DOMAIN all : all[i].at \in DOMAIN b /\ all[i].type \in Types \cup {"missing"} /\ Key(all[i]) \in Nat
    BY <1>1, <1>2, KeysAre DEF T
  <2>3. \A i \in DOMAIN q : Key(q[i]) \in Nat
    BY <1>1, <1>4, KeysAre DEF T
  <2>4. QED
    BY <2>1, <2>2, <2>3
<1>7. ASSUME NEW i \in DOMAIN ms PROVE \E j \in DOMAIN q : q[j].type = ms[i].type /\ q[j].at = ms[i].at
  <2>1. Told(b, n, ms[i].type, ms[i].at)
    BY DEF Gathers
  <2>2. Told(b, Len(b), ms[i].type, ms[i].at)
    BY <1>1, <1>6, <2>1 DEF Told
  <2>3. PICK j \in DOMAIN all : all[j].type = ms[i].type /\ all[j].at = ms[i].at
    <3>1. ms[i].type \in Types \cup {"missing"} /\ ms[i].at \in DOMAIN b
      BY <1>6
    <3>2. \A type \in Types \cup {"missing"}, at \in DOMAIN b : Told(b, Len(b), type, at) =>
            \E j \in DOMAIN all : all[j].type = type /\ all[j].at = at
      BY <1>2 DEF Gathers
    <3>3. QED
      BY <2>2, <3>1, <3>2
  <2>4. all[j] \in Items(all)
    BY DEF Items
  <2>5. all[j] \in S
    BY <1>3, <2>1, <2>3, <2>4 DEF Told
  <2>6. all[j] \in Items(q)
    BY <1>4, <2>4, <2>5
  <2>7. QED
    BY <2>3, <2>6 DEF Items
<1>8. ASSUME NEW i \in DOMAIN q PROVE \E j \in DOMAIN ms : ms[j].type = q[i].type /\ ms[j].at = q[i].at
  <2>1. PICK j \in DOMAIN all : all[j] = q[i]
    BY <1>3, <1>5 DEF Items
  <2>2. Told(b, Len(b), q[i].type, q[i].at)
    BY <1>2, <2>1 DEF Gathers
  <2>3. q[i].at <= n \/ q[i].type = "compaction"
    BY <1>3, <1>5
  <2>4. Told(b, n, q[i].type, q[i].at) /\ q[i].at \in DOMAIN b /\ q[i].type \in Types \cup {"missing"}
    BY <1>6, <2>1, <2>2, <2>3 DEF Told
  <2>5. QED
    BY <2>4 DEF Gathers
<1>9. Positions(ms) = Positions(q)
  <2>1. Matched(ms, q) /\ Matched(q, ms)
    BY <1>7, <1>8 DEF Matched
  <2>2. ms \in Seq(T)
    OBVIOUS
  <2> HIDE DEF T
  <2>3. Sorted(ms)
    BY DEF Gathers
  <2>4. QED
    BY <1>4, <1>5, <1>6, <2>1, <2>2, <2>3, SamePositions
<1>10. QED
  BY <1>9 DEF all, S, q

(* d is b with one more entry.                                             *)
Grew(b, d) == Len(d) = Len(b) + 1 /\ \A p \in 1..Len(b) : d[p] = b[p]

LEMMA GrewIs ==
  ASSUME NEW b, BranchWhole(b), NEW d, BranchOK(d), Grew(b, d)
  PROVE  /\ Len(b) \in Nat /\ DOMAIN b = 1..Len(b) /\ DOMAIN d = 1..Len(b) + 1
         /\ \A p \in DOMAIN b : p \in DOMAIN d /\ d[p] = b[p]
         /\ \A p \in DOMAIN d : p \in DOMAIN b \/ p = Len(b) + 1
         /\ \A p \in DOMAIN b : b[p].of \in 0 .. p - 1
<1>1. Len(b) \in Nat /\ DOMAIN b = 1..Len(b) /\ DOMAIN d = 1..Len(b) + 1
  BY BranchLength DEF BranchWhole, Grew
<1>2. \A p \in 1..Len(b) : d[p] = b[p]
  BY DEF Grew
<1>3. \A p \in DOMAIN b : b[p].of \in 0 .. p - 1
  BY DEF BranchWhole, BranchOK
<1>4. QED
  BY <1>1, <1>2, <1>3

(* What is kept of a branch, and what is added to it, leave it whole.      *)
LEMMA WholeBefore ==
  ASSUME NEW b, BranchWhole(b), NEW n \in 1..Len(b), NEW d, BranchOK(d), Len(d) = n,
         \A p \in 1..n : d[p] = b[p]
  PROVE  BranchWhole(d)
<1>1. /\ Len(b) \in Nat /\ DOMAIN b = 1..Len(b) /\ DOMAIN d = 1..n
      /\ \A p \in 1..n : d[p] = b[p] /\ p \in DOMAIN b /\ b[p].of \in 0 .. p - 1
  BY BranchLength DEF BranchWhole, BranchOK
<1>2. ResultsInPlace(d)
  BY <1>1 DEF BranchWhole, ResultsInPlace
<1>3. SummariesKnow(d)
  <2>1. SUFFICES ASSUME NEW c \in 1..n, d[c].type = "compaction"
                 PROVE  /\ d[c].of # 0 /\ d[d[c].of].type # "tool"
                        /\ \A p \in 1 .. d[c].of - 1 : d[p].type \in {"lost", "compaction"} \/ p \in d[c].about
    BY <1>1 DEF SummariesKnow
  <2>2. /\ b[c].of # 0 /\ b[b[c].of].type # "tool" /\ b[c].of \in 0 .. c - 1
        /\ \A p \in 1 .. b[c].of - 1 : b[p].type \in {"lost", "compaction"} \/ p \in b[c].about
    BY <1>1, <2>1 DEF BranchWhole, SummariesKnow
  <2>3. b[c].of \in 1..n /\ \A p \in 1 .. b[c].of - 1 : p \in 1..n
    BY <1>1, <2>2
  <2>4. QED
    BY <1>1, <2>2, <2>3
<1>4. QED
  BY <1>2, <1>3 DEF BranchWhole

LEMMA WholeGrown ==
  ASSUME NEW b, BranchWhole(b), NEW d, BranchOK(d), Grew(b, d),
         d[Len(b) + 1].type = "tool" =>
           Len(b) # 0 /\ d[Len(b) + 1].of = Len(b) /\ b[Len(b)].type = "call",
         LET e == d[Len(b) + 1] IN e.type = "compaction" =>
           /\ e.of # 0 /\ b[e.of].type # "tool"
           /\ \A p \in 1 .. e.of - 1 : b[p].type \in {"lost", "compaction"} \/ p \in e.about
  PROVE  BranchWhole(d)
<1> DEFINE n == Len(b)
           e == d[n + 1]
<1>1. /\ n \in Nat /\ DOMAIN b = 1..n /\ DOMAIN d = 1..n + 1
      /\ \A p \in 1..n : d[p] = b[p]
      /\ \A p \in 1..n + 1 : p \in 1..n \/ p = n + 1
      /\ \A p \in 1..n : b[p].of \in 0 .. p - 1
      /\ e.of \in 0..n
  <2>1. d[n + 1].of \in 0 .. n + 1 - 1 /\ n + 1 - 1 = n
    BY GrewIs DEF BranchOK
  <2>2. QED
    BY <2>1, GrewIs
<1>2. e.type = "tool" => n # 0 /\ e.of = n /\ b[n].type = "call"
  OBVIOUS
<1>3. e.type = "compaction" =>
        /\ e.of # 0 /\ b[e.of].type # "tool"
        /\ \A p \in 1 .. e.of - 1 : b[p].type \in {"lost", "compaction"} \/ p \in e.about
  OBVIOUS
<1>4. d[n + 1] = e
  OBVIOUS
<1> HIDE DEF n, e
<1>5. ResultsInPlace(d)
  <2>1. SUFFICES ASSUME NEW p \in 1..n + 1, d[p].type = "tool"
                 PROVE  p # 1 /\ d[p].of = p - 1 /\ d[p - 1].type = "call"
    BY <1>1 DEF ResultsInPlace
  <2>2. CASE p \in 1..n
    <3>1. p # 1 /\ b[p].of = p - 1 /\ b[p - 1].type = "call"
      BY <1>1, <2>1, <2>2 DEF BranchWhole, ResultsInPlace
    <3>2. p - 1 \in 1..n
      BY <1>1, <2>2, <3>1
    <3>3. QED
      BY <1>1, <2>2, <3>1, <3>2
  <2>3. CASE p = n + 1
    <3>1. p - 1 = n /\ n # 0 /\ n \in 1..n
      BY <1>1, <1>2, <1>4, <2>1, <2>3
    <3>2. QED
      BY <1>1, <1>2, <1>4, <2>1, <2>3, <3>1
  <2>4. QED
    BY <1>1, <2>2, <2>3
<1>6. SummariesKnow(d)
  <2>1. SUFFICES ASSUME NEW c \in 1..n + 1, d[c].type = "compaction"
                 PROVE  /\ d[c].of # 0 /\ d[d[c].of].type # "tool"
                        /\ \A p \in 1 .. d[c].of - 1 : d[p].type \in {"lost", "compaction"} \/ p \in d[c].about
    BY <1>1 DEF SummariesKnow
  <2>2. /\ d[c].of # 0 /\ b[d[c].of].type # "tool" /\ d[c].of \in 0..n
        /\ \A p \in 1 .. d[c].of - 1 : b[p].type \in {"lost", "compaction"} \/ p \in d[c].about
    <3>1. CASE c \in 1..n
      <4>1. /\ b[c].of # 0 /\ b[b[c].of].type # "tool"
            /\ \A p \in 1 .. b[c].of - 1 : b[p].type \in {"lost", "compaction"} \/ p \in b[c].about
        BY <1>1, <2>1, <3>1 DEF BranchWhole, SummariesKnow
      <4>2. b[c].of \in 0..n /\ d[c] = b[c]
        BY <1>1, <3>1
      <4>3. QED
        BY <4>1, <4>2
    <3>2. CASE c = n + 1
      BY <1>1, <1>3, <1>4, <2>1, <3>2
    <3>3. QED
      BY <1>1, <3>1, <3>2
  <2>3. d[c].of \in 1..n /\ \A p \in 1 .. d[c].of - 1 : p \in 1..n
    BY <1>1, <2>2
  <2>4. QED
    BY <1>1, <2>2, <2>3
<1>7. QED
  BY <1>5, <1>6 DEF BranchWhole

(* What a branch gives does not change when something else is added.       *)
LEMMA GivesStill ==
  ASSUME NEW b, BranchWhole(b), NEW d, BranchOK(d), Grew(b, d),
         d[Len(b) + 1].type \notin {"tool", "compaction"}
  PROVE  \A type, p : p \in DOMAIN b \/ type = "compaction" => (Gives(d, type, p) <=> Gives(b, type, p))
<1> DEFINE n == Len(b)
           c == LatestCompaction(b)
<1>1. /\ n \in Nat /\ DOMAIN b = 1..n /\ DOMAIN d = 1..n + 1
      /\ \A p \in 1..n : d[p] = b[p]
      /\ d[n + 1].type \notin {"tool", "compaction"}
  BY GrewIs
<1>2. b \in Branches /\ d \in Branches
  BY DEF BranchWhole, BranchOK
<1>3. /\ c \in 0..n /\ (c # 0 => b[c].type = "compaction")
      /\ \A p \in DOMAIN b : b[p].type = "compaction" => p <= c
  BY <1>2, LatestCompactionIs
<1>4. LatestCompaction(d) = c
  <2> DEFINE l == LatestCompaction(d)
  <2>1. /\ l \in 0..Len(d) /\ (l # 0 => d[l].type = "compaction")
        /\ \A p \in DOMAIN d : d[p].type = "compaction" => p <= l
    BY <1>2, LatestCompactionIs
  <2>2. Len(d) = n + 1
    BY DEF Grew
  <2> HIDE DEF l, n, c
  <2>3. l \in 0..n
    BY <1>1, <2>1, <2>2
  <2>4. l # 0 => l <= c
    BY <1>1, <1>3, <2>1, <2>3
  <2>5. c # 0 => c <= l
    BY <1>1, <1>3, <2>1
  <2>6. QED
    BY <1>1, <1>3, <2>3, <2>4, <2>5 DEF l
<1>5. \A p : Summary(d, p) <=> Summary(b, p)
  BY <1>4 DEF Summary
<1>6. c # 0 => d[c] = b[c]
  BY <1>1, <1>3
<1>7. \A p \in DOMAIN b : Shown(d, p) <=> Shown(b, p)
  BY <1>1, <1>4, <1>6 DEF Shown
<1>8. \A p \in DOMAIN b : Answered(d, p) <=> Answered(b, p)
  <2>1. SUFFICES ASSUME NEW p \in DOMAIN b PROVE Answered(d, p) <=> Answered(b, p)
    OBVIOUS
  <2>2. CASE p = n
    BY <1>1, <2>2 DEF Answered
  <2>3. CASE p # n
    <3>1. p + 1 \in 1..n
      BY <1>1, <2>3
    <3>2. p + 1 \in DOMAIN d /\ p + 1 \in DOMAIN b /\ d[p + 1] = b[p + 1]
      BY <1>1, <3>1
    <3>3. QED
      BY <3>2 DEF Answered
  <2>4. QED
    BY <2>2, <2>3
<1>9. \A p \in DOMAIN b : d[p] = b[p]
  BY <1>1
<1>10. \A p : ~(Shown(d, p) /\ d[p].type = "compaction") /\ ~(Shown(b, p) /\ b[p].type = "compaction")
  BY DEF Shown
<1>11. QED
  BY <1>5, <1>7, <1>8, <1>9, <1>10 DEF Gives

LEMMA HoldsStill ==
  ASSUME NEW b, BranchWhole(b), NEW d, BranchOK(d), Grew(b, d),
         d[Len(b) + 1].type \notin {"tool", "compaction"},
         NEW ms \in Seq(MessageUpTo(Len(b))), NEW n \in 0..Len(b), Gathers(ms, b, n)
  PROVE  Gathers(ms, d, n)
<1>1. /\ Len(b) \in Nat /\ DOMAIN b = 1..Len(b) /\ DOMAIN d = 1..Len(b) + 1
  BY GrewIs
<1>2. \A type, p : p \in DOMAIN b \/ type = "compaction" => (Gives(d, type, p) <=> Gives(b, type, p))
  BY GivesStill
<1>3. ASSUME NEW i \in DOMAIN ms PROVE NamesCall(ms[i]) /\ Told(d, n, ms[i].type, ms[i].at)
  <2>1. ms[i].at \in DOMAIN b
    BY <1>1, KeysAre
  <2>2. NamesCall(ms[i]) /\ Told(b, n, ms[i].type, ms[i].at)
    BY DEF Gathers
  <2>3. QED
    BY <1>2, <2>1, <2>2 DEF Told
<1>4. ASSUME NEW type \in Types \cup {"missing"}, NEW p \in DOMAIN d, Told(d, n, type, p)
      PROVE  \E i \in DOMAIN ms : ms[i].type = type /\ ms[i].at = p
  <2>1. Gives(d, type, p) /\ (p <= n \/ type = "compaction")
    BY <1>4 DEF Told
  <2>2. p <= n => p \in DOMAIN b
    BY <1>1
  <2>3. Gives(b, type, p)
    BY <1>2, <2>1, <2>2
  <2>4. Told(b, n, type, p)
    BY <2>1, <2>3 DEF Told
  <2>5. p \in DOMAIN b
    <3>1. CASE type = "compaction"
      <4>1. Summary(b, p)
        BY <2>3, <3>1 DEF Gives, Shown
      <4>2. LatestCompaction(b) \in 0..Len(b)
        BY LatestCompactionIs DEF BranchWhole, BranchOK
      <4>3. QED
        BY <1>1, <4>1, <4>2 DEF Summary
    <3>2. QED
      BY <2>1, <2>2, <3>1
  <2>6. \A t \in Types \cup {"missing"}, at \in DOMAIN b : Told(b, n, t, at) =>
          \E i \in DOMAIN ms : ms[i].type = t /\ ms[i].at = at
    BY DEF Gathers
  <2>7. QED
    BY <2>4, <2>5, <2>6
<1>5. Sorted(ms)
  BY DEF Gathers
<1>6. QED
  BY <1>3, <1>4, <1>5 DEF Gathers

(* To shorten results leaves what is told of them.                         *)
LEMMA ElidedHolds ==
  ASSUME NEW b, NEW n, NEW m \in Nat, NEW ms \in Seq(MessageUpTo(m)), Gathers(ms, b, n)
  PROVE  Gathers(Elided(ms), b, n)
<1> DEFINE es == Elided(ms)
<1>1. \A i \in DOMAIN ms : ms[i] \in MessageUpTo(m)
  BY LenProperties, ElementOfSeq
<1>2. es = [i \in DOMAIN ms |-> IF ms[i].type = "tool" /\ ms[i].size > BoundedSize
                                THEN [ms[i] EXCEPT !.size = BoundedSize] ELSE ms[i]]
  BY DEF Elided
<1> HIDE DEF es
<1>3. DOMAIN es = DOMAIN ms
  BY <1>2
<1>4. \A i \in DOMAIN ms : es[i].type = ms[i].type /\ es[i].at = ms[i].at /\ es[i].of = ms[i].of
  BY <1>1, <1>2 DEF MessageUpTo
<1>5. \A i \in DOMAIN ms : Key(es[i]) = Key(ms[i]) /\ (NamesCall(es[i]) <=> NamesCall(ms[i]))
  BY <1>4 DEF Key, NamesCall
<1>6. Sorted(es)
  BY <1>3, <1>5 DEF Gathers, Sorted
<1>7. \A i \in DOMAIN es : NamesCall(es[i]) /\ Told(b, n, es[i].type, es[i].at)
  BY <1>3, <1>4, <1>5 DEF Gathers
<1>8. ASSUME NEW type \in Types \cup {"missing"}, NEW at \in DOMAIN b, Told(b, n, type, at)
      PROVE  \E i \in DOMAIN es : es[i].type = type /\ es[i].at = at
  <2>1. \E i \in DOMAIN ms : ms[i].type = type /\ ms[i].at = at
    BY <1>8 DEF Gathers
  <2>2. QED
    BY <1>3, <1>4, <2>1
<1>9. QED
  BY <1>6, <1>7, <1>8 DEF Gathers, es

(* The entry added to b is the summary of the messages before a cut.       *)
SummaryMade(b, ms, cut, d) ==
  LET e == d[Len(b) + 1] IN
  /\ e.type = "compaction" /\ e.of = ms[cut + 1].at
  /\ \A i \in 1..cut : ms[i].at \in e.about /\ b[ms[i].at].about \subseteq e.about

(* The message after a cut is no result, and what comes before its entry   *)
(* is summarized now or was before.                                        *)
LEMMA CutBegins ==
  ASSUME NEW b, BranchWhole(b), NEW n \in 0..Len(b), NEW ms \in Seq(MessageUpTo(Len(b))), Gathers(ms, b, n),
         NEW cut \in 1..Len(ms) - 1, SafeToolBoundary(ms, cut),
         ms[cut + 1].type \in {"user", "assistant", "call", "tool"}
  PROVE  LET first == ms[cut + 1].at
         IN  /\ first \in DOMAIN b /\ first <= n /\ Shown(b, first) /\ b[first].type # "tool"
             /\ cut + 1 \in DOMAIN ms /\ Key(ms[cut + 1]) = 2 * first
             /\ \A p \in DOMAIN b : Shown(b, p) /\ p < first => \E i \in 1..cut : ms[i].at = p
             /\ \A p \in DOMAIN b : Summary(b, p) => \E i \in 1..cut : ms[i].at = p
<1> DEFINE k == cut + 1
           first == ms[k].at
<1>1. /\ Len(b) \in Nat /\ DOMAIN b = 1..Len(b) /\ n \in Nat
      /\ Len(ms) \in Nat /\ DOMAIN ms = 1..Len(ms)
      /\ \A i \in DOMAIN ms : ms[i].at \in DOMAIN b /\ Key(ms[i]) \in Nat
  <2>1. Len(b) \in Nat /\ DOMAIN b = 1..Len(b)
    BY BranchLength DEF BranchWhole
  <2>2. \A i \in DOMAIN ms : ms[i].at \in DOMAIN b /\ Key(ms[i]) \in Nat
    BY <2>1, KeysAre
  <2>3. QED
    BY <2>1, <2>2, LenProperties
<1>2. k \in DOMAIN ms /\ cut \in Nat /\ cut < k /\ \A i \in DOMAIN ms : i < k => i \in 1..cut
  BY <1>1
<1>3. ms[k].type \in {"user", "assistant", "call", "tool"}
  OBVIOUS
<1> HIDE DEF k
<1>4. NamesCall(ms[k]) /\ Told(b, n, ms[k].type, first)
  BY <1>2 DEF Gathers
<1>5. /\ first \in DOMAIN b /\ first <= n /\ Shown(b, first) /\ b[first].type = ms[k].type
      /\ Key(ms[k]) = 2 * first
  BY <1>1, <1>2, <1>3, <1>4 DEF Told, Gives, Key
<1>6. \A type \in Types \cup {"missing"}, at \in DOMAIN b : Told(b, n, type, at) =>
        \E i \in DOMAIN ms : ms[i].type = type /\ ms[i].at = at
  BY DEF Gathers
<1>7. Sorted(ms)
  BY DEF Gathers
<1> HIDE DEF first
<1>8. ASSUME NEW i \in DOMAIN ms, Key(ms[i]) < 2 * first PROVE i \in 1..cut
  <2>1. ~(k < i) /\ k # i
    BY <1>1, <1>2, <1>5, <1>7, <1>8 DEF Sorted
  <2>2. QED
    BY <1>1, <1>2, <2>1
<1>9. ASSUME NEW p \in DOMAIN b, Shown(b, p), p < first
      PROVE  \E i \in 1..cut : ms[i].at = p /\ ms[i].type = b[p].type
  <2>1. b[p].type \in Types /\ b[p].type # "missing" /\ b[p].type # "compaction"
    BY <1>9, BranchIs DEF BranchWhole, BranchOK, Shown, Types
  <2>2. p <= n
    BY <1>1, <1>5, <1>9
  <2>3. Told(b, n, b[p].type, p)
    BY <1>9, <2>1, <2>2 DEF Told, Gives
  <2>4. PICK i \in DOMAIN ms : ms[i].type = b[p].type /\ ms[i].at = p
    <3>1. PICK t \in Types \cup {"missing"} : t = b[p].type
      BY <2>1
    <3>2. Told(b, n, t, p)
      BY <2>3, <3>1
    <3>3. \E i \in DOMAIN ms : ms[i].type = t /\ ms[i].at = p
      BY <1>6, <3>2
    <3>4. QED
      BY <3>1, <3>3
  <2>5. Key(ms[i]) = 2 * p
    BY <2>1, <2>4 DEF Key
  <2>6. Key(ms[i]) < 2 * first
    BY <1>1, <1>5, <1>9, <2>5
  <2>7. QED
    BY <1>8, <2>4, <2>6
<1>10. ASSUME NEW p \in DOMAIN b, Summary(b, p) PROVE \E i \in 1..cut : ms[i].at = p
  <2>1. Told(b, n, "compaction", p)
    BY <1>10 DEF Told, Gives
  <2>2. "compaction" \in Types \cup {"missing"}
    BY DEF Types
  <2>3. PICK i \in DOMAIN ms : ms[i].type = "compaction" /\ ms[i].at = p
    BY <1>6, <2>1, <2>2
  <2>4. Key(ms[i]) = 0
    BY <2>3 DEF Key
  <2>5. Key(ms[i]) < 2 * first
    BY <1>1, <1>5, <2>4
  <2>6. QED
    BY <1>8, <2>3, <2>5
<1>11. ms[k].type # "tool"
  <2>1. SUFFICES ASSUME ms[k].type = "tool" PROVE FALSE
    OBVIOUS
  <2>2. first - 1 \in DOMAIN b /\ Shown(b, first - 1) /\ b[first - 1].type = "call"
    BY <1>5, <2>1, ShownTogether
  <2>3. PICK p \in DOMAIN b : p = first - 1
    BY <2>2
  <2>4. p < first /\ Shown(b, p) /\ b[p].type = "call"
    BY <1>1, <1>5, <2>2, <2>3
  <2>5. PICK i \in 1..cut : ms[i].at = p /\ ms[i].type = "call"
    <3>1. \E i \in 1..cut : ms[i].at = p /\ ms[i].type = b[p].type
      BY <1>9, <2>4
    <3>2. QED
      BY <2>4, <3>1
  <2>6. i \in Calls(ms)
    BY <1>1, <1>2, <2>5 DEF Calls
  <2>7. AnswersIn(ms, i, k)
    BY <1>4, <2>1, <2>3, <2>5 DEF AnswersIn, IsResult, NamesCall, first
  <2>8. k \in Result(ms, i)
    BY <1>2, <2>7 DEF Result
  <2>9. i <= cut <=> k <= cut
    BY <2>6, <2>8 DEF SafeToolBoundary
  <2>10. QED
    BY <1>2, <2>9
<1>12. QED
  BY <1>2, <1>5, <1>9, <1>10, <1>11 DEF first, k

LEMMA WholeWithSummary ==
  ASSUME NEW b, BranchWhole(b), NEW n \in 0..Len(b), NEW ms \in Seq(MessageUpTo(Len(b))), Gathers(ms, b, n),
         NEW cut \in 1..Len(ms) - 1, SafeToolBoundary(ms, cut),
         ms[cut + 1].type \in {"user", "assistant", "call", "tool"},
         NEW d, BranchOK(d), Grew(b, d), SummaryMade(b, ms, cut, d)
  PROVE  BranchWhole(d)
<1> DEFINE first == ms[cut + 1].at
           e == d[Len(b) + 1]
           c == LatestCompaction(b)
<1>1. Len(b) \in Nat /\ DOMAIN b = 1..Len(b) /\ b \in Branches
  BY BranchLength DEF BranchWhole, BranchOK
<1>2. /\ first \in DOMAIN b /\ b[first].type # "tool"
      /\ \A p \in DOMAIN b : Shown(b, p) /\ p < first => \E i \in 1..cut : ms[i].at = p
      /\ \A p \in DOMAIN b : Summary(b, p) => \E i \in 1..cut : ms[i].at = p
  BY CutBegins
<1>3. /\ e.type = "compaction" /\ e.of = first
      /\ \A i \in 1..cut : ms[i].at \in e.about /\ b[ms[i].at].about \subseteq e.about
  BY DEF SummaryMade
<1>4. c \in 0..Len(b) /\ (c # 0 => b[c].type = "compaction")
  BY <1>1, LatestCompactionIs
<1> HIDE DEF first, c
<1>5. ASSUME NEW p \in 1 .. first - 1 PROVE b[p].type \in {"lost", "compaction"} \/ p \in e.about
  <2>1. SUFFICES ASSUME b[p].type \notin {"lost", "compaction"} PROVE p \in e.about
    OBVIOUS
  <2>2. p \in DOMAIN b /\ p < first
    BY <1>1, <1>2
  <2>3. CASE Shown(b, p)
    <3>1. PICK i \in 1..cut : ms[i].at = p
      BY <1>2, <2>2, <2>3
    <3>2. QED
      BY <1>3, <3>1
  <2>4. CASE ~Shown(b, p)
    <3>1. c # 0 /\ ~(b[c].of <= p)
      BY <2>1, <2>2, <2>4 DEF Shown, c
    <3>2. c \in DOMAIN b /\ b[c].of \in Nat
      BY <1>1, <1>4, <3>1, BranchIs
    <3>3. p \in 1 .. b[c].of - 1
      BY <1>1, <2>2, <3>1, <3>2
    <3>4. p \in b[c].about
      BY <1>4, <2>1, <3>1, <3>2, <3>3 DEF BranchWhole, SummariesKnow
    <3>5. PICK i \in 1..cut : ms[i].at = c
      BY <1>2, <3>1, <3>2 DEF Summary, c
    <3>6. b[c].about \subseteq e.about
      BY <1>3, <3>5
    <3>7. QED
      BY <3>4, <3>6
  <2>5. QED
    BY <2>3, <2>4
<1>6. first # 0
  BY <1>1, <1>2
<1> HIDE DEF e
<1>7. e.type # "tool"
  BY <1>3
<1>8. /\ e.type = "tool" => Len(b) # 0 /\ e.of = Len(b) /\ b[Len(b)].type = "call"
      /\ e.type = "compaction" =>
           /\ e.of # 0 /\ b[e.of].type # "tool"
           /\ \A p \in 1 .. e.of - 1 : b[p].type \in {"lost", "compaction"} \/ p \in e.about
  BY <1>2, <1>3, <1>5, <1>6, <1>7
<1>9. QED
  BY <1>8, WholeGrown DEF e

(* The summary and the messages kept are what the branch gives now.        *)
LEMMA HoldsWithSummary ==
  ASSUME NEW b, BranchWhole(b), NEW n \in 0..Len(b), NEW ms \in Seq(MessageUpTo(Len(b))), Gathers(ms, b, n),
         NEW cut \in 1..Len(ms) - 1, SafeToolBoundary(ms, cut),
         ms[cut + 1].type \in {"user", "assistant", "call", "tool"},
         NEW d, BranchOK(d), Grew(b, d), SummaryMade(b, ms, cut, d),
         NEW new, DOMAIN new = 1 .. Len(ms) - cut + 1,
         new[1].type = "compaction", new[1].at = Len(b) + 1,
         \A j \in 2 .. Len(ms) - cut + 1 : new[j] = ms[cut + j - 1]
  PROVE  Gathers(new, d, n)
<1> DEFINE first == ms[cut + 1].at
           l == Len(b)
           c == LatestCompaction(b)
           N == Len(ms) - cut + 1
<1>1. /\ l \in Nat /\ DOMAIN b = 1..l /\ DOMAIN d = 1..l + 1 /\ n \in Nat /\ n <= l
      /\ \A p \in DOMAIN b : d[p] = b[p]
      /\ b \in Branches /\ d \in Branches
  <2>1. b \in Branches /\ d \in Branches
    BY DEF BranchWhole, BranchOK
  <2>2. /\ l \in Nat /\ DOMAIN b = 1..l /\ DOMAIN d = 1..l + 1
        /\ \A p \in DOMAIN b : d[p] = b[p]
    BY GrewIs
  <2>3. QED
    BY <2>1, <2>2
<1>2. /\ Len(ms) \in Nat /\ DOMAIN ms = 1..Len(ms) /\ cut \in Nat
      /\ \A i \in DOMAIN ms : ms[i].at \in DOMAIN b /\ Key(ms[i]) \in Nat
  <2>1. \A i \in DOMAIN ms : ms[i].at \in DOMAIN b /\ Key(ms[i]) \in Nat
    BY <1>1, KeysAre
  <2>2. QED
    BY <2>1, LenProperties
<1>3. /\ first \in DOMAIN b /\ Shown(b, first) /\ cut + 1 \in DOMAIN ms /\ Key(ms[cut + 1]) = 2 * first
  BY CutBegins
<1>4. d[l + 1].type = "compaction" /\ d[l + 1].of = first
  BY DEF SummaryMade
<1>5. LatestCompaction(d) = l + 1
  <2> DEFINE m == LatestCompaction(d)
  <2>1. /\ m \in 0..Len(d) /\ \A p \in DOMAIN d : d[p].type = "compaction" => p <= m
    BY <1>1, LatestCompactionIs
  <2>2. Len(d) = l + 1
    BY DEF Grew
  <2> HIDE DEF m, l
  <2>3. m \in 0..l + 1 /\ l + 1 <= m
    BY <1>1, <1>4, <2>1, <2>2
  <2>4. QED
    BY <1>1, <2>3 DEF m
<1>6. c \in 0..l
  BY <1>1, LatestCompactionIs
<1>7. c # 0 => c \in DOMAIN b /\ b[c].of \in Nat /\ b[c].of <= first
  BY <1>1, <1>3, <1>6, BranchIs DEF Shown
<1>8. /\ Sorted(ms)
      /\ \A i \in DOMAIN ms : NamesCall(ms[i]) /\ Told(b, n, ms[i].type, ms[i].at)
      /\ \A type \in Types \cup {"missing"}, at \in DOMAIN b : Told(b, n, type, at) =>
           \E i \in DOMAIN ms : ms[i].type = type /\ ms[i].at = at
  BY DEF Gathers
<1>9. N \in Nat /\ DOMAIN new = 1..N /\ \A j \in 2..N : cut + j - 1 \in DOMAIN ms /\ cut + 1 <= cut + j - 1
  BY <1>2
<1>10. new[1].type = "compaction" /\ new[1].at = l + 1 /\ \A j \in 2..N : new[j] = ms[cut + j - 1]
  OBVIOUS
<1>11. \A j \in DOMAIN new : j = 1 \/ j \in 2..N
  BY <1>9
<1> HIDE DEF first, c, N, l
<1>12. ASSUME NEW p \in DOMAIN b
       PROVE  /\ Shown(d, p) <=> Shown(b, p) /\ first <= p
              /\ Answered(d, p) <=> Answered(b, p)
  <2>1. Shown(d, p) <=> b[p].type \notin {"lost", "compaction"} /\ first <= p
    BY <1>1, <1>4, <1>5 DEF Shown
  <2>2. first <= p => (c # 0 => b[c].of <= p)
    BY <1>1, <1>3, <1>7
  <2>3. Shown(d, p) <=> Shown(b, p) /\ first <= p
    BY <2>1, <2>2 DEF Shown, c
  <2>4. CASE p = l
    <3>1. ~(p + 1 \in DOMAIN b) /\ d[p + 1].type # "tool"
      BY <1>1, <1>4, <2>4
    <3>2. QED
      BY <2>3, <3>1 DEF Answered
  <2>5. CASE p # l
    <3>1. p + 1 \in DOMAIN b /\ p + 1 \in DOMAIN d
      BY <1>1, <2>5
    <3>2. QED
      BY <1>1, <2>3, <3>1 DEF Answered
  <2>6. QED
    BY <2>4, <2>5
<1>13. \A i, j \in DOMAIN ms : i <= j => Key(ms[i]) <= Key(ms[j])
  <2>1. SUFFICES ASSUME NEW i \in DOMAIN ms, NEW j \in DOMAIN ms, i <= j PROVE Key(ms[i]) <= Key(ms[j])
    OBVIOUS
  <2>2. CASE i = j
    BY <1>2, <2>2
  <2>3. CASE i < j
    <3>1. Key(ms[i]) < Key(ms[j])
      BY <1>8, <2>3 DEF Sorted
    <3>2. QED
      BY <1>2, <3>1
  <2>4. QED
    BY <1>2, <2>1, <2>2, <2>3
<1>14. ASSUME NEW i \in DOMAIN ms, cut + 1 <= i
       PROVE  /\ Key(ms[i]) >= 2 * first /\ Key(ms[i]) > 0
              /\ Told(d, n, ms[i].type, ms[i].at)
  <2>1. Key(ms[i]) >= 2 * first
    <3>1. Key(ms[cut + 1]) <= Key(ms[i])
      BY <1>3, <1>13, <1>14
    <3>2. QED
      BY <1>1, <1>2, <1>3, <3>1
  <2>2. Key(ms[i]) > 0
    BY <1>1, <1>2, <1>3, <2>1
  <2>3. ms[i].type # "compaction"
    BY <2>2 DEF Key
  <2>4. first <= ms[i].at
    BY <1>1, <1>2, <1>3, <2>1, <2>3 DEF Key
  <2>5. Gives(b, ms[i].type, ms[i].at) /\ ms[i].at <= n
    BY <1>8, <2>3 DEF Told
  <2>6. Gives(d, ms[i].type, ms[i].at)
    BY <1>1, <1>2, <1>12, <2>3, <2>4, <2>5 DEF Gives
  <2>7. QED
    BY <2>1, <2>2, <2>5, <2>6 DEF Told
<1>15. Key(new[1]) = 0 /\ NamesCall(new[1]) /\ Told(d, n, new[1].type, new[1].at)
  <2>1. Summary(d, l + 1)
    BY <1>1, <1>5 DEF Summary
  <2>2. QED
    BY <1>10, <2>1 DEF Key, NamesCall, Told, Gives
<1>16. Sorted(new)
  <2>1. SUFFICES ASSUME NEW i \in DOMAIN new, NEW j \in DOMAIN new, i < j
                 PROVE  Key(new[i]) < Key(new[j])
    BY DEF Sorted
  <2>2. j \in 2..N
    BY <1>9, <1>11, <2>1
  <2>3. PICK g \in DOMAIN ms : g = cut + j - 1 /\ new[j] = ms[g]
    BY <1>9, <1>10, <2>2
  <2>4. cut + 1 <= g
    BY <1>9, <2>2, <2>3
  <2>5. CASE i = 1
    BY <1>14, <1>15, <2>3, <2>4, <2>5
  <2>6. CASE i \in 2..N
    <3>1. PICK h \in DOMAIN ms : h = cut + i - 1 /\ new[i] = ms[h]
      BY <1>9, <1>10, <2>6
    <3>2. h < g
      BY <1>2, <1>9, <2>1, <2>3, <3>1
    <3>3. QED
      BY <1>8, <2>3, <3>1, <3>2 DEF Sorted
  <2>7. QED
    BY <1>11, <2>5, <2>6
<1>17. ASSUME NEW j \in DOMAIN new PROVE NamesCall(new[j]) /\ Told(d, n, new[j].type, new[j].at)
  <2>1. CASE j = 1
    BY <1>15, <2>1
  <2>2. CASE j \in 2..N
    <3>1. PICK g \in DOMAIN ms : g = cut + j - 1 /\ new[j] = ms[g]
      BY <1>9, <1>10, <2>2
    <3>2. cut + 1 <= g
      BY <1>9, <2>2, <3>1
    <3>3. QED
      BY <1>8, <1>14, <3>1, <3>2
  <2>3. QED
    BY <1>11, <2>1, <2>2
<1>18. ASSUME NEW type \in Types \cup {"missing"}, NEW p \in DOMAIN d, Told(d, n, type, p)
       PROVE  \E j \in DOMAIN new : new[j].type = type /\ new[j].at = p
  <2>1. Gives(d, type, p) /\ (p <= n \/ type = "compaction")
    BY <1>18 DEF Told
  <2>2. CASE type = "compaction"
    <3>1. p = l + 1
      BY <1>5, <2>1, <2>2 DEF Gives, Shown, Summary
    <3>2. 1 \in DOMAIN new
      BY <1>2, <1>3, <1>9 DEF N
    <3>3. QED
      BY <1>10, <2>2, <3>1, <3>2
  <2>3. CASE type # "compaction"
    <3>1. p \in DOMAIN b /\ p <= n
      BY <1>1, <2>1, <2>3
    <3>2. Shown(d, p)
      BY <2>1, <2>3 DEF Gives
    <3>3. Shown(b, p) /\ first <= p
      BY <1>12, <3>1, <3>2
    <3>4. Gives(b, type, p)
      BY <1>1, <1>12, <2>1, <2>3, <3>1, <3>3 DEF Gives
    <3>5. Told(b, n, type, p)
      BY <3>1, <3>4 DEF Told
    <3>6. PICK i \in DOMAIN ms : ms[i].type = type /\ ms[i].at = p
      BY <1>8, <3>1, <3>5
    <3>7. Key(ms[i]) >= 2 * first
      BY <1>1, <1>3, <2>3, <3>1, <3>3, <3>6 DEF Key
    <3>8. ~(i < cut + 1)
      <4>1. SUFFICES ASSUME i < cut + 1 PROVE FALSE
        OBVIOUS
      <4>2. Key(ms[i]) < 2 * first
        BY <1>3, <1>8, <4>1 DEF Sorted
      <4>3. QED
        BY <1>1, <1>2, <1>3, <3>7, <4>2
    <3>9. PICK j \in 2..N : j = i - cut + 1
      BY <1>2, <3>8 DEF N
    <3>10. cut + j - 1 = i /\ j \in DOMAIN new
      <4>1. i \in Nat /\ j \in Nat
        BY <1>2, <1>9, <3>9
      <4>2. cut + j - 1 = i
        BY <1>2, <3>9, <4>1
      <4>3. j \in 1..N
        BY <1>9, <3>9
      <4>4. QED
        BY <1>9, <4>2, <4>3
    <3>11. QED
      BY <1>10, <3>6, <3>10
  <2>4. QED
    BY <2>2, <2>3
<1>19. QED
  BY <1>16, <1>17, <1>18 DEF Gathers

(* A message before those after a cut.                                     *)
LEMMA JoinedAre ==
  ASSUME NEW n \in Nat, NEW m \in Nat, n <= m, NEW ms \in Seq(MessageUpTo(n)), NEW cut \in 1..Len(ms) - 1,
         NEW x \in MessageUpTo(m)
  PROVE  LET new == <<x>> \o Beyond(ms, cut)
         IN  /\ new \in Seq(MessageUpTo(m)) /\ DOMAIN new = 1 .. Len(ms) - cut + 1 /\ new[1] = x
             /\ \A j \in 2 .. Len(ms) - cut + 1 : new[j] = ms[cut + j - 1]
<1> DEFINE head == <<x>>
           kept == Beyond(ms, cut)
           new == head \o kept
           M == MessageUpTo(m)
           l == Len(ms)
<1>1. l \in Nat /\ cut \in Nat /\ cut \in 0..l /\ cut <= l - 1
  BY LenProperties
<1>2. /\ kept \in Seq(MessageUpTo(n)) /\ Len(kept) = l - cut
      /\ \A i \in 1 .. l - cut : kept[i] = ms[cut + i]
  BY <1>1, BeyondIs
<1>3. head \in Seq(M) /\ DOMAIN head = 1..1 /\ Len(head) = 1 /\ head[1] = x
  OBVIOUS
<1>4. kept \in Seq(M)
  <2> HIDE DEF kept
  <2>1. QED
    BY <1>2, Grown
<1> HIDE DEF M, kept, head
<1>5. /\ new \in Seq(M) /\ DOMAIN new = 1..Len(head) + Len(kept) /\ DOMAIN kept = 1..Len(kept)
      /\ \A i \in 1..Len(head) + Len(kept) :
           \/ i \in DOMAIN head /\ new[i] = head[i]
           \/ i - Len(head) \in DOMAIN kept /\ new[i] = kept[i - Len(head)]
  <2>1. /\ head \o kept \in Seq(M) /\ DOMAIN (head \o kept) = 1..Len(head) + Len(kept)
        /\ DOMAIN kept = 1..Len(kept)
        /\ \A i \in 1..Len(head) + Len(kept) :
             \/ i \in DOMAIN head /\ (head \o kept)[i] = head[i]
             \/ i - Len(head) \in DOMAIN kept /\ (head \o kept)[i] = kept[i - Len(head)]
    <3> HIDE DEF new
    <3>1. head \in Seq(M) /\ kept \in Seq(M)
      BY <1>3, <1>4
    <3>2. QED
      BY <3>1, JoinIs
  <2>2. QED
    BY <2>1
<1> HIDE DEF new, l
<1>6. DOMAIN new = 1 .. l - cut + 1
  <2>1. 1 + (l - cut) = l - cut + 1
    BY <1>1
  <2>2. QED
    BY <1>2, <1>3, <1>5, <2>1
<1>7. \A i \in 1 .. l - cut + 1 :
        \/ i = 1 /\ new[i] = x
        \/ i - 1 \in 1 .. l - cut /\ new[i] = kept[i - 1]
  BY <1>2, <1>3, <1>5, <1>6
<1>8. new[1] = x
  BY <1>1, <1>7
<1>9. ASSUME NEW j \in 2 .. l - cut + 1 PROVE new[j] = ms[cut + j - 1]
  <2>1. j \in 1 .. l - cut + 1 /\ j # 1
    BY <1>1
  <2>2. j - 1 \in 1 .. l - cut /\ new[j] = kept[j - 1]
    BY <1>7, <2>1
  <2>3. cut + (j - 1) = cut + j - 1
    BY <1>1, <2>1
  <2>4. kept[j - 1] = ms[cut + (j - 1)]
    BY <1>2, <2>2
  <2>5. QED
    BY <2>2, <2>3, <2>4
<1>10. QED
  BY <1>5, <1>6, <1>8, <1>9 DEF new, M, l, head, kept

-----------------------------------------------------------------------------
(* The inductive invariant: what is in memory is what the branch gives of  *)
(* its first entries, and a cut in it is safe.                             *)
InMemory(b, ms, n) ==
  /\ Gathers(ms, b, n)
  /\ \A p \in n + 1 .. Len(b) : b[p].type \in {"note", "lost", "compaction"}

WholeInv ==
  /\ BranchWhole(branch)
  /\ loop = "tools" => Len(branch) # 0 /\ branch[Len(branch)].type = "call"
  /\ loop \in {"final", "sent", "compacting"} => InMemory(branch, context, loaded)
  /\ loop = "compacting" => SafeToolBoundary(context, plan.cut)

(* What is loaded is all there is.                                         *)
LEMMA LoadedInMemory ==
  ASSUME NEW b, BranchWhole(b) PROVE InMemory(b, LoadContext(b), Len(b))
<1>1. Len(b) \in Nat /\ \A p \in Len(b) + 1 .. Len(b) : FALSE
  BY BranchLength DEF BranchWhole
<1>2. QED
  BY <1>1, LoadHolds DEF InMemory

(* An entry added that does not change what is in memory.                  *)
LEMMA StillInMemory ==
  ASSUME NEW b, BranchWhole(b), NEW d, BranchOK(d), Grew(b, d), d[Len(b) + 1].type \in {"note", "lost"},
         NEW ms \in Seq(MessageUpTo(Len(b))), NEW n \in 0..Len(b), InMemory(b, ms, n)
  PROVE  InMemory(d, ms, n)
<1>1. Gathers(ms, d, n)
  BY HoldsStill DEF InMemory
<1>2. Len(b) \in Nat /\ \A p \in DOMAIN b : d[p] = b[p]
  BY GrewIs
<1>3. ASSUME NEW p \in n + 1 .. Len(d) PROVE d[p].type \in {"note", "lost", "compaction"}
  <2>1. p \in n + 1 .. Len(b) \/ p = Len(b) + 1
    BY <1>2 DEF Grew
  <2>2. p \in n + 1 .. Len(b) => d[p] = b[p]
    BY DEF Grew
  <2>3. QED
    BY <2>1, <2>2 DEF InMemory
<1>4. QED
  BY <1>1, <1>3 DEF InMemory

(* With its summary, what is kept in memory goes to the request unchanged. *)
LEMMA SummaryInMemory ==
  ASSUME NEW b, BranchWhole(b), NEW n \in 0..Len(b), NEW ms \in Seq(MessageUpTo(Len(b))), InMemory(b, ms, n),
         NEW cut \in 1..Len(ms) - 1, SafeToolBoundary(ms, cut),
         ms[cut + 1].type \in {"user", "assistant", "call", "tool"},
         NEW d, BranchOK(d), Grew(b, d), SummaryMade(b, ms, cut, d), NEW size \in Nat
  PROVE  InMemory(d, Projected(<<Message("compaction", Len(b) + 1, size, ms[cut + 1].at)>> \o Beyond(ms, cut)), n)
<1> DEFINE l == Len(b)
           first == ms[cut + 1].at
           x == Message("compaction", l + 1, size, first)
           new == <<x>> \o Beyond(ms, cut)
           T == MessageUpTo(l + 1)
<1>1. /\ l \in Nat /\ DOMAIN b = 1..l /\ DOMAIN d = 1..l + 1
      /\ \A p \in DOMAIN b : d[p] = b[p]
      /\ \A p \in DOMAIN d : p \in DOMAIN b \/ p = l + 1
  BY GrewIs
<1>2. Len(d) = l + 1 /\ Gathers(ms, b, n) /\ d[l + 1].type = "compaction"
  BY DEF Grew, InMemory, SummaryMade
<1>3. first \in DOMAIN b
  BY <1>2, CutBegins
<1>4. x \in T /\ x.type = "compaction" /\ x.at = l + 1
  <2>1. l + 1 \in 1..l + 1 /\ first \in 0..l + 1 /\ "compaction" \in Types \cup {"missing"}
    BY <1>1, <1>3 DEF Types
  <2> HIDE DEF first, l
  <2>2. QED
    BY <2>1 DEF Message, MessageUpTo
<1>5. ms \in Seq(MessageUpTo(l)) /\ cut \in 1..Len(ms) - 1 /\ l + 1 \in Nat /\ l <= l + 1
  BY <1>1
<1>6. /\ new \in Seq(T) /\ DOMAIN new = 1 .. Len(ms) - cut + 1 /\ new[1] = x
      /\ \A j \in 2 .. Len(ms) - cut + 1 : new[j] = ms[cut + j - 1]
  <2> HIDE DEF x, l
  <2>1. QED
    BY <1>1, <1>4, <1>5, JoinedAre
<1> HIDE DEF new, x, first
<1>7. Gathers(new, d, n)
  BY <1>2, <1>4, <1>6, HoldsWithSummary
<1>8. BranchWhole(d)
  BY <1>2, WholeWithSummary
<1>9. \A p \in n + 1 .. l + 1 : d[p].type \in {"note", "lost", "compaction"}
  <2>1. SUFFICES ASSUME NEW p \in n + 1 .. l + 1 PROVE d[p].type \in {"note", "lost", "compaction"}
    OBVIOUS
  <2>2. p \in n + 1 .. l \/ p = l + 1
    BY <1>1
  <2>3. CASE p \in n + 1 .. l
    <3>1. p \in DOMAIN b /\ b[p].type \in {"note", "lost", "compaction"}
      BY <1>1, <2>3 DEF InMemory
    <3>2. QED
      BY <1>1, <3>1
  <2>4. QED
    BY <1>2, <2>2, <2>3
<1>10. ~Answered(d, n)
  <2>1. SUFFICES ASSUME n + 1 \in DOMAIN d PROVE d[n + 1].type # "tool"
    BY DEF Answered
  <2>2. n + 1 \in n + 1 .. l + 1
    BY <1>1, <2>1
  <2>3. QED
    BY <1>9, <2>2
<1>11. AfterCalls(new) /\ AllAnswered(new)
  <2>1. new \in Seq(MessageUpTo(Len(d))) /\ n \in Nat
    BY <1>2, <1>6
  <2>2. QED
    BY <1>7, <1>8, <1>10, <2>1, HeldTogether
<1>12. Projected(new) = new
  <2>1. RepairToolBlocks(new) = new
    BY <1>6, <1>11, RepairedIs
  <2>2. FillMissingToolResults(new) = new
    BY <1>6, <1>11, CompleteIs
  <2>3. QED
    BY <2>1, <2>2 DEF Projected
<1>13. InMemory(d, new, n)
  BY <1>2, <1>7, <1>9 DEF InMemory
<1>14. QED
  BY <1>12, <1>13 DEF new, x, first

LEMMA LogGrows ==
  ASSUME BranchOK(branch), NEW type \in Types, NEW size \in Nat, NEW of \in 0..Len(branch),
         NEW about \in SUBSET (1..Len(branch)), Log(type, size, of, about)
  PROVE  /\ BranchOK(branch') /\ Grew(branch, branch')
         /\ branch'[Len(branch) + 1] = Entry(type, size, of, about)
<1> DEFINE e == Entry(type, size, of, about)
           T == [type : Types, size : Nat, of : Nat, about : SUBSET Nat]
<1>1. Len(branch) \in Nat /\ branch \in Seq(T)
  BY BranchLength DEF BranchOK, Branches
<1>2. e \in T
  <2>1. of \in Nat /\ about \in SUBSET Nat
    BY <1>1
  <2>2. QED
    BY <2>1 DEF Entry
<1>3. branch' = Append(branch, e)
  BY DEF Log
<1> HIDE DEF e, T
<1>4. /\ Len(branch') = Len(branch) + 1
      /\ \A p \in 1..Len(branch) : branch'[p] = branch[p]
      /\ branch'[Len(branch) + 1] = e
  BY <1>1, <1>2, <1>3, AppendProperties
<1>5. BranchOK(branch')
  BY LogIs
<1>6. QED
  BY <1>4, <1>5 DEF Grew, e

(* An entry that is no result and no summary, at the end of the branch.    *)
LEMMA Added ==
  ASSUME BranchWhole(branch), NEW type \in Types \ {"tool", "compaction"}, Log(type, 1, 0, {})
  PROVE  /\ BranchWhole(branch') /\ BranchOK(branch') /\ Grew(branch, branch')
         /\ Len(branch') # 0 /\ branch'[Len(branch')].type = type
         /\ branch'[Len(branch) + 1].type = type
<1>1. BranchOK(branch) /\ Len(branch) \in Nat
  BY BranchLength DEF BranchWhole
<1>2. type \in Types /\ 0 \in 0..Len(branch) /\ {} \in SUBSET (1..Len(branch)) /\ 1 \in Nat
  BY <1>1
<1>3. /\ BranchOK(branch') /\ Grew(branch, branch')
      /\ branch'[Len(branch) + 1] = Entry(type, 1, 0, {})
  BY <1>1, <1>2, LogGrows
<1>4. branch'[Len(branch) + 1].type = type
  BY <1>3 DEF Entry
<1>5. BranchWhole(branch')
  BY <1>3, <1>4, WholeGrown
<1>6. Len(branch') = Len(branch) + 1
  BY <1>3 DEF Grew
<1>7. QED
  BY <1>1, <1>3, <1>4, <1>5, <1>6

LEMMA AddedInMemory ==
  ASSUME ShapeInv, WholeInv, loop \in {"final", "sent", "compacting"},
         NEW type \in {"note", "lost"}, Log(type, 1, 0, {})
  PROVE  InMemory(branch', context, loaded)
<1>1. /\ BranchWhole(branch) /\ InMemory(branch, context, loaded)
      /\ context \in Seq(MessageUpTo(Len(branch))) /\ loaded \in 0..Len(branch)
  BY DEF WholeInv, ShapeInv
<1>2. type \in Types \ {"tool", "compaction"}
  BY DEF Types
<1>3. BranchOK(branch') /\ Grew(branch, branch') /\ branch'[Len(branch) + 1].type \in {"note", "lost"}
  BY <1>1, <1>2, Added
<1>4. QED
  BY <1>1, <1>3, StillInMemory

LEMMA RestsWhole ==
  ASSUME BranchWhole(branch'), loop' \in {"idle", "load"} PROVE WholeInv'
BY DEF WholeInv

LEMMA OverflowWhole ==
  ASSUME ShapeInv, BranchWhole(branch'), InMemory(branch', context, loaded), NEW extra, Overflow(extra)
  PROVE  WholeInv'
<1>1. CASE Continue("idle")
  BY <1>1, RestsWhole DEF Continue
<1>2. CASE /\ BeginCompaction("overflow", context, Cut(context, extra, TRUE), extra)
           /\ UNCHANGED <<context, loaded>>
  <2>1. Len(branch) \in Nat /\ context \in Seq(MessageUpTo(Len(branch))) /\ Paired(context)
    BY BranchLength DEF ShapeInv
  <2>2. loop' = "compacting" /\ SafeToolBoundary(context, plan'.cut)
    BY <1>2, <2>1, SafeCompaction
  <2>3. InMemory(branch', context', loaded') /\ SafeToolBoundary(context', plan'.cut)
    BY <1>2, <2>2
  <2>4. QED
    BY <2>2, <2>3 DEF WholeInv
<1>3. QED
  BY <1>1, <1>2 DEF Overflow

LEMMA NavigateWhole == ASSUME ShapeInv, WholeInv, Navigate, BranchOK(branch') PROVE WholeInv'
<1> DEFINE T == [type : Types, size : Nat, of : Nat, about : SUBSET Nat]
<1>1. BranchWhole(branch) /\ Len(branch) \in Nat /\ branch \in Seq(T) /\ loop' = "idle"
  BY BranchLength DEF WholeInv, BranchWhole, BranchOK, Branches, Navigate
<1>2. PICK n \in 1 .. Len(branch) - 1 : branch' = SubSeq(branch, 1, n)
  BY DEF Navigate
<1>3. n \in Nat /\ 1 <= n /\ n \in 1..Len(branch) /\ \A p \in 1..n : branch[p] \in T
  <2>1. \A p \in 1..Len(branch) : branch[p] \in T
    BY <1>1, ElementOfSeq
  <2> HIDE DEF T
  <2>2. \A p \in 1..n : p \in 1..Len(branch)
    BY <1>1, <1>2
  <2>3. n \in Nat /\ 1 <= n /\ n \in 1..Len(branch)
    BY <1>1, <1>2
  <2>4. QED
    BY <2>1, <2>2, <2>3
<1> HIDE DEF T
<1>4. Len(branch') = n - 1 + 1 /\ \A p \in 1 .. n - 1 + 1 : branch'[p] = branch[1 + p - 1]
  BY <1>2, <1>3, SubSeqProperties
<1>5. Len(branch') = n /\ \A p \in 1..n : branch'[p] = branch[p]
  <2>1. n - 1 + 1 = n /\ \A p \in 1..n : 1 + p - 1 = p
    BY <1>3
  <2>2. QED
    BY <1>4, <2>1
<1>6. BranchWhole(branch')
  BY <1>1, <1>3, <1>5, WholeBefore
<1>7. QED
  BY <1>1, <1>6, RestsWhole

LEMMA CompactNowWhole == ASSUME ShapeInv, WholeInv, CompactNow PROVE WholeInv'
<1> DEFINE ms == LoadContext(branch)
           n == Len(branch)
<1>1. BranchWhole(branch) /\ BranchOK(branch) /\ branch' = branch /\ n \in Nat
  BY BranchLength DEF WholeInv, ShapeInv, CompactNow
<1>2. ms \in Seq(MessageUpTo(n)) /\ Paired(ms) /\ InMemory(branch, ms, n)
  BY <1>1, LoadedIs, LoadedInMemory
<1>3. PICK overflow \in {TRUE, Tokens(ms) > MaxInput} :
        BeginCompaction("manual", ms, Cut(ms, 0, overflow), 0)
  BY DEF CompactNow
<1>4. context' = ms /\ loaded' = n
  BY DEF CompactNow
<1> HIDE DEF ms, n
<1>5. loop' = "compacting" /\ SafeToolBoundary(ms, plan'.cut)
  BY <1>1, <1>2, <1>3, SafeCompaction
<1>6. BranchWhole(branch') /\ InMemory(branch', context', loaded') /\ SafeToolBoundary(context', plan'.cut)
  BY <1>1, <1>2, <1>4, <1>5
<1>7. QED
  BY <1>5, <1>6 DEF WholeInv

LEMMA LoadWhole == ASSUME ShapeInv, WholeInv, Load PROVE WholeInv'
<1> DEFINE ms == LoadContext(branch)
           n == Len(branch)
           overflow == Tokens(ms) > MaxInput
           cut == IF Tokens(ms) <= Target THEN 0 ELSE Cut(ms, 0, overflow)
<1>1. BranchWhole(branch) /\ BranchOK(branch) /\ branch' = branch /\ n \in Nat
  BY BranchLength DEF WholeInv, ShapeInv, Load
<1>2. ms \in Seq(MessageUpTo(n)) /\ Paired(ms) /\ InMemory(branch, ms, n)
  BY <1>1, LoadedIs, LoadedInMemory
<1>3. InMemory(branch, Elided(ms), n)
  <2> HIDE DEF ms, n
  <2>1. Gathers(Elided(ms), branch, n)
    BY <1>1, <1>2, ElidedHolds DEF InMemory
  <2>2. QED
    BY <1>2, <2>1 DEF InMemory
<1>4. \/ cut # 0 /\ context' = ms /\ loaded' = n /\ BeginCompaction("automatic", ms, cut, 0)
      \/ context' = ms /\ loaded' = n /\ loop' = "final"
      \/ context' = Elided(ms) /\ loaded' = n /\ loop' = "final"
      \/ Continue("idle")
  BY DEF Load
<1> HIDE DEF ms
<1>5. ASSUME NEW q, InMemory(branch, q, n), context' = q, loaded' = n, loop' = "final" PROVE WholeInv'
  <2>1. BranchWhole(branch') /\ InMemory(branch', context', loaded')
    BY <1>1, <1>5
  <2>2. QED
    BY <1>5, <2>1 DEF WholeInv
<1>6. CASE cut # 0 /\ context' = ms /\ loaded' = n /\ BeginCompaction("automatic", ms, cut, 0)
  <2>1. BeginCompaction("automatic", ms, Cut(ms, 0, overflow), 0)
    BY <1>6
  <2> HIDE DEF cut, overflow, n
  <2>2. loop' = "compacting" /\ SafeToolBoundary(ms, plan'.cut)
    BY <1>1, <1>2, <2>1, SafeCompaction
  <2>3. BranchWhole(branch') /\ InMemory(branch', context', loaded') /\ SafeToolBoundary(context', plan'.cut)
    BY <1>1, <1>2, <1>6, <2>2
  <2>4. QED
    BY <2>2, <2>3 DEF WholeInv
<1>7. CASE Continue("idle")
  BY <1>1, <1>7, RestsWhole DEF Continue
<1>8. QED
  BY <1>2, <1>3, <1>4, <1>5, <1>6, <1>7

LEMMA FinishWhole == ASSUME ShapeInv, WholeInv, FinishCompaction PROVE WholeInv'
<1> DEFINE n == Len(branch)
           cut == plan.cut
           source == SubSeq(context, 1, plan.cut)
           kept == Beyond(context, plan.cut)
           seen == {source[i].at : i \in DOMAIN source}
           about == seen \cup UNION {branch[p].about : p \in seen}
           first == kept[1].at
           new(size) == <<Message("compaction", n + 1, size, first)>> \o kept
<1>1. /\ BranchWhole(branch) /\ BranchOK(branch) /\ n \in Nat /\ DOMAIN branch = 1..n
      /\ \A p \in 1..n : branch[p].about \subseteq 1 .. p - 1
  BY BranchLength DEF ShapeInv, BranchOK, WholeInv
<1>2. /\ context \in Seq(MessageUpTo(n)) /\ loaded \in 0..n
      /\ InMemory(branch, context, loaded) /\ SafeToolBoundary(context, cut)
      /\ cut \in 1 .. Len(context) - 1
  BY DEF ShapeInv, WholeInv, FinishCompaction
<1>3. /\ Len(context) \in Nat /\ DOMAIN context = 1..Len(context) /\ cut \in Nat
      /\ \A i \in 1..Len(context) : context[i].at \in 1..n
  <2>1. \A i \in DOMAIN context : context[i].at \in 1..n
    BY <1>1, <1>2, KeysAre
  <2>2. QED
    BY <1>2, <2>1, LenProperties
<1>4. DOMAIN source = 1..cut /\ \A i \in 1..cut : source[i] = context[i]
  <2>1. \A i \in 1..cut : context[i] \in MessageUpTo(n)
    <3>1. \A i \in DOMAIN context : context[i] \in MessageUpTo(n)
      BY <1>2, LenProperties, ElementOfSeq
    <3>2. QED
      BY <1>2, <1>3, <3>1
  <2> DEFINE M == MessageUpTo(n)
  <2>2. \A i \in 1..cut : context[i] \in M
    BY <2>1
  <2> HIDE DEF M
  <2>3. 1 <= cut
    BY <1>2
  <2>4. /\ source \in Seq(M) /\ Len(source) = cut - 1 + 1
        /\ \A i \in 1 .. cut - 1 + 1 : source[i] = context[1 + i - 1]
    <3>1. /\ SubSeq(context, 1, cut) \in Seq(M)
          /\ Len(SubSeq(context, 1, cut)) = IF 1 <= cut THEN cut - 1 + 1 ELSE 0
          /\ \A i \in 1 .. cut - 1 + 1 : SubSeq(context, 1, cut)[i] = context[1 + i - 1]
      BY <1>3, <2>2, SubSeqProperties
    <3>2. QED
      BY <2>3, <3>1
  <2> HIDE DEF source, cut
  <2>5. cut - 1 + 1 = cut /\ \A i \in 1..cut : 1 + i - 1 = i
    BY <1>3
  <2>6. Len(source) = cut /\ \A i \in 1..cut : source[i] = context[i]
    BY <2>4, <2>5
  <2>7. DOMAIN source = 1..Len(source)
    BY <2>4, LenProperties
  <2>8. QED
    BY <2>6, <2>7
<1>5. kept[1] = context[cut + 1] /\ first = context[cut + 1].at /\ cut + 1 \in 1..Len(context)
  <2>1. cut \in 0..Len(context) /\ 1 \in 1..Len(context) - cut /\ cut + 1 \in 1..Len(context)
    BY <1>2, <1>3
  <2>2. kept[1] = context[cut + 1]
    BY <1>2, <2>1, BeyondIs
  <2>3. QED
    BY <2>1, <2>2
<1>6. /\ loop = "compacting" /\ kept[1].type \in {"user", "assistant", "call", "tool"}
      /\ \E size \in 1..MaxSummary :
           /\ Log("compaction", size, first, about)
           /\ IF plan.mode = "automatic"
              THEN context' = Projected(new(size)) /\ loop' = "final" /\ plan' = NoPlan /\ UNCHANGED loaded
              ELSE Continue(IF plan.mode = "overflow" THEN "load" ELSE "idle")
  BY DEF FinishCompaction
<1> HIDE DEF source
<1>7. seen = {context[i].at : i \in 1..cut}
  BY <1>4
<1>8. /\ seen \subseteq 1..n
      /\ \A i \in 1..cut : context[i].at \in about /\ branch[context[i].at].about \subseteq about
  <2>1. \A i \in 1..cut : i \in 1..Len(context)
    BY <1>2, <1>3
  <2> HIDE DEF seen
  <2>2. seen \subseteq 1..n
    BY <1>3, <1>7, <2>1
  <2>3. \A i \in 1..cut : context[i].at \in seen
    BY <1>7
  <2>4. \A p \in seen : p \in about /\ branch[p].about \subseteq about
    OBVIOUS
  <2>5. QED
    BY <2>2, <2>3, <2>4
<1>9. about \in SUBSET (1..n)
  <2> HIDE DEF seen
  <2>1. ASSUME NEW p \in seen PROVE branch[p].about \subseteq 1..n
    <3>1. p \in 1..n /\ branch[p].about \subseteq 1 .. p - 1
      BY <1>1, <1>8
    <3>2. 1 .. p - 1 \subseteq 1..n
      BY <1>1, <3>1
    <3>3. QED
      BY <3>1, <3>2
  <2>2. QED
    BY <1>8, <2>1
<1> HIDE DEF about, seen
<1>10. first \in 0..n
  BY <1>1, <1>3, <1>5
<1>11. PICK size \in 1..MaxSummary :
         /\ Log("compaction", size, first, about)
         /\ IF plan.mode = "automatic"
            THEN context' = Projected(new(size)) /\ loop' = "final" /\ plan' = NoPlan /\ UNCHANGED loaded
            ELSE Continue(IF plan.mode = "overflow" THEN "load" ELSE "idle")
  BY <1>6
<1>12. size \in Nat
  BY <1>11, ContextAssumption
<1>13. context[cut + 1].type \in {"user", "assistant", "call", "tool"}
  BY <1>5, <1>6
<1>14. first = context[cut + 1].at
  BY <1>5
<1>15. BranchOK(branch') /\ Grew(branch, branch') /\ branch'[n + 1] = Entry("compaction", size, first, about)
  <2>1. "compaction" \in Types
    BY DEF Types
  <2> HIDE DEF first
  <2>2. QED
    BY <1>1, <1>9, <1>10, <1>11, <1>12, <2>1, LogGrows
<1> HIDE DEF cut, n
<1>16. SummaryMade(branch, context, cut, branch')
  <2> DEFINE e == branch'[Len(branch) + 1]
  <2>1. e.type = "compaction" /\ e.of = first /\ e.about = about
    BY <1>15 DEF Entry, n
  <2> HIDE DEF e, first
  <2>2. QED
    BY <1>8, <1>14, <2>1 DEF SummaryMade, e
<1>17. BranchWhole(branch')
  BY <1>1, <1>2, <1>13, <1>15, <1>16, WholeWithSummary DEF InMemory, n
<1>18. CASE plan.mode = "automatic"
  <2>1. context' = Projected(new(size)) /\ loop' = "final" /\ loaded' = loaded
    BY <1>11, <1>18
  <2>2. InMemory(branch', Projected(<<Message("compaction", n + 1, size, context[cut + 1].at)>> \o Beyond(context, cut)),
                 loaded)
    BY <1>1, <1>2, <1>12, <1>13, <1>15, <1>16, SummaryInMemory DEF n
  <2>3. new(size) = <<Message("compaction", n + 1, size, context[cut + 1].at)>> \o Beyond(context, cut)
    BY <1>14 DEF cut
  <2>4. InMemory(branch', context', loaded')
    BY <2>1, <2>2, <2>3
  <2>5. QED
    BY <1>17, <2>1, <2>4 DEF WholeInv
<1>19. CASE plan.mode # "automatic"
  <2>1. loop' \in {"load", "idle"}
    BY <1>11, <1>19 DEF Continue
  <2>2. QED
    BY <1>17, <2>1, RestsWhole
<1>20. QED
  BY <1>18, <1>19

LEMMA WholeStep == ASSUME ShapeInv, WholeInv, [ContextNext]_contextVars PROVE WholeInv'
<1>1. BranchWhole(branch) /\ BranchOK(branch) /\ BranchOK(branch')
  BY ShapeStep DEF WholeInv, ShapeInv
<1>2. ASSUME NEW type \in {"user", "note", "assistant", "call", "lost"}, Log(type, 1, 0, {})
      PROVE  /\ BranchWhole(branch') /\ Len(branch') # 0 /\ branch'[Len(branch')].type = type
  <2>1. type \in Types \ {"tool", "compaction"}
    BY DEF Types
  <2>2. QED
    BY <1>1, <1>2, <2>1, Added
<1>3. ASSUME UNCHANGED branch PROVE BranchWhole(branch')
  BY <1>1, <1>3
(* What is in memory stays, and the branch may get a note or a failure.    *)
<1>4. ASSUME UNCHANGED branch \/ (\E type \in {"note", "lost"} : Log(type, 1, 0, {}))
      PROVE  /\ BranchWhole(branch')
             /\ loop \in {"final", "sent", "compacting"} => InMemory(branch', context, loaded)
  <2>1. CASE UNCHANGED branch
    BY <1>1, <2>1 DEF WholeInv
  <2>2. CASE \E type \in {"note", "lost"} : Log(type, 1, 0, {})
    BY <1>2, <2>2, AddedInMemory
  <2>3. QED
    BY <1>4, <2>1, <2>2
<1>5. ASSUME BranchWhole(branch'), loop \in {"final", "sent", "compacting"} => InMemory(branch', context, loaded),
             UNCHANGED <<context, loaded, plan>>, loop # "tools", loop' = loop \/ (loop = "final" /\ loop' = "sent")
      PROVE  WholeInv'
  <2>1. loop' \in {"final", "sent", "compacting"} => InMemory(branch', context', loaded')
    BY <1>5
  <2>2. loop' = "compacting" => SafeToolBoundary(context', plan'.cut)
    BY <1>5 DEF WholeInv
  <2>3. loop' # "tools"
    BY <1>5
  <2>4. QED
    BY <1>5, <2>1, <2>2, <2>3 DEF WholeInv
<1>6. CASE BeginRun
  <2>1. loop' = "load" /\ (Log("user", 1, 0, {}) \/ UNCHANGED branch)
    BY <1>6 DEF BeginRun, Continue
  <2>2. QED
    BY <1>2, <1>3, <2>1, RestsWhole
<1>7. CASE DeliverMessage
  <2>1. loop' = "load" /\ Log("user", 1, 0, {})
    BY <1>7 DEF DeliverMessage
  <2>2. QED
    BY <1>2, <2>1, RestsWhole
<1>8. CASE AddNote
  <2>1. Log("note", 1, 0, {}) /\ loop # "tools" /\ UNCHANGED <<context, loaded, plan>> /\ loop' = loop
    BY <1>8 DEF AddNote
  <2>2. QED
    BY <1>4, <1>5, <2>1
<1>9. CASE Send
  <2>1. UNCHANGED branch /\ loop = "final"
    BY <1>9 DEF Send
  <2>2. \/ loop' = "sent" /\ UNCHANGED <<context, loaded, plan>>
        \/ \E extra \in {0, Extra} : Overflow(extra)
    BY <1>9 DEF Send
  <2>3. BranchWhole(branch') /\ InMemory(branch', context, loaded)
    BY <1>4, <2>1
  <2>4. CASE loop' = "sent" /\ UNCHANGED <<context, loaded, plan>>
    BY <1>5, <2>1, <2>3, <2>4
  <2>5. CASE \E extra \in {0, Extra} : Overflow(extra)
    BY <2>3, <2>5, OverflowWhole
  <2>6. QED
    BY <2>2, <2>4, <2>5
<1>10. CASE Respond
  <2>1. \/ Log("assistant", 1, 0, {}) /\ loop' \in {"idle", "load"}
        \/ Log("call", 1, 0, {}) /\ loop' = "tools"
    BY <1>10 DEF Respond, Continue
  <2>2. CASE Log("assistant", 1, 0, {}) /\ loop' \in {"idle", "load"}
    BY <1>2, <2>2, RestsWhole
  <2>3. CASE Log("call", 1, 0, {}) /\ loop' = "tools"
    <3>1. BranchWhole(branch') /\ Len(branch') # 0 /\ branch'[Len(branch')].type = "call"
      BY <1>2, <2>3
    <3>2. QED
      BY <2>3, <3>1 DEF WholeInv
  <2>4. QED
    BY <2>1, <2>2, <2>3
<1>11. CASE ReportOverflow
  <2>1. Overflow(0) /\ loop = "sent" /\ (UNCHANGED branch \/ Log("lost", 1, 0, {}))
    BY <1>11 DEF ReportOverflow
  <2>2. BranchWhole(branch') /\ InMemory(branch', context, loaded)
    BY <1>4, <2>1
  <2>3. QED
    BY <2>1, <2>2, OverflowWhole
<1>12. CASE LoseAnswer
  <2>1. Log("lost", 1, 0, {}) /\ loop = "sent"
    BY <1>12 DEF LoseAnswer
  <2>2. BranchWhole(branch') /\ InMemory(branch', context, loaded)
    BY <1>4, <2>1
  <2>3. CASE Continue("idle")
    BY <2>2, <2>3, RestsWhole DEF Continue
  <2>4. CASE UNCHANGED <<context, loaded, loop, plan>>
    BY <1>5, <2>1, <2>2, <2>4
  <2>5. QED
    BY <1>12, <2>3, <2>4 DEF LoseAnswer
<1>13. CASE ReturnResults
  <2>1. PICK size \in ToolSizes : Log("tool", size, Len(branch), {})
    BY <1>13 DEF ReturnResults
  <2>2. loop' = "load" /\ Len(branch) # 0 /\ branch[Len(branch)].type = "call"
    BY <1>13 DEF ReturnResults, Continue, WholeInv
  <2>3. Len(branch) \in 0..Len(branch) /\ {} \in SUBSET (1..Len(branch)) /\ size \in Nat /\ "tool" \in Types
    BY <1>1, BranchLength, ContextAssumption DEF Types
  <2>4. Grew(branch, branch') /\ branch'[Len(branch) + 1] = Entry("tool", size, Len(branch), {})
    BY <1>1, <2>1, <2>3, LogGrows
  <2>5. branch'[Len(branch) + 1].type = "tool" /\ branch'[Len(branch) + 1].of = Len(branch)
    BY <2>4 DEF Entry
  <2>6. BranchWhole(branch')
    BY <1>1, <2>2, <2>4, <2>5, WholeGrown
  <2>7. QED
    BY <2>2, <2>6, RestsWhole
<1>14. CASE FailCompaction
  <2>1. UNCHANGED branch /\ loop = "compacting"
    BY <1>14 DEF FailCompaction
  <2>2. BranchWhole(branch') /\ InMemory(branch', context, loaded)
    BY <1>4, <2>1
  <2>3. CASE Continue("idle")
    BY <2>2, <2>3, RestsWhole DEF Continue
  <2>4. CASE loop' = "final" /\ UNCHANGED <<context, loaded>>
    <3>1. InMemory(branch', context', loaded')
      BY <2>2, <2>4
    <3>2. QED
      BY <2>2, <2>4, <3>1 DEF WholeInv
  <2>5. QED
    BY <1>14, <2>3, <2>4 DEF FailCompaction
<1>15. CASE StopRun
  BY <1>3, <1>15, RestsWhole DEF StopRun, Continue
<1>16. CASE UNCHANGED contextVars
  BY <1>16 DEF contextVars, WholeInv
<1>17. QED
  BY <1>1, <1>6, <1>7, <1>8, <1>9, <1>10, <1>11, <1>12, <1>13, <1>14, <1>15, <1>16,
     NavigateWhole, CompactNowWhole, LoadWhole, FinishWhole DEF ContextNext

LEMMA WholeInvariant == ContextSpec => [](ShapeInv /\ WholeInv)
<1>1. ContextInit => WholeInv
  <2>1. SUFFICES ASSUME ContextInit PROVE WholeInv
    OBVIOUS
  <2>2. branch = <<>> /\ loop = "idle"
    BY <2>1 DEF ContextInit
  <2>3. BranchOK(<<>>) /\ DOMAIN <<>> = {}
    BY EmptySeq DEF BranchOK, Branches
  <2>4. BranchWhole(<<>>)
    BY <2>3 DEF BranchWhole, ResultsInPlace, SummariesKnow
  <2>5. QED
    BY <2>2, <2>4 DEF WholeInv
<1>2. ShapeInv /\ ShapeInv' /\ WholeInv /\ [ContextNext]_contextVars => WholeInv'
  BY WholeStep
<1>3. QED
  BY <1>1, <1>2, ShapeInvariant, PTL DEF ContextSpec

(* An entry that counts is in the context a reload would give, or behind   *)
(* its summary, and what is in memory for the request has the messages of  *)
(* such a reload, in their order: after any compactions, additions and     *)
(* moves in the tree (compaction.ts, projection.ts, #compact of agent.ts). *)
THEOREM ContextIsWholeHolds == ContextSpec => []ContextIsWhole
<1>1. ShapeInv /\ WholeInv => ContextIsWhole
  <2>1. SUFFICES ASSUME ShapeInv, WholeInv PROVE ContextIsWhole
    OBVIOUS
  <2> DEFINE ms == LoadContext(branch)
             c == LatestCompaction(branch)
  <2>2. /\ BranchWhole(branch) /\ Len(branch) \in Nat /\ DOMAIN branch = 1..Len(branch)
        /\ branch \in Branches
    BY <2>1, BranchLength DEF WholeInv, BranchWhole, BranchOK
  <2>3. Gathers(ms, branch, Len(branch))
    BY <2>2, LoadHolds
  <2>4. c \in 0..Len(branch) /\ (c # 0 => branch[c].type = "compaction")
    BY <2>2, LatestCompactionIs
  <2> HIDE DEF ms, c
  <2>5. ASSUME NEW p \in DOMAIN branch, branch[p].type \notin {"lost", "compaction"}
        PROVE  \/ c # 0 /\ p \in branch[c].about
               \/ \E i \in DOMAIN ms : ms[i].at = p /\ ms[i].type = branch[p].type
    <3>1. CASE Shown(branch, p)
      <4>1. PICK t \in Types \cup {"missing"} : t = branch[p].type /\ t # "missing"
        BY <2>2, BranchIs DEF Types
      <4>2. Told(branch, Len(branch), t, p)
        BY <2>2, <3>1, <4>1 DEF Told, Gives
      <4>3. \E i \in DOMAIN ms : ms[i].type = t /\ ms[i].at = p
        BY <2>3, <4>2 DEF Gathers
      <4>4. QED
        BY <4>1, <4>3
    <3>2. CASE ~Shown(branch, p)
      <4>1. c # 0 /\ ~(branch[c].of <= p)
        BY <2>5, <3>2 DEF Shown, c
      <4>2. c \in DOMAIN branch /\ branch[c].of \in Nat
        BY <2>2, <2>4, <4>1, BranchIs
      <4>3. p \in 1 .. branch[c].of - 1
        BY <2>2, <4>1, <4>2
      <4>4. p \in branch[c].about
        BY <2>2, <2>4, <2>5, <4>1, <4>2, <4>3 DEF BranchWhole, SummariesKnow
      <4>5. QED
        BY <4>1, <4>4
    <3>3. QED
      BY <3>1, <3>2
  <2>6. loop \in {"final", "sent"} =>
          Positions(context) =
            Positions(Among(ms, {m \in Items(ms) : m.at <= loaded \/ m.type = "compaction"}))
    <3>1. SUFFICES ASSUME loop \in {"final", "sent"}
                   PROVE  Positions(context) =
                            Positions(Among(ms, {m \in Items(ms) : m.at <= loaded \/ m.type = "compaction"}))
      OBVIOUS
    <3>2. /\ Gathers(context, branch, loaded) /\ loaded \in 0..Len(branch)
          /\ context \in Seq(MessageUpTo(Len(branch)))
      BY <2>1, <3>1 DEF WholeInv, ShapeInv, InMemory
    <3>3. QED
      BY <2>2, <3>2, SameAsLoaded DEF ms
  <2>7. QED
    BY <2>5, <2>6 DEF ContextIsWhole, ms, c
<1>2. QED
  BY <1>1, WholeInvariant, PTL
=============================================================================
