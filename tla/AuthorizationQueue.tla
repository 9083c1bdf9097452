-------------------------- MODULE AuthorizationQueue --------------------------
(***************************************************************************)
(* ToolAuthorizationQueue of packages/ohm/src/service/tool-authorization-  *)
(* queue.ts: the approvals a host is asked for, one at a time, each with   *)
(* the abort signal of its call.                                           *)
(*                                                                         *)
(* The queue is a chain of promises: a question is put when the one called *)
(* before it has left the chain.  Its caller gets the answer of the host,  *)
(* or an error as soon as its signal is aborted; the chain never sees the  *)
(* latter, and waits for a host that has been asked to finish.             *)
(***************************************************************************)
EXTENDS Naturals, Sequences

CONSTANT Question  \* calls of run

VARIABLES
  chain,     \* the questions in the order of the calls
  question,  \* where a question is
  signalled, \* questions whose signal is aborted
  outcome    \* what its caller got

questionVars == <<chain, question, signalled, outcome>>

QuestionInit ==
  /\ chain = <<>>
  /\ question = [q \in Question |-> "new"]
  /\ signalled = {}
  /\ outcome = [q \in Question |-> "none"]

Position(q) == CHOOSE i \in DOMAIN chain : chain[i] = q
Moves(q, to) == question' = [question EXCEPT ![q] = to]

(* settleWithSignal: the first of answer and abort is what the caller gets *)
Gets(q, result) == outcome' = [outcome EXCEPT ![q] = IF @ = "none" THEN result ELSE @]

(* run; a signal that is aborted already is an error at once.              *)
Ask(q) ==
  /\ question[q] = "new" /\ Moves(q, "queued")
  /\ chain' = Append(chain, q)
  /\ IF q \in signalled THEN Gets(q, "aborted") ELSE UNCHANGED outcome
  /\ UNCHANGED signalled

\* Mutant: a question has left the chain as soon as its caller has a result.
CallerHasResult(q) == outcome[q] # "none"

LeftChain(q) == question[q] \in {"settled", "skipped"}

(* The promise the question was chained to is settled.                     *)
HasTurn(q) == \A i \in 1 .. Position(q) - 1 : LeftChain(chain[i])

(* The turn of a question: the host is asked, unless the call is aborted.  *)
Turn(q) ==
  /\ question[q] = "queued" /\ HasTurn(q)
  /\ IF q \in signalled THEN Moves(q, "skipped") ELSE Moves(q, "asking")
  /\ UNCHANGED <<chain, signalled, outcome>>

(* The host has answered, or failed.                                       *)
Answer(q) ==
  /\ question[q] = "asking" /\ Moves(q, "settled")
  /\ Gets(q, "answered")
  /\ UNCHANGED <<chain, signalled>>

AbortCall(q) ==
  /\ q \notin signalled /\ signalled' = signalled \cup {q}
  /\ IF question[q] = "new" THEN UNCHANGED outcome ELSE Gets(q, "aborted")
  /\ UNCHANGED <<chain, question>>

QuestionNext == \E q \in Question : Ask(q) \/ Turn(q) \/ Answer(q) \/ AbortCall(q)

QuestionSpec == QuestionInit /\ [][QuestionNext]_questionVars

-----------------------------------------------------------------------------
(* Every variable has its shape.                                           *)
QuestionTypeOK ==
  /\ chain \in Seq(Question)
  /\ question \in [Question -> {"new", "queued", "asking", "settled", "skipped"}]
  /\ signalled \subseteq Question
  /\ outcome \in [Question -> {"none", "answered", "aborted"}]

(* The host is asked one question at a time, in the order of the calls,    *)
(* and while it is at work on one, even one given up by its caller, it is  *)
(* not asked the next; no caller waits once its signal is aborted.         *)
QuestionsInTurn ==
  /\ \A i, j \in DOMAIN chain :
       i < j /\ question[chain[j]] = "asking" => question[chain[i]] \notin {"queued", "asking"}
  /\ \A q \in signalled : question[q] # "new" => outcome[q] # "none"
=============================================================================
