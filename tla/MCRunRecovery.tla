---------------------------- MODULE MCRunRecovery ----------------------------
(* Instances of RunRecovery for TLC: the run loop, crashes and recovery.   *)
EXTENDS RunRecovery, TLC

CallSymmetry == Permutations(CallId)

(* One run with tool calls that may crash, or two runs with messages sent  *)
(* during a call and no effects: the whole product is out of reach.        *)
ToolsWithoutMessages ==
  /\ \A e \in EntryId : entry[e].status = "absent"
  /\ Cardinality({o \in OpId : op[o].status # "absent"}) <= 1

MessagesWithoutTools ==
  /\ \A t \in EffectId : effect[t].status = "absent"
  /\ \A o \in OpId : op[o].selected <= 1
  /\ \A n, m \in NodeId : Cardinality(calls[n]) <= 1 /\ (n # m => calls[n] \cap calls[m] = {})
  /\ crashes = 0 /\ throws = 0

OneHalf == ToolsWithoutMessages \/ MessagesWithoutTools
=============================================================================
