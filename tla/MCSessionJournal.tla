-------------------------- MODULE MCSessionJournal --------------------------
(* An instance of SessionJournal for TLC.  The identifier sets are         *)
(* interchangeable: no definition names one of their members.              *)
EXTENDS SessionJournal, TLC

IdSymmetry ==
  UNION {Permutations(NodeId), Permutations(OpId), Permutations(EntryId),
         Permutations(EffectId), Permutations(CallId)}

(* One run with its tool effects and nothing queued, or two runs with what *)
(* is queued and no effects: the two halves of the reducer meet only in    *)
(* the end of a run, which both have.                                      *)
EffectsWithoutQueue ==
  /\ \A e \in EntryId : entry[e].status = "absent"
  /\ Cardinality({o \in OpId : op[o].status # "absent"}) <= 1

QueueWithoutEffects ==
  /\ \A t \in EffectId : effect[t].status = "absent"
  /\ \A n \in NodeId : node[n].role \in {"absent", "user"}
  /\ \A o \in OpId : op[o].selected = 0

OneHalf == EffectsWithoutQueue \/ QueueWithoutEffects
=============================================================================
