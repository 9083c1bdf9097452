-------------------------- MODULE MCSessionWriter --------------------------
(* Four drafts: b refers to what a created, bb is a draft of b with other  *)
(* content under the same commit identifier, and c stands alone.           *)
EXTENDS SessionWriter

CONSTANTS a, b, bb, c, ida, idb, idc

MCCommit == {a, b, bb, c}
MCId     == {ida, idb, idc}
MCIdOf   == [x \in MCCommit |-> CASE x = a -> ida [] x = c -> idc [] OTHER -> idb]
MCNeeds  == [x \in MCCommit |-> IF x \in {b, bb} THEN {a} ELSE {}]
=============================================================================
