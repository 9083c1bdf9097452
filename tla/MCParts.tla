------------------------------- MODULE MCParts -------------------------------
(* The smaller parts around a session, on instances of their own.          *)
(* They share nothing: a behaviour is one of a single part, chosen at the  *)
(* start, and the others rest.                                             *)
EXTENDS FileLock, WriterLease, MutationQueue, AuthorizationQueue, SessionRuntime,
  ContextCompaction, TLC

CONSTANTS a1, a2, a3, s1, l1, l2, l3, l4, x, y, m1, m2, m3, m4, n_real, n_link, n_other,
  r1, r2, r3, Parts

VARIABLE part
vars == <<part, lockVars, leaseVars, mutationVars, questionVars, runtimeVars, contextVars>>

MCPathOf   == [p \in {l1, l2, l3, l4} |-> IF p \in {l1, l2} THEN x ELSE y]
MCNameOf   == [m \in {m1, m2, m3, m4} |-> CASE m = m1 -> n_real [] m = m4 -> n_other [] OTHER -> n_link]
MCRealName == [n \in {n_real, n_link, n_other} |-> IF n = n_other THEN n_other ELSE n_real]

Init ==
  /\ part \in Parts
  /\ LockInit /\ LeaseInit /\ MutationInit /\ QuestionInit /\ RuntimeInit /\ ContextInit
  /\ part # "lease" => file

(* Three callers of the lock wait for it, or two and one that does not, or *)
(* there are two, which are as slow as they like, or three that live.      *)
LockParts == {"lock", "lock_sync", "lock_slow", "lock_alive"}
Callers ==
  CASE part \in {"lock", "lock_alive"} -> {{a1, a2, a3}}
    [] part = "lock_sync" -> {{a1, a2, s1}}
    [] part = "lock_slow" -> {{a1, a2}, {a1, s1}}

(* Acquisition and release take less than STALE_AFTER_MS, and a waiter     *)
(* goes by an age the directory had when it looked, or has at its verdict. *)
Quick ==
  /\ old' /\ ~old => \A c \in Caller : at[c] \notin Unclaimed \cup {"owner", "pid", "verify", "unclaim"}
  /\ \A c \in aged' \ aged : old /\ dir \in {seen[c], seen'[c]}

LockPart ==
  /\ part \in LockParts /\ LockNext
  /\ \E called \in Callers : \A c \in Caller \ called : at'[c] = "idle"
  /\ part # "lock_slow" => Quick
  /\ part = "lock_alive" => \A c \in Caller : at'[c] # "dead"
  /\ UNCHANGED <<part, leaseVars, mutationVars, questionVars, runtimeVars, contextVars>>
LeasePart ==
  /\ part = "lease" /\ LeaseNext
  /\ UNCHANGED <<part, lockVars, mutationVars, questionVars, runtimeVars, contextVars>>
MutationPart ==
  /\ part = "mutations" /\ MutationNext
  /\ UNCHANGED <<part, lockVars, leaseVars, questionVars, runtimeVars, contextVars>>
QuestionPart ==
  /\ part = "questions" /\ QuestionNext
  /\ UNCHANGED <<part, lockVars, leaseVars, mutationVars, runtimeVars, contextVars>>
(* Calls of the runtime differ in nothing but their names, so they come in *)
(* the order of these; the third is a refresh.                             *)
RuntimePart ==
  /\ part = "runtime" /\ RuntimeNext
  /\ \E n \in 0 .. 3 : calls' = SubSeq(<<r1, r2, r3>>, 1, n)
  /\ kind'[r3] = "refresh"
  /\ UNCHANGED <<part, lockVars, leaseVars, mutationVars, questionVars, contextVars>>

(* The last two entries of a branch are compactions.                       *)
ContextPart ==
  /\ part = "context" /\ ContextNext
  /\ Len(branch') > MaxEntries - 2 => branch'[Len(branch')].type = "compaction"
  /\ UNCHANGED <<part, lockVars, leaseVars, mutationVars, questionVars, runtimeVars>>

Next == LockPart \/ LeasePart \/ MutationPart \/ QuestionPart \/ RuntimePart \/ ContextPart
Spec == Init /\ [][Next]_vars

(* Openers of a path are alike, and so are the paths.                      *)
Alike ==
  {f \in Permutations(Opener \cup Path) :
     \A p \in Opener : f[p] \in Opener /\ f[PathOf[p]] = PathOf[f[p]]}

(* Every variable of the parts has its shape.                              *)
PartsTypeOK ==
  /\ LockTypeOK /\ LeaseTypeOK /\ MutationTypeOK /\ QuestionTypeOK /\ RuntimeTypeOK
  /\ ContextTypeOK
=============================================================================
