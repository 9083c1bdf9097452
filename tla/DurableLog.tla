----------------------------- MODULE DurableLog -----------------------------
(***************************************************************************)
(* What a session file promises its readers: one list of commits that only *)
(* grows, each commit valid after those before it, and a prefix of it that *)
(* no crash can take back.                                                 *)
(***************************************************************************)
EXTENDS Naturals, Sequences

CONSTANTS
  Commit,   \* commits
  Id,       \* commit identifiers
  IdOf,     \* identifier of a commit; a retried commit keeps its identifier
  Needs     \* commits whose changes a commit refers to

VARIABLES
  log,      \* the commits a reader of the file finds
  stable    \* length of the prefix of log that survives any crash

vars == <<log, stable>>

In(c, s) == \E i \in DOMAIN s : s[i] = c

(* A strict reader accepts c after the commits of s.                       *)
Follows(c, s) ==
  /\ \A i \in DOMAIN s : IdOf[s[i]] # IdOf[c]
  /\ \A d \in Needs[c] : In(d, s)

Init == log = <<>> /\ stable = 0

AppendCommit(c) ==
  /\ Follows(c, log)
  /\ log' = Append(log, c)
  /\ UNCHANGED stable

(* Everything readable becomes stable.                                     *)
Stabilize == stable' = Len(log) /\ UNCHANGED log

(* A crash leaves a prefix of the log, no shorter than its stable part.    *)
Crash ==
  \E n \in stable..Len(log) :
    /\ log' = SubSeq(log, 1, n)
    /\ stable' = n

Next == (\E c \in Commit : AppendCommit(c)) \/ Stabilize \/ Crash

Spec == Init /\ [][Next]_vars
=============================================================================
