------------------------------- MODULE MCHost -------------------------------
(* What a session host runs beside the conversation: the tool calls, the   *)
(* durable jobs and the managed processes, on instances of their own.      *)
(* They share nothing: a behaviour is one of a single part, chosen at the  *)
(* start, and the others rest.                                             *)
EXTENDS ToolScheduler, DurableJobs, ManagedProcess

CONSTANTS b1, b2, b3, c1, c2, c3, d1, d2, shell, j1, j2, h1, h2, p1, p2

VARIABLE part
hostVars == <<part, vars, jobVars, processVars>>

(* Three batches over a workspace with a directory, a file in it and       *)
(* another file: a read, a write below it and a sequential request; two    *)
(* reads side by side; and a shell command that claims the workspace.      *)
MCBatch   == {b1, b2, b3}
MCCall    == {c1, c2, c3, d1, d2, shell}
MCBatchOf == [c \in MCCall |-> CASE c = shell -> b3 [] c \in {d1, d2} -> b2 [] OTHER -> b1]
MCIndex   == [c \in MCCall |-> CASE c \in {c2, d2} -> 1 [] c = c3 -> 2 [] OTHER -> 0]
MCKey     == {"workspace", "dir", "dir/file", "other"}
MCOverlap ==
  {o \in MCKey \X MCKey : o[1] = o[2] \/ "other" \notin {o[1], o[2]} \/ "workspace" \in {o[1], o[2]}}

Claim(kind, key, mode) == [kind |-> kind, key |-> key, mode |-> mode]
MCClaims ==
  [c \in MCCall |->
     CASE c = c1 -> {Claim("file", "dir", "read")}
       [] c = c2 -> {Claim("file", "dir/file", "write")}
       [] c = c3 -> {Claim("file", "other", "write")}
       [] c = d1 -> {Claim("file", "dir/file", "read")}
       [] c = d2 -> {Claim("file", "other", "read"), Claim("network", "other", "read")}
       [] c = shell -> {Claim("workspace", "workspace", "write")}]
MCSequential == {c3}

(* The jobs of two processes.                                              *)
MCProcessOf == [h \in {h1, h2} |-> h]
MCKeyOf     == [j \in {j1, j2} |-> j]

HostInit ==
  /\ part \in {"tools", "job", "jobs", "processes"}
  /\ Init /\ JobsInit /\ ProcessInit

(* One job between two hosts, started by the first, whose writes may fail; *)
(* or two jobs of one host that stays, run once each, of which the store   *)
(* keeps one.                                                              *)
OneJob  == store'[j2].state = "absent" /\ (store'[j1].attempt = 1 => store'[j1].host # h2)
TwoJobs ==
  /\ status' = status /\ failures' = 0
  /\ \A j \in Job : store'[j].host # h2 /\ store'[j].attempt <= 1

(* The second process is never there: spawn throws.                        *)
OneProcess == child'[p2] = "none" /\ p2 \notin pending'

InTools(A) == part = "tools" /\ A /\ UNCHANGED <<part, jobVars, processVars>>
InJobs(A) ==
  /\ part \in {"job", "jobs"} /\ A /\ UNCHANGED <<part, vars, processVars>>
  /\ IF part = "job" THEN OneJob ELSE TwoJobs
InProcesses(A) == part = "processes" /\ A /\ OneProcess /\ UNCHANGED <<part, vars, jobVars>>

HostNext == InTools(Next) \/ InJobs(JobsNext) \/ InProcesses(ProcessNext)

(* The fairness of the part that acts.                                     *)
HostFairness ==
  WF_hostVars(InTools(Progress) \/ InJobs(JobsProgress) \/ InProcesses(ProcessProgress))

HostSpec == HostInit /\ [][HostNext]_hostVars /\ HostFairness

(* Every variable of the three parts has its shape.                        *)
HostTypeOK == TypeOK /\ JobsTypeOK /\ ProcessTypeOK

(* What was begun comes to an end.  Once a call of a tool has begun, every *)
(* batch ends and gives back what it held.  A job does not stay active for *)
(* ever, whatever writes failed and whoever died, as long as a host that   *)
(* may settle it is open (the other job is alike).  A process that is      *)
(* stopped or has exited is settled, even if signals do nothing, a         *)
(* descendant keeps the pipe open, or nobody reads it.  Each part is held  *)
(* to its own, for as long as it runs.                                     *)
Begun ==
  \/ part = "tools" /\ \E c \in Call : stage[c] # "planned"
  \/ part \in {"job", "jobs"} /\ IsActive(store, j1)
  \/ part = "processes" /\ IsStopping(p1)
Over ==
  \/ part = "tools" /\ BatchesOver
  \/ part \in {"job", "jobs"} /\ (~IsActive(store, j1) \/ ~InReach(j1))
  \/ part = "processes" /\ ~Runs(p1)

WhatIsBegunEnds == Begun ~> Over
=============================================================================
