---------------------------- MODULE ManagedProcess ----------------------------
(***************************************************************************)
(* ManagedProcessSupervisor of packages/ohm/src/process/managed-process.ts *)
(* with the termination of process trees of process-tree.ts: the child     *)
(* processes of an extension, on a system with process groups.             *)
(*                                                                         *)
(* A process is in its own group, with descendants that may leave it.  The *)
(* events of the child arrive in the order the system allows; the process  *)
(* writes to a pipe the supervisor reads, holds back when the extension    *)
(* does not read, and may cut.  Signals may have no effect.                *)
(***************************************************************************)
EXTENDS Naturals, Sequences, FiniteSets

CONSTANTS
  Process,      \* calls of spawn
  MaxRunning,   \* MAX_RUNNING_PER_OWNER
  MaxTerminal,  \* records of ended processes that are kept
  HighWater, LowWater,  \* of the bytes kept for the extension, in chunks
  MaxOutput     \* chunks a process writes

ASSUME ProcessAssumption ==
  /\ {MaxRunning, MaxTerminal, HighWater, LowWater} \subseteq Nat \ {0}
  /\ LowWater <= HighWater /\ MaxOutput \in Nat

VARIABLES
  state,   \* of the record
  reason,  \* #stop: why the process is stopped
  child,   \* what the supervisor was told of the child
  code,    \* exit code
  killed,  \* a SIGKILL that took effect
  kin,     \* descendants hold the pipe
  timers,  \* those that are set
  unread,  \* chunks in the pipe
  output,  \* chunks it may still write
  cut,     \* the pipe was destroyed
  bytes,   \* chunks kept for the extension
  paused, eof,
  pending, \* a read of the extension that waits
  finished, \* records of ended processes, oldest first
  ownerGone \* the generation of the extension has ended

system    == <<killed, kin, unread, output>>
stream    == <<bytes, paused, eof, pending>>
processVars == <<state, reason, child, code, timers, cut, finished, ownerGone, system, stream>>

Ended == {"succeeded", "failed", "cancelled", "timed_out"}
RecordStates == {"absent", "starting", "running", "stopping", "released"} \cup Ended
Runs(p)  == state[p] \in {"starting", "running", "stopping"}
HasEnded(p) == state[p] \in Ended

ProcessInit ==
  /\ state = [p \in Process |-> "absent"] /\ reason = [p \in Process |-> "none"]
  /\ child = [p \in Process |-> "none"] /\ code = [p \in Process |-> "none"]
  /\ killed = {} /\ kin = {} /\ timers = [p \in Process |-> {}]
  /\ unread = [p \in Process |-> 0] /\ output = [p \in Process |-> MaxOutput] /\ cut = {}
  /\ bytes = [p \in Process |-> 0] /\ paused = {} /\ eof = {} /\ pending = {}
  /\ finished = <<>> /\ ownerGone = FALSE

-----------------------------------------------------------------------------
(* #finish, and the release of records that follows it.                    *)

(* #disposeRecord; a read that waits is rejected.                          *)
Kept(list) ==
  IF ownerGone /\ Cardinality({p \in Process : Runs(p)}) = 1 THEN <<>>
  ELSE IF Len(list) > MaxTerminal THEN Tail(list) ELSE list

Members(list) == {list[i] : i \in DOMAIN list}

(* Timers are cleared, waiting reads are answered, the record is kept for  *)
(* a while; with the last process of an owner that is gone, none is kept.  *)
Finish(p, verdict) ==
  LET list == Append(finished, p)  gone == Members(list) \ Members(Kept(list)) IN
  /\ finished' = Kept(list)
  /\ state' = [q \in Process |-> IF q \in gone THEN "released" ELSE IF q = p THEN verdict ELSE state[q]]
  /\ timers' = [timers EXCEPT ![p] = {}]
  /\ eof' = eof \cup {p} /\ pending' = pending \ {p}
  /\ bytes' = [q \in Process |-> IF q \in gone THEN 0 ELSE bytes[q]]
  /\ paused' = paused \ gone

\* Mutant: the exit code is looked at first.
VerdictByCode(why, exit) == IF exit = "zero" THEN "succeeded" ELSE IF why = "timeout" THEN "timed_out" ELSE "failed"

Verdict(why, exit) ==
  CASE why = "timeout" -> "timed_out"
    [] why = "cancel" -> "cancelled"
    [] why = "failure" -> "failed"
    [] why = "none" -> IF exit = "zero" THEN "succeeded" ELSE "failed"

(* terminateProcessTree with SIGKILL; what it may end.                     *)
Kill(p) ==
  /\ killed' \in {killed, killed \cup {p}}
  /\ kin' \in {kin, kin \ {p}}
  /\ UNCHANGED <<unread, output>>

-----------------------------------------------------------------------------
(* #spawn, with or without a time limit; spawn itself may throw.           *)
Spawn(p) ==
  /\ state[p] = "absent" /\ ~ownerGone
  /\ Cardinality({q \in Process : Runs(q)}) < MaxRunning
  /\ \/ /\ state' = [state EXCEPT ![p] = "starting"] /\ child' = [child EXCEPT ![p] = "spawning"]
        /\ \E limit \in {{}, {"timeout"}} : timers' = [timers EXCEPT ![p] = limit]
        /\ UNCHANGED <<stream, finished>>
     \/ Finish(p, "failed") /\ UNCHANGED child
  /\ UNCHANGED <<reason, code, cut, ownerGone, system>>

(* Event spawn.  A stop that came earlier signals again.                   *)
Spawned(p) ==
  /\ child[p] = "spawning" /\ child' = [child EXCEPT ![p] = "alive"]
  /\ state' = IF state[p] = "starting" THEN [state EXCEPT ![p] = "running"] ELSE state
  /\ UNCHANGED <<reason, code, timers, cut, finished, ownerGone, system, stream>>

(* Event error: there is no process.                                       *)
SpawnFailed(p) ==
  /\ child[p] = "spawning" /\ child' = [child EXCEPT ![p] = "closed"]
  /\ IF Runs(p) THEN Finish(p, IF reason[p] = "none" THEN "failed" ELSE Verdict(reason[p], "other"))
     ELSE UNCHANGED <<state, timers, stream, finished>>
  /\ UNCHANGED <<reason, code, cut, ownerGone, system>>

StopReason(p, why) ==
  /\ reason[p] = "none" /\ reason' = [reason EXCEPT ![p] = why]

(* #stop: SIGTERM, and the timers that see to it that this is the end.     *)
StopProcess(p, why) ==
  /\ Runs(p) /\ StopReason(p, why)
  /\ state' = [state EXCEPT ![p] = "stopping"]
  /\ timers' = [timers EXCEPT ![p] = (@ \ {why}) \cup {"escalation", "settlement"}]
  /\ UNCHANGED <<child, code, cut, finished, system, stream>>

(* cancel, the abort of the caller's signal, an error of the pipe; the     *)
(* time limit.                                                             *)
Cancelled(p) == (\E why \in {"cancel", "failure"} : StopProcess(p, why)) /\ UNCHANGED ownerGone
TimeLimit(p) == "timeout" \in timers[p] /\ StopProcess(p, "timeout") /\ UNCHANGED ownerGone

(* The signal of the owner: all its processes are stopped, and its reads   *)
(* are rejected.                                                           *)
OwnerEnds ==
  /\ ~ownerGone /\ ownerGone' = TRUE
  /\ LET stopped == {p \in Process : Runs(p) /\ reason[p] = "none"}
         released == IF \E p \in Process : Runs(p) THEN {} ELSE Members(finished) IN
     /\ reason' = [p \in Process |-> IF p \in stopped THEN "cancel" ELSE reason[p]]
     /\ state' = [p \in Process |-> IF p \in stopped THEN "stopping"
                                    ELSE IF p \in released THEN "released" ELSE state[p]]
     /\ timers' = [p \in Process |->
                     IF p \in stopped THEN timers[p] \cup {"escalation", "settlement"} ELSE timers[p]]
     /\ finished' = IF released = {} THEN finished ELSE <<>>
     /\ bytes' = [p \in Process |-> IF p \in released THEN 0 ELSE bytes[p]]
     /\ paused' = paused \ released
     /\ pending' = {}
  /\ UNCHANGED <<child, code, cut, eof, system>>

-----------------------------------------------------------------------------
(* The system.                                                             *)

Writes(p) ==
  /\ output[p] > 0 /\ (child[p] = "alive" \/ p \in kin) /\ p \notin cut
  /\ output' = [output EXCEPT ![p] = @ - 1] /\ unread' = [unread EXCEPT ![p] = @ + 1]
  /\ UNCHANGED <<state, reason, child, code, timers, cut, finished, ownerGone, killed, kin, stream>>

Forks(p) ==
  /\ child[p] = "alive" /\ p \notin kin /\ p \notin killed /\ kin' = kin \cup {p}
  /\ UNCHANGED <<state, reason, child, code, timers, cut, finished, ownerGone, killed, unread, output, stream>>

(* The rest of the group is killed, and the pipe is given a second.        *)
ExitCleanup(p) ==
  /\ Kill(p)
  /\ timers' = [timers EXCEPT ![p] = @ \cup {"drain"}]

(* Event exit.                                                             *)
Exits(p) ==
  /\ child[p] = "alive" /\ child' = [child EXCEPT ![p] = "exited"]
  /\ \E exit \in IF p \in killed THEN {"other"} ELSE {"zero", "other"} :
       code' = [code EXCEPT ![p] = exit]
  /\ ExitCleanup(p)
  /\ UNCHANGED <<state, reason, cut, finished, ownerGone, stream>>

-----------------------------------------------------------------------------
(* The pipe and the reads of the extension.                                *)

\* Mutant: the pipe is resumed only when a read finds it empty.
ResumePipeWhenEmpty(p, left) == paused' = IF left = 0 /\ bytes[p] = 0 THEN paused \ {p} ELSE paused

(* #resumePipe                                                             *)
ResumePipe(p, left) == paused' = IF left <= LowWater THEN paused \ {p} ELSE paused

(* Event data: a read that waits is answered, or the chunk is kept, and    *)
(* the pipe is paused when enough of them are.                             *)
Data(p) ==
  /\ unread[p] > 0 /\ p \notin paused /\ p \notin cut
  /\ unread' = [unread EXCEPT ![p] = @ - 1]
  /\ \/ ~Runs(p) /\ UNCHANGED stream
     \/ Runs(p) /\ p \in pending /\ pending' = pending \ {p} /\ UNCHANGED <<bytes, paused, eof>>
     \/ /\ Runs(p) /\ p \notin pending /\ bytes' = [bytes EXCEPT ![p] = @ + 1]
        /\ paused' = IF bytes[p] + 1 >= HighWater THEN paused \cup {p} ELSE paused
        /\ UNCHANGED <<eof, pending>>
  /\ UNCHANGED <<state, reason, child, code, timers, cut, finished, ownerGone, killed, kin, output>>

(* read takes what is kept, up to its limit, or waits.                     *)
Read(p) ==
  /\ Runs(p) \/ HasEnded(p)
  /\ ~ownerGone
  /\ \/ /\ bytes[p] > 0
        /\ \E n \in 1 .. bytes[p] :
             bytes' = [bytes EXCEPT ![p] = @ - n] /\ ResumePipe(p, bytes[p] - n)
        /\ UNCHANGED <<eof, pending>>
     \/ /\ bytes[p] = 0 /\ p \notin eof /\ p \notin pending
        /\ pending' = pending \cup {p} /\ UNCHANGED <<bytes, paused, eof>>
  /\ UNCHANGED <<state, reason, child, code, timers, cut, finished, ownerGone, system>>

(* The signal of the read is aborted.                                      *)
ReadAborted(p) ==
  /\ p \in pending /\ pending' = pending \ {p}
  /\ UNCHANGED <<state, reason, child, code, timers, cut, finished, ownerGone, system, bytes, paused, eof>>

(* All holders of the pipe are gone and all is read, or it was cut.        *)
PipeOver(p) == p \in cut \/ (child[p] = "exited" /\ p \notin kin /\ unread[p] = 0 /\ p \notin paused)

(* Event end.                                                              *)
PipeEnds(p) ==
  /\ child[p] # "none" /\ p \notin cut /\ PipeOver(p) /\ p \notin eof
  /\ eof' = eof \cup {p} /\ pending' = pending \ {p}
  /\ UNCHANGED <<state, reason, child, code, timers, cut, finished, ownerGone, system, bytes, paused>>

(* Event close.                                                            *)
Closes(p) ==
  /\ child[p] = "exited" /\ PipeOver(p) /\ (p \in cut \/ p \in eof)
  /\ child' = [child EXCEPT ![p] = "closed"]
  /\ IF Runs(p) THEN Finish(p, Verdict(reason[p], code[p]))
     ELSE UNCHANGED <<state, timers, stream, finished>>
  /\ UNCHANGED <<reason, code, cut, ownerGone, system>>

-----------------------------------------------------------------------------
(* Timers.                                                                 *)

Fires(p, timer) == timer \in timers[p] /\ timers' = [timers EXCEPT ![p] = @ \ {timer}]

Escalates(p) ==
  /\ Fires(p, "escalation") /\ Kill(p)
  /\ cut' = cut \cup {p}
  /\ UNCHANGED <<state, reason, child, code, finished, ownerGone, stream>>

Drains(p) ==
  /\ Fires(p, "drain") /\ cut' = cut \cup {p}
  /\ UNCHANGED <<state, reason, child, code, finished, ownerGone, system, stream>>

(* One second after the escalation the record is settled in any case.      *)
Settles(p) ==
  /\ "settlement" \in timers[p] /\ "escalation" \notin timers[p]
  /\ Finish(p, Verdict(reason[p], "other"))
  /\ UNCHANGED <<reason, child, code, cut, ownerGone, system>>

-----------------------------------------------------------------------------
TimerStep(p) == TimeLimit(p) \/ Escalates(p) \/ Drains(p) \/ Settles(p)
EventStep(p) == Spawned(p) \/ Data(p) \/ PipeEnds(p) \/ Closes(p)
ProcessCall(p)  == Spawn(p) \/ Cancelled(p) \/ Read(p) \/ ReadAborted(p)
SystemStep(p) == SpawnFailed(p) \/ Writes(p) \/ Forks(p) \/ Exits(p)

ProcessNext ==
  \/ \E p \in Process : TimerStep(p) \/ EventStep(p) \/ ProcessCall(p) \/ SystemStep(p)
  \/ OwnerEnds

(* Timers fire and events are delivered; a process need never exit, nor    *)
(* the extension read.                                                     *)
ProcessProgress == \E p \in Process : TimerStep(p) \/ EventStep(p)

ProcessFairness == WF_processVars(ProcessProgress)

ProcessSpec == ProcessInit /\ [][ProcessNext]_processVars /\ ProcessFairness

-----------------------------------------------------------------------------
(* Every variable has its shape.                                           *)
ProcessTypeOK ==
  /\ state \in [Process -> RecordStates]
  /\ reason \in [Process -> {"none", "cancel", "failure", "timeout"}]
  /\ child \in [Process -> {"none", "spawning", "alive", "exited", "closed"}]
  /\ code \in [Process -> {"none", "zero", "other"}]
  /\ killed \cup kin \cup cut \cup paused \cup eof \cup pending \subseteq Process
  /\ timers \in [Process -> SUBSET {"timeout", "escalation", "settlement", "drain"}]
  /\ unread \in [Process -> 0 .. MaxOutput] /\ output \in [Process -> 0 .. MaxOutput]
  /\ bytes \in [Process -> 0 .. HighWater]
  /\ finished \in Seq(Process) /\ Len(finished) <= MaxTerminal /\ ownerGone \in BOOLEAN
  /\ \A p \in Process : reason[p] # "none" => ~(state[p] \in {"starting", "running"})

(* No chunk is stuck: a pipe is held back only while the extension has     *)
(* something to read, and a read waits only while there is nothing to      *)
(* give it and something may come.                                         *)
ReadersAreServed ==
  \A p \in Process :
    /\ p \in paused /\ Runs(p) => bytes[p] > 0
    /\ p \in pending => bytes[p] = 0 /\ p \notin eof /\ Runs(p)

(* A record is settled once.  The first reason to stop the process decides *)
(* how, and it is a success only after an exit with code 0 that nobody had *)
(* asked for.                                                              *)
FirstReasonDecides ==
  [][\A p \in Process :
       /\ reason[p] # "none" => reason'[p] = reason[p]
       /\ HasEnded(p) => state'[p] \in {state[p], "released"}
       /\ Runs(p) /\ state'[p] = "succeeded" => reason[p] = "none" /\ code[p] = "zero"
       /\ Runs(p) /\ state'[p] \in Ended =>
            /\ reason[p] = "timeout" <=> state'[p] = "timed_out"
            /\ reason[p] = "cancel" <=> state'[p] = "cancelled"]_processVars

(* The supervisor has been told that it is to end, or that it has.         *)
IsStopping(p) == Runs(p) /\ (state[p] = "stopping" \/ child[p] = "exited")
=============================================================================
