---------------------------- MODULE SessionRuntime ----------------------------
(***************************************************************************)
(* AgentSessionRuntime of packages/ohm/src/service/agent-session-runtime.  *)
(* ts: the session a host has open, and its replacement by a new one, a    *)
(* fork, an imported or another session, or by a refresh of the same.      *)
(*                                                                         *)
(* Calls take turns (#mutate).  A replacement closes the session before it *)
(* makes the next one; if that fails, or the caller gives up, the one it   *)
(* had is opened again.  Every await is a step of its own: callers abort,  *)
(* the runtime is disposed of, and what a caller no longer waits for goes  *)
(* on.  Sessions are persistent, each the writer of its file.              *)
(***************************************************************************)
EXTENDS Naturals, Sequences, FiniteSets

CONSTANTS
  Request,          \* calls of the runtime; also the names of the files they make
  Home, Elsewhere,  \* the file of the first session, and another
  MaxSessions       \* sessions that are made

ASSUME RuntimeAssumption ==
  Home # Elsewhere /\ {Home, Elsewhere} \cap Request = {} /\ MaxSessions \in Nat \ {0}

VARIABLES
  current,        \* #session
  disposed,       \* #currentDisposed
  closing, closed, \* #closing, #closed
  disposal,       \* where dispose() is
  calls,          \* the chain of #mutationTail
  doing,          \* where a call is
  kind,           \* what it does
  gaveUp,         \* calls whose signal is aborted
  previous,       \* session a replacement began with
  early,          \* session whose store is opened before that one is closed, or 0
  candidate,      \* session it is making or has made, or 0
  life,           \* of the sessions made so far
  writes,         \* file of a session
  writers,        \* sessions whose store is open
  files           \* session files that exist

flags       == <<closing, closed, disposal>>
callVars    == <<calls, kind, gaveUp>>
stores      == <<writes, writers, files>>
heldVars    == <<previous, early, candidate>>
runtimeVars == <<current, disposed, flags, callVars, doing, heldVars, life, stores>>

SessionFile == {Home, Elsewhere} \cup Request
Kinds       == {"new", "fork", "switch", "import", "refresh"}
Stages      ==
  {"idle", "queued", "guard", "setup", "close", "create", "creating", "created", "rebind",
   "discard", "recover", "recovering", "recovered", "rebound", "failing", "with", "ended"}
Lives       == {"opened", "live", "abandoned", "closed"}
Session     == 1 .. Len(life)

RuntimeInit ==
  /\ current = 1 /\ life = <<"live">> /\ writes = <<Home>>
  /\ disposed = FALSE /\ closing = FALSE /\ closed = FALSE /\ disposal = "none"
  /\ calls = <<>> /\ gaveUp = {}
  /\ doing = [m \in Request |-> "idle"] /\ kind = [m \in Request |-> "refresh"]
  /\ previous = [m \in Request |-> 0] /\ early = [m \in Request |-> 0]
  /\ candidate = [m \in Request |-> 0]
  /\ writers = {1} /\ files = {Home, Elsewhere}

Does(m, stage)  == doing' = [doing EXCEPT ![m] = stage]
Keeps(m, s)     == candidate' = [candidate EXCEPT ![m] = s]
Operates(m)     == doing[m] \notin {"idle", "queued", "ended"}
(* The signal of an operation: the caller's, or that of dispose().         *)
Interrupted(m)  == m \in gaveUp \/ disposal # "none"

-----------------------------------------------------------------------------
(* Turns.                                                                  *)

Enter(m) ==
  /\ doing[m] = "idle" /\ ~closing
  /\ \E k \in Kinds : kind' = [kind EXCEPT ![m] = k]
  /\ calls' = Append(calls, m) /\ Does(m, "queued")
  /\ UNCHANGED <<current, disposed, flags, gaveUp, heldVars, life, stores>>

GiveUpCall(m) ==
  /\ m \notin gaveUp /\ doing[m] \notin {"idle", "ended"} /\ gaveUp' = gaveUp \cup {m}
  /\ UNCHANGED <<current, disposed, flags, calls, kind, doing, heldVars, life, stores>>

\* Mutant: a call waits for the gate of the one before it and no other.
AheadOne(m) ==
  LET i == CHOOSE j \in DOMAIN calls : calls[j] = m IN IF i = 1 THEN {} ELSE {calls[i - 1]}

Ahead(m) ==
  LET i == CHOOSE j \in DOMAIN calls : calls[j] = m IN {calls[j] : j \in 1 .. i - 1}

(* Its turn, unless the runtime was closed or its origin replaced.         *)
TakesTurn(m) ==
  /\ doing[m] = "queued" /\ \A other \in Ahead(m) : doing[other] = "ended"
  /\ \/ Does(m, "ended")
     \/ ~closing /\ ~Interrupted(m) /\ Does(m, IF kind[m] = "refresh" THEN "with" ELSE "guard")
  /\ UNCHANGED <<current, disposed, flags, callVars, heldVars, life, stores>>

(* A call that is aborted does not wait for its turn.                      *)
LeavesQueue(m) ==
  /\ doing[m] = "queued" /\ Interrupted(m) /\ Does(m, "ended")
  /\ UNCHANGED <<current, disposed, flags, callVars, heldVars, life, stores>>

-----------------------------------------------------------------------------
(* Stores and sessions.                                                    *)

(* A session manager, and later the session of it, is a new number.        *)
Latest == Len(life) + 1
Opens(file) ==
  /\ Len(life) < MaxSessions
  /\ life' = Append(life, "opened") /\ writes' = Append(writes, file)
  /\ writers' = writers \cup {Latest}

Close(s) ==
  /\ life' = [life EXCEPT ![s] = "closed"] /\ writers' = writers \ {s}
  /\ UNCHANGED writes

-----------------------------------------------------------------------------
(* Before the replacement.                                                 *)

(* The file of an import is committed before the guard is asked.           *)
CommitImport(m) ==
  /\ doing[m] = "guard" /\ kind[m] = "import" /\ m \notin files /\ ~Interrupted(m)
  /\ files' = files \cup {m}
  /\ UNCHANGED <<current, disposed, flags, callVars, doing, heldVars, life, writes, writers>>

Refused(m) ==
  /\ doing[m] = "guard" /\ Does(m, "ended") /\ files' = files \ {m}
  /\ UNCHANGED <<current, disposed, flags, callVars, heldVars, life, writes, writers>>

(* #teardown up to its first await.  The session is not disposed of yet.   *)
Shutdown(m) == disposed' = TRUE /\ Does(m, "close")

(* A new session and another one are opened now, the session itself and a  *)
(* fork of it only when it has been closed.                                *)
Allowed(m) ==
  /\ doing[m] = "guard" /\ ~Interrupted(m) /\ (kind[m] = "import" => m \in files)
  /\ previous' = [previous EXCEPT ![m] = current]
  /\ \/ /\ kind[m] = "new" /\ Opens(m) /\ early' = [early EXCEPT ![m] = Latest]
        /\ files' = files \cup {m} /\ Does(m, "setup") /\ UNCHANGED disposed
     \/ \E f \in files :
          /\ kind[m] = "switch" /\ f # writes[current] /\ Opens(f)
          /\ early' = [early EXCEPT ![m] = Latest] /\ Shutdown(m) /\ UNCHANGED files
     \/ /\ kind[m] # "new" /\ Shutdown(m)
        /\ UNCHANGED <<early, life, writes, writers, files>>
  /\ UNCHANGED <<current, flags, callVars, candidate>>

(* setup of a new session.                                                 *)
Setup(m) ==
  /\ doing[m] = "setup"
  /\ \/ ~Interrupted(m) /\ Shutdown(m)
     \/ Does(m, "failing") /\ UNCHANGED disposed
  /\ UNCHANGED <<current, flags, callVars, heldVars, life, stores>>

-----------------------------------------------------------------------------
(* #replace                                                                *)

(* The rest of #teardown; whether it is done is looked at only then.       *)
CloseOld(m) ==
  /\ doing[m] = "close" /\ Close(current)
  /\ \/ ~Interrupted(m) /\ Does(m, "create")
     \/ Does(m, "discard")
  /\ UNCHANGED <<current, disposed, flags, callVars, heldVars, files>>

(* What is not open yet is opened, and the factory is called.              *)
Create(m) ==
  /\ doing[m] = "create" /\ Does(m, "creating")
  /\ \/ early[m] # 0 /\ Keeps(m, early[m]) /\ UNCHANGED <<life, stores>>
     \/ /\ early[m] = 0 /\ Keeps(m, Latest)
        /\ \/ kind[m] = "switch" /\ Opens(writes[current]) /\ UNCHANGED files
           \/ kind[m] = "import" /\ Opens(m) /\ UNCHANGED files
           \/ kind[m] = "fork" /\ Opens(m) /\ files' = files \cup {m}
  /\ UNCHANGED <<current, disposed, flags, callVars, previous, early>>

\* Mutant: the store of a factory that is left to itself is left open.
AbandonWriting(s) ==
  /\ life' = [life EXCEPT ![s] = "abandoned"] /\ UNCHANGED <<writers, writes>>

(* A factory is left to itself, its store closed at once.                  *)
Abandon(s) ==
  /\ life' = [life EXCEPT ![s] = "abandoned"] /\ writers' = writers \ {s}
  /\ UNCHANGED writes

(* #createWithSignal: the factory returns, fails, or is not waited for.    *)
Returns(m, stage) ==
  life' = [life EXCEPT ![candidate[m]] = "live"] /\ Does(m, stage) /\ UNCHANGED <<candidate, writes, writers>>
Fails(m) == Close(candidate[m]) /\ Keeps(m, 0)

Creating(m) ==
  /\ doing[m] = "creating"
  /\ \/ Returns(m, "created")
     \/ Fails(m) /\ Does(m, "discard")
     \/ Interrupted(m) /\ Abandon(candidate[m]) /\ Keeps(m, 0) /\ Does(m, "discard")
  /\ UNCHANGED <<current, disposed, flags, callVars, previous, early, files>>

(* #apply, unless the call is aborted by now.                              *)
Apply(m) ==
  /\ doing[m] = "created"
  /\ \/ ~Interrupted(m) /\ ~closing /\ current' = candidate[m] /\ disposed' = FALSE /\ Does(m, "rebind")
     \/ (Interrupted(m) \/ closing) /\ Does(m, "discard") /\ UNCHANGED <<current, disposed>>
  /\ UNCHANGED <<flags, callVars, heldVars, life, stores>>

Rebind(m) ==
  /\ doing[m] = "rebind"
  /\ \/ ~Interrupted(m) /\ Does(m, "with")
     \/ Does(m, "discard")
  /\ UNCHANGED <<current, disposed, flags, callVars, heldVars, life, stores>>

(* The replacement has failed: what was made is closed.  Then the previous *)
(* session is opened again, or named, closed, by a runtime that closes.    *)
Discard(m) ==
  /\ doing[m] = "discard" /\ Keeps(m, 0) /\ disposed' = TRUE
  /\ IF candidate[m] = 0 THEN UNCHANGED <<life, writes, writers>> ELSE Close(candidate[m])
  /\ \/ ~closing /\ Does(m, "recover") /\ UNCHANGED current
     \/ closing /\ Does(m, "failing") /\ current' = previous[m]
  /\ UNCHANGED <<flags, callVars, previous, early, files>>

-----------------------------------------------------------------------------
(* #recover, which dispose() interrupts and the caller does not.           *)

(* Nothing is open: the runtime names the previous session and is closed.  *)
Undo(m) ==
  /\ current' = previous[m] /\ disposed' = TRUE
  /\ closing' = TRUE /\ closed' = TRUE /\ UNCHANGED disposal
  /\ Does(m, "failing")

Recover(m) ==
  /\ doing[m] = "recover"
  /\ Opens(writes[previous[m]]) /\ Keeps(m, Latest) /\ Does(m, "recovering")
  /\ UNCHANGED <<current, disposed, flags, callVars, previous, early, files>>

Recovering(m) ==
  /\ doing[m] = "recovering"
  /\ \/ Returns(m, "recovered") /\ UNCHANGED <<current, disposed, flags>>
     \/ Fails(m) /\ Undo(m)
     \/ disposal # "none" /\ Abandon(candidate[m]) /\ Keeps(m, 0) /\ Undo(m)
  /\ UNCHANGED <<callVars, previous, early, files>>

Recovered(m) ==
  /\ doing[m] = "recovered"
  /\ \/ /\ ~closing /\ current' = candidate[m] /\ disposed' = FALSE /\ Does(m, "rebound")
        /\ UNCHANGED <<flags, candidate, life, writes, writers>>
     \/ closing /\ Fails(m) /\ Undo(m)
  /\ UNCHANGED <<callVars, previous, early, files>>

Rebound(m) ==
  /\ doing[m] = "rebound"
  /\ \/ /\ disposal = "none" /\ Does(m, "failing") /\ Keeps(m, 0)
        /\ UNCHANGED <<current, disposed, flags, life, writes, writers>>
     \/ Fails(m) /\ Undo(m)
  /\ UNCHANGED <<callVars, previous, early, files>>

(* The store opened early is closed if it is still open, the file the call *)
(* made is removed.                                                        *)
Failing(m) ==
  /\ doing[m] = "failing" /\ Does(m, "ended") /\ files' = files \ {m}
  /\ writers' = writers \ {early[m]}
  /\ life' = [s \in Session |-> IF s = early[m] /\ life[s] = "opened" THEN "closed" ELSE life[s]]
  /\ UNCHANGED <<current, disposed, flags, callVars, heldVars, writes>>

-----------------------------------------------------------------------------
(* The callback of the caller with the new session; for a refresh, the     *)
(* refresh, which may put another session on the store of this one.        *)
With(m) ==
  /\ doing[m] = "with" /\ Does(m, "ended") /\ Keeps(m, 0)
  /\ \/ UNCHANGED <<current, life, writes, writers>>
     \/ /\ kind[m] = "refresh" /\ Len(life) < MaxSessions
        /\ life' = Append([life EXCEPT ![current] = "closed"], "live")
        /\ writes' = Append(writes, writes[current])
        /\ writers' = (writers \ {current}) \cup {Latest}
        /\ current' = Latest
  /\ UNCHANGED <<disposed, flags, callVars, previous, early, files>>

(* A factory nobody waits for returns, and its session is closed.          *)
ReturnsLate(s) ==
  /\ life[s] = "abandoned" /\ Close(s)
  /\ UNCHANGED <<current, disposed, flags, callVars, doing, heldVars, files>>

-----------------------------------------------------------------------------
(* dispose()                                                               *)

Dispose ==
  /\ disposal = "none" /\ ~closed /\ disposal' = "waiting" /\ closing' = TRUE
  /\ UNCHANGED <<current, disposed, closed, callVars, doing, heldVars, life, stores>>

DisposeTurn ==
  /\ disposal = "waiting" /\ \A m \in Request : doing[m] \in {"idle", "ended"}
  /\ closed' = TRUE /\ disposed' = TRUE
  /\ disposal' = IF disposed THEN "done" ELSE "closing"
  /\ UNCHANGED <<current, closing, callVars, doing, heldVars, life, stores>>

DisposeClose ==
  /\ disposal = "closing" /\ disposal' = "done" /\ Close(current)
  /\ UNCHANGED <<current, disposed, closing, closed, callVars, doing, heldVars, files>>

RequestSteps(m) ==
  \/ Enter(m) \/ GiveUpCall(m) \/ TakesTurn(m) \/ LeavesQueue(m)
  \/ CommitImport(m) \/ Refused(m) \/ Allowed(m) \/ Setup(m) \/ CloseOld(m) \/ Create(m)
  \/ Creating(m) \/ Apply(m) \/ Rebind(m) \/ Discard(m) \/ Recover(m) \/ Recovering(m)
  \/ Recovered(m) \/ Rebound(m) \/ Failing(m) \/ With(m)

RuntimeNext ==
  \/ \E m \in Request : RequestSteps(m)
  \/ \E s \in Session : ReturnsLate(s)
  \/ Dispose \/ DisposeTurn \/ DisposeClose

RuntimeSpec == RuntimeInit /\ [][RuntimeNext]_runtimeVars

-----------------------------------------------------------------------------
(* Every variable has its shape.                                           *)
RuntimeTypeOK ==
  /\ current \in Session /\ {disposed, closing, closed} \subseteq BOOLEAN
  /\ disposal \in {"none", "waiting", "closing", "done"}
  /\ calls \in Seq(Request) /\ gaveUp \subseteq Request
  /\ doing \in [Request -> Stages] /\ kind \in [Request -> Kinds]
  /\ {previous, early, candidate} \subseteq [Request -> 0 .. Len(life)]
  /\ life \in Seq(Lives) /\ writes \in Seq(SessionFile) /\ Len(writes) = Len(life)
  /\ writers \subseteq Session /\ files \subseteq SessionFile

(* While the runtime is open and nothing operates, its session is live; at *)
(* no time does one live that nobody will close (a session the runtime     *)
(* does not name, or one it believes disposed of); and after dispose()     *)
(* none does, nor is a factory's result left waiting to be one.            *)
OneSessionInUse ==
  /\ ~closing /\ (\A m \in Request : ~Operates(m)) => life[current] = "live" /\ ~disposed
  /\ \A s \in Session : life[s] = "live" =>
       \/ s = current /\ (~disposed \/ disposal = "closing" \/ \E m \in Request : doing[m] = "close")
       \/ \E m \in Request : candidate[m] = s /\ Operates(m)
  /\ disposal = "done" => \A s \in Session : life[s] \in {"abandoned", "closed"}

(* A file has one writer in this process, who finds it in place; and the   *)
(* file a call made is there in the end only if its session came into use. *)
FilesFollowSessions ==
  /\ \A s, t \in writers : writes[s] = writes[t] => s = t
  /\ \A s \in Session : life[s] = "live" => writes[s] \in files /\ s \in writers
  /\ \A m \in files \cap Request : doing[m] = "ended" =>
       \E s \in Session : writes[s] = m /\ (s = current \/ \E other \in Request : previous[other] = s)
=============================================================================
