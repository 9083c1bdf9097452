--------------------------- MODULE SessionWriter ---------------------------
(***************************************************************************)
(* The durable append path of a session file: SessionV4Writer and          *)
(* SessionV4SyncWriter of packages/kernel/src/session-v4/writer.ts over    *)
(* the reader of reader.ts.                                                *)
(*                                                                         *)
(* The file is the sequence of its JSONL rows after the header.  A row is  *)
(* torn while its LF has not been written.  The operating system shows the *)
(* file as cache; what would survive a loss of power is disk, and fsync    *)
(* makes them equal.  A commit is identified with its draft, the reduced   *)
(* state with the commits it was reduced from, so the reducer's verdict on *)
(* a commit is Follows: its identifier is new and what it refers to is     *)
(* there.  File size is counted in rows.  Asynchronous appends are queued  *)
(* on #tail; the synchronous writer is the case of a queue of one.         *)
(***************************************************************************)
EXTENDS Naturals, Sequences

CONSTANTS
  Commit, Id, IdOf, Needs,
  MaxRows,       \* bound: SESSION_V4_MAX_COMMIT_COUNT, in rows
  MaxQueue,      \* bound on the appends a caller has waiting
  MaxCrashes,    \* bound on process crashes
  MaxPowerLosses \* bound on losses of power

ASSUME CommitAssumption ==
  /\ IdOf \in [Commit -> Id]
  /\ Needs \in [Commit -> SUBSET Commit]

ASSUME LimitAssumption ==
  {MaxRows, MaxQueue, MaxCrashes, MaxPowerLosses} \subseteq Nat

VARIABLES
  cache,      \* rows of the file as any process reads them
  disk,       \* rows that survive a loss of power
  pc,         \* the writer: "down", "truncated", "idle", "writing", "syncing"
  mem,        \* #state, as the commits reduced into it
  offset,     \* #offset and #commitRows, in rows
  fault,      \* #fault is set
  closed,     \* #closed
  queue,      \* appends waiting on #tail, the one in progress first
  published,  \* commits this writer has handed to its listeners
  acked,      \* commits whose append has ever resolved
  crashes, losses

file   == <<cache, disk>>
writer == <<mem, offset, fault, closed, queue, published>>
bounds == <<crashes, losses>>
vars   == <<file, pc, writer, acked, bounds>>

Row(c, f) == [commit |-> c, form |-> f]

Rows == [commit : Commit, form : {"torn", "whole", "malformed"}]

(* The rows up to the last LF: only the last row of a file may be torn.    *)
Torn(f) == f # <<>> /\ f[Len(f)].form = "torn"

CommittedRows(f) == IF Torn(f) THEN SubSeq(f, 1, Len(f) - 1) ELSE f

Commits(f) == [i \in DOMAIN CommittedRows(f) |-> f[i].commit]

In(c, s) == \E i \in DOMAIN s : s[i] = c

(* The commits of the file that are on the disk as well.                   *)
StableLength ==
  LET shared == {n \in 0..Len(Commits(cache)) :
                   /\ n <= Len(Commits(disk))
                   /\ \A i \in 1..n : Commits(cache)[i] = Commits(disk)[i]}
  IN CHOOSE n \in shared : \A m \in shared : m <= n

Log == INSTANCE DurableLog WITH log <- Commits(cache), stable <- StableLength

(* parseSessionV4Bytes accepts the file.                                   *)
Readable(f) ==
  /\ \A i \in DOMAIN CommittedRows(f) : f[i].form = "whole"
  /\ \A i \in DOMAIN Commits(f) :
       Log!Follows(Commits(f)[i], SubSeq(Commits(f), 1, i - 1))

(* A positional write of a row after the first n; of whatever was there,   *)
(* what is not overwritten stays behind it.                                *)
WriteAt(f, n, row) ==
  SubSeq(f, 1, n) \o <<row>> \o
    [i \in 1..(Len(f) - n) |-> Row(f[n + i].commit, "malformed")]

Init ==
  /\ cache = <<>> /\ disk = <<>>
  /\ pc = "down"
  /\ mem = <<>> /\ offset = 0 /\ fault = FALSE /\ closed = FALSE
  /\ queue = <<>> /\ published = <<>>
  /\ acked = {}
  /\ crashes = 0 /\ losses = 0

-----------------------------------------------------------------------------
(* Opening: the state is reduced from the file; a torn row is truncated    *)
(* and the truncation synchronized, otherwise nothing is synchronized.     *)

\* Mutant: the last row is taken for a fragment even when it ends in LF.
OpenDropsLastRow ==
  /\ pc = "down"
  /\ Readable(cache)
  /\ cache' = SubSeq(cache, 1, Len(cache) - 1)
  /\ mem' = Commits(cache')
  /\ offset' = Len(cache')
  /\ fault' = FALSE /\ closed' = FALSE /\ queue' = <<>> /\ published' = <<>>
  /\ pc' = "truncated"
  /\ UNCHANGED <<disk, acked, bounds>>

Open ==
  /\ pc = "down"
  /\ Readable(cache)
  /\ mem' = Commits(cache)
  /\ offset' = Len(CommittedRows(cache))
  /\ fault' = FALSE /\ closed' = FALSE /\ queue' = <<>> /\ published' = <<>>
  /\ cache' = CommittedRows(cache)
  /\ pc' = IF Torn(cache) THEN "truncated" ELSE "idle"
  /\ UNCHANGED <<disk, acked, bounds>>

SyncTruncation ==
  /\ pc = "truncated"
  /\ disk' = cache
  /\ pc' = "idle"
  /\ UNCHANGED <<cache, writer, acked, bounds>>

FailTruncation ==
  /\ pc = "truncated"
  /\ pc' = "down"
  /\ UNCHANGED <<file, writer, acked, bounds>>

-----------------------------------------------------------------------------
(* Appending.                                                              *)

Up == pc \in {"idle", "writing", "syncing"}

Submit(c) ==
  /\ Up /\ ~closed
  /\ Len(queue) < MaxQueue
  /\ queue' = Append(queue, c)
  /\ UNCHANGED <<file, pc, mem, offset, fault, closed, published, acked, bounds>>

Ready == pc = "idle" /\ queue # <<>>

\* Mutant: a faulted writer writes on.
AcceptsAfterFault(c) == Log!Follows(c, mem) /\ offset < MaxRows

\* Mutant: the transition is not validated before it is written.
AcceptsUnchecked(c) == ~fault /\ offset < MaxRows

Accepts(c) == Log!Follows(c, mem) /\ ~fault /\ offset < MaxRows

(* A commit already in the state is answered from it, even after a fault.  *)
AnswerRetry ==
  /\ Ready
  /\ In(Head(queue), mem)
  /\ acked' = acked \cup {Head(queue)}
  /\ queue' = Tail(queue)
  /\ UNCHANGED <<file, pc, mem, offset, fault, closed, published, bounds>>

\* Mutant: a rejected append stays at the head of the queue.
RejectKeeps ==
  /\ Ready
  /\ ~In(Head(queue), mem)
  /\ ~Accepts(Head(queue))
  /\ UNCHANGED vars

Reject ==
  /\ Ready
  /\ ~In(Head(queue), mem)
  /\ ~Accepts(Head(queue))
  /\ queue' = Tail(queue)
  /\ UNCHANGED <<file, pc, mem, offset, fault, closed, published, acked, bounds>>

StartWrite ==
  /\ Ready
  /\ Accepts(Head(queue))
  /\ cache' = WriteAt(cache, offset, Row(Head(queue), "torn"))
  /\ pc' = "writing"
  /\ UNCHANGED <<disk, writer, acked, bounds>>

FinishWrite ==
  /\ pc = "writing"
  /\ cache' = [cache EXCEPT ![offset + 1].form = "whole"]
  /\ pc' = "syncing"
  /\ UNCHANGED <<disk, writer, acked, bounds>>

(* fsync succeeded: the rest of #appendNow runs without another await.     *)
Sync ==
  /\ pc = "syncing"
  /\ disk' = cache
  /\ offset' = offset + 1
  /\ mem' = Append(mem, Head(queue))
  /\ published' = Append(published, Head(queue))
  /\ acked' = acked \cup {Head(queue)}
  /\ queue' = Tail(queue)
  /\ pc' = "idle"
  /\ UNCHANGED <<cache, fault, closed, bounds>>

(* The write or the fsync failed: the bytes stay where they are.           *)
Fail ==
  /\ pc \in {"writing", "syncing"}
  /\ fault' = TRUE
  /\ queue' = Tail(queue)
  /\ pc' = "idle"
  /\ UNCHANGED <<file, mem, offset, closed, published, acked, bounds>>

Close ==
  /\ Up /\ ~closed
  /\ closed' = TRUE
  /\ UNCHANGED <<file, pc, mem, offset, fault, queue, published, acked, bounds>>

FinishClose ==
  /\ closed /\ pc = "idle" /\ queue = <<>>
  /\ pc' = "down"
  /\ UNCHANGED <<file, writer, acked, bounds>>

-----------------------------------------------------------------------------
(* The environment.                                                        *)

Crash ==
  /\ pc # "down" /\ crashes < MaxCrashes
  /\ crashes' = crashes + 1
  /\ pc' = "down"
  /\ UNCHANGED <<file, writer, acked, losses>>

(* The disk as it was synchronized, or with some of the later rows, the    *)
(* last of them possibly cut short: appended data reaches it in order.     *)
Survivors ==
  LET same(n) == n <= Len(disk) /\ \A i \in 1..n : disk[i] = cache[i]
      synced == {n \in 0..Len(cache) : same(n)}
      kept == {n \in 0..Len(cache) : \A m \in synced : m <= n}
  IN {disk} \cup {SubSeq(cache, 1, n) : n \in kept} \cup
     {SubSeq(cache, 1, n) \o <<Row(cache[n + 1].commit, "torn")>> : n \in kept \ {Len(cache)}}

PowerLoss ==
  /\ losses < MaxPowerLosses
  /\ losses' = losses + 1
  /\ \E f \in Survivors : cache' = f /\ disk' = f
  /\ pc' = "down"
  /\ UNCHANGED <<writer, acked, crashes>>

-----------------------------------------------------------------------------
WriterStep ==
  \/ SyncTruncation \/ FailTruncation
  \/ AnswerRetry \/ Reject \/ StartWrite \/ FinishWrite \/ Sync \/ Fail
  \/ FinishClose

Next ==
  \/ Open \/ Close \/ WriterStep
  \/ \E c \in Commit : Submit(c)
  \/ Crash \/ PowerLoss

(* System calls return: the writer goes on with whatever it has begun.     *)
Fairness == WF_vars(WriterStep)

Spec == Init /\ [][Next]_vars /\ Fairness

-----------------------------------------------------------------------------
(* Properties.                                                             *)

TypeOK ==
  /\ cache \in Seq(Rows) /\ disk \in Seq(Rows)
  /\ pc \in {"down", "truncated", "idle", "writing", "syncing"}
  /\ mem \in Seq(Commit) /\ published \in Seq(Commit) /\ queue \in Seq(Commit)
  /\ offset \in Nat
  /\ fault \in BOOLEAN /\ closed \in BOOLEAN
  /\ acked \subseteq Commit
  /\ crashes \in 0..MaxCrashes /\ losses \in 0..MaxPowerLosses

(* Whatever failed or crashed before, the file can be read again, from the *)
(* cache and from the disk: a fault never leaves a malformed line behind.  *)
FileStaysReadable == Readable(cache) /\ Readable(disk)

(* A commit acknowledged once is in the file ever after, over any number   *)
(* of faults, crashes and retries of the process.  What a retry learned    *)
(* from a row that no fsync covered, only a loss of power can take back.   *)
AcksSurvive == losses = 0 => \A c \in acked : In(c, Commits(cache))

(* Close settles every queued append and lets go of the file, also after   *)
(* a fault.                                                                *)
CloseCompletes == closed ~> (pc = "down")

(* The state an open session shows is on the disk.                         *)
StateIsDurable == Up => \A i \in DOMAIN mem : In(mem[i], Commits(disk))

(* The file is a log that only a crash can shorten, and only in the part   *)
(* that was not yet synchronized.                                          *)
ImplementsDurableLog == Log!Spec
=============================================================================
