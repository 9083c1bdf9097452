------------------------------ MODULE FileLock ------------------------------
(***************************************************************************)
(* The lock directory of packages/ohm/src/storage/file-lock.ts, which      *)
(* serializes writers of settings, jobs and packages across processes.     *)
(*                                                                         *)
(* A caller is one call of withFileLock or tryWithFileLockSync, with a     *)
(* token of its own.  It makes the directory <path>.lock, writes the files *)
(* claim, owner and pid named by its token, and looks at them again before *)
(* and after its operation.  A waiter removes what a dead owner, or one    *)
(* that never finished, left.  A step is a call of one caller to the file  *)
(* system, or several of which the last decides: the others, and the death *)
(* of a process, fall between any two steps.                               *)
(***************************************************************************)
EXTENDS Naturals, FiniteSets

CONSTANTS
  Caller,         \* calls, each with its own token
  SyncCaller,     \* those of tryWithFileLockSync
  Inode,          \* identities of directories; a removed one may come back
  None

ASSUME LockAssumption ==
  /\ SyncCaller \subseteq Caller
  /\ None \notin Inode /\ None \notin Caller

VARIABLES
  dir,      \* identity of the lock directory, or None
  old,      \* its mtime is more than STALE_AFTER_MS ago
  control,  \* files in it: claim, owner and pid of callers
  blank,    \* those of them whose writer died before writing the content
  at,       \* where a caller is
  acquired, \* directory a caller found after its mkdir, until its last look at it
  seen,     \* identity of the directory a waiter has looked at
  aged,     \* waiters that go by its mtime, which is too long ago
  found,    \* token a waiter found in the directory afterwards, or None
  reclaimed, \* synchronous callers that have removed a lock before
  robbed    \* history: a living caller was robbed of its lock

disk     == <<dir, old, control, blank>>
waiter   == <<seen, aged, found, reclaimed, robbed>>
lockVars == <<disk, at, acquired, waiter>>

Controls == {"claim", "owner", "pid"}
Places ==
  {"idle", "mkdir", "identify", "claim", "owner", "pid", "verify", "operate",
   "recheck", "unlock", "unclaim", "rmdir", "back", "backdir", "look",
   "readclaim", "judge", "confirm", "strip", "sweepclaim", "sweep", "sweepblind",
   "done", "refused", "failed", "dead"}

(* From mkdir to the claim, and from the removal of the claim to rmdir: a  *)
(* caller here takes the directory for its own, and it is empty.           *)
Unclaimed == {"identify", "claim", "rmdir", "backdir", "sweep"}

File(name, c) == [name |-> name, token |-> c]
Files(names, c) == {File(n, c) : n \in names}
Content(name, c) == File(name, c) \in control \ blank

-----------------------------------------------------------------------------
LockInit ==
  /\ dir = None /\ old = FALSE /\ control = {} /\ blank = {}
  /\ at = [c \in Caller |-> "idle"]
  /\ acquired = [c \in Caller |-> None]
  /\ seen = [c \in Caller |-> None] /\ found = [c \in Caller |-> None]
  /\ aged = {} /\ reclaimed = {} /\ robbed = FALSE

Go(c, place) == at' = [at EXCEPT ![c] = place]

(* Adding or removing a file renews the mtime of the directory.            *)
Put(files)  == control' = control \cup files /\ old' = FALSE /\ UNCHANGED <<dir, blank>>
Drop(files) ==
  /\ control' = control \ files /\ blank' = blank \ files
  /\ old' = (old /\ files \cap control = {})
  /\ UNCHANGED dir

(* directoryMatches                                                        *)
Matches(c, inode, names) == dir # None /\ dir = inode /\ \A n \in names : Content(n, c)

(* The files a caller reads when it looks whether it holds the lock.       *)
Holds(c) == Matches(c, acquired[c], Controls)
LastLook(c) == acquired' = [acquired EXCEPT ![c] = None]

-----------------------------------------------------------------------------
(* Acquisition.                                                            *)

Call(c) == at[c] = "idle" /\ Go(c, "mkdir") /\ UNCHANGED <<disk, acquired, waiter>>

Mkdir(c) ==
  /\ at[c] = "mkdir" /\ dir = None
  /\ dir' \in Inode /\ old' = FALSE
  /\ Go(c, "identify")
  /\ UNCHANGED <<control, blank, acquired, waiter>>

(* The lock is held.  A synchronous caller looks for a dead owner once; an *)
(* asynchronous one until its time is over or its signal is aborted.       *)
Occupied(c) ==
  /\ at[c] = "mkdir" /\ dir # None
  /\ Go(c, IF c \in reclaimed THEN "refused" ELSE "look")
  /\ UNCHANGED <<disk, acquired, waiter>>

GiveUp(c) ==
  /\ at[c] = "mkdir" /\ c \notin SyncCaller
  /\ Go(c, "failed")
  /\ UNCHANGED <<disk, acquired, waiter>>

(* The directory is gone again: isLostUnclaimedDirectory.                  *)
Lost(c) == Go(c, IF c \in SyncCaller THEN "refused" ELSE "mkdir")

Identify(c) ==
  /\ at[c] = "identify"
  /\ \/ dir = None /\ Lost(c) /\ UNCHANGED acquired
     \/ dir # None /\ Go(c, "claim") /\ acquired' = [acquired EXCEPT ![c] = dir]
  /\ UNCHANGED <<disk, waiter>>

(* claim, then owner, then pid; a lost directory is noticed here too.      *)
Write(c, name, next) ==
  /\ at[c] = name
  /\ \/ dir = None /\ Lost(c) /\ LastLook(c) /\ UNCHANGED disk
     \/ dir # None /\ Go(c, next) /\ Put({File(name, c)}) /\ UNCHANGED acquired
  /\ UNCHANGED waiter

WriteControl(c) ==
  \/ Write(c, "claim", "owner")
  \/ Write(c, "owner", "pid")
  \/ Write(c, "pid", "verify")

Verify(c) ==
  /\ at[c] = "verify"
  /\ Go(c, IF Holds(c) THEN "operate" ELSE "back")
  /\ UNCHANGED <<disk, acquired, waiter>>

-----------------------------------------------------------------------------
(* Release.                                                                *)

(* The operation ends, or the signal was aborted before it began.          *)
Operated(c) == at[c] = "operate" /\ Go(c, "recheck") /\ UNCHANGED <<disk, acquired, waiter>>

(* removeClaimed                                                           *)
Recheck(c) ==
  /\ at[c] = "recheck"
  /\ Go(c, IF Holds(c) THEN "unlock" ELSE "failed") /\ LastLook(c)
  /\ UNCHANGED <<disk, waiter>>

Unlock(c) ==
  /\ at[c] = "unlock"
  /\ Drop(Files({"owner", "pid"}, c))
  /\ Go(c, "unclaim")
  /\ UNCHANGED <<acquired, waiter>>

Unclaim(c) ==
  /\ at[c] = "unclaim"
  /\ Drop(Files({"claim"}, c))
  /\ Go(c, IF File("claim", c) \in control THEN "rmdir" ELSE "failed")
  /\ UNCHANGED <<acquired, waiter>>

CanRemove == dir # None /\ control = {}

RemoveDir == IF CanRemove THEN dir' = None /\ old' = FALSE ELSE UNCHANGED <<dir, old>>

Rmdir(c) ==
  /\ at[c] = "rmdir"
  /\ RemoveDir
  /\ Go(c, IF CanRemove THEN "done" ELSE "failed")
  /\ UNCHANGED <<control, blank, acquired, waiter>>

(* rollBackWrittenControls: the directory is removed too if it still is    *)
(* the caller's; either way the call fails.                                *)
RollBack(c) ==
  /\ at[c] = "back"
  /\ Drop(Files(Controls, c))
  /\ Go(c, IF Matches(c, acquired[c], {"claim"}) THEN "backdir" ELSE "failed")
  /\ LastLook(c)
  /\ UNCHANGED waiter

RollBackDir(c) ==
  /\ at[c] = "backdir"
  /\ RemoveDir
  /\ Go(c, "failed")
  /\ UNCHANGED <<control, blank, acquired, waiter>>

-----------------------------------------------------------------------------
(* removeStale and removeDeadOrStaleSync.                                  *)

(* What a waiter knows ends with its look at the lock.                     *)
LookEnds(c) ==
  /\ seen' = [seen EXCEPT ![c] = None] /\ found' = [found EXCEPT ![c] = None]
  /\ aged' = aged \ {c}

(* Not removed: the synchronous call is over, the other waits and retries. *)
NotRemoved(c) == Go(c, IF c \in SyncCaller THEN "refused" ELSE "mkdir") /\ LookEnds(c)

Claims == {c \in Caller : File("claim", c) \in control}

(* claimTokenSync: the one readable claim.                                 *)
ClaimOf(c) == Claims = {c} /\ Content("claim", c)

(* canonicalDeadOwner and lockOwnerIsAlive                                 *)
Complete(c)   == Content("owner", c) /\ Content("pid", c)

\* Mutant: an owner whose files are complete is taken for dead.
CompleteIsDead(c) == Complete(c)

DeadOwner(c)  == Complete(c) /\ at[c] = "dead"
AliveOwner(c) == Complete(c) /\ at[c] # "dead"

OwnerIsAlive == \E c \in Caller : ClaimOf(c) /\ AliveOwner(c)

(* lstat, which gives identity and mtime.  What is read of the directory   *)
(* afterwards may be of another one that stands there by then.             *)
Look(c) ==
  /\ at[c] = "look"
  /\ \/ dir = None /\ NotRemoved(c)
     \/ /\ dir # None /\ Go(c, "readclaim")
        /\ seen' = [seen EXCEPT ![c] = dir]
        /\ aged' = IF old THEN aged \cup {c} ELSE aged
        /\ UNCHANGED found
  /\ UNCHANGED <<disk, acquired, reclaimed, robbed>>

(* Without a readable claim the age decides, and the directory is to be    *)
(* removed by its path.                                                    *)
ReadClaim(c) ==
  /\ at[c] = "readclaim"
  /\ \/ \E d \in Caller :
          /\ ClaimOf(d) /\ Go(c, "judge")
          /\ found' = [found EXCEPT ![c] = d] /\ UNCHANGED <<seen, aged>>
     \/ /\ ~(\E d \in Caller : ClaimOf(d)) /\ dir # None /\ c \in aged
        /\ Go(c, "sweepblind") /\ LookEnds(c)
     \/ /\ ~(\E d \in Caller : ClaimOf(d)) /\ (dir # None => c \notin aged)
        /\ NotRemoved(c)
  /\ UNCHANGED <<disk, acquired, reclaimed, robbed>>

(* Its owner is dead, or its age decides, unless the owner of what stands  *)
(* there is alive.                                                         *)
Judge(c) ==
  /\ at[c] = "judge"
  /\ \/ /\ DeadOwner(found[c])
        /\ Go(c, "confirm") /\ aged' = aged \ {c} /\ UNCHANGED <<seen, found>>
     \/ /\ ~DeadOwner(found[c]) /\ c \in aged /\ ~OwnerIsAlive
        /\ Go(c, "confirm") /\ UNCHANGED <<seen, found, aged>>
     \/ /\ ~DeadOwner(found[c]) /\ (c \in aged => OwnerIsAlive)
        /\ NotRemoved(c)
  /\ UNCHANGED <<disk, acquired, reclaimed, robbed>>

(* The directory is the one it has looked at and the claim is still there. *)
(* A caller that lives is robbed if its age alone condemned it.            *)
Confirm(c) ==
  /\ at[c] = "confirm"
  /\ \/ /\ Matches(found[c], seen[c], {"claim"})
        /\ Go(c, "strip")
        /\ robbed' = (robbed \/ (c \in aged /\ at[found[c]] # "dead"))
        /\ UNCHANGED <<seen, found, aged>>
     \/ /\ ~Matches(found[c], seen[c], {"claim"})
        /\ NotRemoved(c) /\ UNCHANGED robbed
  /\ UNCHANGED <<disk, acquired, reclaimed>>

Strip(c) ==
  /\ at[c] = "strip"
  /\ Drop(Files({"owner", "pid"}, found[c]))
  /\ Go(c, "sweepclaim")
  /\ UNCHANGED <<acquired, waiter>>

(* A claim that is gone stops the asynchronous waiter.  The synchronous    *)
(* one goes on, though it has removed nothing.                             *)
SweepClaim(c) ==
  LET there == File("claim", found[c]) \in control IN
  /\ at[c] = "sweepclaim"
  /\ Drop(Files({"claim"}, found[c]))
  /\ \/ there /\ Go(c, "sweep") /\ LookEnds(c)
     \/ ~there /\ c \in SyncCaller /\ Go(c, "sweepblind") /\ LookEnds(c)
     \/ ~there /\ c \notin SyncCaller /\ NotRemoved(c)
  /\ UNCHANGED <<acquired, reclaimed, robbed>>

(* rmdir by the path.  Who did not remove a claim itself may take away the *)
(* directory of a living caller, that has just made or just emptied it.    *)
Sweep(c) ==
  /\ at[c] \in {"sweep", "sweepblind"}
  /\ RemoveDir
  /\ \/ /\ CanRemove /\ Go(c, "mkdir")
        /\ reclaimed' = IF c \in SyncCaller THEN reclaimed \cup {c} ELSE reclaimed
        /\ robbed' = (robbed \/ (/\ at[c] = "sweepblind"
                                 /\ \E d \in Caller \ {c} : at[d] \in Unclaimed))
        /\ UNCHANGED <<seen, aged, found>>
     \/ ~CanRemove /\ NotRemoved(c) /\ UNCHANGED <<reclaimed, robbed>>
  /\ UNCHANGED <<control, blank, acquired>>

-----------------------------------------------------------------------------
(* The environment.                                                        *)

Live(c) == at[c] \notin {"idle", "done", "refused", "failed", "dead"}

(* The process of a caller dies, perhaps in the middle of writing a file.  *)
Die(c) ==
  /\ Live(c)
  /\ Go(c, "dead") /\ LastLook(c) /\ LookEnds(c)
  /\ \/ UNCHANGED disk
     \/ /\ at[c] \in Controls /\ dir # None
        /\ control' = control \cup {File(at[c], c)} /\ blank' = blank \cup {File(at[c], c)}
        /\ old' = FALSE /\ UNCHANGED dir
  /\ UNCHANGED <<reclaimed, robbed>>

(* Time passes; a call may take longer than STALE_AFTER_MS.                *)
Age == dir # None /\ ~old /\ old' = TRUE /\ UNCHANGED <<dir, control, blank, at, acquired, waiter>>

(* The age of what a waiter has looked at is taken when it judges.         *)
LookAges(c) ==
  /\ at[c] \in {"readclaim", "judge"} /\ c \notin aged
  /\ aged' = aged \cup {c}
  /\ UNCHANGED <<disk, at, acquired, seen, found, reclaimed, robbed>>

AcquireStep(c) ==
  Call(c) \/ Mkdir(c) \/ Occupied(c) \/ GiveUp(c) \/ Identify(c) \/ WriteControl(c) \/ Verify(c)
ReleaseStep(c) ==
  Operated(c) \/ Recheck(c) \/ Unlock(c) \/ Unclaim(c) \/ Rmdir(c) \/ RollBack(c) \/ RollBackDir(c)
RemoveStep(c) ==
  Look(c) \/ ReadClaim(c) \/ Judge(c) \/ Confirm(c) \/ Strip(c) \/ SweepClaim(c) \/ Sweep(c)

LockNext ==
  \/ \E c \in Caller : AcquireStep(c) \/ ReleaseStep(c) \/ RemoveStep(c) \/ Die(c) \/ LookAges(c)
  \/ Age

LockSpec == LockInit /\ [][LockNext]_lockVars

-----------------------------------------------------------------------------
(* Every variable has its shape.                                           *)
LockTypeOK ==
  /\ dir \in Inode \cup {None} /\ old \in BOOLEAN
  /\ control \subseteq [name : Controls, token : Caller] /\ blank \subseteq control
  /\ dir = None => control = {}
  /\ at \in [Caller -> Places]
  /\ acquired \in [Caller -> Inode \cup {None}]
  /\ seen \in [Caller -> Inode \cup {None}] /\ found \in [Caller -> Caller \cup {None}]
  /\ \A c \in Caller : at[c] \in {"judge", "confirm", "strip", "sweepclaim"} => found[c] \in Caller
  /\ aged \subseteq Caller /\ reclaimed \subseteq SyncCaller /\ robbed \in BOOLEAN

(* At most one operation runs under the lock, and it ends before its       *)
(* caller lets anybody else in.                                            *)
OperationsExclude ==
  \A c, d \in Caller : {at[c], at[d]} \subseteq {"operate", "recheck"} => c = d

(* A second operation is let in only after a waiter has robbed a living    *)
(* caller: gone by the age of its lock (removeStale) or, synchronous, gone *)
(* on without a claim (removeDeadOrStaleSync).  Deaths between any two     *)
(* calls and the removal of what dead owners left never let one in.        *)
SecondOperationWasLetIn == OperationsExclude \/ robbed
=============================================================================
