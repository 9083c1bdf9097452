----------------------------- MODULE WriterLease -----------------------------
(***************************************************************************)
(* The writer lease of a session file: packages/ohm/src/storage/           *)
(* session-writer-lease.ts.                                                *)
(*                                                                         *)
(* An opener is a process that opens the session under one of its paths.   *)
(* It installs its record at the lock of the path and then at the lock of  *)
(* the identity of the file, each by renaming a directory it has prepared. *)
(* The record of a dead owner is retired by renaming it away and looking   *)
(* at what was moved; if that was not the record seen before, it is put    *)
(* back if its place is free, and kept aside if not.  A step is a file-    *)
(* system call; processes die between any two.                             *)
(***************************************************************************)
EXTENDS Naturals, FiniteSets

CONSTANTS
  Opener,        \* processes, each opening the session once
  Path,          \* paths of the session: names, links
  PathOf,        \* path an opener uses
  Identity,      \* the lock of the identity of the file
  Absent, Bare,  \* no lock directory; one without a record in it
  MaxInstalls    \* attempts of acquireLock

ASSUME LeaseAssumption ==
  /\ PathOf \in [Opener -> Path] /\ Identity \notin Path
  /\ Absent \notin Opener /\ Bare \notin Opener /\ Absent # Bare
  /\ MaxInstalls \in Nat \ {0}

VARIABLES
  record,    \* what stands at a lock: an opener, Bare or Absent
  step,      \* where an opener is
  lock,      \* lock it is acquiring or releasing
  installs,  \* attempts made at this lock
  owned,     \* locks it has acquired and not released
  saw,       \* dead owner it is retiring
  moved,     \* what it renamed away
  kept,      \* records left aside for diagnosis, with their lock
  dead, file, \* dead processes; whether the session file exists
  displaced  \* locks from which the record of a living owner was moved (a history)

leaseVars ==
  <<record, step, lock, installs, owned, saw, moved, kept, dead, file, displaced>>
place     == <<lock, installs>>
retiring  == <<saw, moved, kept>>
world     == <<dead, file, displaced>>

Lock == Path \cup {Identity}
Steps ==
  {"idle", "install", "blocked", "inspect", "retire", "compare", "restore", "open",
   "release", "unlink", "rmdir", "closed"}
Standing == Opener \cup {Bare, Absent}

LeaseInit ==
  /\ record = [l \in Lock |-> Absent]
  /\ step = [p \in Opener |-> "idle"]
  /\ lock = [p \in Opener |-> PathOf[p]]
  /\ installs = [p \in Opener |-> 0]
  /\ owned = [p \in Opener |-> {}]
  /\ saw = [p \in Opener |-> Absent] /\ moved = [p \in Opener |-> Absent]
  /\ kept = {} /\ dead = {} /\ file \in BOOLEAN /\ displaced = {}

At(p, s)   == step[p] = s /\ p \notin dead
Goto(p, s) == step' = [step EXCEPT ![p] = s]
Here(p)    == record[lock[p]]
Place(p, content) == record' = [record EXCEPT ![lock[p]] = content]

Acquire(p, l) ==
  /\ lock' = [lock EXCEPT ![p] = l] /\ installs' = [installs EXCEPT ![p] = 0]
  /\ Goto(p, "install")

(* acquireLock throws: the lock of the path is released, if it is held.    *)
Fail(p) ==
  IF owned[p] = {} THEN Goto(p, "closed") /\ UNCHANGED place
  ELSE Goto(p, "release") /\ lock' = [lock EXCEPT ![p] = PathOf[p]] /\ UNCHANGED installs

-----------------------------------------------------------------------------
(* acquireLock                                                             *)

Start(p) ==
  /\ At(p, "idle") /\ Acquire(p, PathOf[p])
  /\ UNCHANGED <<record, owned, retiring, world>>

\* Mutant: a file is renamed instead of a directory, and replaces what stands.
FreeForAll(p) == TRUE

(* installLock: the rename replaces nothing but an empty directory.        *)
Free(p) == Here(p) \in {Absent, Bare}

Install(p) ==
  /\ At(p, "install") /\ Free(p) /\ installs[p] < MaxInstalls
  /\ Place(p, p)
  /\ owned' = [owned EXCEPT ![p] = @ \cup {lock[p]}]
  /\ IF lock[p] # Identity /\ file THEN Acquire(p, Identity) ELSE Goto(p, "open") /\ UNCHANGED place
  /\ UNCHANGED <<retiring, world>>

Collide(p) ==
  /\ At(p, "install") /\ ~Free(p) /\ installs[p] < MaxInstalls
  /\ installs' = [installs EXCEPT ![p] = @ + 1]
  /\ Goto(p, "blocked")
  /\ UNCHANGED <<record, lock, owned, retiring, world>>

Exhausted(p) ==
  /\ At(p, "install") /\ installs[p] = MaxInstalls
  /\ Fail(p)
  /\ UNCHANGED <<record, owned, retiring, world>>

(* The rename failed: the error is only of interest if the lock is gone.   *)
Blocked(p) ==
  /\ At(p, "blocked")
  /\ \/ Here(p) = Absent /\ Fail(p)
     \/ Here(p) # Absent /\ Goto(p, "inspect") /\ UNCHANGED place
  /\ UNCHANGED <<record, owned, retiring, world>>

(* No record, or a live owner, is an error; a dead owner is retired.       *)
InspectOwner(p) ==
  /\ At(p, "inspect")
  /\ \/ Here(p) \notin dead /\ Fail(p) /\ UNCHANGED saw
     \/ /\ Here(p) \in dead /\ Goto(p, "retire") /\ UNCHANGED place
        /\ saw' = [saw EXCEPT ![p] = Here(p)]
  /\ UNCHANGED <<record, owned, moved, kept, world>>

(* retireDeadLock: what stands there by now is moved, whosever it is.      *)
Retire(p) ==
  /\ At(p, "retire")
  /\ \/ Here(p) = Absent /\ Goto(p, "install") /\ UNCHANGED <<record, moved, displaced>>
     \/ /\ Here(p) # Absent /\ Place(p, Absent)
        /\ moved' = [moved EXCEPT ![p] = Here(p)] /\ Goto(p, "compare")
        /\ displaced' = displaced \cup {l \in {lock[p]} : Here(p) \in Opener \ dead}
  /\ UNCHANGED <<place, owned, saw, kept, dead, file>>

Keep(p) == kept' = kept \cup {[lock |-> lock[p], record |-> moved[p]]}
Forget(p) == moved' = [moved EXCEPT ![p] = Absent]

(* What was moved is the record seen before and is destroyed; or it is     *)
(* another, which is put back or kept, and the acquisition fails.          *)
Compare(p) ==
  /\ At(p, "compare")
  /\ \/ moved[p] = saw[p] /\ Goto(p, "install") /\ Forget(p) /\ UNCHANGED <<place, kept>>
     \/ moved[p] # saw[p] /\ Here(p) = Absent /\ Goto(p, "restore") /\ UNCHANGED <<place, moved, kept>>
     \/ moved[p] # saw[p] /\ Here(p) # Absent /\ Keep(p) /\ Forget(p) /\ Fail(p)
  /\ UNCHANGED <<record, owned, saw, world>>

Restore(p) ==
  /\ At(p, "restore")
  /\ \/ Free(p) /\ Place(p, moved[p]) /\ UNCHANGED kept
     \/ ~Free(p) /\ Keep(p) /\ UNCHANGED record
  /\ Forget(p) /\ Fail(p)
  /\ UNCHANGED <<owned, saw, world>>

-----------------------------------------------------------------------------
(* The lease.                                                              *)

(* The session file is created, and its identity is locked.                *)
BindToFile(p) ==
  /\ At(p, "open") /\ Identity \notin owned[p]
  /\ file' = TRUE /\ Acquire(p, Identity)
  /\ UNCHANGED <<record, owned, retiring, dead, displaced>>

(* The lock of the identity is released first.                             *)
Release(p) ==
  /\ At(p, "open")
  /\ lock' = [lock EXCEPT ![p] = IF Identity \in owned[p] THEN Identity ELSE PathOf[p]]
  /\ Goto(p, "release")
  /\ UNCHANGED <<record, installs, owned, retiring, world>>

Rest(p) == owned[p] \ {lock[p]}

Released(p) ==
  /\ owned' = [owned EXCEPT ![p] = Rest(p)]
  /\ IF Rest(p) = {} THEN Goto(p, "closed") /\ UNCHANGED lock
     ELSE Goto(p, "release") /\ lock' = [lock EXCEPT ![p] = PathOf[p]]

(* The lock is removed if its record is the opener's.                      *)
ReleaseRead(p) ==
  /\ At(p, "release")
  /\ \/ Here(p) = p /\ Goto(p, "unlink") /\ UNCHANGED <<owned, lock>>
     \/ Here(p) # p /\ Released(p)
  /\ UNCHANGED <<record, installs, retiring, world>>

(* rmSync: the record, whosever it is by now, and then the directory.      *)
Unlink(p) ==
  /\ At(p, "unlink")
  /\ IF Here(p) = Absent THEN UNCHANGED record ELSE Place(p, Bare)
  /\ Goto(p, "rmdir")
  /\ UNCHANGED <<place, owned, retiring, world>>

(* A directory that is not empty any more makes the release throw, and the *)
(* lock of the path may stay.                                              *)
RemoveDirectory(p) ==
  /\ At(p, "rmdir")
  /\ IF Here(p) = Bare THEN Place(p, Absent) ELSE UNCHANGED record
  /\ \/ Released(p)
     \/ /\ Here(p) \in Opener /\ Goto(p, "closed")
        /\ owned' = [owned EXCEPT ![p] = {}] /\ UNCHANGED lock
  /\ UNCHANGED <<installs, retiring, world>>

ProcessDies(p) ==
  /\ p \notin dead /\ step[p] \notin {"idle", "closed"}
  /\ dead' = dead \cup {p}
  /\ UNCHANGED <<record, step, place, owned, retiring, file, displaced>>

LeaseStep(p) ==
  \/ Start(p) \/ Install(p) \/ Collide(p) \/ Exhausted(p) \/ Blocked(p) \/ InspectOwner(p)
  \/ Retire(p) \/ Compare(p) \/ Restore(p) \/ BindToFile(p) \/ Release(p)
  \/ ReleaseRead(p) \/ Unlink(p) \/ RemoveDirectory(p)

LeaseNext == \E p \in Opener : LeaseStep(p) \/ ProcessDies(p)

LeaseSpec == LeaseInit /\ [][LeaseNext]_leaseVars

-----------------------------------------------------------------------------
(* Every variable has its shape.                                           *)
LeaseTypeOK ==
  /\ record \in [Lock -> Standing]
  /\ step \in [Opener -> Steps]
  /\ lock \in [Opener -> Lock] /\ installs \in [Opener -> 0 .. MaxInstalls]
  /\ owned \in [Opener -> SUBSET Lock]
  /\ saw \in [Opener -> Opener \cup {Absent}] /\ moved \in [Opener -> Standing]
  /\ kept \subseteq [lock : Lock, record : Standing]
  /\ dead \subseteq Opener /\ file \in BOOLEAN /\ displaced \subseteq Lock

Writing(p) == At(p, "open") /\ Identity \in owned[p]

(* Two live processes have the lease of the session file only after the    *)
(* record of a living owner was renamed away by mistake: at the lock of    *)
(* the identity, and at that of the path too if they opened the same path. *)
(* A second writer is never the work of a single mistake there, nor of     *)
(* deaths, releases and the records put back.                              *)
SecondWriterWasLetIn ==
  \A p, q \in Opener :
    Writing(p) /\ Writing(q) /\ p # q =>
      /\ Identity \in displaced
      /\ PathOf[p] = PathOf[q] => PathOf[p] \in displaced
=============================================================================
