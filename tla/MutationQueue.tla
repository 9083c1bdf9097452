---------------------------- MODULE MutationQueue ----------------------------
(***************************************************************************)
(* FileMutationScheduler of packages/ohm/src/tools/file-mutation-queue.ts: *)
(* the edits and writes of one process, one at a time on each file.        *)
(*                                                                         *)
(* A mutation names its file by a path.  The names are looked up one after *)
(* the other, in the order of the calls, and a lookup waits for the file   *)
(* system: meanwhile operations end, files are created and files go away.  *)
(* What is looked up joins the lane of its key: the real path of the file, *)
(* or the path itself if there is no file yet.                             *)
(***************************************************************************)
EXTENDS Naturals, Sequences, FiniteSets

CONSTANTS
  Mutation,  \* calls of withFileMutation
  Name,      \* absolute paths
  NameOf,    \* path a mutation is called with
  RealName,  \* path a name leads to when the links in it are followed
  Missing    \* files that do not exist at first, by their real names

ASSUME MutationAssumption ==
  /\ NameOf \in [Mutation -> Name] /\ RealName \in [Name -> Name]
  /\ \A n \in Name : RealName[RealName[n]] = RealName[n]
  /\ Missing \subseteq Name

VARIABLES
  mutation,       \* where a mutation is
  registrations,  \* those that wait for their lookup
  looking,        \* those being looked up
  key,            \* key a lookup gave
  busy, lane,     \* keys of waitingByPath; who waits under them
  present,        \* files that exist
  arrivals        \* the mutations in the order of the calls (history)

mutationVars == <<mutation, registrations, looking, key, busy, lane, present, arrivals>>
lanes        == <<busy, lane>>

Progress == {"called", "registered", "reserved", "waiting", "running", "ended"}
FileOf(m) == RealName[NameOf[m]]

MutationInit ==
  /\ mutation = [m \in Mutation |-> "called"]
  /\ registrations = <<>> /\ looking = {}
  /\ key = NameOf
  /\ busy = {} /\ lane = [n \in Name |-> <<>>]
  /\ present = {RealName[n] : n \in Name} \ Missing
  /\ arrivals = <<>>

Becomes(m, progress) == mutation' = [mutation EXCEPT ![m] = progress]

-----------------------------------------------------------------------------
\* Mutant: a lookup does not wait for the one before it.
RegisterAndLookUp(m) ==
  /\ mutation[m] = "called" /\ Becomes(m, "registered")
  /\ arrivals' = Append(arrivals, m)
  /\ looking' = looking \cup {m}
  /\ UNCHANGED <<registrations, key, lanes, present>>

(* run: the registration is looked up at once if none is being looked up.  *)
Register(m) ==
  /\ mutation[m] = "called" /\ Becomes(m, "registered")
  /\ arrivals' = Append(arrivals, m)
  /\ IF looking = {} THEN looking' = {m} /\ UNCHANGED registrations
     ELSE registrations' = Append(registrations, m) /\ UNCHANGED looking
  /\ UNCHANGED <<key, lanes, present>>

(* The file system answers realpath.                                       *)
LookUp(m) ==
  /\ m \in looking /\ mutation[m] = "registered"
  /\ key' = [key EXCEPT ![m] = IF FileOf(m) \in present THEN FileOf(m) ELSE NameOf[m]]
  /\ Becomes(m, "reserved")
  /\ UNCHANGED <<registrations, looking, lanes, present, arrivals>>

(* The loop goes on with the next registration.                            *)
LookUpNext(m) ==
  IF registrations = <<>>
  THEN looking' = looking \ {m} /\ UNCHANGED registrations
  ELSE /\ looking' = (looking \ {m}) \cup {Head(registrations)}
       /\ registrations' = Tail(registrations)

(* #reserve                                                                *)
Reserve(m) ==
  /\ m \in looking /\ mutation[m] = "reserved"
  /\ IF key[m] \in busy
     THEN Becomes(m, "waiting") /\ lane' = [lane EXCEPT ![key[m]] = Append(@, m)] /\ UNCHANGED busy
     ELSE Becomes(m, "running") /\ busy' = busy \cup {key[m]} /\ UNCHANGED lane
  /\ LookUpNext(m)
  /\ UNCHANGED <<key, present, arrivals>>

(* realpath fails with another error than a missing file: the call fails.  *)
LookUpFails(m) ==
  /\ m \in looking /\ mutation[m] = "registered"
  /\ Becomes(m, "ended")
  /\ LookUpNext(m)
  /\ UNCHANGED <<key, lanes, present, arrivals>>

\* Mutant: the lane is given up although somebody waits in it.
ReleaseForgetting(m) ==
  /\ mutation' = [mutation EXCEPT ![m] = "ended"]
  /\ busy' = busy \ {key[m]} /\ UNCHANGED lane

(* release: the first in the lane is next, or the lane is deleted.         *)
ReleaseLane(m) ==
  LET queue == lane[key[m]] IN
  IF queue = <<>>
  THEN Becomes(m, "ended") /\ busy' = busy \ {key[m]} /\ UNCHANGED lane
  ELSE /\ mutation' = [mutation EXCEPT ![m] = "ended", ![Head(queue)] = "running"]
       /\ lane' = [lane EXCEPT ![key[m]] = Tail(queue)] /\ UNCHANGED busy

(* The operation ends: it has written its file, or failed.                 *)
EndMutation(m) ==
  /\ mutation[m] = "running"
  /\ present' \in {present, present \cup {FileOf(m)}}
  /\ ReleaseLane(m)
  /\ UNCHANGED <<registrations, looking, key, arrivals>>

(* Somebody else, a shell command say, removes a file.                     *)
FileRemoved ==
  /\ \E f \in present : present' = present \ {f}
  /\ UNCHANGED <<mutation, registrations, looking, key, lanes, arrivals>>

MutationNext ==
  \/ \E m \in Mutation :
       Register(m) \/ LookUp(m) \/ Reserve(m) \/ LookUpFails(m) \/ EndMutation(m)
  \/ FileRemoved

MutationSpec == MutationInit /\ [][MutationNext]_mutationVars

-----------------------------------------------------------------------------
(* Every variable has its shape.                                           *)
MutationTypeOK ==
  /\ mutation \in [Mutation -> Progress]
  /\ registrations \in Seq(Mutation) /\ looking \subseteq Mutation /\ Cardinality(looking) <= 1
  /\ key \in [Mutation -> Name]
  /\ busy \subseteq Name /\ lane \in [Name -> Seq(Mutation)]
  /\ present \subseteq Name /\ arrivals \in Seq(Mutation)

(* The mutation is in the lane of the file, under whatever name it came:   *)
(* not so if it came through a link while the file was missing.            *)
InLaneOfFile(m) == key[m] = FileOf(m)

(* Operations on one file take place one at a time, in the order of the    *)
(* calls, whatever names the callers use.                                  *)
MutationsInOrder ==
  \A i, j \in DOMAIN arrivals :
    LET m == arrivals[i]  n == arrivals[j] IN
    /\ i < j /\ FileOf(m) = FileOf(n) /\ InLaneOfFile(m) /\ InLaneOfFile(n)
    /\ mutation[n] = "running"
    => mutation[m] = "ended"

=============================================================================
