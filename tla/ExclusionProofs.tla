-------------------------- MODULE ExclusionProofs --------------------------
(* Who excludes whom, on disk and in one process.  What a second operation *)
(* under a lock takes with FileLock, for any callers, waiting or not, and  *)
(* any deaths; what a second writer of a session file takes with           *)
(* WriterLease, for any openers, paths and attempts; and what              *)
(* AuthorizationQueue and MutationQueue promise, for any number of         *)
(* questions, mutations and names.                                         *)
EXTENDS FileLock, WriterLease, AuthorizationQueue, MutationQueue, TLAPS, FiniteSetTheorems

-----------------------------------------------------------------------------
(* FileLock.                                                               *)

(* Places where a caller answers for the directory without a claim in it,  *)
(* and those from its claim to the removal of it.                          *)
Between == {"identify", "claim", "rmdir", "sweep"}
Claimed == {"owner", "pid", "verify", "operate", "recheck", "unlock", "unclaim"}

Answers(c) == at[c] \in Between \/ c \in Claims

(* Who answers for the directory answers alone, and it stands.  It may     *)
(* also stand empty, left by the dead.                                     *)
OneAnswers ==
  /\ \A c, d \in Caller : Answers(c) /\ Answers(d) => c = d
  /\ dir = None => \A c \in Caller : ~Answers(c)
  /\ \A c \in Caller : at[c] \in Between => c \notin Claims

(* What a claimant has written is there, in the directory it has made.     *)
ClaimantsHold ==
  \A c \in Caller :
    /\ at[c] \in ({"claim"} \cup Claimed) \ {"unlock", "unclaim"} => acquired[c] = dir
    /\ at[c] \in Claimed => c \in Claims
    /\ c \in Claims => at[c] \in Claimed \cup {"dead"}
    /\ at[c] \in Claimed \ {"owner", "unclaim"} => File("owner", c) \in control
    /\ at[c] \in Claimed \ {"owner", "pid", "unclaim"} => File("pid", c) \in control
    /\ at[c] = "unclaim" => {File("owner", c), File("pid", c)} \cap control = {}

(* Owner and pid come after the claim and go before it; only a dead writer *)
(* leaves a file without content.                                          *)
FilesAreClaimed ==
  /\ \A f \in control : f.token \in Claims
  /\ \A f \in blank : at[f.token] = "dead"

(* What is removed belongs to the dead, or its age condemned it.           *)
RemovedAreDead ==
  \A c \in Caller :
    /\ at[c] = "confirm" /\ c \notin aged => at[found[c]] = "dead"
    /\ at[c] \in {"strip", "sweepclaim"} => at[found[c]] = "dead"
    /\ at[c] = "sweepclaim" =>
         {File("owner", found[c]), File("pid", found[c])} \cap control = {}

(* Nobody has to roll back.                                                *)
NobodyRollsBack == \A c \in Caller : at[c] \notin {"back", "backdir"}

(* All this holds until a living caller is robbed, and nothing of it       *)
(* afterwards.                                                             *)
LockInv ==
  /\ LockTypeOK
  /\ OneAnswers /\ ClaimantsHold /\ FilesAreClaimed /\ RemovedAreDead /\ NobodyRollsBack

-----------------------------------------------------------------------------
LEMMA InitHolds == LockInit => LockInv
  BY LockAssumption
  DEF LockInit, LockInv, LockTypeOK, OneAnswers, ClaimantsHold, FilesAreClaimed,
      RemovedAreDead, NobodyRollsBack, Answers, Between, Claimed, Claims, File, Places

(* What caller c knows of the lock may change, and nobody else's.          *)
Looks(c) ==
  /\ found' \in [Caller -> Caller \cup {None}] /\ seen' \in [Caller -> Inode \cup {None}]
  /\ aged' \subseteq Caller /\ reclaimed' \subseteq SyncCaller /\ robbed' \in BOOLEAN
  /\ \A d \in Caller \ {c} : found'[d] = found[d] /\ (d \in aged' <=> d \in aged)

LEMMA LooksAre ==
  ASSUME LockTypeOK, NEW c \in Caller, UNCHANGED waiter \/ (LookEnds(c) /\ UNCHANGED <<reclaimed, robbed>>)
  PROVE  Looks(c)
  BY DEF LockTypeOK, Looks, LookEnds, waiter

(* A caller on its way outside of the lock changes nothing of it.          *)
Outside == Places \ (Between \cup Claimed \cup {"back", "backdir"})

LEMMA WalkOutside ==
  ASSUME LockInv, NEW c \in Caller, at[c] \in Outside, at[c] # "dead",
         NEW p \in Outside, Go(c, p), UNCHANGED <<disk, acquired>>, Looks(c),
         p \in {"judge", "confirm", "strip", "sweepclaim"} => found'[c] \in Caller,
         p = "confirm" /\ c \notin aged' => at[found'[c]] = "dead",
         p = "strip" => at[found'[c]] = "dead",
         p # "sweepclaim"
  PROVE  LockInv'
<1> DEFINE Same == \A d \in Caller : d # c => at'[d] = at[d]
<1>0. at' \in [Caller -> Places] /\ at'[c] = p /\ Same
  BY DEF LockInv, LockTypeOK, Go, Outside
<1>1. LockTypeOK'
  BY <1>0 DEF LockInv, LockTypeOK, disk, Looks
<1>2. Claims' = Claims
  BY DEF Claims, disk, File
<1>3. OneAnswers'
  BY <1>0, <1>2 DEF LockInv, OneAnswers, Answers, Outside, disk
<1>4. ClaimantsHold'
  BY <1>0, <1>2 DEF LockInv, ClaimantsHold, Outside, Between, Claimed, disk, File
<1>5. FilesAreClaimed'
  BY <1>0, <1>2 DEF LockInv, LockTypeOK, FilesAreClaimed, disk
<1>6. RemovedAreDead'
  <2>1. ASSUME NEW d \in Caller, at[d] = "dead" PROVE at'[d] = "dead"
    BY <1>0, <2>1
  <2>2. ASSUME NEW d \in Caller \ {c}, at[d] \in {"confirm", "strip", "sweepclaim"}
        PROVE  found[d] \in Caller /\ found'[d] = found[d]
    BY <2>2 DEF LockInv, LockTypeOK, Looks
  <2>3. QED
    BY <1>0, <2>1, <2>2 DEF LockInv, RemovedAreDead, disk, File, Looks
<1>7. NobodyRollsBack'
  BY <1>0 DEF LockInv, NobodyRollsBack, Outside
<1>8. QED
  BY <1>1, <1>3, <1>4, <1>5, <1>6, <1>7 DEF LockInv

LEMMA WalkSteps ==
  ASSUME LockInv, ~robbed', NEW c \in Caller,
         \/ Call(c) \/ Occupied(c) \/ GiveUp(c) \/ Look(c) \/ ReadClaim(c) \/ Judge(c) \/ Confirm(c)
         \/ LookAges(c)
  PROVE  LockInv'
<1>1. LockTypeOK
  BY DEF LockInv
<1>2. CASE Call(c) \/ Occupied(c) \/ GiveUp(c)
  <2>1. PICK p \in {"mkdir", "look", "refused", "failed"} :
          at[c] \in {"idle", "mkdir"} /\ Go(c, p) /\ UNCHANGED <<disk, acquired, waiter>>
    BY <1>2 DEF Call, Occupied, GiveUp
  <2>2. QED
    BY <1>1, <2>1, WalkOutside, LooksAre DEF Outside, Places, Between, Claimed
<1>3. ASSUME NotRemoved(c), at[c] \in {"look", "readclaim", "judge", "confirm"},
             UNCHANGED <<disk, acquired, reclaimed, robbed>>
      PROVE  LockInv'
  <2>1. PICK p \in {"refused", "mkdir"} : Go(c, p)
    BY <1>3 DEF NotRemoved
  <2>2. Looks(c)
    BY <1>1, <1>3, LooksAre DEF NotRemoved
  <2>3. QED
    BY <1>3, <2>1, <2>2, WalkOutside DEF Outside, Places, Between, Claimed
<1>4. CASE Look(c) /\ ~NotRemoved(c)
  <2>1. Looks(c)
    BY <1>1, <1>4 DEF Look, LockTypeOK, Looks
  <2>2. QED
    BY <1>4, <2>1, WalkOutside DEF Look, Outside, Places, Between, Claimed
<1>5. CASE ReadClaim(c) /\ ~NotRemoved(c)
  <2>1. CASE \E d \in Caller :
               /\ ClaimOf(d) /\ Go(c, "judge")
               /\ found' = [found EXCEPT ![c] = d] /\ UNCHANGED <<seen, aged>>
    <3>1. Looks(c) /\ found'[c] \in Caller
      BY <1>1, <1>5, <2>1 DEF ReadClaim, LockTypeOK, Looks
    <3>2. QED
      BY <1>5, <2>1, <3>1, WalkOutside DEF ReadClaim, Outside, Places, Between, Claimed
  <2>2. CASE Go(c, "sweepblind") /\ LookEnds(c)
    BY <1>1, <1>5, <2>2, WalkOutside, LooksAre DEF ReadClaim, Outside, Places, Between, Claimed
  <2>3. QED
    BY <1>5, <2>1, <2>2 DEF ReadClaim
<1>6. CASE Judge(c) /\ ~NotRemoved(c)
  <2>1. found' = found /\ found[c] \in Caller /\ Looks(c) /\ Go(c, "confirm")
    BY <1>1, <1>6 DEF Judge, LockTypeOK, Looks
  <2>2. c \notin aged' => at[found[c]] = "dead"
    BY <1>6 DEF Judge, DeadOwner
  <2>3. QED
    BY <1>6, <2>1, <2>2, WalkOutside DEF Judge, Outside, Places, Between, Claimed
<1>7. CASE Confirm(c) /\ Matches(found[c], seen[c], {"claim"})
  <2>1. UNCHANGED <<seen, aged, found, reclaimed>> /\ found[c] \in Caller /\ Looks(c) /\ Go(c, "strip")
    BY <1>1, <1>7 DEF Confirm, LockTypeOK, Looks
  <2>2. at[found[c]] = "dead"
    BY <1>7 DEF Confirm, LockInv, RemovedAreDead
  <2>3. QED
    BY <1>7, <2>1, <2>2, WalkOutside DEF Confirm, Outside, Places, Between, Claimed
<1>8. CASE LookAges(c)
  <2>1. at[c] \in {"readclaim", "judge"} /\ Go(c, at[c]) /\ Looks(c) /\ found' = found
    BY <1>1, <1>8 DEF LookAges, LockTypeOK, Looks, Go
  <2>2. at[c] = "judge" => found[c] \in Caller
    BY <1>1 DEF LockTypeOK
  <2>3. QED
    BY <1>8, <2>1, <2>2, WalkOutside DEF LookAges, Outside, Places, Between, Claimed
<1>9. CASE NotRemoved(c) /\ (Look(c) \/ ReadClaim(c) \/ Judge(c))
  BY <1>3, <1>9 DEF Look, ReadClaim, Judge
<1>10. CASE Confirm(c) /\ ~Matches(found[c], seen[c], {"claim"})
  BY <1>3, <1>10 DEF Confirm
<1>11. QED
  BY <1>2, <1>4, <1>5, <1>6, <1>7, <1>8, <1>9, <1>10

(* The claimant finds its files where it left them, and goes on.           *)
LEMMA InsideSteps ==
  ASSUME LockInv, NEW c \in Caller, Verify(c) \/ Operated(c) \/ Recheck(c)
  PROVE  LockInv'
<1>1. LockTypeOK
  BY DEF LockInv
<1>2. Holds(c) \/ at[c] = "operate"
  <2> SUFFICES ASSUME at[c] \in {"verify", "recheck"} PROVE Holds(c)
    BY DEF Verify, Operated, Recheck
  <2>1. dir # None /\ acquired[c] = dir
    BY DEF LockInv, ClaimantsHold, OneAnswers, Answers, Claimed
  <2>2. \A n \in Controls : File(n, c) \in control
    BY DEF LockInv, ClaimantsHold, Claimed, Claims, Controls
  <2>3. \A n \in Controls : File(n, c) \notin blank
    BY DEF LockInv, FilesAreClaimed, File
  <2>4. QED
    BY <2>1, <2>2, <2>3 DEF Holds, Matches, Content
<1>3. PICK p \in {"operate", "recheck", "unlock"} :
        /\ at[c] \in {"verify", "operate", "recheck"} /\ Go(c, p) /\ UNCHANGED <<disk, waiter>>
        /\ UNCHANGED acquired \/ (p = "unlock" /\ LastLook(c))
  BY <1>2 DEF Verify, Operated, Recheck
<1>4. at' \in [Caller -> Places] /\ at'[c] = p /\ \A d \in Caller : d # c => at'[d] = at[d]
  BY <1>1, <1>3 DEF LockTypeOK, Go, Places
<1>5. Claims' = Claims /\ c \in Claims
  BY <1>3 DEF Claims, disk, LockInv, ClaimantsHold, Claimed
<1>6. /\ acquired' \in [Caller -> Inode \cup {None}]
      /\ \A d \in Caller : acquired'[d] = acquired[d] \/ (d = c /\ p = "unlock")
  BY <1>1, <1>3 DEF LockTypeOK, LastLook
<1>7. LockTypeOK'
  BY <1>1, <1>3, <1>4, <1>6 DEF LockTypeOK, disk, waiter
<1>8. OneAnswers'
  BY <1>3, <1>4, <1>5 DEF LockInv, OneAnswers, Answers, Between, disk
<1>9. ClaimantsHold'
  BY <1>3, <1>4, <1>5, <1>6 DEF LockInv, ClaimantsHold, Claimed, disk, File
<1>10. FilesAreClaimed'
  BY <1>1, <1>3, <1>4, <1>5 DEF LockInv, LockTypeOK, FilesAreClaimed, disk
<1>11. RemovedAreDead' /\ NobodyRollsBack'
  BY <1>1, <1>3, <1>4 DEF LockInv, LockTypeOK, RemovedAreDead, NobodyRollsBack, disk, waiter, File
<1>12. QED
  BY <1>7, <1>8, <1>9, <1>10, <1>11 DEF LockInv

(* While nobody's claim stands in the directory, it is empty.              *)
LEMMA EmptyBetween ==
  ASSUME LockInv, NEW c \in Caller, at[c] \in Between
  PROVE  Claims = {} /\ control = {} /\ dir # None /\ blank = {}
<1>1. Claims = {}
  BY DEF LockInv, OneAnswers, Answers, Claims
<1>2. control = {}
  BY <1>1 DEF LockInv, FilesAreClaimed
<1>3. QED
  BY <1>1, <1>2 DEF LockInv, LockTypeOK, OneAnswers, Answers

LEMMA MakeSteps ==
  ASSUME LockInv, NEW c \in Caller, Mkdir(c) \/ Identify(c)
  PROVE  LockInv'
<1>1. LockTypeOK
  BY DEF LockInv
<1>2. PICK p \in {"identify", "claim"} : Go(c, p)
  BY EmptyBetween DEF Mkdir, Identify, Between
<1>3. /\ at' \in [Caller -> Places] /\ at'[c] = p /\ \A d \in Caller : d # c => at'[d] = at[d]
      /\ control' = control /\ blank' = blank /\ UNCHANGED waiter
  BY <1>1, <1>2 DEF Mkdir, Identify, LockTypeOK, Go, Places, disk
<1>4. Claims = {} /\ control = {} /\ blank = {} /\ Claims' = {} /\ old' \in BOOLEAN
  <2>1. control = {}
    BY <1>1, EmptyBetween DEF Mkdir, Identify, Between, LockTypeOK
  <2>2. QED
    BY <2>1, <1>1, <1>3, EmptyBetween DEF Claims, LockTypeOK, Mkdir, Identify, Between, disk
<1>5. dir' # None /\ dir' \in Inode /\ (at'[c] = "claim" => acquired'[c] = dir')
  BY <1>1, <1>3, EmptyBetween, LockAssumption
  DEF Mkdir, Identify, Go, Lost, LockTypeOK, disk, LockAssumption, Between
<1>6. acquired' \in [Caller -> Inode \cup {None}] /\ \A d \in Caller : d # c => acquired'[d] = acquired[d]
  BY <1>1 DEF Mkdir, Identify, LockTypeOK
<1>7. \A d \in Caller : d # c => ~Answers(d)
  BY <1>4 DEF Mkdir, Identify, LockInv, OneAnswers, Answers, Between
<1>8. LockTypeOK'
  BY <1>1, <1>3, <1>4, <1>5, <1>6 DEF LockTypeOK, waiter
<1>9. OneAnswers'
  BY <1>3, <1>4, <1>5, <1>7 DEF OneAnswers, Answers, Between
<1>10. ClaimantsHold'
  BY <1>3, <1>4, <1>5, <1>6, <1>7 DEF LockInv, ClaimantsHold, Answers, Between, Claimed
<1>11. FilesAreClaimed' /\ NobodyRollsBack'
  BY <1>3, <1>4 DEF LockInv, FilesAreClaimed, NobodyRollsBack
<1>12. RemovedAreDead'
  BY <1>1, <1>3, <1>2 DEF LockInv, LockTypeOK, RemovedAreDead, waiter, Mkdir, Identify, File
<1>13. QED
  BY <1>8, <1>9, <1>10, <1>11, <1>12 DEF LockInv

(* A file of a claimant is added.                                          *)
LEMMA WriteSteps ==
  ASSUME LockInv, NEW c \in Caller, WriteControl(c)
  PROVE  LockInv'
<1>1. LockTypeOK
  BY DEF LockInv
<1>2. dir # None
  BY DEF WriteControl, Write, LockInv, OneAnswers, Answers, Between, ClaimantsHold, Claimed
<1>3. PICK name \in Controls, next \in {"owner", "pid", "verify"} :
        /\ at[c] = name /\ Go(c, next) /\ Put({File(name, c)}) /\ UNCHANGED <<acquired, waiter>>
        /\ <<name, next>> \in {<<"claim", "owner">>, <<"owner", "pid">>, <<"pid", "verify">>}
  BY <1>2 DEF WriteControl, Write, Controls
<1>4. /\ at' \in [Caller -> Places] /\ at'[c] = next /\ \A d \in Caller : d # c => at'[d] = at[d]
      /\ control' = control \cup {File(name, c)} /\ UNCHANGED <<dir, blank>> /\ old' = FALSE
  BY <1>1, <1>3 DEF LockTypeOK, Go, Put, Places
<1>5. Claims' = Claims \cup {c} /\ acquired[c] = dir /\ (name # "claim" => c \in Claims)
  <2>1. acquired[c] = dir /\ (name # "claim" => c \in Claims)
    BY <1>3 DEF LockInv, ClaimantsHold, Claimed
  <2>2. CASE name = "claim"
    BY <1>4, <2>1, <2>2 DEF Claims, File
  <2>3. CASE name # "claim"
    BY <1>4, <2>1, <2>3 DEF Claims, File
  <2>4. QED
    BY <2>1, <2>2, <2>3
<1>6. \A d \in Caller : d # c => ~Answers(d)
  BY <1>3, <1>5 DEF LockInv, OneAnswers, Answers, Between
<1>7. LockTypeOK'
  <2>1. File(name, c) \in [name : Controls, token : Caller]
    BY DEF File
  <2>2. control' \subseteq [name : Controls, token : Caller] /\ blank' \subseteq control'
    BY <1>1, <1>4, <2>1 DEF LockTypeOK
  <2>3. QED
    BY <1>1, <1>2, <1>3, <1>4, <2>2 DEF LockTypeOK, waiter
<1>8. OneAnswers'
  BY <1>2, <1>3, <1>4, <1>5, <1>6 DEF OneAnswers, Answers, Between
<1>9. ClaimantsHold'
  BY <1>3, <1>4, <1>5, <1>6 DEF LockInv, ClaimantsHold, Answers, Between, Claimed, File
<1>10. FilesAreClaimed'
  BY <1>1, <1>3, <1>4, <1>5 DEF LockInv, LockTypeOK, FilesAreClaimed, File
<1>11. NobodyRollsBack'
  BY <1>3, <1>4 DEF LockInv, NobodyRollsBack
<1>12. RemovedAreDead'
  BY <1>1, <1>3, <1>4 DEF LockInv, LockTypeOK, RemovedAreDead, waiter, File, Controls
<1>13. QED
  BY <1>7, <1>8, <1>9, <1>10, <1>11, <1>12 DEF LockInv

(* Owner and pid of a claimant that releases, or of a dead one, are taken  *)
(* away; the claim stays.                                                  *)
LEMMA StripSteps ==
  ASSUME LockInv, NEW c \in Caller, Unlock(c) \/ Strip(c)
  PROVE  LockInv'
<1>1. LockTypeOK
  BY DEF LockInv
<1>2. PICK d \in Caller, p \in {"unclaim", "sweepclaim"} :
        /\ Go(c, p) /\ Drop(Files({"owner", "pid"}, d)) /\ UNCHANGED <<acquired, waiter>>
        /\ \/ at[c] = "unlock" /\ p = "unclaim" /\ d = c
           \/ at[c] = "strip" /\ p = "sweepclaim" /\ d = found[c] /\ at[d] = "dead"
  BY <1>1 DEF Unlock, Strip, LockInv, LockTypeOK, RemovedAreDead
<1>3. /\ at' \in [Caller -> Places] /\ at'[c] = p /\ \A e \in Caller : e # c => at'[e] = at[e]
      /\ control' = control \ {File("owner", d), File("pid", d)}
      /\ blank' = blank \ {File("owner", d), File("pid", d)}
      /\ dir' = dir /\ old' \in BOOLEAN
  BY <1>1, <1>2 DEF LockTypeOK, Go, Drop, Places, Files
<1>4. Claims' = Claims
  BY <1>3 DEF Claims, File
<1>5. LockTypeOK'
  BY <1>1, <1>2, <1>3 DEF LockTypeOK, waiter
<1>6. OneAnswers'
  BY <1>2, <1>3, <1>4 DEF LockInv, OneAnswers, Answers, Between, ClaimantsHold, Claimed
<1>7. ClaimantsHold'
  <2>1. ClaimantsHold /\ c \in Caller
    BY DEF LockInv
  <2>2. ASSUME NEW e \in Caller
        PROVE  /\ at'[e] \in ({"claim"} \cup Claimed) \ {"unlock", "unclaim"} => acquired[e] = dir
               /\ at'[e] \in Claimed => e \in Claims
               /\ e \in Claims => at'[e] \in Claimed \cup {"dead"}
    BY <1>2, <1>3, <2>1 DEF ClaimantsHold, Claimed
  <2>3. ASSUME NEW e \in Caller
        PROVE  /\ at'[e] \in Claimed \ {"owner", "unclaim"} => File("owner", e) \in control'
               /\ at'[e] \in Claimed \ {"owner", "pid", "unclaim"} => File("pid", e) \in control'
    <3>1. at'[e] \in Claimed \ {"owner", "unclaim"} => e # d /\ at'[e] = at[e]
      BY <1>2, <1>3 DEF Claimed
    <3>2. QED
      BY <1>3, <2>1, <3>1 DEF ClaimantsHold, File
  <2>4. ASSUME NEW e \in Caller, at'[e] = "unclaim"
        PROVE  {File("owner", e), File("pid", e)} \cap control' = {}
    BY <1>2, <1>3, <2>1, <2>4 DEF ClaimantsHold
  <2>5. QED
    BY <1>2, <1>3, <1>4, <2>2, <2>3, <2>4 DEF ClaimantsHold
<1>8. FilesAreClaimed' /\ NobodyRollsBack'
  BY <1>1, <1>2, <1>3, <1>4 DEF LockInv, LockTypeOK, FilesAreClaimed, NobodyRollsBack
<1>9. RemovedAreDead'
  BY <1>1, <1>2, <1>3 DEF LockInv, LockTypeOK, RemovedAreDead, waiter, File
<1>10. QED
  BY <1>5, <1>6, <1>7, <1>8, <1>9 DEF LockInv

(* The claim is taken away: its owner is alone with the directory, or the  *)
(* waiter that removes it is.                                              *)
LEMMA UnclaimSteps ==
  ASSUME LockInv, NEW c \in Caller, NEW d \in Caller, NEW p \in {"rmdir", "sweep"},
         d \in Claims, Go(c, p), Drop(Files({"claim"}, d)), UNCHANGED acquired, Looks(c),
         \/ at[c] = "unclaim" /\ d = c
         \/ at[c] = "sweepclaim" /\ d = found[c]
  PROVE  LockInv'
<1>1. LockTypeOK /\ Claims = {d} /\ Claims \subseteq Caller
  BY DEF LockInv, OneAnswers, Answers, Claims
<1>2. /\ at' \in [Caller -> Places] /\ at'[c] = p /\ \A e \in Caller : e # c => at'[e] = at[e]
      /\ control' = control \ {File("claim", d)} /\ dir' = dir
      /\ blank' = blank \ {File("claim", d)} /\ old' \in BOOLEAN
  BY <1>1 DEF LockTypeOK, Go, Drop, Places, Files, Claims
<1>3. control = {File("claim", d)}
  <2>1. \A f \in control : f \in [name : Controls, token : Caller] /\ f.token = d
    BY <1>1 DEF LockInv, LockTypeOK, FilesAreClaimed
  <2>2. File("owner", d) \notin control /\ File("pid", d) \notin control
    BY DEF LockInv, ClaimantsHold, RemovedAreDead
  <2>3. File("claim", d) \in control
    BY DEF Claims
  <2>4. QED
    BY <2>1, <2>2, <2>3 DEF Controls, File
<1>4. control' = {} /\ blank' = {} /\ Claims' = {}
  BY <1>1, <1>2, <1>3 DEF Claims, LockTypeOK
<1>5. \A e \in Caller : e # c => ~Answers(e)'
  BY <1>1, <1>2, <1>4 DEF LockInv, OneAnswers, Answers, Between
<1>6. \A e \in Caller : e # c => at[e] \notin Claimed \cup Between
  BY <1>1 DEF LockInv, OneAnswers, Answers, ClaimantsHold, RemovedAreDead, Claimed, Between
<1>7. LockTypeOK'
  BY <1>1, <1>2, <1>4 DEF LockTypeOK, Looks
<1>8. OneAnswers'
  BY <1>1, <1>2, <1>4, <1>5 DEF LockInv, OneAnswers, Answers, Between
<1>9. ClaimantsHold'
  BY <1>2, <1>4, <1>6 DEF ClaimantsHold, Between, Claimed
<1>10. FilesAreClaimed' /\ NobodyRollsBack'
  BY <1>2, <1>4 DEF LockInv, FilesAreClaimed, NobodyRollsBack
<1>11. RemovedAreDead'
  <2>1. \A e \in Caller : at[e] = "dead" => at'[e] = "dead"
    BY <1>2
  <2>2. ASSUME NEW e \in Caller \ {c}, at[e] \in {"confirm", "strip", "sweepclaim"}
        PROVE  found[e] \in Caller /\ found'[e] = found[e]
    BY <1>1, <2>2 DEF LockTypeOK, Looks
  <2>3. QED
    BY <1>2, <1>4, <2>1, <2>2 DEF LockInv, RemovedAreDead, Looks
<1>12. QED
  BY <1>7, <1>8, <1>9, <1>10, <1>11 DEF LockInv

(* The empty directory is removed, while nobody else takes it for his.     *)
LEMMA RemoveSteps ==
  ASSUME LockInv, ~robbed', NEW c \in Caller, CanRemove, Rmdir(c) \/ Sweep(c)
  PROVE  LockInv'
<1>1. LockTypeOK /\ Claims = {} /\ control = {} /\ blank = {}
  BY DEF CanRemove, LockInv, LockTypeOK, Claims
<1>2. PICK p \in {"done", "mkdir"} :
        /\ Go(c, p) /\ RemoveDir /\ UNCHANGED <<control, blank, acquired, seen, aged, found>>
        /\ reclaimed' \subseteq SyncCaller /\ robbed' \in BOOLEAN
  BY <1>1 DEF Rmdir, Sweep, LockTypeOK, waiter
<1>3. /\ at' \in [Caller -> Places] /\ at'[c] = p /\ \A e \in Caller : e # c => at'[e] = at[e]
      /\ dir' = None /\ old' = FALSE /\ control' = {} /\ blank' = {}
  BY <1>1, <1>2 DEF RemoveDir, LockTypeOK, Go, Places
<1>4. \A e \in Caller \ {c} : at[e] \notin Between
  <2>1. CASE at[c] \in {"rmdir", "sweep"}
    BY <2>1 DEF LockInv, OneAnswers, Answers, Between
  <2>2. CASE Sweep(c) /\ at[c] = "sweepblind"
    BY <2>2 DEF Sweep, Unclaimed, Between
  <2>3. QED
    BY <2>1, <2>2 DEF Rmdir, Sweep
<1>5. \A e \in Caller : at'[e] \notin Between \cup Claimed
  BY <1>1, <1>3, <1>4 DEF LockInv, ClaimantsHold, Between, Claimed
<1>6. Claims' = {}
  BY <1>3 DEF Claims
<1>7. LockTypeOK'
  BY <1>1, <1>2, <1>3 DEF LockTypeOK
<1>8. OneAnswers' /\ ClaimantsHold'
  BY <1>3, <1>5, <1>6 DEF OneAnswers, Answers, ClaimantsHold, Between, Claimed
<1>9. FilesAreClaimed' /\ NobodyRollsBack'
  BY <1>3 DEF LockInv, FilesAreClaimed, NobodyRollsBack
<1>10. RemovedAreDead'
  BY <1>1, <1>2, <1>3 DEF Rmdir, Sweep, LockInv, LockTypeOK, RemovedAreDead
<1>11. QED
  BY <1>7, <1>8, <1>9, <1>10 DEF LockInv

(* A waiter finds that it cannot remove the directory.                     *)
LEMMA SweepFails ==
  ASSUME LockInv, NEW c \in Caller, Sweep(c), ~CanRemove
  PROVE  LockInv'
<1>1. LockTypeOK /\ at[c] = "sweepblind"
  BY EmptyBetween DEF Sweep, CanRemove, Between, LockInv
<1>2. PICK p \in {"refused", "mkdir"} : Go(c, p)
  BY DEF Sweep, NotRemoved
<1>3. UNCHANGED <<disk, acquired>> /\ Looks(c)
  BY <1>1, LooksAre DEF Sweep, RemoveDir, NotRemoved, disk
<1>4. QED
  BY <1>1, <1>2, <1>3, WalkOutside DEF Outside, Places, Between, Claimed

(* A process dies; the last file of a claimant may stay without content,   *)
(* or its directory without a file.                                        *)
LEMMA DeathSteps ==
  ASSUME LockInv, NEW c \in Caller, Die(c)
  PROVE  LockInv'
<1>1. LockTypeOK /\ Claims \subseteq Caller
  BY DEF LockInv, Claims
<1>2. PICK F \in {{}, {File(at[c], c)}} :
        /\ F # {} => at[c] \in Controls /\ old' = FALSE /\ dir # None
        /\ F = {} => old' = old
        /\ control' = control \cup F /\ blank' = blank \cup F /\ dir' = dir
  <2>1. CASE UNCHANGED disk
    BY <2>1 DEF disk
  <2>2. CASE ~UNCHANGED disk
    BY <2>2 DEF Die
  <2>3. QED
    BY <2>1, <2>2
<1>3. /\ at' \in [Caller -> Places] /\ at'[c] = "dead" /\ \A e \in Caller : e # c => at'[e] = at[e]
      /\ at[c] # "dead" /\ Looks(c)
      /\ acquired' \in [Caller -> Inode \cup {None}]
      /\ \A e \in Caller : e # c => acquired'[e] = acquired[e]
  BY <1>1, LooksAre DEF Die, Live, Go, LastLook, LockTypeOK, Places
<1>4. /\ Claims \subseteq Claims' /\ Claims' \subseteq Claims \cup {c}
      /\ \A e \in Caller : Answers(e)' => Answers(e)
  <2>1. Claims' = Claims \cup IF F # {} /\ at[c] = "claim" THEN {c} ELSE {}
    BY <1>2 DEF Claims, File
  <2>2. QED
    BY <1>3, <2>1 DEF Answers, Between
<1>5. F # {} => c \in Claims'
  BY <1>2 DEF LockInv, ClaimantsHold, Claimed, Claims, Controls, File
<1>6. \A f \in F : f \in [name : Controls, token : Caller] /\ f.token = c
  BY <1>2 DEF File
<1>7. LockTypeOK'
  <2>1. control' \subseteq [name : Controls, token : Caller] /\ blank' \subseteq control'
    BY <1>1, <1>2, <1>6 DEF LockTypeOK
  <2>2. dir' = None => control' = {}
    BY <1>1, <1>2 DEF LockTypeOK
  <2>3. QED
    BY <1>1, <1>2, <1>3, <2>1, <2>2 DEF LockTypeOK, Looks
<1>8. OneAnswers'
  BY <1>2, <1>3, <1>4 DEF LockInv, OneAnswers, Between
<1>9. ClaimantsHold'
  <2>1. \A e \in Caller, n \in Controls : e # c => (File(n, e) \in control' <=> File(n, e) \in control)
    BY <1>2, <1>6 DEF File
  <2>2. QED
    BY <1>2, <1>3, <1>4, <2>1 DEF LockInv, ClaimantsHold, Claimed, Controls
<1>10. FilesAreClaimed'
  BY <1>1, <1>2, <1>3, <1>4, <1>5, <1>6 DEF LockInv, LockTypeOK, FilesAreClaimed
<1>11. NobodyRollsBack'
  BY <1>3 DEF LockInv, NobodyRollsBack
<1>12. RemovedAreDead'
  <2>1. \A e \in Caller : at[e] = "dead" => at'[e] = "dead" /\ e # c
    BY <1>3
  <2>2. ASSUME NEW e \in Caller \ {c}, at[e] \in {"confirm", "strip", "sweepclaim"}
        PROVE  found[e] \in Caller /\ found'[e] = found[e]
    BY <1>1, <1>3, <2>2 DEF LockTypeOK, Looks
  <2>3. ASSUME NEW e \in Caller, e # c
        PROVE  \A n \in Controls : File(n, e) \in control' => File(n, e) \in control
    BY <1>2, <1>6, <2>3 DEF File
  <2>4. QED
    BY <1>3, <2>1, <2>2, <2>3 DEF LockInv, RemovedAreDead, Looks, Controls
<1>13. QED
  BY <1>7, <1>8, <1>9, <1>10, <1>11, <1>12 DEF LockInv

LEMMA AgeStep ==
  ASSUME LockInv, Age PROVE LockInv'
  BY DEF LockInv, Age, LockTypeOK, OneAnswers, Answers, Claims, ClaimantsHold, FilesAreClaimed,
         RemovedAreDead, NobodyRollsBack, waiter, File

-----------------------------------------------------------------------------
LEMMA LockStepKeepsInv ==
  ASSUME LockInv, [LockNext]_lockVars, ~robbed'
  PROVE  LockInv'
<1>1. CASE UNCHANGED lockVars
  BY <1>1
  DEF lockVars, disk, waiter, LockInv, LockTypeOK, OneAnswers, Answers, Claims, ClaimantsHold,
      FilesAreClaimed, RemovedAreDead, NobodyRollsBack, File
<1>2. LockTypeOK
  BY DEF LockInv
<1>3. ASSUME NEW c \in Caller, AcquireStep(c) PROVE LockInv'
  BY <1>3, WalkSteps, MakeSteps, WriteSteps, InsideSteps DEF AcquireStep
<1>4. ASSUME NEW c \in Caller, ReleaseStep(c) PROVE LockInv'
  <2>1. CASE Unclaim(c)
    <3>1. c \in Claims
      BY <2>1 DEF Unclaim, LockInv, ClaimantsHold, Claimed
    <3>2. QED
      BY <1>2, <2>1, <3>1, UnclaimSteps, LooksAre DEF Unclaim, Claims
  <2>2. CASE RollBack(c) \/ RollBackDir(c)
    BY <2>2 DEF RollBack, RollBackDir, LockInv, NobodyRollsBack
  <2>3. CASE Rmdir(c)
    BY <2>3, EmptyBetween, RemoveSteps DEF Rmdir, Between, CanRemove
  <2>4. QED
    BY <1>4, <2>1, <2>2, <2>3, InsideSteps, StripSteps DEF ReleaseStep
<1>5. ASSUME NEW c \in Caller, RemoveStep(c) PROVE LockInv'
  <2>1. CASE SweepClaim(c) /\ found[c] \in Claims
    <3>1. found[c] \in Caller /\ File("claim", found[c]) \in control
      BY <2>1 DEF Claims
    <3>2. Go(c, "sweep") /\ LookEnds(c)
      BY <2>1, <3>1 DEF SweepClaim
    <3>3. QED
      BY <1>2, <2>1, <3>1, <3>2, UnclaimSteps, LooksAre DEF SweepClaim
  <2>2. CASE SweepClaim(c) /\ found[c] \notin Claims
    <3>1. found[c] \in Caller /\ File("claim", found[c]) \notin control
      BY <1>2, <2>2 DEF SweepClaim, LockTypeOK, Claims
    <3>2. PICK p \in {"sweepblind", "mkdir", "refused"} : Go(c, p) /\ LookEnds(c)
      BY <2>2, <3>1 DEF SweepClaim, NotRemoved
    <3>3. UNCHANGED <<disk, acquired>> /\ Looks(c)
      BY <1>2, <2>2, <3>1, <3>2, LooksAre DEF SweepClaim, Drop, Files, disk, LockTypeOK
    <3>4. QED
      BY <2>2, <3>2, <3>3, WalkOutside DEF SweepClaim, Outside, Places, Between, Claimed
  <2>3. CASE Sweep(c)
    BY <2>3, RemoveSteps, SweepFails
  <2>4. QED
    BY <1>5, <2>1, <2>2, <2>3, WalkSteps, StripSteps DEF RemoveStep
<1>6. QED
  BY <1>1, <1>3, <1>4, <1>5, WalkSteps, DeathSteps, AgeStep DEF LockNext

(* A robbery is not forgotten.                                             *)
LEMMA RobbedStays ==
  ASSUME robbed, [LockNext]_lockVars PROVE robbed'
<1>1. CASE UNCHANGED lockVars \/ Age
  BY <1>1 DEF lockVars, waiter, Age
<1>2. ASSUME NEW c \in Caller, AcquireStep(c) PROVE robbed'
  BY <1>2 DEF AcquireStep, Call, Mkdir, Occupied, GiveUp, Identify, WriteControl, Write, Verify, waiter
<1>3. ASSUME NEW c \in Caller, ReleaseStep(c) PROVE robbed'
  BY <1>3 DEF ReleaseStep, Operated, Recheck, Unlock, Unclaim, Rmdir, RollBack, RollBackDir, waiter
<1>4. ASSUME NEW c \in Caller, RemoveStep(c) PROVE robbed'
  BY <1>4 DEF RemoveStep, Look, ReadClaim, Judge, Confirm, Strip, SweepClaim, Sweep, waiter
<1>5. QED
  BY <1>1, <1>2, <1>3, <1>4 DEF LockNext, Die, LookAges

(* However many callers want the lock, waiting or not, whoever dies        *)
(* between which calls, and however long a call takes: a second operation  *)
(* under the lock is let in only after a waiter has robbed a living caller *)
(* of it, by the age of its directory or, synchronous, without having      *)
(* removed a claim.  Waiters that remove what a dead owner left, and       *)
(* callers that lose the race for the directory, never let one in.         *)
THEOREM SecondOperationWasLetInHolds == LockSpec => []SecondOperationWasLetIn
<1>1. LockInv => OperationsExclude
  BY DEF LockInv, OneAnswers, Answers, ClaimantsHold, Claimed, OperationsExclude
<1>2. (robbed \/ LockInv) /\ [LockNext]_lockVars => (robbed \/ LockInv)'
  BY LockStepKeepsInv, RobbedStays
<1>3. robbed \/ LockInv => SecondOperationWasLetIn
  BY <1>1 DEF SecondOperationWasLetIn
<1>4. QED
  BY InitHolds, <1>2, <1>3, PTL DEF LockSpec

(* What is on the disk, and what the callers know of it.                   *)
DiskOK ==
  /\ dir \in Inode \cup {None} /\ old \in BOOLEAN
  /\ control \subseteq [name : Controls, token : Caller] /\ blank \subseteq control
  /\ dir = None => control = {}

WaitersKnow == \A c \in Caller : at[c] \in {"judge", "confirm", "strip", "sweepclaim"} => found[c] \in Caller

CallersOK ==
  /\ at \in [Caller -> Places]
  /\ acquired \in [Caller -> Inode \cup {None}]
  /\ found \in [Caller -> Caller \cup {None}] /\ seen \in [Caller -> Inode \cup {None}]
  /\ aged \subseteq Caller /\ reclaimed \subseteq SyncCaller /\ robbed \in BOOLEAN
  /\ WaitersKnow

LEMMA ShapeIs == LockTypeOK <=> DiskOK /\ CallersOK
  BY DEF LockTypeOK, DiskOK, CallersOK, WaitersKnow

CallerStep(c) == AcquireStep(c) \/ ReleaseStep(c) \/ RemoveStep(c) \/ Die(c) \/ LookAges(c)

LEMMA DiskKept ==
  ASSUME DiskOK, NEW c \in Caller, CallerStep(c)
  PROVE  DiskOK'
<1>1. CASE UNCHANGED disk
  BY <1>1 DEF disk, DiskOK
<1>2. ASSUME NEW files, Drop(files) PROVE DiskOK'
  BY <1>2 DEF Drop, DiskOK
<1>3. CASE RemoveDir /\ UNCHANGED <<control, blank>>
  BY <1>3 DEF RemoveDir, CanRemove, DiskOK
<1>4. CASE Mkdir(c)
  BY <1>4, LockAssumption DEF Mkdir, DiskOK
<1>5. ASSUME NEW name \in Controls, dir # None, UNCHANGED dir, old' = FALSE,
             control' = control \cup {File(name, c)}, blank' \in {blank, blank \cup {File(name, c)}}
      PROVE  DiskOK'
  <2>1. File(name, c) \in [name : Controls, token : Caller]
    BY <1>5 DEF File
  <2>2. control' \subseteq [name : Controls, token : Caller] /\ blank' \subseteq control'
    BY <1>5, <2>1 DEF DiskOK
  <2>3. QED
    BY <1>5, <2>2 DEF DiskOK
<1>6. CASE AcquireStep(c)
  <2>1. CASE WriteControl(c)
    <3>1. PICK name \in Controls, next \in Places : Write(c, name, next)
      BY <2>1 DEF WriteControl, Controls, Places
    <3>2. QED
      BY <1>1, <1>5, <3>1 DEF Write, Put
  <2>2. QED
    BY <1>1, <1>4, <1>6, <2>1 DEF AcquireStep, Call, Occupied, GiveUp, Identify, Verify
<1>7. CASE ReleaseStep(c)
  BY <1>1, <1>2, <1>3, <1>7
     DEF ReleaseStep, Operated, Recheck, Unlock, Unclaim, Rmdir, RollBack, RollBackDir
<1>8. CASE RemoveStep(c)
  BY <1>1, <1>2, <1>3, <1>8
     DEF RemoveStep, Look, ReadClaim, Judge, Confirm, Strip, SweepClaim, Sweep
<1>9. CASE Die(c)
  BY <1>1, <1>5, <1>9 DEF Die
<1>10. CASE LookAges(c)
  BY <1>1, <1>10 DEF LookAges
<1>11. QED
  BY <1>6, <1>7, <1>8, <1>9, <1>10 DEF CallerStep

(* A step of a caller that moves to p, and what it may learn.              *)
LEMMA CallerMoves ==
  ASSUME CallersOK, DiskOK, NEW c \in Caller, NEW p \in Places, Go(c, p),
         UNCHANGED acquired \/ LastLook(c) \/ acquired' = [acquired EXCEPT ![c] = dir],
         Looks(c), p \in {"judge", "confirm", "strip", "sweepclaim"} => found'[c] \in Caller
  PROVE  CallersOK'
<1>1. at' \in [Caller -> Places] /\ at'[c] = p /\ \A d \in Caller : d # c => at'[d] = at[d]
  BY DEF CallersOK, Go
<1>2. acquired' \in [Caller -> Inode \cup {None}]
  BY DEF CallersOK, DiskOK, LastLook
<1>3. WaitersKnow'
  BY <1>1 DEF CallersOK, WaitersKnow, Looks
<1>4. QED
  BY <1>1, <1>2, <1>3 DEF CallersOK, Looks

LEMMA CallersKept ==
  ASSUME DiskOK, CallersOK, NEW c \in Caller, CallerStep(c)
  PROVE  CallersOK'
<1>1. LockTypeOK
  BY ShapeIs
<1>2. CASE AcquireStep(c) \/ ReleaseStep(c)
  <2>1. UNCHANGED waiter
    BY <1>2 DEF AcquireStep, Call, Mkdir, Occupied, GiveUp, Identify, WriteControl, Write, Verify,
                ReleaseStep, Operated, Recheck, Unlock, Unclaim, Rmdir, RollBack, RollBackDir
  <2>2. UNCHANGED acquired \/ LastLook(c) \/ acquired' = [acquired EXCEPT ![c] = dir]
    BY <1>2 DEF AcquireStep, Call, Mkdir, Occupied, GiveUp, Identify, WriteControl, Write, Verify,
                ReleaseStep, Operated, Recheck, Unlock, Unclaim, Rmdir, RollBack, RollBackDir
  <2>3. PICK p \in Places \ {"judge", "confirm", "strip", "sweepclaim"} : Go(c, p)
    <3>1. CASE AcquireStep(c)
      BY <3>1 DEF AcquireStep, Call, Mkdir, Occupied, GiveUp, Identify, WriteControl, Write, Verify,
                  Lost, Places
    <3>2. CASE ReleaseStep(c)
      BY <3>2 DEF ReleaseStep, Operated, Recheck, Unlock, Unclaim, Rmdir, RollBack, RollBackDir, Places
    <3>3. QED
      BY <1>2, <3>1, <3>2
  <2>4. QED
    BY <1>1, <2>1, <2>2, <2>3, CallerMoves, LooksAre
<1>3. CASE RemoveStep(c)
  <2>1. UNCHANGED acquired
    BY <1>3 DEF RemoveStep, Look, ReadClaim, Judge, Confirm, Strip, SweepClaim, Sweep
  <2>2. Looks(c)
    <3>1. CASE Look(c) \/ ReadClaim(c)
      BY <1>1, <3>1 DEF Look, ReadClaim, NotRemoved, LookEnds, Looks, LockTypeOK
    <3>2. CASE Judge(c) \/ Confirm(c)
      BY <1>1, <3>2 DEF Judge, Confirm, NotRemoved, LookEnds, Looks, LockTypeOK
    <3>3. CASE Strip(c) \/ SweepClaim(c)
      BY <1>1, <3>3, LooksAre DEF Strip, SweepClaim, NotRemoved
    <3>4. CASE Sweep(c)
      BY <1>1, <3>4 DEF Sweep, NotRemoved, LookEnds, Looks, LockTypeOK
    <3>5. QED
      BY <1>3, <3>1, <3>2, <3>3, <3>4 DEF RemoveStep
  <2>3. PICK p \in Places :
          Go(c, p) /\ (p \in {"judge", "confirm", "strip", "sweepclaim"} => found'[c] \in Caller)
    <3>1. CASE Look(c) \/ Sweep(c)
      BY <3>1 DEF Look, Sweep, NotRemoved, Places
    <3>2. CASE ReadClaim(c)
      BY <1>1, <3>2 DEF ReadClaim, NotRemoved, Places, LockTypeOK
    <3>3. CASE Judge(c) \/ Confirm(c)
      BY <1>1, <3>3 DEF Judge, Confirm, NotRemoved, Places, LockTypeOK
    <3>4. CASE Strip(c)
      BY <1>1, <3>4 DEF Strip, Places, LockTypeOK, waiter
    <3>5. CASE SweepClaim(c)
      BY <3>5 DEF SweepClaim, NotRemoved, Places
    <3>6. QED
      BY <1>3, <3>1, <3>2, <3>3, <3>4, <3>5 DEF RemoveStep
  <2>4. QED
    BY <2>1, <2>2, <2>3, CallerMoves
<1>4. CASE Die(c)
  BY <1>1, <1>4, CallerMoves, LooksAre DEF Die, Places
<1>5. CASE LookAges(c)
  BY <1>5 DEF LookAges, CallersOK, WaitersKnow
<1>6. QED
  BY <1>2, <1>3, <1>4, <1>5 DEF CallerStep

(* The lock directory and the callers keep their shape, whoever dies and   *)
(* whichever calls are synchronous: above all, no control file outlives    *)
(* the directory it was written in.                                        *)
THEOREM LockTypeCorrect == LockSpec => []LockTypeOK
<1>1. LockTypeOK /\ [LockNext]_lockVars => LockTypeOK'
  <2> SUFFICES ASSUME LockTypeOK, [LockNext]_lockVars PROVE LockTypeOK'
    OBVIOUS
  <2>1. CASE UNCHANGED lockVars
    BY <2>1 DEF lockVars, disk, waiter, LockTypeOK
  <2>2. CASE Age
    BY <2>2 DEF Age, waiter, LockTypeOK
  <2>3. ASSUME NEW c \in Caller, CallerStep(c)
        PROVE  LockTypeOK'
    <3>1. DiskOK' /\ CallersOK'
      BY <2>3, ShapeIs, DiskKept, CallersKept
    <3>2. QED
      BY <3>1 DEF LockTypeOK, DiskOK, CallersOK, WaitersKnow
  <2>4. QED
    BY <2>1, <2>2, <2>3 DEF LockNext, CallerStep
<1>2. LockInit => LockTypeOK
  BY LockAssumption DEF LockInit, LockTypeOK, Places
<1>3. QED
  BY <1>1, <1>2, PTL DEF LockSpec

-----------------------------------------------------------------------------
(* WriterLease.                                                            *)

Acquiring == {"install", "blocked", "inspect", "retire", "compare", "restore"}
Releasing == {"release", "unlink", "rmdir"}

(* The lock of the path is taken first and released last.                  *)
InOrder(p) ==
  /\ step[p] \in {"idle", "closed"} => owned[p] = {}
  /\ step[p] \in Acquiring =>
       \/ lock[p] = PathOf[p] /\ owned[p] = {}
       \/ lock[p] = Identity /\ owned[p] = {PathOf[p]}
  /\ step[p] = "open" => owned[p] \in {{PathOf[p]}, {PathOf[p], Identity}}
  /\ step[p] \in Releasing =>
       \/ lock[p] = PathOf[p] /\ owned[p] = {PathOf[p]}
       \/ lock[p] = Identity /\ owned[p] = {PathOf[p], Identity}
PathFirst == \A p \in Opener : InOrder(p)

(* A release has removed the record, and not yet the directory.            *)
HasUnlinked(p, l) == step[p] = "rmdir" /\ lock[p] = l

(* Where no living owner was displaced, a living owner has its record.     *)
OwnersHaveRecords ==
  \A l \in Lock \ displaced : \A p \in Opener \ dead :
    l \in owned[p] /\ ~HasUnlinked(p, l) => record[l] = p

LeaseInv == LeaseTypeOK /\ PathFirst /\ OwnersHaveRecords

LEMMA LeaseInitHolds == LeaseInit => LeaseInv
  BY LeaseAssumption
  DEF LeaseInit, LeaseInv, LeaseTypeOK, PathFirst, InOrder, OwnersHaveRecords, Acquiring,
      Releasing, Lock, Standing, Steps

LEMMA LeaseTypeKept ==
  ASSUME LeaseInv, LeaseNext PROVE LeaseTypeOK'
<1>1. LeaseTypeOK /\ Identity \in Lock /\ \A p \in Opener : PathOf[p] \in Lock
  BY LeaseAssumption DEF LeaseInv, Lock
<1>2. PICK p \in Opener : LeaseStep(p) \/ ProcessDies(p)
  BY DEF LeaseNext
<1>3. CASE ProcessDies(p)
  BY <1>1, <1>3 DEF LeaseTypeOK, ProcessDies, place, retiring
<1>4. CASE Start(p) \/ Install(p) \/ Collide(p) \/ Exhausted(p) \/ Blocked(p) \/ InspectOwner(p)
  <2>1. CASE Start(p)
    BY <1>1, <2>1, LeaseAssumption DEF LeaseTypeOK, Start, Acquire, At, Goto, retiring, world, Steps
  <2>2. CASE Install(p)
    BY <1>1, <2>2, LeaseAssumption
    DEF LeaseTypeOK, Install, Acquire, At, Goto, Place, place, retiring, world, Steps, Standing
  <2>3. CASE Collide(p)
    BY <1>1, <2>3, LeaseAssumption DEF LeaseTypeOK, Collide, At, Goto, retiring, world, Steps
  <2>4. CASE Exhausted(p)
    BY <1>1, <2>4 DEF LeaseTypeOK, Exhausted, Fail, At, Goto, place, retiring, world, Steps
  <2>5. CASE Blocked(p)
    BY <1>1, <2>5 DEF LeaseTypeOK, Blocked, Fail, At, Goto, place, retiring, world, Steps
  <2>6. CASE InspectOwner(p)
    BY <1>1, <2>6 DEF LeaseTypeOK, InspectOwner, Fail, At, Goto, place, world, Steps
  <2>7. QED
    BY <1>4, <2>1, <2>2, <2>3, <2>4, <2>5, <2>6
<1>5. CASE Retire(p) \/ Compare(p) \/ Restore(p)
  <2>1. CASE Retire(p)
    BY <1>1, <2>1 DEF LeaseTypeOK, Retire, Here, Place, At, Goto, place, Steps, Standing
  <2>2. CASE Compare(p)
    BY <1>1, <2>2
    DEF LeaseTypeOK, Compare, Keep, Forget, Fail, At, Goto, place, world, Steps, Standing
  <2>3. CASE Restore(p)
    BY <1>1, <2>3
    DEF LeaseTypeOK, Restore, Keep, Forget, Fail, Place, At, Goto, place, world, Steps, Standing
  <2>4. QED
    BY <1>5, <2>1, <2>2, <2>3
<1>6. CASE BindToFile(p) \/ Release(p) \/ ReleaseRead(p) \/ Unlink(p) \/ RemoveDirectory(p)
  <2>1. CASE BindToFile(p)
    BY <1>1, <2>1, LeaseAssumption DEF LeaseTypeOK, BindToFile, Acquire, At, Goto, retiring, Steps
  <2>2. CASE Release(p)
    BY <1>1, <2>2 DEF LeaseTypeOK, Release, At, Goto, retiring, world, Steps
  <2>3. CASE ReleaseRead(p)
    BY <1>1, <2>3 DEF LeaseTypeOK, ReleaseRead, Released, Rest, At, Goto, retiring, world, Steps
  <2>4. CASE Unlink(p)
    BY <1>1, <2>4
    DEF LeaseTypeOK, Unlink, Place, At, Goto, place, retiring, world, Steps, Standing
  <2>5. CASE RemoveDirectory(p)
    BY <1>1, <2>5
    DEF LeaseTypeOK, RemoveDirectory, Released, Rest, Place, At, Goto, retiring, world, Steps, Standing
  <2>6. QED
    BY <1>6, <2>1, <2>2, <2>3, <2>4, <2>5
<1>7. QED
  BY <1>2, <1>3, <1>4, <1>5, <1>6 DEF LeaseStep

(* Nothing is changed of the other openers.                                *)
OthersRest(p) ==
  \A q \in Opener : q # p =>
    step'[q] = step[q] /\ lock'[q] = lock[q] /\ owned'[q] = owned[q]

LEMMA OthersDoNotMove ==
  ASSUME LeaseTypeOK, NEW p \in Opener, LeaseStep(p) PROVE OthersRest(p)
<1>1. CASE Start(p) \/ Install(p) \/ BindToFile(p) \/ Collide(p)
  BY <1>1 DEF LeaseTypeOK, Start, Install, BindToFile, Collide, Acquire, Goto, place, OthersRest
<1>2. CASE Exhausted(p) \/ Blocked(p) \/ InspectOwner(p)
  BY <1>2 DEF LeaseTypeOK, Exhausted, Blocked, InspectOwner, Fail, Goto, place, OthersRest
<1>3. CASE Retire(p) \/ Compare(p) \/ Restore(p)
  BY <1>3 DEF LeaseTypeOK, Retire, Compare, Restore, Fail, Goto, place, OthersRest
<1>4. CASE Release(p) \/ ReleaseRead(p) \/ Unlink(p) \/ RemoveDirectory(p)
  BY <1>4
  DEF LeaseTypeOK, Release, ReleaseRead, Unlink, RemoveDirectory, Released, Goto, place, OthersRest
<1>5. QED
  BY <1>1, <1>2, <1>3, <1>4 DEF LeaseStep

LEMMA PathFirstKept ==
  ASSUME LeaseInv, LeaseNext PROVE PathFirst'
<1>1. LeaseTypeOK /\ PathFirst /\ \A p \in Opener : PathOf[p] # Identity
  BY LeaseAssumption DEF LeaseInv
<1>2. PICK p \in Opener : LeaseStep(p) \/ ProcessDies(p)
  BY DEF LeaseNext
<1>3. CASE ProcessDies(p)
  BY <1>1, <1>3 DEF PathFirst, InOrder, ProcessDies, place
<1>4. CASE LeaseStep(p)
  <2>1. InOrder(p)
    BY <1>1 DEF PathFirst, InOrder
  <2>2. SUFFICES InOrder(p)'
    BY <1>1, <1>4, OthersDoNotMove DEF PathFirst, InOrder, OthersRest
  <2>3. CASE Start(p) \/ BindToFile(p) \/ Install(p) \/ Collide(p)
    BY <1>1, <2>1, <2>3
    DEF InOrder, LeaseTypeOK, Start, BindToFile, Install, Collide, Acquire, At, Goto, place,
        Acquiring, Releasing
  <2>4. CASE Exhausted(p) \/ Blocked(p) \/ InspectOwner(p)
    BY <1>1, <2>1, <2>4
    DEF InOrder, LeaseTypeOK, Exhausted, Blocked, InspectOwner, Fail, At, Goto, place,
        Acquiring, Releasing
  <2>5. CASE Retire(p) \/ Compare(p) \/ Restore(p)
    BY <1>1, <2>1, <2>5
    DEF InOrder, LeaseTypeOK, Retire, Compare, Restore, Fail, At, Goto, place, Acquiring, Releasing
  <2>6. CASE Release(p) \/ Unlink(p)
    BY <1>1, <2>1, <2>6
    DEF InOrder, LeaseTypeOK, Release, Unlink, At, Goto, place, Acquiring, Releasing
  <2>7. CASE ReleaseRead(p) \/ RemoveDirectory(p)
    BY <1>1, <2>1, <2>7
    DEF InOrder, LeaseTypeOK, ReleaseRead, RemoveDirectory, Released, Rest, At, Goto, Acquiring,
        Releasing
  <2>8. QED
    BY <1>4, <2>3, <2>4, <2>5, <2>6, <2>7 DEF LeaseStep
<1>5. QED
  BY <1>2, <1>3, <1>4

(* A step that leaves the records alone, and takes no lock.                *)
Harmless(p) ==
  /\ record' = record /\ owned'[p] \subseteq owned[p]
  /\ dead' = dead /\ displaced' = displaced
  /\ \A l \in owned'[p] : ~HasUnlinked(p, l)

LEMMA OwnersHaveRecordsKept ==
  ASSUME LeaseInv, LeaseNext PROVE OwnersHaveRecords'
<1>1. LeaseTypeOK /\ PathFirst /\ OwnersHaveRecords /\ \A p \in Opener : PathOf[p] # Identity
  BY LeaseAssumption DEF LeaseInv
<1>2. PICK p \in Opener : LeaseStep(p) \/ ProcessDies(p)
  BY DEF LeaseNext
<1>3. CASE ProcessDies(p)
  BY <1>1, <1>3 DEF OwnersHaveRecords, HasUnlinked, ProcessDies, place
<1>4. CASE LeaseStep(p)
  <2>1. OthersRest(p) /\ InOrder(p) /\ lock[p] \in Lock
    BY <1>1, <1>4, OthersDoNotMove DEF PathFirst, InOrder, LeaseTypeOK
  <2>2. CASE Harmless(p)
    BY <1>1, <2>1, <2>2 DEF OwnersHaveRecords, HasUnlinked, Harmless, OthersRest
  <2>3. CASE Install(p)
    <3>1. /\ record' = [record EXCEPT ![lock[p]] = p] /\ record[lock[p]] \notin Opener
          /\ owned' = [owned EXCEPT ![p] = @ \cup {lock[p]}] /\ step[p] # "rmdir"
          /\ dead' = dead /\ displaced' = displaced
      BY <2>3, LeaseAssumption DEF Install, Free, Here, Place, At, world
    <3>2. QED
      BY <1>1, <2>1, <3>1 DEF OwnersHaveRecords, HasUnlinked, OthersRest, LeaseTypeOK
  <2>4. CASE Retire(p)
    <3>1. CASE Here(p) = Absent /\ Harmless(p)
      BY <2>2, <3>1
    <3>2. CASE /\ Here(p) # Absent /\ record' = [record EXCEPT ![lock[p]] = Absent]
               /\ displaced' = displaced \cup {l \in {lock[p]} : Here(p) \in Opener \ dead}
               /\ owned' = owned /\ dead' = dead /\ step[p] # "rmdir"
      BY <1>1, <2>1, <3>2 DEF OwnersHaveRecords, HasUnlinked, OthersRest, LeaseTypeOK, Here
    <3>3. QED
      BY <2>4, <3>1, <3>2 DEF Retire, Harmless, HasUnlinked, Place, At
  <2>5. CASE Restore(p)
    <3>1. CASE record' = record
      BY <2>2, <2>5, <3>1 DEF Restore, Harmless, HasUnlinked, At, world
    <3>2. CASE Free(p) /\ Place(p, moved[p])
      <4>1. /\ record' = [record EXCEPT ![lock[p]] = moved[p]] /\ record[lock[p]] \notin Opener
            /\ owned' = owned /\ dead' = dead /\ displaced' = displaced /\ step[p] # "rmdir"
        BY <2>5, <3>2, LeaseAssumption DEF Restore, Free, Here, Place, At, world
      <4>2. QED
        BY <1>1, <2>1, <4>1 DEF OwnersHaveRecords, HasUnlinked, OthersRest, LeaseTypeOK
    <3>3. QED
      BY <2>5, <3>1, <3>2 DEF Restore
  <2>6. CASE Unlink(p)
    <3>1. /\ record' = record \/ record' = [record EXCEPT ![lock[p]] = Bare]
          /\ owned' = owned /\ dead' = dead /\ displaced' = displaced /\ lock' = lock
          /\ step[p] = "unlink" /\ step'[p] = "rmdir" /\ p \notin dead
      BY <1>1, <2>6 DEF Unlink, Place, At, Goto, place, world, LeaseTypeOK
    <3>2. lock[p] \in owned[p] /\ (lock[p] \notin displaced => record[lock[p]] = p)
      BY <1>1, <2>1, <3>1 DEF InOrder, Releasing, OwnersHaveRecords, HasUnlinked
    <3>3. QED
      BY <1>1, <2>1, <3>1, <3>2 DEF OwnersHaveRecords, HasUnlinked, OthersRest, LeaseTypeOK
  <2>7. CASE RemoveDirectory(p)
    <3>1. /\ \/ record' = record
             \/ record[lock[p]] = Bare /\ record' = [record EXCEPT ![lock[p]] = Absent]
          /\ dead' = dead /\ displaced' = displaced /\ step[p] = "rmdir"
          /\ owned'[p] \subseteq owned[p] \ {lock[p]}
      BY <1>1, <2>7 DEF RemoveDirectory, Released, Rest, Here, Place, At, world, LeaseTypeOK
    <3>2. QED
      BY <1>1, <2>1, <3>1, LeaseAssumption DEF OwnersHaveRecords, HasUnlinked, OthersRest, LeaseTypeOK
  <2>8. CASE Start(p) \/ Collide(p) \/ Exhausted(p) \/ Blocked(p) \/ InspectOwner(p) \/ Compare(p)
    BY <2>2, <2>8
    DEF Start, Collide, Exhausted, Blocked, InspectOwner, Compare, Harmless, HasUnlinked, At, world
  <2>9. CASE BindToFile(p) \/ Release(p) \/ ReleaseRead(p)
    <3>1. Harmless(p)
      BY <1>1, <2>9
      DEF BindToFile, Release, ReleaseRead, Released, Rest, Harmless, HasUnlinked, At, world,
          LeaseTypeOK
    <3>2. QED
      BY <2>2, <3>1
  <2>10. QED
    BY <1>4, <2>3, <2>4, <2>5, <2>6, <2>7, <2>8, <2>9 DEF LeaseStep
<1>5. QED
  BY <1>2, <1>3, <1>4

LEMMA LeaseStepKeepsInv == LeaseInv /\ [LeaseNext]_leaseVars => LeaseInv'
<1>1. CASE LeaseInv /\ LeaseNext
  BY <1>1, LeaseTypeKept, PathFirstKept, OwnersHaveRecordsKept DEF LeaseInv
<1>2. CASE LeaseInv /\ UNCHANGED leaseVars
  BY <1>2
  DEF LeaseInv, LeaseTypeOK, PathFirst, InOrder, OwnersHaveRecords, HasUnlinked, leaseVars
<1>3. QED
  BY <1>1, <1>2

LEMMA InvKeepsWritersApart == LeaseInv => SecondWriterWasLetIn
<1>1. SUFFICES ASSUME LeaseInv, NEW p \in Opener, NEW q \in Opener, Writing(p), Writing(q), p # q
               PROVE  /\ Identity \in displaced
                      /\ PathOf[p] = PathOf[q] => PathOf[p] \in displaced
  BY DEF SecondWriterWasLetIn
<1>2. \A o \in {p, q} :
        /\ o \in Opener \ dead /\ {PathOf[o], Identity} \subseteq owned[o]
        /\ step[o] = "open" /\ {PathOf[o], Identity} \subseteq Lock
  BY <1>1, LeaseAssumption DEF LeaseInv, PathFirst, InOrder, Writing, At, Lock
<1>3. \A l \in Lock : l \in owned[p] /\ l \in owned[q] => l \in displaced
  BY <1>1, <1>2 DEF LeaseInv, OwnersHaveRecords, HasUnlinked
<1>4. QED
  BY <1>1, <1>2, <1>3

(* acquireSessionWriterLeaseSync, for any openers, paths and attempts: two *)
(* live processes write one session file only after retireDeadLock renamed *)
(* the record of a living owner away, at the lock of the identity, and at  *)
(* that of the path too if they opened one path.                           *)
THEOREM SecondWriterWasLetInHolds == LeaseSpec => []SecondWriterWasLetIn
<1>1. LeaseInv => SecondWriterWasLetIn
  BY InvKeepsWritersApart
<1>2. QED
  BY <1>1, LeaseInitHolds, LeaseStepKeepsInv, PTL DEF LeaseSpec

(* The variables of the writer lease keep their shape.                     *)
THEOREM LeaseTypeCorrect == LeaseSpec => []LeaseTypeOK
<1>1. LeaseInv => LeaseTypeOK
  BY DEF LeaseInv
<1>2. QED
  BY <1>1, LeaseInitHolds, LeaseStepKeepsInv, PTL DEF LeaseSpec

-----------------------------------------------------------------------------
(* AuthorizationQueue.                                                     *)

(* Who was called is in the chain, once.                                   *)
ChainOfCalls ==
  /\ \A i, j \in DOMAIN chain : chain[i] = chain[j] => i = j
  /\ \A q \in Question : question[q] # "new" <=> \E i \in DOMAIN chain : chain[i] = q

(* Who has had its turn comes after questions that have left the chain.    *)
TurnsInOrder ==
  \A i, j \in DOMAIN chain :
    i < j /\ question[chain[j]] \in {"asking", "settled", "skipped"} => LeftChain(chain[i])

AbortedHaveResults == \A q \in signalled : question[q] # "new" => outcome[q] # "none"

QuestionInv == QuestionTypeOK /\ ChainOfCalls /\ TurnsInOrder /\ AbortedHaveResults

LEMMA QuestionInitHolds == QuestionInit => QuestionInv
  BY DEF QuestionInit, QuestionInv, QuestionTypeOK, ChainOfCalls, TurnsInOrder, AbortedHaveResults

LEMMA AskKeepsInv ==
  ASSUME QuestionInv, NEW q \in Question, Ask(q) PROVE QuestionInv'
<1>1. QuestionTypeOK /\ question[q] = "new" /\ chain' = Append(chain, q) /\ signalled' = signalled
      /\ question' = [question EXCEPT ![q] = "queued"]
  BY DEF QuestionInv, Ask, Moves
<1>2. QuestionTypeOK'
  BY <1>1 DEF QuestionTypeOK, Ask, Gets
<1>3. /\ DOMAIN chain = 1 .. Len(chain) /\ DOMAIN chain' = 1 .. Len(chain) + 1 /\ Len(chain) \in Nat
      /\ chain'[Len(chain) + 1] = q /\ \A i \in DOMAIN chain : chain'[i] = chain[i]
      /\ \A i \in DOMAIN chain : chain[i] \in Question /\ chain[i] # q
  BY <1>1 DEF QuestionTypeOK, QuestionInv, ChainOfCalls
<1>4. ChainOfCalls'
  BY <1>1, <1>3 DEF QuestionInv, QuestionTypeOK, ChainOfCalls
<1>5. TurnsInOrder'
  BY <1>1, <1>3 DEF QuestionInv, QuestionTypeOK, TurnsInOrder, LeftChain
<1>6. AbortedHaveResults'
  BY <1>1 DEF QuestionInv, QuestionTypeOK, AbortedHaveResults, Ask, Gets
<1>7. QED
  BY <1>2, <1>4, <1>5, <1>6 DEF QuestionInv

LEMMA TurnKeepsInv ==
  ASSUME QuestionInv, NEW q \in Question, Turn(q) PROVE QuestionInv'
<1>1. /\ QuestionTypeOK /\ question[q] = "queued" /\ UNCHANGED <<chain, signalled, outcome>>
      /\ \E to \in {"skipped", "asking"} : question' = [question EXCEPT ![q] = to]
  BY DEF QuestionInv, Turn, Moves
<1>2. PICK n \in DOMAIN chain : chain[n] = q
  BY <1>1 DEF QuestionInv, ChainOfCalls
<1>3. Position(q) = n
  BY <1>2 DEF Position, QuestionInv, ChainOfCalls
<1>4. \A i \in DOMAIN chain : i < n => LeftChain(chain[i])
  BY <1>1, <1>3 DEF Turn, HasTurn, QuestionTypeOK
<1>5. \A i \in DOMAIN chain : chain[i] = q => i = n
  BY <1>2 DEF QuestionInv, ChainOfCalls
<1>6. QuestionTypeOK' /\ ChainOfCalls'
  BY <1>1 DEF QuestionTypeOK, QuestionInv, ChainOfCalls
<1>7. TurnsInOrder'
  BY <1>1, <1>4, <1>5 DEF QuestionInv, QuestionTypeOK, TurnsInOrder, LeftChain
<1>8. AbortedHaveResults'
  BY <1>1 DEF QuestionInv, QuestionTypeOK, AbortedHaveResults
<1>9. QED
  BY <1>6, <1>7, <1>8 DEF QuestionInv

LEMMA AnswerKeepsInv ==
  ASSUME QuestionInv, NEW q \in Question, Answer(q) PROVE QuestionInv'
<1>1. /\ QuestionTypeOK /\ question[q] = "asking" /\ UNCHANGED <<chain, signalled>>
      /\ question' = [question EXCEPT ![q] = "settled"]
      /\ outcome' \in [Question -> {"none", "answered", "aborted"}]
      /\ \A p \in Question : outcome[p] # "none" => outcome'[p] # "none"
      /\ outcome'[q] # "none"
  BY DEF QuestionInv, QuestionTypeOK, Answer, Moves, Gets
<1>2. QuestionTypeOK' /\ ChainOfCalls'
  BY <1>1 DEF QuestionTypeOK, QuestionInv, ChainOfCalls
<1>3. TurnsInOrder'
  BY <1>1 DEF QuestionInv, QuestionTypeOK, TurnsInOrder, LeftChain
<1>4. AbortedHaveResults'
  BY <1>1 DEF QuestionInv, QuestionTypeOK, AbortedHaveResults
<1>5. QED
  BY <1>2, <1>3, <1>4 DEF QuestionInv

LEMMA AbortKeepsInv ==
  ASSUME QuestionInv, NEW q \in Question, AbortCall(q) PROVE QuestionInv'
BY DEF QuestionInv, QuestionTypeOK, ChainOfCalls, TurnsInOrder, AbortedHaveResults, LeftChain,
       AbortCall, Gets

LEMMA QuestionInvHolds == QuestionSpec => []QuestionInv
<1>1. QuestionInv /\ [QuestionNext]_questionVars => QuestionInv'
  <2> SUFFICES ASSUME QuestionInv, [QuestionNext]_questionVars PROVE QuestionInv'
    OBVIOUS
  <2>1. CASE UNCHANGED questionVars
    BY <2>1 DEF questionVars, QuestionInv, QuestionTypeOK, ChainOfCalls, TurnsInOrder,
                AbortedHaveResults, LeftChain
  <2>2. QED
    BY <2>1, AskKeepsInv, TurnKeepsInv, AnswerKeepsInv, AbortKeepsInv DEF QuestionNext
<1>2. QED
  BY QuestionInitHolds, <1>1, PTL DEF QuestionSpec

(* The host is asked in the order of the calls and one question at a time, *)
(* whoever gives up meanwhile: ToolAuthorizationQueue.run.                 *)
THEOREM QuestionsInTurnHolds == QuestionSpec => []QuestionsInTurn
<1>1. QuestionInv => QuestionsInTurn
  BY DEF QuestionInv, TurnsInOrder, AbortedHaveResults, LeftChain, QuestionsInTurn
<1>2. QED
  BY QuestionInvHolds, <1>1, PTL

(* The chain of questions and their outcomes keep their shape.             *)
THEOREM QuestionTypeCorrect == QuestionSpec => []QuestionTypeOK
<1>1. QuestionInv => QuestionTypeOK
  BY DEF QuestionInv
<1>2. QED
  BY QuestionInvHolds, <1>1, PTL

-----------------------------------------------------------------------------
(* MutationQueue.                                                          *)

(* m was called before n.                                                  *)
Before(calls, m, n) == \E i, j \in DOMAIN calls : i < j /\ calls[i] = m /\ calls[j] = n

InCallOrder(calls, s) == \A a, b \in DOMAIN s : a < b => Before(calls, s[a], s[b])

(* Who was called has arrived, once.                                       *)
ArrivalsAreCalls ==
  /\ \A i, j \in DOMAIN arrivals : arrivals[i] = arrivals[j] => i = j
  /\ \A m \in Mutation : mutation[m] # "called" <=> \E i \in DOMAIN arrivals : arrivals[i] = m

Named  == {"registered", "reserved"}
InLane == {"waiting", "running"}

(* Names are looked up one at a time and in the order of the calls.        *)
NamesInTurn ==
  /\ looking = {} \/ \E m \in Mutation : looking = {m}
  /\ looking = {} => registrations = <<>>
  /\ \A m \in looking : mutation[m] \in Named /\ \A a \in DOMAIN registrations : Before(arrivals, m, registrations[a])
  /\ \A a \in DOMAIN registrations : mutation[registrations[a]] = "registered"
  /\ \A m \in Mutation :
       mutation[m] \in Named => m \in looking \/ \E a \in DOMAIN registrations : registrations[a] = m
  /\ InCallOrder(arrivals, registrations)
  /\ \A m, n \in Mutation : mutation[m] \in InLane /\ mutation[n] \in Named => Before(arrivals, m, n)

(* A lane is in the order of the calls, behind the one that runs.          *)
LanesInOrder ==
  /\ \A k \in Name : k \in busy <=> \E m \in Mutation : mutation[m] = "running" /\ key[m] = k
  /\ \A m, n \in Mutation :
       mutation[m] = "running" /\ mutation[n] = "running" /\ key[m] = key[n] => m = n
  /\ \A m, n \in Mutation :
       mutation[m] = "running" /\ mutation[n] = "waiting" /\ key[m] = key[n] => Before(arrivals, m, n)
  /\ \A k \in Name : \A a \in DOMAIN lane[k] : mutation[lane[k][a]] = "waiting" /\ key[lane[k][a]] = k
  /\ \A m \in Mutation : mutation[m] = "waiting" => \E a \in DOMAIN lane[key[m]] : lane[key[m]][a] = m
  /\ \A k \in Name : lane[k] # <<>> => k \in busy
  /\ \A k \in Name : InCallOrder(arrivals, lane[k])

MutationShape ==
  /\ mutation \in [Mutation -> Progress]
  /\ registrations \in Seq(Mutation) /\ looking \subseteq Mutation
  /\ key \in [Mutation -> Name]
  /\ busy \subseteq Name /\ lane \in [Name -> Seq(Mutation)]
  /\ arrivals \in Seq(Mutation)

MutationInv == MutationShape /\ ArrivalsAreCalls /\ NamesInTurn /\ LanesInOrder

LEMMA MutationInitHolds == MutationInit => MutationInv
BY MutationAssumption
   DEF MutationInit, MutationInv, MutationShape, ArrivalsAreCalls, NamesInTurn, LanesInOrder,
       Progress, Named, InLane, InCallOrder

LEMMA AppendIs ==
  ASSUME NEW S, NEW s \in Seq(S), NEW e \in S
  PROVE  /\ Append(s, e) \in Seq(S) /\ Len(s) \in Nat
         /\ DOMAIN s = 1 .. Len(s) /\ DOMAIN Append(s, e) = 1 .. Len(s) + 1
         /\ Append(s, e)[Len(s) + 1] = e
         /\ \A a \in DOMAIN s : Append(s, e)[a] = s[a] /\ s[a] \in S
OBVIOUS

LEMMA TailIs ==
  ASSUME NEW S, NEW s \in Seq(S), s # <<>>
  PROVE  /\ Tail(s) \in Seq(S) /\ Len(s) \in Nat /\ Len(s) > 0
         /\ DOMAIN s = 1 .. Len(s) /\ DOMAIN Tail(s) = 1 .. Len(s) - 1
         /\ Head(s) = s[1] /\ Head(s) \in S
         /\ \A a \in DOMAIN Tail(s) : Tail(s)[a] = s[a + 1] /\ a + 1 \in DOMAIN s /\ Tail(s)[a] \in S
OBVIOUS

(* The order of the calls is one.                                          *)
LEMMA BeforeIsOrder ==
  ASSUME MutationShape, ArrivalsAreCalls, NEW m, NEW n, Before(arrivals, m, n) PROVE ~Before(arrivals, n, m) /\ m # n
BY DEF MutationShape, ArrivalsAreCalls, Before

(* A call is the last in it.                                               *)
LEMMA BeforeGrows ==
  ASSUME MutationShape, NEW m \in Mutation, arrivals' = Append(arrivals, m)
  PROVE  /\ \A x, y : Before(arrivals, x, y) => Before(arrivals', x, y)
         /\ \A i \in DOMAIN arrivals : Before(arrivals', arrivals[i], m)
<1>1. /\ DOMAIN arrivals = 1 .. Len(arrivals) /\ DOMAIN arrivals' = 1 .. Len(arrivals) + 1
      /\ Len(arrivals) \in Nat
      /\ arrivals'[Len(arrivals) + 1] = m /\ \A i \in DOMAIN arrivals : arrivals'[i] = arrivals[i]
  BY AppendIs DEF MutationShape
<1>2. QED
  BY <1>1 DEF Before

LEMMA AppendInCallOrder ==
  ASSUME NEW calls, NEW S, NEW s \in Seq(S), NEW e \in S, InCallOrder(calls, s),
         \A a \in DOMAIN s : Before(calls, s[a], e)
  PROVE  InCallOrder(calls, Append(s, e))
BY AppendIs DEF InCallOrder

LEMMA TailInCallOrder ==
  ASSUME NEW calls, NEW S, NEW s \in Seq(S), s # <<>>, InCallOrder(calls, s)
  PROVE  InCallOrder(calls, Tail(s)) /\ \A a \in DOMAIN Tail(s) : Before(calls, Head(s), Tail(s)[a])
<1>1. \A a \in DOMAIN Tail(s) : Tail(s)[a] = s[a + 1] /\ a + 1 \in DOMAIN s /\ a \in Nat /\ a > 0
  BY TailIs
<1>2. 1 \in DOMAIN s /\ Head(s) = s[1]
  BY TailIs
<1>3. QED
  BY <1>1, <1>2 DEF InCallOrder

LEMMA CallOrderGrows ==
  ASSUME NEW earlier, NEW new, \A x, y : Before(earlier, x, y) => Before(new, x, y), NEW s, InCallOrder(earlier, s)
  PROVE  InCallOrder(new, s)
BY DEF InCallOrder

LEMMA WhoIsInLanes ==
  ASSUME MutationShape, LanesInOrder, NEW k \in Name, NEW a \in DOMAIN lane[k]
  PROVE  lane[k][a] \in Mutation /\ mutation[lane[k][a]] = "waiting" /\ key[lane[k][a]] = k
BY DEF MutationShape, LanesInOrder

LEMMA RegisterKeepsInv ==
  ASSUME MutationInv, NEW m \in Mutation, Register(m) PROVE MutationInv'
<1>1. /\ MutationShape /\ ArrivalsAreCalls /\ NamesInTurn /\ LanesInOrder
      /\ mutation[m] = "called" /\ mutation' = [mutation EXCEPT ![m] = "registered"]
      /\ arrivals' = Append(arrivals, m) /\ UNCHANGED <<key, busy, lane>>
      /\ \/ looking = {} /\ looking' = {m} /\ registrations' = registrations
         \/ looking # {} /\ looking' = looking /\ registrations' = Append(registrations, m)
  BY DEF Register, Becomes, lanes, MutationInv
<1>2. MutationShape'
  <2>1. arrivals' \in Seq(Mutation)
    BY <1>1, AppendIs DEF MutationShape
  <2>2. registrations' \in Seq(Mutation) /\ looking' \subseteq Mutation
    <3>1. Append(registrations, m) \in Seq(Mutation) /\ registrations \in Seq(Mutation)
      BY <1>1, AppendIs DEF MutationShape
    <3>2. looking \subseteq Mutation
      BY <1>1 DEF MutationShape
    <3>3. QED
      BY <1>1, <3>1, <3>2
  <2>3. QED
    BY <1>1, <2>1, <2>2 DEF MutationShape, Progress
<1>7. \A x \in Mutation : mutation'[x] = IF x = m THEN "registered" ELSE mutation[x]
  BY <1>1 DEF MutationShape
<1>3. ArrivalsAreCalls'
  <2>1. /\ DOMAIN arrivals = 1 .. Len(arrivals) /\ DOMAIN arrivals' = 1 .. Len(arrivals) + 1
        /\ Len(arrivals) \in Nat
        /\ arrivals'[Len(arrivals) + 1] = m /\ \A i \in DOMAIN arrivals : arrivals'[i] = arrivals[i]
        /\ \A i \in DOMAIN arrivals : arrivals[i] \in Mutation /\ arrivals[i] # m
    BY <1>1, AppendIs DEF MutationShape, ArrivalsAreCalls
  <2>2. QED
    <3>1. \A i, j \in DOMAIN arrivals' : arrivals'[i] = arrivals'[j] => i = j
      BY <1>1, <2>1 DEF ArrivalsAreCalls
    <3>2. \A x \in Mutation : mutation'[x] # "called" <=> \E i \in DOMAIN arrivals' : arrivals'[i] = x
      <4> SUFFICES ASSUME NEW x \in Mutation
                   PROVE  mutation'[x] # "called" <=> \E i \in DOMAIN arrivals' : arrivals'[i] = x
        OBVIOUS
      <4>1. CASE x = m
        BY <1>7, <2>1, <4>1
      <4>2. CASE x # m
        <5>1. (\E i \in DOMAIN arrivals : arrivals[i] = x) <=> mutation[x] # "called"
          BY <1>1 DEF ArrivalsAreCalls
        <5>2. (\E i \in DOMAIN arrivals' : arrivals'[i] = x) <=> \E i \in DOMAIN arrivals : arrivals[i] = x
          BY <2>1, <4>2
        <5>3. QED
          BY <1>7, <4>2, <5>1, <5>2
      <4>3. QED
        BY <4>1, <4>2
    <3>3. QED
      BY <3>1, <3>2 DEF ArrivalsAreCalls
<1>4. /\ \A x, y : Before(arrivals, x, y) => Before(arrivals', x, y)
      /\ \A x \in Mutation : mutation[x] # "called" => Before(arrivals', x, m)
  BY <1>1, BeforeGrows DEF ArrivalsAreCalls
<1>5. NamesInTurn'
  <2>1. /\ looking' = {} \/ \E x \in Mutation : looking' = {x}
        /\ looking' = {} => registrations' = <<>>
    BY <1>1 DEF NamesInTurn
  <2>2. \A x, y \in Mutation : mutation'[x] \in InLane /\ mutation'[y] \in Named => Before(arrivals', x, y)
    BY <1>1, <1>4, <1>7 DEF NamesInTurn, Named, InLane
  <2>3. CASE looking = {}
    BY <1>1, <1>7, <2>1, <2>2, <2>3 DEF NamesInTurn, InCallOrder, Named
  <2>4. CASE looking # {}
    <3>1. looking' = looking /\ registrations' = Append(registrations, m) /\ registrations \in Seq(Mutation)
      BY <1>1, <2>4 DEF MutationShape
    <3>2. /\ DOMAIN registrations = 1 .. Len(registrations) /\ Len(registrations) \in Nat
          /\ DOMAIN registrations' = 1 .. Len(registrations) + 1
          /\ registrations'[Len(registrations) + 1] = m
          /\ \A a \in DOMAIN registrations :
               registrations'[a] = registrations[a] /\ registrations[a] \in Mutation
      BY <3>1, AppendIs
    <3>3. \A a \in DOMAIN registrations : mutation[registrations[a]] = "registered"
      BY <1>1 DEF NamesInTurn
    <3>4. \A x \in looking : x \in Mutation /\ mutation[x] \in Named
      BY <1>1 DEF NamesInTurn, MutationShape
    <3>5. \A x \in looking : \A a \in DOMAIN registrations' : Before(arrivals', x, registrations'[a])
      <4> SUFFICES ASSUME NEW x \in looking, NEW a \in DOMAIN registrations'
                   PROVE  Before(arrivals', x, registrations'[a])
        OBVIOUS
      <4>1. CASE a = Len(registrations) + 1
        BY <1>4, <3>2, <3>4, <4>1 DEF Named
      <4>2. CASE a \in DOMAIN registrations
        BY <1>1, <1>4, <3>2, <4>2 DEF NamesInTurn
      <4>3. QED
        BY <3>2, <4>1, <4>2
    <3>6. InCallOrder(arrivals', registrations')
      <4>1. InCallOrder(arrivals', registrations)
        BY <1>1, <1>4, CallOrderGrows DEF NamesInTurn
      <4>2. \A a \in DOMAIN registrations : Before(arrivals', registrations[a], m)
        BY <1>4, <3>2, <3>3
      <4>3. QED
        BY <3>1, <4>1, <4>2, AppendInCallOrder
    <3>7. \A x \in Mutation :
            mutation'[x] \in Named => x \in looking' \/ \E a \in DOMAIN registrations' : registrations'[a] = x
      <4> SUFFICES ASSUME NEW x \in Mutation, mutation'[x] \in Named, x \notin looking
                   PROVE  \E a \in DOMAIN registrations' : registrations'[a] = x
        BY <3>1
      <4>1. CASE x = m
        BY <3>2, <4>1
      <4>2. CASE x # m
        BY <1>1, <1>7, <3>2, <4>2 DEF NamesInTurn
      <4>3. QED
        BY <4>1, <4>2
    <3>8. \A x \in looking' : mutation'[x] \in Named
      BY <1>7, <3>1, <3>4 DEF Named
    <3>9. \A a \in DOMAIN registrations' : mutation'[registrations'[a]] = "registered"
      BY <1>7, <3>2, <3>3
    <3>10. QED
      BY <2>1, <2>2, <3>1, <3>5, <3>6, <3>7, <3>8, <3>9 DEF NamesInTurn
  <2>5. QED
    BY <2>3, <2>4
<1>6. LanesInOrder'
  BY <1>1, <1>4 DEF LanesInOrder, InCallOrder, MutationShape
<1>8. QED
  BY <1>2, <1>3, <1>5, <1>6 DEF MutationInv

LEMMA LookUpKeepsInv ==
  ASSUME MutationInv, NEW m \in Mutation, LookUp(m) PROVE MutationInv'
<1>1. /\ MutationShape /\ ArrivalsAreCalls /\ NamesInTurn /\ LanesInOrder
      /\ m \in looking /\ mutation[m] = "registered" /\ mutation' = [mutation EXCEPT ![m] = "reserved"]
      /\ UNCHANGED <<registrations, looking, busy, lane, arrivals>>
      /\ key' \in [Mutation -> Name] /\ \A x \in Mutation \ {m} : key'[x] = key[x]
  BY MutationAssumption DEF LookUp, Becomes, lanes, MutationInv, MutationShape, FileOf
<1>2. MutationShape' /\ ArrivalsAreCalls'
  BY <1>1 DEF MutationShape, Progress, ArrivalsAreCalls
<1>3. arrivals' = arrivals
  BY <1>1
<1>4. \A x \in Mutation : mutation'[x] = IF x = m THEN "reserved" ELSE mutation[x]
  BY <1>1 DEF MutationShape
<1>5. NamesInTurn'
  <2>1. \A a \in DOMAIN registrations : registrations[a] # m /\ registrations[a] \in Mutation
    BY <1>1, BeforeIsOrder DEF NamesInTurn, MutationShape
  <2>2. QED
    BY <1>1, <1>3, <1>4, <2>1 DEF NamesInTurn, InCallOrder, Named, InLane
<1>6. LanesInOrder'
  <2>1. \A k \in Name : \A a \in DOMAIN lane[k] :
          lane[k][a] # m /\ mutation'[lane[k][a]] = "waiting" /\ key'[lane[k][a]] = k
    BY <1>1, <1>4, WhoIsInLanes
  <2>2. \A x \in Mutation : mutation'[x] \in InLane => mutation[x] = mutation'[x] /\ key'[x] = key[x]
    BY <1>1, <1>4 DEF InLane
  <2>3. \A x \in Mutation : mutation[x] \in InLane => mutation[x] = mutation'[x] /\ key'[x] = key[x]
    BY <1>1, <1>4 DEF InLane
  <2>4. QED
    BY <1>1, <1>3, <2>1, <2>2, <2>3 DEF LanesInOrder, InLane
<1>7. QED
  BY <1>2, <1>5, <1>6 DEF MutationInv

(* When a mutation leaves, the next name is looked up.                     *)
LEMMA NextNameInTurn ==
  ASSUME MutationShape, ArrivalsAreCalls, NamesInTurn, NEW m \in looking, LookUpNext(m),
         arrivals' = arrivals,
         NEW to \in {"waiting", "running", "ended"}, mutation' = [mutation EXCEPT ![m] = to]
  PROVE  NamesInTurn' /\ registrations' \in Seq(Mutation) /\ looking' \subseteq Mutation
<1>1. looking = {m} /\ m \in Mutation
  BY DEF NamesInTurn, MutationShape
<1>2. arrivals' = arrivals
  OBVIOUS
<1>3. \A x \in Mutation : mutation'[x] = IF x = m THEN to ELSE mutation[x]
  BY <1>1 DEF MutationShape
<1>4. \A x \in Mutation : x # m /\ mutation[x] \in Named => Before(arrivals, m, x)
  BY <1>1 DEF NamesInTurn
<1>5. \A a \in DOMAIN registrations : registrations[a] # m /\ registrations[a] \in Mutation
  BY <1>1, BeforeIsOrder DEF NamesInTurn, MutationShape
<1>6. \A x, y \in Mutation : mutation'[x] \in InLane /\ mutation'[y] \in Named => Before(arrivals', x, y)
  BY <1>1, <1>2, <1>3, <1>4 DEF NamesInTurn, Named, InLane
<1>7. CASE registrations = <<>>
  BY <1>1, <1>2, <1>3, <1>5, <1>6, <1>7 DEF LookUpNext, NamesInTurn, MutationShape, InCallOrder, Named
<1>8. CASE registrations # <<>>
  <2>1. /\ looking' = {Head(registrations)} /\ registrations' = Tail(registrations)
        /\ registrations \in Seq(Mutation)
    BY <1>1, <1>8 DEF LookUpNext, MutationShape
  <2>2. /\ Len(registrations) \in Nat /\ Len(registrations) > 0
        /\ DOMAIN registrations = 1 .. Len(registrations)
        /\ DOMAIN registrations' = 1 .. Len(registrations) - 1
        /\ Head(registrations) = registrations[1] /\ 1 \in DOMAIN registrations
        /\ \A a \in DOMAIN registrations' :
             registrations'[a] = registrations[a + 1] /\ a + 1 \in DOMAIN registrations
        /\ registrations' \in Seq(Mutation) /\ Head(registrations) \in Mutation
    BY <1>8, <2>1, TailIs
  <2>3. InCallOrder(arrivals', registrations')
    BY <1>2, <1>8, <2>1, TailInCallOrder DEF NamesInTurn
  <2>4. \A x \in looking' : \A a \in DOMAIN registrations' : Before(arrivals', x, registrations'[a])
    <3>1. InCallOrder(arrivals, registrations)
      BY DEF NamesInTurn
    <3>2. \A a \in DOMAIN Tail(registrations) : Before(arrivals, Head(registrations), Tail(registrations)[a])
      BY <1>8, <2>1, <3>1, TailInCallOrder
    <3>3. QED
      BY <1>2, <2>1, <3>2
  <2>5. \A x \in Mutation :
          mutation'[x] \in Named => x \in looking' \/ \E a \in DOMAIN registrations' : registrations'[a] = x
    <3> SUFFICES ASSUME NEW x \in Mutation, mutation'[x] \in Named, x # Head(registrations)
                 PROVE  \E a \in DOMAIN registrations' : registrations'[a] = x
      BY <2>1
    <3>1. PICK a \in DOMAIN registrations : registrations[a] = x
      BY <1>1, <1>3 DEF NamesInTurn, Named
    <3>2. a - 1 \in DOMAIN registrations' /\ registrations'[a - 1] = x
      BY <3>1, <2>2
    <3>3. QED
      BY <3>2
  <2>6. \A a \in DOMAIN registrations' : mutation'[registrations'[a]] = "registered"
    BY <1>3, <1>5, <2>2 DEF NamesInTurn
  <2>7. \A x \in looking' : mutation'[x] \in Named
    BY <1>3, <1>5, <2>1, <2>2 DEF NamesInTurn, Named
  <2>8. looking' # {} /\ \E x \in Mutation : looking' = {x}
    BY <2>1, <2>2
  <2>9. NamesInTurn'
    BY <2>3, <2>4, <2>5, <2>6, <2>7, <2>8, <1>6 DEF NamesInTurn
  <2>10. QED
    BY <2>1, <2>2, <2>9
<1>9. QED
  BY <1>7, <1>8

LEMMA ReserveKeepsInv ==
  ASSUME MutationInv, NEW m \in Mutation, Reserve(m) PROVE MutationInv'
<1>1. /\ MutationShape /\ ArrivalsAreCalls /\ NamesInTurn /\ LanesInOrder
      /\ m \in looking /\ mutation[m] = "reserved" /\ LookUpNext(m)
      /\ UNCHANGED <<key, arrivals>> /\ key[m] \in Name
      /\ \/ /\ key[m] \in busy /\ mutation' = [mutation EXCEPT ![m] = "waiting"]
            /\ lane' = [lane EXCEPT ![key[m]] = Append(@, m)] /\ busy' = busy
         \/ /\ key[m] \notin busy /\ mutation' = [mutation EXCEPT ![m] = "running"]
            /\ busy' = busy \cup {key[m]} /\ lane' = lane
  BY DEF Reserve, Becomes, MutationInv, MutationShape
<1>2. NamesInTurn' /\ registrations' \in Seq(Mutation) /\ looking' \subseteq Mutation
  BY <1>1, NextNameInTurn
<1>3. MutationShape' /\ ArrivalsAreCalls'
  <2>1. lane' \in [Name -> Seq(Mutation)]
    <3>1. lane[key[m]] \in Seq(Mutation) /\ m \in Mutation
      BY <1>1 DEF MutationShape
    <3>2. Append(lane[key[m]], m) \in Seq(Mutation)
      BY <3>1, AppendIs
    <3>3. QED
      BY <1>1, <3>2 DEF MutationShape
  <2>2. \A x \in Mutation : mutation'[x] # "called" <=> mutation[x] # "called"
    BY <1>1 DEF MutationShape
  <2>3. QED
    BY <1>1, <1>2, <2>1, <2>2 DEF MutationShape, Progress, ArrivalsAreCalls
<1>4. arrivals' = arrivals
  BY <1>1
<1>5. \A x \in Mutation : mutation[x] \in InLane => Before(arrivals, x, m)
  BY <1>1 DEF NamesInTurn, Named
<1>6. CASE key[m] \in busy
  <2>1. \A x \in Mutation : mutation'[x] = IF x = m THEN "waiting" ELSE mutation[x]
    BY <1>1, <1>6 DEF MutationShape
  <2>2. /\ \A k \in Name : k # key[m] => lane'[k] = lane[k]
        /\ lane'[key[m]] = Append(lane[key[m]], m) /\ lane[key[m]] \in Seq(Mutation)
        /\ busy' = busy /\ m \in Mutation
    BY <1>1, <1>6 DEF MutationShape
  <2>3. /\ Len(lane[key[m]]) \in Nat /\ DOMAIN lane[key[m]] = 1 .. Len(lane[key[m]])
        /\ DOMAIN lane'[key[m]] = 1 .. Len(lane[key[m]]) + 1
        /\ lane'[key[m]][Len(lane[key[m]]) + 1] = m
        /\ \A a \in DOMAIN lane[key[m]] : lane'[key[m]][a] = lane[key[m]][a]
    BY <2>2, AppendIs
  <2>4. \A k \in Name : \A a \in DOMAIN lane[k] :
          /\ lane[k][a] \in Mutation /\ lane[k][a] # m /\ mutation'[lane[k][a]] = "waiting"
          /\ key'[lane[k][a]] = k /\ Before(arrivals, lane[k][a], m)
    BY <1>1, <1>5, <2>1, WhoIsInLanes DEF InLane
  <2>5. \A k \in Name : \A a \in DOMAIN lane'[k] : mutation'[lane'[k][a]] = "waiting" /\ key'[lane'[k][a]] = k
    <3> SUFFICES ASSUME NEW k \in Name, NEW a \in DOMAIN lane'[k]
                 PROVE  mutation'[lane'[k][a]] = "waiting" /\ key'[lane'[k][a]] = k
      OBVIOUS
    <3>1. CASE k # key[m]
      BY <2>2, <2>4, <3>1
    <3>2. CASE k = key[m] /\ a \in DOMAIN lane[key[m]]
      BY <2>3, <2>4, <3>2
    <3>3. CASE k = key[m] /\ a = Len(lane[key[m]]) + 1
      BY <1>1, <2>1, <2>2, <2>3, <3>3
    <3>4. QED
      BY <2>3, <3>1, <3>2, <3>3
  <2>6. \A x \in Mutation : mutation'[x] = "waiting" => \E a \in DOMAIN lane'[key'[x]] : lane'[key'[x]][a] = x
    <3> SUFFICES ASSUME NEW x \in Mutation, mutation'[x] = "waiting"
                 PROVE  \E a \in DOMAIN lane'[key'[x]] : lane'[key'[x]][a] = x
      OBVIOUS
    <3>1. CASE x = m
      BY <1>1, <2>3, <3>1
    <3>2. CASE x # m
      <4>1. key'[x] = key[x] /\ key[x] \in Name
        BY <1>1 DEF MutationShape
      <4>2. PICK a \in DOMAIN lane[key[x]] : lane[key[x]][a] = x
        BY <1>1, <2>1, <3>2 DEF LanesInOrder
      <4>3. a \in DOMAIN lane'[key[x]] /\ lane'[key[x]][a] = x
        <5>1. CASE key[x] = key[m]
          BY <2>3, <4>2, <5>1
        <5>2. CASE key[x] # key[m]
          BY <2>2, <4>1, <4>2, <5>2
        <5>3. QED
          BY <5>1, <5>2
      <4>4. QED
        BY <4>1, <4>3
    <3>3. QED
      BY <3>1, <3>2
  <2>7. \A k \in Name : InCallOrder(arrivals', lane'[k])
    <3>1. InCallOrder(arrivals, lane'[key[m]])
      BY <1>1, <2>2, <2>4, AppendInCallOrder DEF LanesInOrder
    <3>2. QED
      BY <1>1, <2>2, <3>1 DEF LanesInOrder
  <2>8. \A k \in Name : lane'[k] # <<>> => k \in busy'
    BY <1>1, <1>6, <2>2 DEF LanesInOrder
  <2>9. /\ \A k \in Name : k \in busy' <=> \E x \in Mutation : mutation'[x] = "running" /\ key'[x] = k
        /\ \A x, y \in Mutation :
             mutation'[x] = "running" /\ mutation'[y] = "running" /\ key'[x] = key'[y] => x = y
    BY <1>1, <2>1, <2>2 DEF LanesInOrder
  <2>10. \A x, y \in Mutation :
           mutation'[x] = "running" /\ mutation'[y] = "waiting" /\ key'[x] = key'[y] => Before(arrivals', x, y)
    BY <1>1, <1>5, <2>1 DEF LanesInOrder, InLane
  <2>11. LanesInOrder'
    BY <2>5, <2>6, <2>7, <2>8, <2>9, <2>10 DEF LanesInOrder
  <2>12. QED
    BY <1>2, <1>3, <2>11 DEF MutationInv
<1>7. CASE key[m] \notin busy
  <2>1. \A x \in Mutation : mutation'[x] = IF x = m THEN "running" ELSE mutation[x]
    BY <1>1, <1>7 DEF MutationShape
  <2>2. \A x \in Mutation : mutation[x] \in InLane => key[x] # key[m]
    BY <1>1, <1>7 DEF LanesInOrder, InLane, MutationShape
  <2>3. \A k \in Name : \A a \in DOMAIN lane[k] : lane[k][a] \in Mutation /\ lane[k][a] # m
    BY <1>1 DEF LanesInOrder, MutationShape
  <2>4. QED
    BY <1>1, <1>2, <1>3, <1>4, <1>7, <2>1, <2>2, <2>3 DEF LanesInOrder, InLane, MutationInv, InCallOrder
<1>8. QED
  BY <1>6, <1>7

LEMMA LookUpFailsKeepsInv ==
  ASSUME MutationInv, NEW m \in Mutation, LookUpFails(m) PROVE MutationInv'
<1>1. /\ MutationShape /\ ArrivalsAreCalls /\ NamesInTurn /\ LanesInOrder
      /\ m \in looking /\ mutation[m] = "registered" /\ LookUpNext(m)
      /\ mutation' = [mutation EXCEPT ![m] = "ended"] /\ UNCHANGED <<key, busy, lane, arrivals>>
  BY DEF LookUpFails, Becomes, lanes, MutationInv
<1>2. NamesInTurn' /\ registrations' \in Seq(Mutation) /\ looking' \subseteq Mutation
  BY <1>1, NextNameInTurn
<1>3. MutationShape' /\ ArrivalsAreCalls'
  BY <1>1, <1>2 DEF MutationShape, Progress, ArrivalsAreCalls
<1>4. arrivals' = arrivals
  BY <1>1
<1>5. LanesInOrder'
  BY <1>1, <1>4 DEF LanesInOrder, InCallOrder, MutationShape
<1>6. QED
  BY <1>2, <1>3, <1>5 DEF MutationInv

LEMMA EndMutationKeepsInv ==
  ASSUME MutationInv, NEW m \in Mutation, EndMutation(m) PROVE MutationInv'
<1> DEFINE queue == lane[key[m]]
<1>1. /\ MutationShape /\ ArrivalsAreCalls /\ NamesInTurn /\ LanesInOrder
      /\ mutation[m] = "running" /\ ReleaseLane(m) /\ key[m] \in Name
      /\ UNCHANGED <<registrations, looking, key, arrivals>>
  BY DEF EndMutation, MutationInv, MutationShape
<1>2. arrivals' = arrivals
  BY <1>1
<1>3. CASE queue = <<>>
  <2>1. /\ mutation' = [mutation EXCEPT ![m] = "ended"] /\ busy' = busy \ {key[m]} /\ lane' = lane
        /\ \A x \in Mutation : mutation'[x] = IF x = m THEN "ended" ELSE mutation[x]
    BY <1>1, <1>3 DEF ReleaseLane, Becomes, MutationShape
  <2>2. MutationShape' /\ ArrivalsAreCalls'
    BY <1>1, <2>1 DEF MutationShape, Progress, ArrivalsAreCalls
  <2>3. NamesInTurn'
    BY <1>1, <1>2, <2>1 DEF NamesInTurn, Named, InLane, InCallOrder, MutationShape
  <2>4. LanesInOrder'
    BY <1>1, <1>2, <1>3, <2>1 DEF LanesInOrder, InCallOrder, MutationShape
  <2>5. QED
    BY <2>2, <2>3, <2>4 DEF MutationInv
<1>4. CASE queue # <<>>
  <2> DEFINE n == Head(queue)
  <2>1. /\ mutation' = [mutation EXCEPT ![m] = "ended", ![n] = "running"]
        /\ lane' = [lane EXCEPT ![key[m]] = Tail(queue)] /\ busy' = busy
        /\ queue \in Seq(Mutation) /\ Len(queue) \in Nat /\ Len(queue) > 0 /\ DOMAIN queue = 1 .. Len(queue)
        /\ n = queue[1] /\ n \in Mutation
    BY <1>1, <1>4 DEF ReleaseLane, MutationShape
  <2>2. mutation[n] = "waiting" /\ key[n] = key[m]
    BY <1>1, <2>1 DEF LanesInOrder
  <2>3. \A x \in Mutation :
          mutation'[x] = IF x = n THEN "running" ELSE IF x = m THEN "ended" ELSE mutation[x]
    BY <1>1, <2>1, <2>2 DEF MutationShape
  <2>4. /\ \A k \in Name : k # key[m] => lane'[k] = lane[k]
        /\ lane'[key[m]] = Tail(queue) /\ Tail(queue) \in Seq(Mutation)
        /\ DOMAIN Tail(queue) = 1 .. Len(queue) - 1
        /\ \A a \in DOMAIN Tail(queue) :
             /\ Tail(queue)[a] = queue[a + 1] /\ a + 1 \in DOMAIN queue
             /\ Tail(queue)[a] \in Mutation
    BY <1>1, <2>1, TailIs DEF MutationShape
  <2>5. \A a \in DOMAIN Tail(queue) : Before(arrivals, n, Tail(queue)[a]) /\ Tail(queue)[a] # n
    BY <1>1, <2>1, <2>4, BeforeIsOrder DEF LanesInOrder, InCallOrder
  <2>6. MutationShape' /\ ArrivalsAreCalls'
    <3>1. mutation' \in [Mutation -> Progress]
      BY <1>1, <2>1 DEF MutationShape, Progress
    <3>2. lane' \in [Name -> Seq(Mutation)]
      BY <1>1, <2>1, <2>4 DEF MutationShape
    <3>3. MutationShape'
      BY <1>1, <2>1, <3>1, <3>2 DEF MutationShape
    <3>4. \A x \in Mutation : mutation'[x] = "called" <=> mutation[x] = "called"
      BY <1>1, <2>2, <2>3
    <3>5. ArrivalsAreCalls'
      BY <1>1, <1>2, <3>4 DEF ArrivalsAreCalls
    <3>6. QED
      BY <3>3, <3>5
  <2>7. NamesInTurn'
    <3>1. \A x \in Mutation : mutation'[x] \in Named <=> mutation[x] \in Named
      BY <1>1, <2>2, <2>3 DEF Named
    <3>2. \A x \in Mutation : mutation'[x] \in InLane => mutation[x] \in InLane
      BY <2>2, <2>3 DEF InLane
    <3>3. \A a \in DOMAIN registrations : mutation'[registrations[a]] = "registered"
      <4>1. \A a \in DOMAIN registrations :
              registrations[a] \in Mutation /\ mutation[registrations[a]] = "registered"
        BY <1>1 DEF NamesInTurn, MutationShape
      <4>2. QED
        BY <1>1, <2>2, <2>3, <4>1
    <3>4. QED
      BY <1>1, <1>2, <3>1, <3>2, <3>3 DEF NamesInTurn, InCallOrder, MutationShape
  <2>8. \A k \in Name : \A a \in DOMAIN lane'[k] : mutation'[lane'[k][a]] = "waiting" /\ key'[lane'[k][a]] = k
    <3> SUFFICES ASSUME NEW k \in Name, NEW a \in DOMAIN lane'[k]
                 PROVE  mutation'[lane'[k][a]] = "waiting" /\ key'[lane'[k][a]] = k
      OBVIOUS
    <3>1. CASE k # key[m]
      <4>1. lane'[k][a] \in Mutation /\ mutation[lane'[k][a]] = "waiting" /\ key[lane'[k][a]] = k
        BY <1>1, <2>4, <3>1, WhoIsInLanes
      <4>2. QED
        BY <1>1, <2>2, <2>3, <3>1, <4>1
    <3>2. CASE k = key[m]
      <4>1. a \in DOMAIN Tail(queue) /\ lane'[k][a] = queue[a + 1] /\ a + 1 \in DOMAIN lane[key[m]]
        BY <2>4, <3>2
      <4>2. lane'[k][a] # n
        BY <2>4, <2>5, <3>2, <4>1
      <4>3. /\ lane'[k][a] \in Mutation /\ mutation[lane'[k][a]] = "waiting"
            /\ key[lane'[k][a]] = k
        BY <1>1, <3>2, <4>1, WhoIsInLanes
      <4>4. QED
        BY <1>1, <2>3, <4>2, <4>3
    <3>3. QED
      BY <3>1, <3>2
  <2>9. \A x \in Mutation : mutation'[x] = "waiting" => \E a \in DOMAIN lane'[key'[x]] : lane'[key'[x]][a] = x
    <3> SUFFICES ASSUME NEW x \in Mutation, mutation'[x] = "waiting"
                 PROVE  \E a \in DOMAIN lane'[key'[x]] : lane'[key'[x]][a] = x
      OBVIOUS
    <3>1. mutation[x] = "waiting" /\ x # n /\ key'[x] = key[x] /\ key[x] \in Name
      BY <1>1, <2>3 DEF MutationShape
    <3>2. PICK a \in DOMAIN lane[key[x]] : lane[key[x]][a] = x
      BY <1>1, <3>1 DEF LanesInOrder
    <3>3. CASE key[x] # key[m]
      BY <2>4, <3>1, <3>2, <3>3
    <3>4. CASE key[x] = key[m]
      <4>1. a # 1 /\ a - 1 \in DOMAIN Tail(queue) /\ Tail(queue)[a - 1] = queue[a]
        BY <2>1, <2>4, <3>1, <3>2, <3>4
      <4>2. lane'[key'[x]] = Tail(queue) /\ queue[a] = x
        BY <2>4, <3>1, <3>2, <3>4
      <4>3. QED
        BY <4>1, <4>2
    <3>5. QED
      BY <3>3, <3>4
  <2>10. \A k \in Name : InCallOrder(arrivals', lane'[k])
    <3>1. InCallOrder(arrivals, Tail(queue))
      BY <1>1, <1>4, <2>1, TailInCallOrder DEF LanesInOrder
    <3>2. QED
      BY <1>1, <2>4, <3>1 DEF LanesInOrder
  <2>11. \A x \in Mutation : mutation'[x] = "running" /\ key[x] = key[m] => x = n
    BY <1>1, <2>2, <2>3 DEF LanesInOrder
  <2>12. /\ \A x, y \in Mutation :
              mutation'[x] = "running" /\ mutation'[y] = "running" /\ key'[x] = key'[y] => x = y
         /\ \A k \in Name : k \in busy' <=> \E x \in Mutation : mutation'[x] = "running" /\ key'[x] = k
    <3>1. \A x \in Mutation : key[x] # key[m] => (mutation'[x] = "running" <=> mutation[x] = "running")
      BY <2>2, <2>3
    <3>2. mutation'[n] = "running"
      BY <2>1, <2>3
    <3>3. key[m] \in busy
      BY <1>1 DEF LanesInOrder
    <3>4. \A k \in Name : k \in busy <=> \E x \in Mutation : mutation[x] = "running" /\ key[x] = k
      BY <1>1 DEF LanesInOrder
    <3>5. \A k \in Name : k \in busy' <=> \E x \in Mutation : mutation'[x] = "running" /\ key'[x] = k
      <4> SUFFICES ASSUME NEW k \in Name
                   PROVE  k \in busy <=> \E x \in Mutation : mutation'[x] = "running" /\ key[x] = k
        BY <1>1, <2>1
      <4>1. CASE k = key[m]
        BY <2>1, <2>2, <3>2, <3>3, <4>1
      <4>2. CASE k # key[m]
        BY <3>1, <3>4, <4>2
      <4>3. QED
        BY <4>1, <4>2
    <3>6. \A x, y \in Mutation :
            mutation[x] = "running" /\ mutation[y] = "running" /\ key[x] = key[y] => x = y
      BY <1>1 DEF LanesInOrder
    <3>7. \A x, y \in Mutation :
            mutation'[x] = "running" /\ mutation'[y] = "running" /\ key'[x] = key'[y] => x = y
      BY <1>1, <2>11, <3>1, <3>6
    <3>8. QED
      BY <3>5, <3>7
  <2>13. \A x, y \in Mutation :
           mutation'[x] = "running" /\ mutation'[y] = "waiting" /\ key'[x] = key'[y] => Before(arrivals', x, y)
    <3> SUFFICES ASSUME NEW x \in Mutation, NEW y \in Mutation,
                        mutation'[x] = "running", mutation'[y] = "waiting", key'[x] = key'[y]
                 PROVE  Before(arrivals, x, y)
      BY <1>2
    <3>1. CASE x = n
      <4>1. key'[y] = key[m]
        BY <1>1, <2>2, <3>1
      <4>2. PICK a \in DOMAIN lane'[key[m]] : lane'[key[m]][a] = y
        BY <2>9, <4>1
      <4>3. QED
        BY <2>4, <2>5, <3>1, <4>2
    <3>2. CASE x # n
      BY <1>1, <2>3, <3>2 DEF LanesInOrder
    <3>3. QED
      BY <3>1, <3>2
  <2>14. \A k \in Name : lane'[k] # <<>> => k \in busy'
    BY <1>1, <1>4, <2>1, <2>4 DEF LanesInOrder
  <2>15. LanesInOrder'
    BY <2>8, <2>9, <2>10, <2>12, <2>13, <2>14 DEF LanesInOrder
  <2>16. QED
    BY <2>6, <2>7, <2>15 DEF MutationInv
<1>5. QED
  BY <1>3, <1>4

LEMMA MutationInvHolds == MutationSpec => []MutationInv
<1>1. MutationInv /\ [MutationNext]_mutationVars => MutationInv'
  <2> SUFFICES ASSUME MutationInv, [MutationNext]_mutationVars PROVE MutationInv'
    OBVIOUS
  <2>1. CASE UNCHANGED mutationVars \/ FileRemoved
    <3>1. UNCHANGED <<mutation, registrations, looking, key, busy, lane, arrivals>>
      BY <2>1 DEF mutationVars, FileRemoved, lanes
    <3>2. MutationShape' /\ ArrivalsAreCalls'
      BY <3>1 DEF MutationInv, MutationShape, ArrivalsAreCalls
    <3>3. NamesInTurn'
      BY <3>1 DEF MutationInv, NamesInTurn
    <3>4. LanesInOrder'
      BY <3>1 DEF MutationInv, LanesInOrder
    <3>5. QED
      BY <3>2, <3>3, <3>4 DEF MutationInv
  <2>2. QED
    BY <2>1, RegisterKeepsInv, LookUpKeepsInv, ReserveKeepsInv, LookUpFailsKeepsInv,
       EndMutationKeepsInv DEF MutationNext
<1>2. QED
  BY MutationInitHolds, <1>1, PTL DEF MutationSpec

(* Edits and writes of one file take place one at a time, in the order of  *)
(* the calls: FileMutationScheduler.                                       *)
THEOREM MutationsInOrderHolds == MutationSpec => []MutationsInOrder
<1>1. MutationInv => MutationsInOrder
  <2> SUFFICES ASSUME MutationInv, NEW i \in DOMAIN arrivals, NEW j \in DOMAIN arrivals, i < j,
                      key[arrivals[i]] = key[arrivals[j]], mutation[arrivals[j]] = "running"
               PROVE  mutation[arrivals[i]] = "ended"
    BY DEF MutationsInOrder, InLaneOfFile
  <2>1. Before(arrivals, arrivals[i], arrivals[j]) /\ arrivals[i] \in Mutation /\ arrivals[j] \in Mutation
    BY DEF Before, MutationInv, MutationShape
  <2>2. ~Before(arrivals, arrivals[j], arrivals[i]) /\ arrivals[i] # arrivals[j]
    BY <2>1, BeforeIsOrder DEF MutationInv
  <2>3. mutation[arrivals[i]] # "called" /\ mutation[arrivals[i]] \in Progress
    BY <2>1 DEF MutationInv, ArrivalsAreCalls, MutationShape
  <2>4. mutation[arrivals[i]] \notin Named
    BY <2>1, <2>2 DEF MutationInv, NamesInTurn, InLane
  <2>5. mutation[arrivals[i]] \notin {"waiting", "running"}
    BY <2>1, <2>2 DEF MutationInv, LanesInOrder
  <2>6. QED
    BY <2>3, <2>4, <2>5 DEF Progress, Named
<1>2. QED
  BY MutationInvHolds, <1>1, PTL

(* The lanes and the registrations keep their shape: one lookup at a time, *)
(* whatever files come and go.                                             *)
THEOREM MutationTypeCorrect == MutationSpec => []MutationTypeOK
<1>1. MutationInit => present \subseteq Name
  BY MutationAssumption DEF MutationInit
<1>2. present \subseteq Name /\ [MutationNext]_mutationVars => (present \subseteq Name)'
  <2> SUFFICES ASSUME present \subseteq Name, [MutationNext]_mutationVars PROVE present' \subseteq Name
    OBVIOUS
  <2>1. \A m \in Mutation : FileOf(m) \in Name
    BY MutationAssumption DEF FileOf
  <2>2. QED
    BY <2>1 DEF MutationNext, Register, LookUp, Reserve, LookUpFails, EndMutation, FileRemoved, mutationVars
<1>3. MutationInv /\ present \subseteq Name => MutationTypeOK
  <2> SUFFICES ASSUME MutationInv, present \subseteq Name PROVE MutationTypeOK
    OBVIOUS
  <2>1. Cardinality(looking) <= 1
    <3>1. looking = {} \/ \E m \in Mutation : looking = {m}
      BY DEF MutationInv, NamesInTurn
    <3>2. CASE looking = {}
      BY <3>2, FS_EmptySet
    <3>3. CASE \E m \in Mutation : looking = {m}
      <4>1. PICK m \in Mutation : looking = {m}
        BY <3>3
      <4>2. Cardinality({m}) = 1
        BY FS_Singleton
      <4>3. QED
        BY <4>1, <4>2
    <3>4. QED
      BY <3>1, <3>2, <3>3
  <2>2. QED
    BY <2>1 DEF MutationInv, MutationShape, MutationTypeOK
<1>4. QED
  BY MutationInvHolds, <1>1, <1>2, <1>3, PTL DEF MutationSpec
=============================================================================
