------------------------ MODULE SessionWriterProofs ------------------------
(* What the writer of a session file promises, for any commits and bounds: *)
(* the file can be read whenever it is opened, without a loss of power it  *)
(* keeps what was acknowledged, and it implements DurableLog.              *)
EXTENDS SessionWriter, SequenceTheorems, TLAPS

-----------------------------------------------------------------------------
(* Files, row by row.                                                      *)

(* The number of rows a reader takes for commits.                          *)
Count(f) == IF Torn(f) THEN Len(f) - 1 ELSE Len(f)

(* The first n rows are commits that follow one another.                   *)
Accepted(f, n) ==
  \A i \in 1 .. n :
    /\ f[i].form = "whole"
    /\ \A j \in 1 .. i - 1 : IdOf[f[j].commit] # IdOf[f[i].commit]
    /\ \A d \in Needs[f[i].commit] : \E j \in 1 .. i - 1 : f[j].commit = d

LEMMA CountIs ==
  ASSUME NEW f \in Seq(Rows)
  PROVE  /\ Len(f) \in Nat /\ DOMAIN f = 1 .. Len(f) /\ Count(f) \in Nat /\ Count(f) <= Len(f)
         /\ \A i \in 1 .. Len(f) : f[i] \in Rows /\ f[i].commit \in Commit
         /\ Torn(f) <=> Len(f) > 0 /\ f[Len(f)].form = "torn"
         /\ Torn(f) => Len(f) > 0 /\ Count(f) = Len(f) - 1
         /\ ~Torn(f) => Count(f) = Len(f)
<1>1. Len(f) \in Nat /\ DOMAIN f = 1 .. Len(f) /\ (f # <<>> <=> Len(f) > 0)
  OBVIOUS
<1>2. \A i \in 1 .. Len(f) : f[i] \in Rows /\ f[i].commit \in Commit
  <2>1. \A i \in 1 .. Len(f) : f[i] \in Rows
    BY ElementOfSeq
  <2>2. QED
    BY <2>1 DEF Rows
<1>3. Torn(f) <=> Len(f) > 0 /\ f[Len(f)].form = "torn"
  BY <1>1 DEF Torn
<1>4. Count(f) = IF Torn(f) THEN Len(f) - 1 ELSE Len(f)
  BY DEF Count
<1>5. Count(f) \in Nat /\ Count(f) <= Len(f) /\ (Torn(f) => Len(f) > 0)
  BY <1>1, <1>3, <1>4
<1>6. QED
  BY <1>1, <1>2, <1>3, <1>4, <1>5

LEMMA CommittedIs ==
  ASSUME NEW f \in Seq(Rows)
  PROVE  /\ CommittedRows(f) \in Seq(Rows) /\ Len(CommittedRows(f)) = Count(f)
         /\ DOMAIN CommittedRows(f) = 1 .. Count(f)
         /\ \A i \in 1 .. Count(f) : CommittedRows(f)[i] = f[i]
<1>1. CASE Torn(f)
  <2>1. Len(f) \in Nat /\ Len(f) > 0 /\ Count(f) = Len(f) - 1 /\ CommittedRows(f) = SubSeq(f, 1, Len(f) - 1)
    BY <1>1, CountIs DEF CommittedRows
  <2>2. /\ SubSeq(f, 1, Len(f) - 1) \in Seq(Rows) /\ Len(SubSeq(f, 1, Len(f) - 1)) = Len(f) - 1
        /\ \A i \in 1 .. Len(f) - 1 : SubSeq(f, 1, Len(f) - 1)[i] = f[i]
    <3>1. \A i \in 1 .. Len(f) - 1 : f[i] \in Rows
      BY <2>1, CountIs
    <3>2. \A i \in 1 .. Len(f) - 1 : SubSeq(f, 1, Len(f) - 1)[i] = f[1 + i - 1] /\ 1 + i - 1 = i
      BY <2>1
    <3>3. SubSeq(f, 1, Len(f) - 1) \in Seq(Rows) /\ Len(SubSeq(f, 1, Len(f) - 1)) = Len(f) - 1
      <4> DEFINE n == Len(f) - 1
      <4>1. n \in Int /\ 1 \in Int /\ n \in Nat /\ \A i \in 1 .. n : f[i] \in Rows
        BY <2>1, <3>1
      <4> HIDE DEF n
      <4>2. SubSeq(f, 1, n) \in Seq(Rows) /\ Len(SubSeq(f, 1, n)) = IF 1 <= n THEN n - 1 + 1 ELSE 0
        BY <4>1, SubSeqProperties
      <4>3. Len(SubSeq(f, 1, n)) = n
        BY <4>1, <4>2
      <4>4. QED
        BY <4>2, <4>3 DEF n
    <3>4. QED
      BY <3>2, <3>3
  <2>3. QED
    BY <2>1, <2>2
<1>2. CASE ~Torn(f)
  BY <1>2, CountIs DEF CommittedRows
<1>3. QED
  BY <1>1, <1>2

LEMMA CommitsAre ==
  ASSUME NEW f \in Seq(Rows)
  PROVE  /\ Commits(f) \in Seq(Commit) /\ Len(Commits(f)) = Count(f)
         /\ DOMAIN Commits(f) = 1 .. Count(f)
         /\ \A i \in 1 .. Count(f) : Commits(f)[i] = f[i].commit
<1>1. Commits(f) = [i \in 1 .. Count(f) |-> f[i].commit]
  BY CommittedIs DEF Commits
<1>2. Count(f) \in Nat /\ \A i \in 1 .. Count(f) : f[i].commit \in Commit
  BY CountIs
<1>3. QED
  BY <1>1, <1>2

(* The reader accepts a file row by row.                                   *)
LEMMA ReadableIs ==
  ASSUME NEW f \in Seq(Rows) PROVE Readable(f) <=> Accepted(f, Count(f))
<1>1. Count(f) \in Nat
  BY CountIs
<1>2. ASSUME NEW i \in 1 .. Count(f)
      PROVE  /\ Len(SubSeq(Commits(f), 1, i - 1)) = i - 1
             /\ DOMAIN SubSeq(Commits(f), 1, i - 1) = 1 .. i - 1
             /\ \A j \in 1 .. i - 1 : SubSeq(Commits(f), 1, i - 1)[j] = f[j].commit
  <2>1. i - 1 \in Nat /\ i - 1 <= Len(Commits(f)) /\ Commits(f) \in Seq(Commit)
    BY <1>1, CommitsAre
  <2>2. /\ SubSeq(Commits(f), 1, i - 1) \in Seq(Commit) /\ Len(SubSeq(Commits(f), 1, i - 1)) = i - 1
        /\ \A j \in 1 .. i - 1 : SubSeq(Commits(f), 1, i - 1)[j] = Commits(f)[j]
    BY <2>1
  <2>3. \A j \in 1 .. i - 1 : j \in 1 .. Count(f)
    BY <1>1
  <2>4. QED
    BY <2>2, <2>3, CommitsAre
<1>3. ASSUME NEW i \in 1 .. Count(f)
      PROVE  Log!Follows(Commits(f)[i], SubSeq(Commits(f), 1, i - 1)) <=>
               /\ \A j \in 1 .. i - 1 : IdOf[f[j].commit] # IdOf[f[i].commit]
               /\ \A d \in Needs[f[i].commit] : \E j \in 1 .. i - 1 : f[j].commit = d
  <2> DEFINE before == SubSeq(Commits(f), 1, i - 1)
  <2>1. Commits(f)[i] = f[i].commit
    BY CommitsAre
  <2>2. DOMAIN before = 1 .. i - 1 /\ \A j \in 1 .. i - 1 : before[j] = f[j].commit
    BY <1>2
  <2> HIDE DEF before
  <2>3. Log!Follows(f[i].commit, before) <=>
          /\ \A j \in DOMAIN before : IdOf[before[j]] # IdOf[f[i].commit]
          /\ \A d \in Needs[f[i].commit] : \E j \in DOMAIN before : before[j] = d
    BY DEF Log!Follows, Log!In
  <2>4. /\ (\A j \in DOMAIN before : IdOf[before[j]] # IdOf[f[i].commit]) <=>
             \A j \in 1 .. i - 1 : IdOf[f[j].commit] # IdOf[f[i].commit]
        /\ \A d : (\E j \in DOMAIN before : before[j] = d) <=> \E j \in 1 .. i - 1 : f[j].commit = d
    BY <2>2
  <2>5. QED
    BY <2>1, <2>3, <2>4 DEF before
<1>4. (\A i \in DOMAIN CommittedRows(f) : f[i].form = "whole") <=> \A i \in 1 .. Count(f) : f[i].form = "whole"
  BY CommittedIs
<1>5. (\A i \in DOMAIN Commits(f) : Log!Follows(Commits(f)[i], SubSeq(Commits(f), 1, i - 1))) <=>
        \A i \in 1 .. Count(f) : Log!Follows(Commits(f)[i], SubSeq(Commits(f), 1, i - 1))
  BY CommitsAre
<1>6. QED
  BY <1>3, <1>4, <1>5 DEF Readable, Accepted

LEMMA AcceptedPrefix ==
  ASSUME NEW f, NEW g, NEW n \in Nat, NEW m \in Nat, m <= n, Accepted(f, n),
         \A i \in 1 .. m : g[i] = f[i]
  PROVE  Accepted(g, m)
<1> SUFFICES ASSUME NEW i \in 1 .. m
             PROVE  /\ g[i].form = "whole"
                    /\ \A j \in 1 .. i - 1 : IdOf[g[j].commit] # IdOf[g[i].commit]
                    /\ \A d \in Needs[g[i].commit] : \E j \in 1 .. i - 1 : g[j].commit = d
  BY DEF Accepted
<1>1. i \in 1 .. n /\ \A j \in 1 .. i - 1 : j \in 1 .. m
  OBVIOUS
<1>2. g[i] = f[i] /\ \A j \in 1 .. i - 1 : g[j] = f[j]
  BY <1>1
<1>3. /\ f[i].form = "whole"
      /\ \A j \in 1 .. i - 1 : IdOf[f[j].commit] # IdOf[f[i].commit]
      /\ \A d \in Needs[f[i].commit] : \E j \in 1 .. i - 1 : f[j].commit = d
  BY <1>1 DEF Accepted
<1>4. ASSUME NEW d \in Needs[g[i].commit] PROVE \E j \in 1 .. i - 1 : g[j].commit = d
  <2>1. PICK j \in 1 .. i - 1 : f[j].commit = d
    BY <1>2, <1>3
  <2>2. QED
    BY <1>2, <2>1
<1>5. ASSUME NEW j \in 1 .. i - 1 PROVE IdOf[g[j].commit] # IdOf[g[i].commit]
  BY <1>2, <1>3
<1>6. g[i].form = "whole"
  BY <1>2, <1>3
<1>7. QED
  BY <1>4, <1>5, <1>6

(* A row written at the end of a file.                                     *)
LEMMA WriteAtEnd ==
  ASSUME NEW f \in Seq(Rows), NEW row \in Rows
  PROVE  /\ WriteAt(f, Len(f), row) \in Seq(Rows) /\ Len(WriteAt(f, Len(f), row)) = Len(f) + 1
         /\ WriteAt(f, Len(f), row)[Len(f) + 1] = row
         /\ \A i \in 1 .. Len(f) : WriteAt(f, Len(f), row)[i] = f[i]
<1> DEFINE rest == [i \in 1 .. (Len(f) - Len(f)) |-> Row(f[Len(f) + i].commit, "malformed")]
           head == SubSeq(f, 1, Len(f))
<1>1. Len(f) \in Nat /\ Len(f) - Len(f) = 0
  OBVIOUS
<1>2. rest \in Seq(Rows) /\ Len(rest) = 0
  BY <1>1
<1>3. head = f
  BY <1>1
<1>4. /\ (f \o <<row>>) \in Seq(Rows) /\ Len(f \o <<row>>) = Len(f) + 1
      /\ (f \o <<row>>)[Len(f) + 1] = row
      /\ \A i \in 1 .. Len(f) : (f \o <<row>>)[i] = f[i]
  OBVIOUS
<1>5. (f \o <<row>>) \o rest = f \o <<row>>
  BY <1>2, <1>4
<1>6. WriteAt(f, Len(f), row) = f \o <<row>>
  BY <1>3, <1>5 DEF WriteAt
<1>7. QED
  BY <1>4, <1>6

(* What remains of a file that is cut after n rows, and what it is with a  *)
(* torn row behind them, is accepted if the file was.                      *)
LEMMA CutIsAccepted ==
  ASSUME NEW f \in Seq(Rows), Accepted(f, Count(f)), NEW n \in 0 .. Len(f)
  PROVE  /\ SubSeq(f, 1, n) \in Seq(Rows)
         /\ Accepted(SubSeq(f, 1, n), Count(SubSeq(f, 1, n)))
         /\ Count(SubSeq(f, 1, n)) = IF n <= Count(f) THEN n ELSE Count(f)
         /\ \A i \in 1 .. n : SubSeq(f, 1, n)[i] = f[i]
         /\ n < Len(f) =>
              LET g == SubSeq(f, 1, n) \o <<Row(f[n + 1].commit, "torn")>>
              IN /\ g \in Seq(Rows) /\ Accepted(g, Count(g))
                 /\ Count(g) = n /\ n <= Count(f) /\ \A i \in 1 .. n : g[i] = f[i]
<1> DEFINE g == SubSeq(f, 1, n)
           h == g \o <<Row(f[n + 1].commit, "torn")>>
<1>1. /\ Len(f) \in Nat /\ n \in Nat /\ n <= Len(f) /\ Count(f) \in Nat
      /\ Count(f) = Len(f) \/ Count(f) = Len(f) - 1
      /\ \A i \in 1 .. Len(f) : f[i] \in Rows
  BY CountIs
<1>2. g \in Seq(Rows) /\ Len(g) = n /\ \A i \in 1 .. n : g[i] = f[i]
  <2>1. n \in Int /\ 1 \in Int /\ \A i \in 1 .. n : f[i] \in Rows
    BY <1>1
  <2>2. /\ g \in Seq(Rows) /\ Len(g) = IF 1 <= n THEN n - 1 + 1 ELSE 0
        /\ \A i \in 1 .. n - 1 + 1 : g[i] = f[1 + i - 1]
    BY <2>1, SubSeqProperties
  <2>3. QED
    BY <1>1, <2>2
<1> HIDE DEF g
<1>3. Count(g) = IF n <= Count(f) THEN n ELSE Count(f)
  <2>1. CASE n <= Count(f)
    <3>1. ~Torn(g)
      <4>1. SUFFICES ASSUME n > 0 PROVE g[n].form # "torn"
        BY <1>2, CountIs
      <4>2. n \in 1 .. Count(f) /\ n \in 1 .. n
        BY <1>1, <2>1, <4>1
      <4>3. f[n].form = "whole" /\ g[n] = f[n]
        BY <1>2, <4>2 DEF Accepted
      <4>4. QED
        BY <4>3
    <3>2. QED
      BY <1>2, <2>1, <3>1, CountIs
  <2>2. CASE ~(n <= Count(f))
    <3>1. n = Len(f) /\ Torn(f) /\ Len(f) > 0
      BY <1>1, <2>2, CountIs
    <3>2. f[Len(f)].form = "torn"
      BY <3>1, CountIs
    <3>3. g[n].form = "torn" /\ Len(g) > 0
      BY <1>1, <1>2, <3>1, <3>2
    <3>4. Torn(g)
      BY <1>2, <3>3, CountIs
    <3>5. QED
      BY <1>1, <1>2, <2>2, <3>1, <3>4, CountIs
  <2>3. QED
    BY <2>1, <2>2
<1>4. Accepted(g, Count(g))
  <2>1. Count(g) \in Nat /\ Count(g) <= n /\ Count(g) <= Count(f)
    BY <1>1, <1>3
  <2>2. QED
    BY <1>1, <1>2, <2>1, AcceptedPrefix
<1>5. ASSUME n < Len(f) 
      PROVE  /\ h \in Seq(Rows) /\ Accepted(h, Count(h))
             /\ Count(h) = n /\ n <= Count(f) /\ \A i \in 1 .. n : h[i] = f[i]
  <2>1. Row(f[n + 1].commit, "torn") \in Rows
    <3>1. f[n + 1].commit \in Commit
      BY <1>1, <1>5, CountIs
    <3>2. QED
      BY <3>1 DEF Row, Rows
  <2>2. /\ h \in Seq(Rows) /\ Len(h) = n + 1 /\ h[n + 1] = Row(f[n + 1].commit, "torn")
        /\ \A i \in 1 .. n : h[i] = f[i]
    BY <1>1, <1>2, <2>1
  <2> HIDE DEF h
  <2>3. h[n + 1].form = "torn"
    BY <2>2 DEF Row
  <2>4. Torn(h)
    BY <1>1, <2>2, <2>3, CountIs
  <2>5. Count(h) = n /\ n <= Count(f)
    BY <1>1, <1>5, <2>2, <2>4, CountIs
  <2>6. QED
    BY <1>1, <2>2, <2>5, AcceptedPrefix
<1>6. QED
  BY <1>2, <1>3, <1>4, <1>5 DEF g, h

(* The committed rows of an accepted file are accepted and whole.          *)
LEMMA CommittedAccepted ==
  ASSUME NEW f \in Seq(Rows), Accepted(f, Count(f))
  PROVE  /\ ~Torn(CommittedRows(f)) /\ Count(CommittedRows(f)) = Count(f)
         /\ Accepted(CommittedRows(f), Count(CommittedRows(f)))
<1> DEFINE g == CommittedRows(f)
<1>1. g \in Seq(Rows) /\ Len(g) = Count(f) /\ Count(f) \in Nat /\ \A i \in 1 .. Count(f) : g[i] = f[i]
  BY CommittedIs, CountIs
<1> HIDE DEF g
<1>2. ~Torn(g)
  <2>1. SUFFICES ASSUME Len(g) > 0 PROVE g[Len(g)].form # "torn"
    BY <1>1, CountIs
  <2>2. f[Count(f)].form = "whole" /\ Count(f) \in 1 .. Count(f)
    BY <1>1, <2>1 DEF Accepted
  <2>3. QED
    BY <1>1, <2>2
<1>3. Count(g) = Count(f)
  BY <1>1, <1>2, CountIs
<1>4. QED
  BY <1>1, <1>2, <1>3, AcceptedPrefix DEF g

-----------------------------------------------------------------------------
(* The invariant.                                                          *)

FilesAccepted == Accepted(cache, Count(cache)) /\ Accepted(disk, Count(disk))

(* An open writer holds the rows of the file before its offset.            *)
StateIsShown ==
  Up \/ pc = "truncated" =>
    /\ Len(mem) = offset /\ offset <= Count(cache)
    /\ \A i \in 1 .. offset : mem[i] = cache[i].commit

(* Nothing is behind the offset where the next write may go, and what is   *)
(* behind it during a write is the row of the append in progress.          *)
OffsetIsEnd ==
  /\ pc \in {"idle", "truncated"} /\ ~fault => Len(cache) = offset /\ ~Torn(cache)
  /\ pc \in {"writing", "syncing"} =>
       /\ ~fault
       /\ Len(cache) = offset + 1 /\ queue # <<>>
       /\ cache[offset + 1].commit = Head(queue)
  /\ pc = "writing" => Torn(cache) /\ Log!Follows(Head(queue), mem)
  /\ pc = "syncing" => ~Torn(cache)

AcksAreInFile ==
  losses = 0 => \A c \in acked : \E i \in 1 .. Count(cache) : cache[i].commit = c

WriterInv == TypeOK /\ FilesAccepted /\ StateIsShown /\ OffsetIsEnd /\ AcksAreInFile

LEMMA WriterInvInit == Init => WriterInv
<1> SUFFICES ASSUME Init PROVE WriterInv
  OBVIOUS
<1>1. TypeOK
  <2>1. MaxCrashes \in Nat /\ MaxPowerLosses \in Nat
    BY LimitAssumption
  <2>2. <<>> \in Seq(Rows) /\ <<>> \in Seq(Commit)
    OBVIOUS
  <2>3. 0 \in 0 .. MaxCrashes /\ 0 \in 0 .. MaxPowerLosses
    BY <2>1
  <2>4. /\ cache \in Seq(Rows) /\ disk \in Seq(Rows) /\ mem \in Seq(Commit)
        /\ published \in Seq(Commit) /\ queue \in Seq(Commit)
    BY <2>2 DEF Init
  <2>5. QED
    BY <2>3, <2>4 DEF Init, TypeOK
<1>2. Count(<<>>) = 0 /\ Accepted(<<>>, 0)
  BY DEF Count, Torn, Accepted
<1>3. QED
  BY <1>1, <1>2 DEF Init, WriterInv, FilesAccepted, StateIsShown, OffsetIsEnd, AcksAreInFile, Up

LEMMA OpenKeeps == WriterInv /\ Open => WriterInv'
<1> SUFFICES ASSUME WriterInv, Open PROVE WriterInv'
  OBVIOUS
<1>1. cache \in Seq(Rows) /\ Accepted(cache, Count(cache)) /\ cache' = CommittedRows(cache)
  BY DEF WriterInv, TypeOK, FilesAccepted, Open
<1>2. /\ cache' \in Seq(Rows) /\ Len(cache') = Count(cache) /\ Count(cache) \in Nat
      /\ \A i \in 1 .. Count(cache) : cache'[i] = cache[i]
  BY <1>1, CommittedIs, CountIs
<1>3. ~Torn(cache') /\ Count(cache') = Count(cache) /\ Accepted(cache', Count(cache'))
  BY <1>1, CommittedAccepted
<1>4. /\ mem' \in Seq(Commit) /\ Len(mem') = Count(cache) /\ offset' = Count(cache)
      /\ \A i \in 1 .. Count(cache) : mem'[i] = cache[i].commit
  BY <1>1, CommittedIs, CommitsAre DEF Open
<1>5. TypeOK'
  <2>1. pc' \in {"truncated", "idle"}
    BY DEF Open
  <2>2. <<>> \in Seq(Commit)
    OBVIOUS
  <2>3. /\ disk' = disk /\ acked' = acked /\ crashes' = crashes /\ losses' = losses
        /\ fault' = FALSE /\ closed' = FALSE /\ queue' = <<>> /\ published' = <<>>
    BY DEF Open, bounds
  <2>4. offset' \in Nat
    BY <1>2, <1>4
  <2>5. QED
    BY <1>2, <1>4, <2>1, <2>2, <2>3, <2>4 DEF WriterInv, TypeOK
<1>6. FilesAccepted'
  BY <1>3 DEF WriterInv, FilesAccepted, Open
<1>7. StateIsShown'
  BY <1>2, <1>3, <1>4 DEF StateIsShown
<1>8. OffsetIsEnd'
  BY <1>2, <1>3, <1>4 DEF OffsetIsEnd, Open
<1>9. AcksAreInFile'
  BY <1>2, <1>3 DEF WriterInv, AcksAreInFile, Open, bounds
<1>10. QED
  BY <1>5, <1>6, <1>7, <1>8, <1>9 DEF WriterInv

(* Steps that leave the rows of the file as they are.                      *)
LEMMA CallersKeep ==
  ASSUME WriterInv, (\E c \in Commit : Submit(c)) \/ AnswerRetry \/ Reject \/ Close
  PROVE  WriterInv'
<1>1. /\ cache' = cache /\ disk' = disk /\ pc' = pc /\ mem' = mem /\ offset' = offset /\ fault' = fault
      /\ losses' = losses /\ crashes' = crashes /\ published' = published
  BY DEF Submit, AnswerRetry, Reject, Close, file, bounds
<1>2. /\ queue' \in Seq(Commit) /\ closed' \in BOOLEAN /\ acked' \subseteq Commit
      /\ pc = "idle" \/ (queue # <<>> => queue' # <<>> /\ Head(queue') = Head(queue))
  <2>1. queue \in Seq(Commit) /\ closed \in BOOLEAN /\ acked \subseteq Commit
    BY DEF WriterInv, TypeOK
  <2>2. CASE \E c \in Commit : Submit(c)
    <3>1. PICK c \in Commit : Submit(c)
      BY <2>2
    <3>2. queue' = Append(queue, c) /\ closed' = closed /\ acked' = acked
      BY <3>1 DEF Submit
    <3>3. QED
      BY <2>1, <3>2
  <2>3. CASE AnswerRetry
    <3>1. queue # <<>> /\ pc = "idle" /\ queue' = Tail(queue) /\ closed' = closed
          /\ acked' = acked \cup {Head(queue)}
      BY <2>3 DEF AnswerRetry, Ready
    <3>2. QED
      BY <2>1, <3>1
  <2>4. CASE Reject
    <3>1. queue # <<>> /\ pc = "idle" /\ queue' = Tail(queue) /\ closed' = closed /\ acked' = acked
      BY <2>4 DEF Reject, Ready
    <3>2. QED
      BY <2>1, <3>1
  <2>5. CASE Close
    BY <2>1, <2>5 DEF Close
  <2>6. QED
    BY <2>2, <2>3, <2>4, <2>5
<1>3. TypeOK'
  BY <1>1, <1>2 DEF WriterInv, TypeOK
<1>4. FilesAccepted' /\ StateIsShown'
  BY <1>1 DEF WriterInv, FilesAccepted, StateIsShown, Up
<1>5. OffsetIsEnd'
  <2>1. CASE pc = "idle"
    BY <1>1, <2>1 DEF WriterInv, OffsetIsEnd
  <2>2. CASE pc # "idle"
    BY <1>1, <1>2, <2>2 DEF WriterInv, OffsetIsEnd
  <2>3. QED
    BY <2>1, <2>2
<1>6. AcksAreInFile'
  <2>1. CASE acked' = acked
    BY <1>1, <2>1 DEF WriterInv, AcksAreInFile
  <2>2. CASE AnswerRetry
    <3>1. pc = "idle" /\ In(Head(queue), mem) /\ acked' = acked \cup {Head(queue)}
      BY <2>2 DEF AnswerRetry, Ready
    <3>2. mem \in Seq(Commit) /\ Len(mem) = offset /\ cache \in Seq(Rows) /\ offset <= Count(cache)
          /\ \A i \in 1 .. offset : mem[i] = cache[i].commit
      BY <3>1 DEF WriterInv, TypeOK, StateIsShown, Up
    <3>3. \E i \in 1 .. Count(cache) : cache[i].commit = Head(queue)
      <4>1. PICK i \in 1 .. Len(mem) : mem[i] = Head(queue)
        BY <3>1, <3>2 DEF In
      <4>2. Count(cache) \in Nat /\ Len(mem) \in Nat
        BY <3>2, CountIs
      <4>3. i \in 1 .. Count(cache) /\ cache[i].commit = Head(queue)
        BY <3>2, <4>1, <4>2
      <4>4. QED
        BY <4>3
    <3>4. QED
      BY <1>1, <3>1, <3>3 DEF WriterInv, AcksAreInFile
  <2>3. QED
    BY <2>1, <2>2 DEF Submit, Reject, Close
<1>7. QED
  BY <1>3, <1>4, <1>5, <1>6 DEF WriterInv

LEMMA StopsKeep ==
  ASSUME WriterInv, SyncTruncation \/ FailTruncation \/ Fail \/ FinishClose \/ Crash
  PROVE  WriterInv'
<1>1. /\ cache' = cache /\ disk' \in {disk, cache} /\ mem' = mem /\ offset' = offset
      /\ losses' = losses /\ published' = published /\ closed' = closed /\ acked' = acked
  BY DEF SyncTruncation, FailTruncation, Fail, FinishClose, Crash, file, writer, bounds
<1>2. /\ pc' \in {"down", "idle"} /\ fault' \in {fault, TRUE}
      /\ pc' = "idle" => (fault' = TRUE /\ Up) \/ (fault' = fault /\ pc = "truncated")
  BY DEF SyncTruncation, FailTruncation, Fail, FinishClose, Crash, writer, Up
<1>3. TypeOK'
  <2>1. queue' \in Seq(Commit)
    <3>1. CASE Fail
      <4>1. queue # <<>> /\ queue' = Tail(queue) /\ queue \in Seq(Commit)
        BY <3>1 DEF WriterInv, OffsetIsEnd, Fail, TypeOK
      <4>2. QED
        BY <4>1
    <3>2. CASE ~Fail
      BY <3>2 DEF WriterInv, TypeOK, SyncTruncation, FailTruncation, FinishClose, Crash, writer
    <3>3. QED
      BY <3>1, <3>2
  <2>2. crashes' \in 0 .. MaxCrashes
    <3>1. crashes' = crashes \/ (crashes < MaxCrashes /\ crashes' = crashes + 1)
      BY DEF SyncTruncation, FailTruncation, Fail, FinishClose, Crash, bounds
    <3>2. QED
      BY <3>1, LimitAssumption DEF WriterInv, TypeOK
  <2>3. QED
    BY <1>1, <1>2, <2>1, <2>2 DEF WriterInv, TypeOK
<1>4. FilesAccepted'
  BY <1>1 DEF WriterInv, FilesAccepted
<1>5. StateIsShown'
  BY <1>1, <1>2 DEF WriterInv, StateIsShown, Up
<1>6. OffsetIsEnd'
  BY <1>1, <1>2 DEF WriterInv, OffsetIsEnd
<1>7. AcksAreInFile'
  BY <1>1 DEF WriterInv, AcksAreInFile
<1>8. QED
  BY <1>3, <1>4, <1>5, <1>6, <1>7 DEF WriterInv

LEMMA WritesKeep ==
  ASSUME WriterInv, StartWrite \/ FinishWrite \/ Sync
  PROVE  WriterInv'
<1> USE DEF WriterInv
<1>1. /\ cache \in Seq(Rows) /\ disk \in Seq(Rows) /\ mem \in Seq(Commit) /\ queue \in Seq(Commit)
      /\ offset \in Nat /\ published \in Seq(Commit)
  BY DEF TypeOK
<1>2. CASE StartWrite
  <2> DEFINE row == Row(Head(queue), "torn")
  <2>1. /\ pc = "idle" /\ queue # <<>> /\ Log!Follows(Head(queue), mem) /\ ~fault
        /\ cache' = WriteAt(cache, offset, row) /\ pc' = "writing"
        /\ disk' = disk /\ mem' = mem /\ offset' = offset /\ fault' = fault /\ closed' = closed
        /\ queue' = queue /\ published' = published /\ acked' = acked
        /\ crashes' = crashes /\ losses' = losses
    BY <1>2 DEF StartWrite, Ready, Accepts, writer, bounds
  <2>2. Len(cache) = offset /\ ~Torn(cache) /\ Count(cache) = offset
    BY <1>1, <2>1, CountIs DEF OffsetIsEnd
  <2>3. row \in Rows /\ row.form = "torn" /\ row.commit = Head(queue)
    <3>1. Head(queue) \in Commit
      BY <1>1, <2>1
    <3>2. QED
      BY <3>1 DEF Row, Rows
  <2> HIDE DEF row
  <2>4. /\ cache' \in Seq(Rows) /\ Len(cache') = offset + 1 /\ cache'[offset + 1] = row
        /\ \A i \in 1 .. offset : cache'[i] = cache[i]
    <3>1. cache' = WriteAt(cache, Len(cache), row)
      BY <2>1, <2>2 DEF row
    <3>2. /\ cache' \in Seq(Rows) /\ Len(cache') = Len(cache) + 1 /\ cache'[Len(cache) + 1] = row
          /\ \A i \in 1 .. Len(cache) : cache'[i] = cache[i]
      <4>1. cache \in Seq(Rows) /\ row \in Rows
        BY <1>1, <2>3
      <4>2. QED
        BY <3>1, <4>1, WriteAtEnd
    <3>3. QED
      BY <2>2, <3>2
  <2>5. Torn(cache') /\ Count(cache') = offset
    <3>1. cache' \in Seq(Rows) /\ Len(cache') > 0 /\ cache'[Len(cache')].form = "torn"
      BY <1>1, <2>3, <2>4
    <3>2. Torn(cache')
      BY <3>1, CountIs
    <3>3. Count(cache') = Len(cache') - 1
      BY <3>1, <3>2, CountIs
    <3>4. QED
      BY <1>1, <2>4, <3>2, <3>3
  <2>6. Accepted(cache', Count(cache'))
    BY <1>1, <2>2, <2>4, <2>5, AcceptedPrefix DEF FilesAccepted
  <2>7. TypeOK'
    BY <2>1, <2>4 DEF TypeOK
  <2>8. FilesAccepted' /\ StateIsShown'
    BY <1>1, <2>1, <2>4, <2>5, <2>6 DEF FilesAccepted, StateIsShown, Up
  <2>9. OffsetIsEnd'
    BY <2>1, <2>3, <2>4, <2>5 DEF OffsetIsEnd
  <2>10. AcksAreInFile'
    BY <2>1, <2>2, <2>4, <2>5 DEF AcksAreInFile
  <2>11. QED
    BY <2>7, <2>8, <2>9, <2>10
<1>3. CASE FinishWrite
  <2>1. /\ pc = "writing" /\ cache' = [cache EXCEPT ![offset + 1].form = "whole"] /\ pc' = "syncing"
        /\ disk' = disk /\ mem' = mem /\ offset' = offset /\ fault' = fault /\ closed' = closed
        /\ queue' = queue /\ published' = published /\ acked' = acked
        /\ crashes' = crashes /\ losses' = losses
    BY <1>3 DEF FinishWrite, writer, bounds
  <2>2. /\ ~fault /\ Len(cache) = offset + 1 /\ queue # <<>> /\ Torn(cache)
        /\ cache[offset + 1].commit = Head(queue) /\ Log!Follows(Head(queue), mem)
        /\ Count(cache) = offset
    <3>1. /\ ~fault /\ Len(cache) = offset + 1 /\ queue # <<>> /\ Torn(cache)
          /\ cache[offset + 1].commit = Head(queue) /\ Log!Follows(Head(queue), mem)
      BY <2>1 DEF OffsetIsEnd
    <3>2. QED
      BY <1>1, <3>1, CountIs
  <2>3. /\ Len(mem) = offset /\ \A i \in 1 .. offset : mem[i] = cache[i].commit
    BY <2>1 DEF StateIsShown, Up
  <2>4. /\ cache' \in Seq(Rows) /\ Len(cache') = offset + 1
        /\ cache'[offset + 1].form = "whole" /\ cache'[offset + 1].commit = Head(queue)
        /\ \A i \in 1 .. offset : cache'[i] = cache[i]
    <3> DEFINE row == [cache[offset + 1] EXCEPT !.form = "whole"]
    <3>1. offset + 1 \in 1 .. Len(cache) /\ cache[offset + 1] \in Rows
      BY <1>1, <2>2, ElementOfSeq
    <3>2. row \in Rows /\ row.form = "whole" /\ row.commit = Head(queue)
      BY <2>2, <3>1 DEF Rows
    <3>3. cache' = [cache EXCEPT ![offset + 1] = row]
      BY <2>1
    <3> HIDE DEF row
    <3>4. /\ cache' \in Seq(Rows) /\ Len(cache') = Len(cache) /\ cache'[offset + 1] = row
          /\ \A i \in 1 .. Len(cache) : i # offset + 1 => cache'[i] = cache[i]
      BY <1>1, <3>1, <3>2, <3>3, ExceptSeq
    <3>5. \A i \in 1 .. offset : i \in 1 .. Len(cache) /\ i # offset + 1
      BY <1>1, <2>2
    <3>6. QED
      BY <2>2, <3>2, <3>4, <3>5
  <2>5. ~Torn(cache') /\ Count(cache') = offset + 1
    <3>1. ~Torn(cache')
      BY <2>4, CountIs
    <3>2. QED
      BY <2>4, <3>1, CountIs
  <2>6. Accepted(cache', offset + 1)
    <3>1. Accepted(cache', offset)
      BY <1>1, <2>2, <2>4, AcceptedPrefix DEF FilesAccepted
    <3>2. /\ \A j \in 1 .. offset : IdOf[cache'[j].commit] # IdOf[Head(queue)]
          /\ \A d \in Needs[Head(queue)] : \E j \in 1 .. offset : cache'[j].commit = d
      <4>1. DOMAIN mem = 1 .. offset /\ \A j \in 1 .. offset : mem[j] = cache'[j].commit
        BY <1>1, <2>3, <2>4
      <4>2. /\ \A j \in DOMAIN mem : IdOf[mem[j]] # IdOf[Head(queue)]
            /\ \A d \in Needs[Head(queue)] : \E j \in DOMAIN mem : mem[j] = d
        BY <2>2 DEF Log!Follows, Log!In
      <4>3. QED
        BY <4>1, <4>2
    <3>3. ASSUME NEW i \in 1 .. offset + 1
          PROVE  /\ cache'[i].form = "whole"
                 /\ \A j \in 1 .. i - 1 : IdOf[cache'[j].commit] # IdOf[cache'[i].commit]
                 /\ \A d \in Needs[cache'[i].commit] : \E j \in 1 .. i - 1 : cache'[j].commit = d
      <4>1. CASE i \in 1 .. offset
        BY <3>1, <4>1 DEF Accepted
      <4>2. CASE i = offset + 1
        <5>1. i - 1 = offset /\ cache'[i].commit = Head(queue) /\ cache'[i].form = "whole"
          BY <1>1, <2>4, <4>2
        <5>2. QED
          BY <3>2, <5>1
      <4>3. QED
        BY <1>1, <4>1, <4>2
    <3>4. QED
      BY <3>3 DEF Accepted
  <2>7. TypeOK'
    BY <2>1, <2>4 DEF TypeOK
  <2>8. FilesAccepted'
    BY <2>1, <2>5, <2>6 DEF FilesAccepted
  <2>9. StateIsShown'
    BY <1>1, <2>1, <2>3, <2>4, <2>5 DEF StateIsShown
  <2>10. OffsetIsEnd'
    BY <2>1, <2>2, <2>4, <2>5 DEF OffsetIsEnd
  <2>11. AcksAreInFile'
    <3>1. \A i \in 1 .. Count(cache) : i \in 1 .. Count(cache') /\ cache'[i] = cache[i]
      BY <1>1, <2>2, <2>4, <2>5
    <3>2. QED
      BY <2>1, <3>1 DEF AcksAreInFile
  <2>12. QED
    BY <2>7, <2>8, <2>9, <2>10, <2>11
<1>4. CASE Sync
  <2>1. /\ pc = "syncing" /\ disk' = cache /\ offset' = offset + 1 /\ mem' = Append(mem, Head(queue))
        /\ published' = Append(published, Head(queue)) /\ acked' = acked \cup {Head(queue)}
        /\ queue' = Tail(queue) /\ pc' = "idle"
        /\ cache' = cache /\ fault' = fault /\ closed' = closed /\ crashes' = crashes /\ losses' = losses
    BY <1>4 DEF Sync, bounds
  <2>2. /\ ~fault /\ Len(cache) = offset + 1 /\ queue # <<>> /\ ~Torn(cache)
        /\ cache[offset + 1].commit = Head(queue)
    BY <2>1 DEF OffsetIsEnd
  <2>3. Count(cache) = offset + 1
    BY <1>1, <2>2, CountIs
  <2>4. /\ Len(mem) = offset /\ \A i \in 1 .. offset : mem[i] = cache[i].commit
    BY <2>1 DEF StateIsShown, Up
  <2>5. Head(queue) \in Commit /\ Tail(queue) \in Seq(Commit)
    BY <1>1, <2>2
  <2>6. TypeOK'
    <3>1. mem' \in Seq(Commit) /\ published' \in Seq(Commit) /\ acked' \subseteq Commit /\ offset' \in Nat
      BY <1>1, <2>1, <2>5 DEF TypeOK
    <3>2. QED
      BY <1>1, <2>1, <2>5, <3>1 DEF TypeOK
  <2>7. FilesAccepted'
    BY <2>1 DEF FilesAccepted
  <2>8. StateIsShown'
    <3>1. Len(mem') = offset' /\ \A i \in 1 .. offset' : mem'[i] = cache[i].commit
      <4>1. Len(mem') = offset + 1 /\ mem'[offset + 1] = Head(queue)
            /\ \A i \in 1 .. offset : mem'[i] = mem[i]
        BY <1>1, <2>1, <2>4, <2>5
      <4>2. \A i \in 1 .. offset + 1 : i \in 1 .. offset \/ i = offset + 1
        BY <1>1
      <4>3. QED
        BY <2>1, <2>2, <2>4, <4>1, <4>2
    <3>2. offset' <= Count(cache)
      BY <1>1, <2>1, <2>3
    <3>3. QED
      BY <2>1, <3>1, <3>2 DEF StateIsShown
  <2>9. OffsetIsEnd'
    BY <2>1, <2>2 DEF OffsetIsEnd
  <2>10. AcksAreInFile'
    <3>1. offset + 1 \in 1 .. Count(cache)
      BY <1>1, <2>3
    <3>2. QED
      BY <2>1, <2>2, <3>1 DEF AcksAreInFile
  <2>11. QED
    BY <2>6, <2>7, <2>8, <2>9, <2>10
<1>5. QED
  BY <1>2, <1>3, <1>4

LEMMA SurvivorsAccepted ==
  ASSUME WriterInv, NEW f \in Survivors
  PROVE  f \in Seq(Rows) /\ Accepted(f, Count(f))
<1>1. cache \in Seq(Rows) /\ disk \in Seq(Rows) /\ Accepted(cache, Count(cache)) /\ Accepted(disk, Count(disk))
  BY DEF WriterInv, TypeOK, FilesAccepted
<1>2. \/ f = disk
      \/ \E n \in 0 .. Len(cache) : f = SubSeq(cache, 1, n)
      \/ \E n \in 0 .. Len(cache) :
           n # Len(cache) /\ f = SubSeq(cache, 1, n) \o <<Row(cache[n + 1].commit, "torn")>>
  BY DEF Survivors
<1>3. CASE f = disk
  BY <1>1, <1>3
<1>4. ASSUME NEW n \in 0 .. Len(cache), f = SubSeq(cache, 1, n)
      PROVE  f \in Seq(Rows) /\ Accepted(f, Count(f))
  BY <1>1, <1>4, CutIsAccepted
<1>5. ASSUME NEW n \in 0 .. Len(cache), n # Len(cache),
             f = SubSeq(cache, 1, n) \o <<Row(cache[n + 1].commit, "torn")>>
      PROVE  f \in Seq(Rows) /\ Accepted(f, Count(f))
  <2>1. Len(cache) \in Nat
    BY <1>1
  <2>2. n < Len(cache)
    BY <1>5, <2>1
  <2>3. QED
    BY <1>1, <1>5, <2>2, CutIsAccepted
<1>6. QED
  BY <1>2, <1>3, <1>4, <1>5

LEMMA PowerLossKeeps == WriterInv /\ PowerLoss => WriterInv'
<1> SUFFICES ASSUME WriterInv, PowerLoss PROVE WriterInv'
  OBVIOUS
<1>1. PICK f \in Survivors : cache' = f /\ disk' = f
  BY DEF PowerLoss
<1>2. f \in Seq(Rows) /\ Accepted(f, Count(f))
  BY SurvivorsAccepted
<1>3. /\ losses \in Nat /\ losses < MaxPowerLosses /\ losses' = losses + 1 /\ pc' = "down" /\ mem' = mem
      /\ offset' = offset /\ fault' = fault /\ closed' = closed /\ queue' = queue
      /\ published' = published /\ acked' = acked /\ crashes' = crashes
  BY DEF PowerLoss, writer, WriterInv, TypeOK
<1>4. TypeOK'
  <2>1. losses' \in 0 .. MaxPowerLosses
    BY <1>3, LimitAssumption
  <2>2. QED
    BY <1>1, <1>2, <1>3, <2>1 DEF WriterInv, TypeOK
<1>5. FilesAccepted' /\ StateIsShown' /\ OffsetIsEnd'
  BY <1>1, <1>2, <1>3 DEF FilesAccepted, StateIsShown, OffsetIsEnd, Up
<1>6. AcksAreInFile'
  <2>1. losses' # 0
    BY <1>3
  <2>2. QED
    BY <2>1 DEF AcksAreInFile
<1>7. QED
  BY <1>4, <1>5, <1>6 DEF WriterInv

LEMMA WriterInvStep == WriterInv /\ [Next]_vars => WriterInv'
<1> SUFFICES ASSUME WriterInv, [Next]_vars PROVE WriterInv'
  OBVIOUS
<1>1. CASE Open
  BY <1>1, OpenKeeps
<1>2. CASE (\E c \in Commit : Submit(c)) \/ AnswerRetry \/ Reject \/ Close
  BY <1>2, CallersKeep
<1>3. CASE SyncTruncation \/ FailTruncation \/ Fail \/ FinishClose \/ Crash
  BY <1>3, StopsKeep
<1>4. CASE StartWrite \/ FinishWrite \/ Sync
  BY <1>4, WritesKeep
<1>5. CASE PowerLoss
  BY <1>5, PowerLossKeeps
<1>6. CASE UNCHANGED vars
  BY <1>6 DEF vars, file, writer, bounds, WriterInv, TypeOK, FilesAccepted, StateIsShown, OffsetIsEnd,
              AcksAreInFile, Up
<1>7. QED
  BY <1>1, <1>2, <1>3, <1>4, <1>5, <1>6 DEF Next, WriterStep

(* Rows are accepted in both copies of the file, the offset is its end when *)
(* a write may start, and acknowledged commits stay, in every state.       *)
THEOREM WriterInvHolds == Spec => []WriterInv
<1>1. WriterInv /\ [Next]_vars => WriterInv'
  BY WriterInvStep
<1>2. QED
  BY WriterInvInit, <1>1, PTL DEF Spec
-----------------------------------------------------------------------------
(* A writer's variables always have their types: what it writes at its     *)
(* offset is a file of rows again.                                         *)
THEOREM WriterTypeCorrect == Spec => []TypeOK
<1>1. WriterInv => TypeOK
  BY DEF WriterInv
<1>2. QED
  BY WriterInvHolds, <1>1, PTL

(* Whatever failed, crashed or was cut off, the next open can read the     *)
(* file, in the page cache and on the disk.                                *)
THEOREM FileStaysReadableHolds == Spec => []FileStaysReadable
<1>1. WriterInv => FileStaysReadable
  BY ReadableIs DEF WriterInv, TypeOK, FilesAccepted, FileStaysReadable
<1>2. QED
  BY WriterInvHolds, <1>1, PTL

(* While the power stays on, no acknowledged commit leaves the file, over  *)
(* any number of faults, crashes, retries and reopenings.                  *)
THEOREM AcksSurviveHold == Spec => []AcksSurvive
<1>1. WriterInv => AcksSurvive
  <2> SUFFICES ASSUME WriterInv, losses = 0, NEW c \in acked PROVE In(c, Commits(cache))
    BY DEF AcksSurvive
  <2>1. cache \in Seq(Rows) /\ \E i \in 1 .. Count(cache) : cache[i].commit = c
    BY DEF WriterInv, TypeOK, AcksAreInFile
  <2>2. DOMAIN Commits(cache) = 1 .. Count(cache)
        /\ \A i \in 1 .. Count(cache) : Commits(cache)[i] = cache[i].commit
    BY <2>1, CommitsAre
  <2>3. QED
    BY <2>1, <2>2 DEF In
<1>2. QED
  BY WriterInvHolds, <1>1, PTL

-----------------------------------------------------------------------------
(* The writer keeps the promise of DurableLog.                             *)

(* What is on the disk is a part of the log.                               *)
DiskIsPrefix ==
  /\ Count(disk) <= Count(cache)
  /\ \A i \in 1 .. Count(disk) : disk[i].commit = cache[i].commit

RefinementInv == WriterInv /\ DiskIsPrefix

SharedLengths(f, g) ==
  {n \in 0 .. Len(Commits(f)) :
     n <= Len(Commits(g)) /\ \A i \in 1 .. n : Commits(f)[i] = Commits(g)[i]}

LEMMA SharedIs ==
  ASSUME NEW f \in Seq(Rows), NEW g \in Seq(Rows), Count(g) <= Count(f),
         \A i \in 1 .. Count(g) : g[i].commit = f[i].commit
  PROVE  (CHOOSE n \in SharedLengths(f, g) : \A m \in SharedLengths(f, g) : m <= n) = Count(g)
<1>1. Count(f) \in Nat /\ Count(g) \in Nat /\ Len(Commits(f)) = Count(f) /\ Len(Commits(g)) = Count(g)
  BY CountIs, CommitsAre
<1>2. \A i \in 1 .. Count(g) : Commits(f)[i] = Commits(g)[i]
  <2>1. \A i \in 1 .. Count(g) : i \in 1 .. Count(f)
    BY <1>1
  <2>2. QED
    BY <2>1, CommitsAre
<1>3. Count(g) \in SharedLengths(f, g)
  BY <1>1, <1>2 DEF SharedLengths
<1>4. \A m \in SharedLengths(f, g) : m \in Nat /\ m <= Count(g)
  BY <1>1 DEF SharedLengths
<1>5. QED
  BY <1>1, <1>3, <1>4

LEMMA StableIs ==
  /\ StableLength = CHOOSE n \in SharedLengths(cache, disk) : \A m \in SharedLengths(cache, disk) : m <= n
  /\ StableLength' = CHOOSE n \in SharedLengths(cache', disk') : \A m \in SharedLengths(cache', disk') : m <= n
BY DEF StableLength, SharedLengths

LEMMA SameCommits ==
  ASSUME NEW f \in Seq(Rows), NEW g \in Seq(Rows), Count(g) = Count(f),
         \A i \in 1 .. Count(f) : g[i].commit = f[i].commit
  PROVE  Commits(g) = Commits(f)
<1>1. /\ Commits(f) = [i \in 1 .. Count(f) |-> f[i].commit]
      /\ Commits(g) = [i \in 1 .. Count(g) |-> g[i].commit]
  BY CommittedIs DEF Commits
<1>2. QED
  BY <1>1

(* What may survive a loss of power is a part of the log, and at least the *)
(* part on the disk.                                                       *)
LEMMA SurvivorsArePrefixes ==
  ASSUME RefinementInv, NEW f \in Survivors
  PROVE  /\ Count(disk) <= Count(f) /\ Count(f) <= Count(cache)
         /\ \A i \in 1 .. Count(f) : f[i].commit = cache[i].commit
<1>1. /\ cache \in Seq(Rows) /\ disk \in Seq(Rows)
      /\ Accepted(cache, Count(cache)) /\ Accepted(disk, Count(disk)) /\ DiskIsPrefix
  BY DEF RefinementInv, WriterInv, TypeOK, FilesAccepted
<1>2. /\ Len(cache) \in Nat /\ Len(disk) \in Nat /\ Count(cache) \in Nat /\ Count(disk) \in Nat
      /\ Count(cache) <= Len(cache) /\ Count(disk) <= Len(disk) /\ Count(disk) <= Count(cache)
  BY <1>1, CountIs DEF DiskIsPrefix
<1> DEFINE Same(n) == n <= Len(disk) /\ \A i \in 1 .. n : disk[i] = cache[i]
           Kept(n) == \A m \in 0 .. Len(cache) : Same(m) => m <= n
<1>3. Same(Count(disk))
  <2>1. ASSUME NEW i \in 1 .. Count(disk) PROVE disk[i] = cache[i]
    <3>1. i \in 1 .. Len(disk) /\ i \in 1 .. Len(cache) /\ i \in 1 .. Count(cache)
      BY <1>2
    <3>2. disk[i] \in Rows /\ cache[i] \in Rows
      BY <1>1, <3>1, CountIs
    <3>3. disk[i].commit = cache[i].commit /\ disk[i].form = cache[i].form
      BY <1>1, <3>1 DEF DiskIsPrefix, Accepted
    <3>4. QED
      BY <3>2, <3>3 DEF Rows
  <2>2. QED
    BY <1>2, <2>1
<1>4. \/ f = disk
      \/ \E n \in 0 .. Len(cache) : Kept(n) /\ f = SubSeq(cache, 1, n)
      \/ \E n \in 0 .. Len(cache) :
           Kept(n) /\ n # Len(cache) /\ f = SubSeq(cache, 1, n) \o <<Row(cache[n + 1].commit, "torn")>>
  BY DEF Survivors
<1>5. ASSUME NEW n \in 0 .. Len(cache), Kept(n) PROVE Count(disk) <= n
  BY <1>2, <1>3, <1>5
<1> HIDE DEF Same, Kept
<1>6. CASE f = disk
  BY <1>1, <1>2, <1>6 DEF DiskIsPrefix
<1>7. ASSUME NEW n \in 0 .. Len(cache), Kept(n), f = SubSeq(cache, 1, n)
      PROVE  /\ Count(disk) <= Count(f) /\ Count(f) <= Count(cache)
             /\ \A i \in 1 .. Count(f) : f[i].commit = cache[i].commit
  <2>1. Count(f) = (IF n <= Count(cache) THEN n ELSE Count(cache)) /\ \A i \in 1 .. n : f[i] = cache[i]
    BY <1>1, <1>7, CutIsAccepted
  <2>2. n \in Nat /\ Count(disk) <= n
    BY <1>2, <1>5, <1>7
  <2>3. QED
    BY <1>2, <2>1, <2>2
<1>8. ASSUME NEW n \in 0 .. Len(cache), Kept(n), n # Len(cache),
             f = SubSeq(cache, 1, n) \o <<Row(cache[n + 1].commit, "torn")>>
      PROVE  /\ Count(disk) <= Count(f) /\ Count(f) <= Count(cache)
             /\ \A i \in 1 .. Count(f) : f[i].commit = cache[i].commit
  <2>1. n < Len(cache) /\ Count(disk) <= n
    BY <1>2, <1>5, <1>8
  <2>2. Count(f) = n /\ n <= Count(cache) /\ \A i \in 1 .. n : f[i] = cache[i]
    BY <1>1, <1>8, <2>1, CutIsAccepted
  <2>3. QED
    BY <2>1, <2>2
<1>9. QED
  BY <1>4, <1>6, <1>7, <1>8

(* What the writer does to the log.                                        *)
LEMMA FileSteps ==
  ASSUME RefinementInv, [Next]_vars
  PROVE  DiskIsPrefix' /\ [Log!Next]_(Log!vars)
<1>1. /\ TypeOK /\ TypeOK' /\ FilesAccepted /\ StateIsShown /\ OffsetIsEnd /\ DiskIsPrefix
      /\ cache \in Seq(Rows) /\ disk \in Seq(Rows) /\ cache' \in Seq(Rows) /\ disk' \in Seq(Rows)
      /\ offset \in Nat /\ queue \in Seq(Commit)
  BY WriterInvStep DEF RefinementInv, WriterInv, TypeOK
<1>2. /\ Count(cache) \in Nat /\ Count(disk) \in Nat /\ Count(cache') \in Nat
      /\ Len(Commits(cache)) = Count(cache) /\ StableLength = Count(disk)
  BY <1>1, CountIs, CommitsAre, SharedIs, StableIs DEF DiskIsPrefix
<1>3. DiskIsPrefix' => StableLength' = Count(disk')
  BY <1>1, SharedIs, StableIs DEF DiskIsPrefix
<1>4. CASE /\ disk' = disk /\ Count(cache') = Count(cache)
           /\ \A i \in 1 .. Count(cache) : cache'[i].commit = cache[i].commit
  <2>1. \A i \in 1 .. Count(disk) : i \in 1 .. Count(cache)
    BY <1>1, <1>2 DEF DiskIsPrefix
  <2>2. DiskIsPrefix'
    BY <1>1, <1>4, <2>1 DEF DiskIsPrefix
  <2>3. Commits(cache') = Commits(cache) /\ StableLength' = StableLength
    BY <1>1, <1>2, <1>3, <1>4, <2>2, SameCommits
  <2>4. QED
    BY <2>2, <2>3 DEF Log!vars
<1>5. CASE cache' = cache /\ disk' = cache
  <2>1. DiskIsPrefix'
    BY <1>2, <1>5 DEF DiskIsPrefix
  <2>2. StableLength' = Len(Commits(cache)) /\ Commits(cache') = Commits(cache)
    BY <1>2, <1>3, <1>5, <2>1
  <2>3. QED
    BY <2>1, <2>2 DEF Log!Next, Log!Stabilize
<1>6. CASE Open
  <2>1. cache' = CommittedRows(cache) /\ disk' = disk
    BY <1>6 DEF Open
  <2>2. Count(cache') = Count(cache) /\ \A i \in 1 .. Count(cache) : cache'[i].commit = cache[i].commit
    BY <1>1, <2>1, CommittedIs, CommittedAccepted DEF FilesAccepted
  <2>3. QED
    BY <1>4, <2>1, <2>2
<1>7. CASE StartWrite
  <2> DEFINE row == Row(Head(queue), "torn")
  <2>1. /\ pc = "idle" /\ queue # <<>> /\ ~fault /\ disk' = disk /\ cache' = WriteAt(cache, offset, row)
    BY <1>7 DEF StartWrite, Ready, Accepts
  <2>2. Len(cache) = offset /\ ~Torn(cache) /\ Count(cache) = offset
    BY <1>1, <2>1, CountIs DEF OffsetIsEnd
  <2>3. row \in Rows /\ row.form = "torn"
    BY <1>1, <2>1 DEF Row, Rows
  <2>4. cache' = WriteAt(cache, Len(cache), row)
    BY <2>1, <2>2
  <2> HIDE DEF row
  <2>5. /\ Len(cache') = Len(cache) + 1 /\ cache'[Len(cache) + 1] = row
        /\ \A i \in 1 .. Len(cache) : cache'[i] = cache[i]
    <3>1. cache \in Seq(Rows) /\ row \in Rows
      BY <1>1, <2>3
    <3>2. QED
      BY <2>4, <3>1, WriteAtEnd
  <2>6. Torn(cache')
    BY <1>1, <2>2, <2>3, <2>5, CountIs
  <2>7. Count(cache') = Count(cache)
    BY <1>1, <2>2, <2>5, <2>6, CountIs
  <2>8. QED
    BY <1>4, <2>1, <2>2, <2>5, <2>7
<1>8. CASE FinishWrite
  <2> DEFINE c == Head(queue)
  <2>1. /\ pc = "writing" /\ disk' = disk /\ cache' = [cache EXCEPT ![offset + 1].form = "whole"]
        /\ pc' = "syncing" /\ offset' = offset /\ queue' = queue
    BY <1>8 DEF FinishWrite, writer
  <2>2. /\ Len(cache) = offset + 1 /\ queue # <<>> /\ Torn(cache) /\ cache[offset + 1].commit = c
        /\ Log!Follows(c, mem)
    BY <1>1, <2>1 DEF OffsetIsEnd
  <2>3. Count(cache) = offset /\ c \in Commit
    BY <1>1, <2>2, CountIs
  <2>4. mem = Commits(cache)
    <3>1. Len(mem) = offset /\ mem \in Seq(Commit) /\ \A i \in 1 .. offset : mem[i] = cache[i].commit
      BY <1>1, <2>1 DEF StateIsShown, Up, TypeOK
    <3>2. Commits(cache) = [i \in 1 .. offset |-> cache[i].commit]
      BY <1>1, <2>3, CommittedIs DEF Commits
    <3>3. mem = [i \in 1 .. offset |-> mem[i]]
      BY <3>1
    <3>4. QED
      BY <3>1, <3>2, <3>3
  <2>5. Count(cache') = offset + 1 /\ \A i \in 1 .. offset + 1 : cache'[i].commit = cache[i].commit
    <3>1. Len(cache') = offset + 1 /\ \A i \in 1 .. offset + 1 : cache'[i].commit = cache[i].commit
      BY <1>1, <2>1, <2>2 DEF Rows
    <3>2. ~Torn(cache')
      <4>1. OffsetIsEnd'
        BY WriterInvStep DEF RefinementInv, WriterInv
      <4>2. QED
        BY <2>1, <4>1 DEF OffsetIsEnd
    <3>3. QED
      BY <1>1, <3>1, <3>2, CountIs
  <2> HIDE DEF c
  <2>6. Commits(cache') = Append(Commits(cache), c)
    <3>1. /\ Commits(cache') = [i \in 1 .. offset + 1 |-> cache'[i].commit]
          /\ Commits(cache) = [i \in 1 .. offset |-> cache[i].commit]
      BY <1>1, <2>3, <2>5, CommittedIs DEF Commits
    <3>2. /\ Commits(cache) \in Seq(Commit) /\ Len(Commits(cache)) = offset
      BY <1>1, <2>3, CommitsAre
    <3>3. /\ Append(Commits(cache), c) \in Seq(Commit) /\ Len(Append(Commits(cache), c)) = offset + 1
          /\ \A i \in 1 .. offset : Append(Commits(cache), c)[i] = Commits(cache)[i]
          /\ Append(Commits(cache), c)[offset + 1] = c
      BY <1>1, <2>3, <3>2
    <3>4. /\ Commits(cache') \in Seq(Commit) /\ Len(Commits(cache')) = offset + 1
          /\ \A i \in 1 .. offset : Commits(cache')[i] = Commits(cache)[i]
          /\ Commits(cache')[offset + 1] = c
      <4>1. Commits(cache') \in Seq(Commit) /\ Len(Commits(cache')) = offset + 1
        BY <1>1, <2>5, CommitsAre
      <4>2. \A i \in 1 .. offset : i \in 1 .. offset + 1
        BY <1>1
      <4>3. offset + 1 \in 1 .. offset + 1
        BY <1>1
      <4>4. QED
        BY <2>2, <2>5, <3>1, <4>1, <4>2, <4>3
    <3>5. \A i \in 1 .. offset + 1 : Commits(cache')[i] = Append(Commits(cache), c)[i]
      <4>1. \A i \in 1 .. offset + 1 : i \in 1 .. offset \/ i = offset + 1
        BY <1>1
      <4>2. QED
        BY <3>3, <3>4, <4>1
    <3>6. QED
      BY <3>3, <3>4, <3>5, SeqEqual
  <2>7. DiskIsPrefix'
    <3>1. Count(disk) <= offset /\ \A i \in 1 .. Count(disk) : disk[i].commit = cache[i].commit
      BY <1>1, <2>3 DEF DiskIsPrefix
    <3>2. \A i \in 1 .. Count(disk) : i \in 1 .. offset + 1
      BY <1>1, <1>2, <3>1
    <3>3. Count(disk) <= Count(cache') /\ \A i \in 1 .. Count(disk) : disk[i].commit = cache'[i].commit
      BY <1>1, <1>2, <2>5, <3>1, <3>2
    <3>4. QED
      BY <2>1, <3>3 DEF DiskIsPrefix
  <2>8. StableLength' = StableLength
    BY <1>2, <1>3, <2>1, <2>7
  <2>9. Log!AppendCommit(c)
    BY <2>2, <2>4, <2>6, <2>8 DEF Log!AppendCommit
  <2>10. QED
    BY <2>3, <2>7, <2>9 DEF Log!Next
<1>9. CASE PowerLoss
  <2>1. PICK f \in Survivors : cache' = f /\ disk' = f
    BY <1>9 DEF PowerLoss
  <2>2. f \in Seq(Rows) /\ Count(f) \in Nat
    BY <1>1, <2>1, CountIs
  <2>3. DiskIsPrefix' /\ StableLength' = Count(f)
    BY <1>3, <2>1, <2>2 DEF DiskIsPrefix
  <2>4. Count(disk) <= Count(f) /\ Count(f) <= Count(cache)
        /\ \A i \in 1 .. Count(f) : f[i].commit = cache[i].commit
    BY <1>1, <2>1, SurvivorsArePrefixes DEF RefinementInv
  <2>5. Commits(f) = SubSeq(Commits(cache), 1, Count(f))
    <3>1. /\ Commits(f) = [i \in 1 .. Count(f) |-> f[i].commit]
          /\ Commits(cache) \in Seq(Commit) /\ Len(Commits(cache)) = Count(cache)
          /\ \A i \in 1 .. Count(cache) : Commits(cache)[i] = cache[i].commit
      BY <1>1, <2>2, CommittedIs, CommitsAre DEF Commits
    <3>2. SubSeq(Commits(cache), 1, Count(f)) = [i \in 1 .. Count(f) |-> Commits(cache)[i]]
      BY <1>2, <2>2, <2>4, <3>1
    <3>3. \A i \in 1 .. Count(f) : Commits(cache)[i] = f[i].commit
      BY <1>2, <2>2, <2>4, <3>1
    <3>4. QED
      BY <3>1, <3>2, <3>3
  <2>6. Count(f) \in StableLength .. Len(Commits(cache))
    BY <1>2, <2>2, <2>4
  <2>7. Log!Crash
    BY <2>1, <2>3, <2>5, <2>6 DEF Log!Crash
  <2>8. QED
    BY <2>3, <2>7 DEF Log!Next
<1>10. CASE (\E c \in Commit : Submit(c)) \/ AnswerRetry \/ Reject \/ Close \/ FailTruncation \/ Fail
            \/ FinishClose \/ Crash \/ UNCHANGED vars
  <2>1. cache' = cache /\ disk' = disk
    BY <1>10 DEF Submit, AnswerRetry, Reject, Close, FailTruncation, Fail, FinishClose, Crash, vars, file
  <2>2. QED
    BY <1>4, <2>1
<1>11. CASE SyncTruncation \/ Sync
  BY <1>5, <1>11 DEF SyncTruncation, Sync
<1>12. QED
  BY <1>6, <1>7, <1>8, <1>9, <1>10, <1>11 DEF Next, WriterStep

(* The file is a log of DurableLog over all faults, crashes and losses:    *)
(* every step of the writer appends a valid commit, makes the log stable,  *)
(* loses unsynchronized commits to a loss of power, or does nothing to it. *)
THEOREM WriterImplementsDurableLog == Spec => ImplementsDurableLog
<1>1. Init => RefinementInv /\ Log!Init
  <2> SUFFICES ASSUME Init PROVE RefinementInv /\ Log!Init
    OBVIOUS
  <2>1. cache = <<>> /\ disk = <<>> /\ <<>> \in Seq(Rows) /\ Count(<<>>) = 0
    BY DEF Init, Count, Torn
  <2>2. DiskIsPrefix
    BY <2>1 DEF DiskIsPrefix
  <2>3. StableLength = 0
    BY <2>1, <2>2, SharedIs, StableIs DEF DiskIsPrefix
  <2>4. Commits(cache) = <<>>
    <3>1. Commits(cache) \in Seq(Commit) /\ Len(Commits(cache)) = 0
      BY <2>1, CommitsAre
    <3>2. QED
      BY <3>1
  <2>5. QED
    BY <2>2, <2>3, <2>4, WriterInvInit DEF RefinementInv, Log!Init
<1>2. RefinementInv /\ [Next]_vars => RefinementInv' /\ [Log!Next]_(Log!vars)
  BY FileSteps, WriterInvStep DEF RefinementInv
<1>3. QED
  BY <1>1, <1>2, PTL DEF Spec, ImplementsDurableLog, Log!Spec
=============================================================================
