-------------------------- MODULE PushOutboxProofs --------------------------
(***************************************************************************)
(* Proofs about the send queue, for any set of jobs, any number of puts    *)
(* per job, any number of threads and any compaction slack.                *)
(***************************************************************************)
EXTENDS PushOutbox, TLAPS, FiniteSetTheorems, SequenceTheorems, WellFoundedInduction

\* A nonempty set of positions of a log has a last one.
LEMMA MaxExists ==
    ASSUME NEW n \in Nat, NEW S \in SUBSET (1 .. n), S # {}
    PROVE  \E i \in S : \A j \in S : j <= i
<1> DEFINE T == {n - i : i \in S}
           LT == OpToRel(<, Nat)
<1>a. \A i \in S : i \in Int /\ n - i \in Nat
  OBVIOUS
<1>1. T \subseteq Nat /\ T # {}
  BY <1>a, Zenon
<1>2. PICK x \in T : \A y \in T : ~(<<y, x>> \in LT)
  <2>1. IsWellFoundedOn(LT, Nat)
    BY NatLessThanWellFounded
  <2> HIDE DEF LT, T
  <2>2. QED
    BY <2>1, <1>1, WFMin
<1>b. \A k, m \in Nat : k < m => <<k, m>> \in LT
  BY DEF OpToRel
<1>3. \A y \in T : x <= y
  <2> HIDE DEF T, LT
  <2> SUFFICES ASSUME NEW y \in T PROVE x <= y
    OBVIOUS
  <2>1. x \in Nat /\ y \in Nat
    BY <1>1
  <2>2. ~(y < x)
    BY <2>1, <1>2, <1>b
  <2>3. QED
    BY <2>1, <2>2
<1>4. PICK i \in S : x = n - i
  BY Zenon
<1>5. \A j \in S : n - i <= n - j
  BY <1>3, <1>4, Zenon
<1>6. \A j \in S : j <= i
  BY <1>5, <1>a
<1>7. QED
  BY <1>6

\* LastPosition names the last record of a job.
LEMMA LastPositionIsLast ==
    ASSUME NEW s \in Seq(Recs), NEW id \in Ids, Positions(s, id) # {}
    PROVE  /\ LastPosition(s, id) \in Positions(s, id)
           /\ \A j \in Positions(s, id) : j <= LastPosition(s, id)
<1>1. Positions(s, id) \in SUBSET (1 .. Len(s)) /\ Len(s) \in Nat
  BY LenProperties DEF Positions
<1>2. \E i \in Positions(s, id) : \A j \in Positions(s, id) : j <= i
  BY <1>1, MaxExists
<1>3. QED
  BY <1>2, Zenon DEF LastPosition

\* Folding a log gives a map of jobs.
LEMMA JobsOfType ==
    ASSUME NEW s \in Seq(Recs)
    PROVE  JobsOf(s) \in Jobs
<1>1. \A id \in Ids : Positions(s, id) # {} => s[LastPosition(s, id)].ver \in 0 .. MaxVer
  <2> SUFFICES ASSUME NEW id \in Ids, Positions(s, id) # {}
               PROVE  s[LastPosition(s, id)].ver \in 0 .. MaxVer
    OBVIOUS
  <2>1. LastPosition(s, id) \in 1 .. Len(s)
    BY LastPositionIsLast DEF Positions
  <2>2. s[LastPosition(s, id)] \in Recs
    BY <2>1, ElementOfSeq
  <2>3. QED
    BY <2>2 DEF Recs
<1>2. NoJob \in 0 .. MaxVer
  BY OutboxAssumption DEF NoJob
<1>3. QED
  BY <1>1, <1>2 DEF JobsOf, Jobs

\* An empty log folds to an empty queue.
LEMMA JobsOfEmpty == JobsOf(<< >>) = NoJobs
<1>1. \A id : Positions(<< >>, id) = {}
  BY DEF Positions
<1>2. QED
  BY <1>1 DEF JobsOf, NoJobs

\* The empty queue is a map of jobs.
LEMMA NoJobsType == NoJobs \in Jobs
  BY OutboxAssumption DEF NoJobs, NoJob, Jobs

\* Outbox::open folds one more record into the map it is about.
LEMMA JobsOfAppend ==
    ASSUME NEW s \in Seq(Recs), NEW r \in Recs
    PROVE  JobsOf(Append(s, r)) = [JobsOf(s) EXCEPT ![r.id] = r.ver]
<1> DEFINE n == Len(s)
           a == Append(s, r)
<1>1. /\ n \in Nat /\ Len(a) = n + 1 /\ a[n + 1] = r
      /\ \A i \in 1 .. n : a[i] = s[i]
  BY AppendProperties, LenProperties
<1>2. r.id \in Ids
  BY DEF Recs
<1>3. JobsOf(a)[r.id] = r.ver
  <2>1. n + 1 \in Positions(a, r.id)
    BY <1>1 DEF Positions
  <2>2. \A j \in Positions(a, r.id) : j <= n + 1
    BY <1>1 DEF Positions
  <2>3. a \in Seq(Recs)
    BY AppendProperties
  <2>4. LastPosition(a, r.id) \in Positions(a, r.id) /\ n + 1 <= LastPosition(a, r.id)
    BY <2>1, <2>3, <1>2, LastPositionIsLast
  <2>5. LastPosition(a, r.id) = n + 1
    BY <2>2, <2>4, <1>1 DEF Positions
  <2>6. QED
    BY <2>1, <2>5, <1>1, <1>2 DEF JobsOf
<1>4. ASSUME NEW id \in Ids, id # r.id
      PROVE  JobsOf(a)[id] = JobsOf(s)[id]
  <2>1. Positions(a, id) = Positions(s, id)
    BY <1>1, <1>4 DEF Positions
  <2>2. LastPosition(a, id) = LastPosition(s, id)
    BY <2>1 DEF LastPosition
  <2>3. CASE Positions(s, id) = {}
    BY <2>1, <2>3 DEF JobsOf
  <2>4. CASE Positions(s, id) # {}
    <3>1. LastPosition(s, id) \in 1 .. n
      BY <2>4, LastPositionIsLast DEF Positions
    <3>2. QED
      BY <2>1, <2>2, <2>4, <3>1, <1>1 DEF JobsOf
  <2>5. QED
    BY <2>3, <2>4
<1>5. QED
  BY <1>2, <1>3, <1>4 DEF JobsOf

-----------------------------------------------------------------------------
(* Files                                                                   *)

\* What the type of a file says of its parts.
LEMMA LogFileFields ==
    ASSUME NEW f \in LogFiles(Recs)
    PROVE  /\ f.hdr \in Headers /\ f.recs \in Seq(Recs) /\ f.tail \in Tails
           /\ f.synced \in Int /\ -1 <= f.synced /\ f.synced <= Len(f.recs)
           /\ Len(f.recs) \in Nat
           /\ f.hdr \in {"missing", "empty", "partial"} => f.recs = << >> /\ f.tail = "none"
<1>1. f \in [hdr : Headers, recs : Seq(Recs), tail : Tails, synced : Int]
  BY DEF LogFiles
<1>2. Len(f.recs) \in Nat
  BY <1>1, LenProperties
<1>3. /\ f.synced \in -1 .. Len(f.recs)
      /\ f.hdr \in {"missing", "empty", "partial"} => f.recs = << >> /\ f.tail = "none"
  BY DEF LogFiles
<1>4. QED
  BY <1>1, <1>2, <1>3

\* A file is a record of its four parts.
LEMMA LogFileRecord ==
    ASSUME NEW f \in LogFiles(Recs)
    PROVE  f \in [hdr : Headers, recs : Seq(Recs), tail : Tails, synced : Int]
  BY DEF LogFiles

\* Parts that fit make a file.
LEMMA MakeLogFile ==
    ASSUME NEW h \in Headers, NEW s \in Seq(Recs), NEW t \in Tails, NEW n \in Int,
           -1 <= n, n <= Len(s),
           h \in {"missing", "empty", "partial"} => s = << >> /\ t = "none"
    PROVE  [hdr |-> h, recs |-> s, tail |-> t, synced |-> n] \in LogFiles(Recs)
<1>1. Len(s) \in Nat
  BY LenProperties
<1>2. QED
  BY <1>1 DEF LogFiles

\* No file, a fresh log and a cut-off header are files.
LEMMA FixedFiles ==
    /\ NoFile \in LogFiles(Recs) /\ CreateFile \in LogFiles(Recs)
    /\ [NoFile EXCEPT !.hdr = "empty"] \in LogFiles(Recs)
    /\ [NoFile EXCEPT !.hdr = "partial"] \in LogFiles(Recs)
<1>1. << >> \in Seq(Recs) /\ Len(<< >>) = 0
  OBVIOUS
<1>2. \A h \in {"missing", "empty", "partial", "good"} :
        [hdr |-> h, recs |-> << >>, tail |-> "none", synced |-> -1] \in LogFiles(Recs)
  <2> TAKE h \in {"missing", "empty", "partial", "good"}
  <2>1. h \in Headers /\ "none" \in Tails /\ -1 \in Int /\ -1 <= -1 /\ -1 <= Len(<< >>)
    BY <1>1 DEF Headers, Tails
  <2>2. QED
    BY <1>1, <2>1, MakeLogFile
<1>3. QED
  BY <1>2 DEF NoFile, CreateFile

\* LogWriter::append changes the records and nothing else.
LEMMA AppendRecFile ==
    ASSUME NEW f \in LogFiles(Recs), f.hdr \in {"good", "resalted"}, NEW r \in Recs
    PROVE  /\ AppendRec(f, r) \in LogFiles(Recs)
           /\ AppendRec(f, r).hdr = f.hdr /\ AppendRec(f, r).tail = f.tail
           /\ AppendRec(f, r).synced = f.synced
           /\ AppendRec(f, r).recs = Append(f.recs, r)
<1>0. \A q : [f EXCEPT !.recs = q]
              = [hdr |-> f.hdr, recs |-> q, tail |-> f.tail, synced |-> f.synced]
  BY LogFileRecord
<1>1. AppendRec(f, r) = [hdr |-> f.hdr, recs |-> Append(f.recs, r),
                         tail |-> f.tail, synced |-> f.synced]
  BY <1>0, Zenon DEF AppendRec
<1>2. Append(f.recs, r) \in Seq(Recs) /\ Len(Append(f.recs, r)) = Len(f.recs) + 1
  BY LogFileFields, AppendProperties
<1> HIDE DEF AppendRec
<1>3. AppendRec(f, r) \in LogFiles(Recs)
  <2>1. f.hdr \notin {"missing", "empty", "partial"}
    OBVIOUS
  <2>2. f.synced <= Len(Append(f.recs, r))
    BY <1>2, LogFileFields
  <2>3. QED
    BY <1>1, <1>2, <2>1, <2>2, LogFileFields, MakeLogFile
<1>4. QED
  BY <1>1, <1>3

\* LogWriter::sync changes what is on disk and nothing else.
LEMMA SyncLogFile ==
    ASSUME NEW f \in LogFiles(Recs)
    PROVE  /\ SyncLog(f) \in LogFiles(Recs)
           /\ SyncLog(f).hdr = f.hdr /\ SyncLog(f).tail = f.tail
           /\ SyncLog(f).recs = f.recs /\ SyncLog(f).synced = Len(f.recs)
<1>1. SyncLog(f) = [hdr |-> f.hdr, recs |-> f.recs, tail |-> f.tail, synced |-> Len(f.recs)]
  BY LogFileRecord DEF SyncLog
<1>2. SyncLog(f) \in LogFiles(Recs)
  BY <1>1, LogFileFields, MakeLogFile
<1>3. QED
  BY <1>1, <1>2

\* overwrite_after destroys the salt of a log that has one.
LEMMA OverwriteFile ==
    ASSUME NEW f \in LogFiles(Recs)
    PROVE  /\ OverwriteAfter(f) \in LogFiles(Recs)
           /\ f.hdr # "good" => OverwriteAfter(f) = f
           /\ f.hdr = "good" =>
                OverwriteAfter(f) = [hdr |-> "resalted", recs |-> f.recs,
                                     tail |-> f.tail, synced |-> Len(f.recs)]
<1>1. CASE f.hdr # "good"
  BY <1>1 DEF OverwriteAfter
<1>2. CASE f.hdr = "good"
  <2>1. OverwriteAfter(f) = [hdr |-> "resalted", recs |-> f.recs,
                             tail |-> f.tail, synced |-> Len(f.recs)]
    BY <1>2, LogFileRecord DEF OverwriteAfter
  <2>2. OverwriteAfter(f) \in LogFiles(Recs)
    BY <2>1, LogFileFields, MakeLogFile DEF Headers
  <2>3. QED
    BY <1>2, <2>1, <2>2
<1>3. QED
  BY <1>1, <1>2

\* A log that reads opens for appending, and keeps what it reads as.
LEMMA OpenAppendFile ==
    ASSUME NEW f \in LogFiles(Recs), ~ReadFails(f)
    PROVE  /\ ~OpenAppendFails(f)
           /\ OpenAppend(f) \in LogFiles(Recs)
           /\ OpenAppend(f).hdr = "good" /\ OpenAppend(f).tail = "none"
           /\ OpenAppend(f).recs = ReadRecs(f)
           /\ f.hdr = "good" => OpenAppend(f).synced \in {f.synced, Len(f.recs)}
           /\ OpenAppend(f).synced <= 0 => f.synced <= 0
<1>1. CASE f.hdr \in {"missing", "empty"}
  BY <1>1, LogFileFields, FixedFiles DEF OpenAppend, OpenAppendFails, ReadRecs, CreateFile
<1>2. CASE f.hdr = "resalted"
  <2>1. f.recs = << >> /\ f.tail = "none"
    BY <1>2 DEF ReadFails
  <2>2. OpenAppend(f) = [hdr |-> "good", recs |-> f.recs, tail |-> f.tail, synced |-> f.synced]
    BY <1>2, <2>1, LogFileRecord DEF OpenAppend
  <2>3. OpenAppend(f) \in LogFiles(Recs)
    BY <2>2, LogFileFields, MakeLogFile DEF Headers
  <2>4. QED
    BY <1>2, <2>1, <2>2, <2>3 DEF OpenAppendFails, ReadRecs
<1>3. CASE f.hdr = "good" /\ f.tail = "none"
  <2>1. OpenAppend(f) = f
    BY <1>3, LogFileRecord DEF OpenAppend
  <2>2. QED
    BY <1>3, <2>1 DEF OpenAppendFails, ReadRecs
<1>4. CASE f.hdr = "good" /\ f.tail # "none"
  <2>1. OpenAppend(f) = [hdr |-> "good", recs |-> f.recs, tail |-> "none", synced |-> Len(f.recs)]
    BY <1>4, LogFileRecord DEF OpenAppend
  <2>2. OpenAppend(f) \in LogFiles(Recs)
    BY <2>1, LogFileFields, MakeLogFile DEF Headers, Tails
  <2>3. QED
    BY <1>4, <2>1, <2>2, LogFileFields DEF OpenAppendFails, ReadRecs, ReadFails
<1>5. QED
  BY <1>1, <1>2, <1>3, <1>4, LogFileFields DEF Headers, ReadFails

\* A crash leaves a file as it is, without its header, or cut behind its synced part.
LEMMA CrashOutcome ==
    ASSUME NEW f \in LogFiles(Recs), NEW g \in AfterCrash(f)
    PROVE  /\ g \in LogFiles(Recs)
           /\ \/ f.hdr \in {"missing", "empty", "partial"} /\ g = f
              \/ /\ f.hdr \in {"good", "resalted"} /\ f.synced = -1
                 /\ g.hdr \in {"missing", "empty", "partial"} /\ g.recs = << >> /\ g.tail = "none"
                 /\ g.synced = -1
              \/ /\ f.hdr \in {"good", "resalted"} /\ g.hdr = f.hdr
                 /\ \E k \in 0 .. Len(f.recs) :
                      /\ k >= f.synced
                      /\ g.recs = SubSeq(f.recs, 1, k) /\ g.synced = k
                      /\ Len(g.recs) = k
                      /\ k = Len(f.recs) => g.tail = f.tail
<1> DEFINE n == Len(f.recs)
<1>1. n \in Nat /\ f.recs \in Seq(Recs) /\ f.synced <= n /\ f.hdr \in Headers /\ f.tail \in Tails
  BY LogFileFields
<1>2. ASSUME NEW k \in 0 .. n, NEW t \in Tails, f.hdr \in {"good", "resalted"}
      PROVE  /\ Cut(f, k, t) \in LogFiles(Recs)
             /\ Cut(f, k, t).hdr = f.hdr /\ Cut(f, k, t).recs = SubSeq(f.recs, 1, k)
             /\ Cut(f, k, t).tail = t /\ Cut(f, k, t).synced = k
             /\ Len(SubSeq(f.recs, 1, k)) = k
  <2>1. SubSeq(f.recs, 1, k) \in Seq(Recs) /\ Len(SubSeq(f.recs, 1, k)) = k
    BY <1>1, SubSeqProperties
  <2>3. Cut(f, k, t) = [hdr |-> f.hdr, recs |-> SubSeq(f.recs, 1, k), tail |-> t, synced |-> k]
    BY DEF Cut
  <2>4. k \in Int /\ -1 <= k /\ k <= Len(SubSeq(f.recs, 1, k))
    BY <2>1, <1>1
  <2>5. f.hdr \notin {"missing", "empty", "partial"}
    BY <1>2
  <2>6. Cut(f, k, t) \in LogFiles(Recs)
    BY <2>1, <2>3, <2>4, <2>5, <1>1, MakeLogFile
  <2>7. QED
    BY <2>1, <2>3, <2>6
<1>3. CASE f.hdr \in {"missing", "empty", "partial"}
  BY <1>3 DEF AfterCrash
<1>4. CASE f.hdr \in {"good", "resalted"}
  <2>1. CASE /\ f.synced = -1
             /\ g \in {NoFile, [NoFile EXCEPT !.hdr = "empty"], [NoFile EXCEPT !.hdr = "partial"]}
    BY <2>1, <1>4, FixedFiles DEF NoFile
  <2>2. CASE g = Cut(f, n, f.tail)
    <3>1. n \in 0 .. n /\ n >= f.synced
      BY <1>1
    <3>2. f.tail \in Tails
      BY <1>1
    <3>3. /\ g \in LogFiles(Recs) /\ g.hdr = f.hdr /\ g.recs = SubSeq(f.recs, 1, n)
          /\ g.tail = f.tail /\ g.synced = n /\ Len(SubSeq(f.recs, 1, n)) = n
      BY <3>1, <3>2, <2>2, <1>2, <1>4
    <3>4. QED
      BY <3>1, <3>3, <1>4
  <2>3. CASE \E k \in {m \in 0 .. n - 1 : m >= f.synced}, t \in Tails : g = Cut(f, k, t)
    <3>1. PICK k \in {m \in 0 .. n - 1 : m >= f.synced}, t \in Tails : g = Cut(f, k, t)
      BY <2>3
    <3>2. k \in 0 .. n /\ k >= f.synced /\ k # n
      BY <1>1
    <3>3. QED
      BY <3>1, <3>2, <1>2, <1>4
  <2>4. QED
    BY <1>4, <2>1, <2>2, <2>3 DEF AfterCrash
<1>5. QED
  BY <1>1, <1>3, <1>4 DEF Headers

\* The prefixes of a sequence are prefixes of what is appended to it.
LEMMA PrefixOfAppend ==
    ASSUME NEW s \in Seq(Recs), NEW r \in Recs, NEW k \in 0 .. Len(s)
    PROVE  SubSeq(Append(s, r), 1, k) = SubSeq(s, 1, k)
<1>1. Append(s, r) \in Seq(Recs) /\ Len(Append(s, r)) = Len(s) + 1 /\ Len(s) \in Nat
      /\ \A i \in 1 .. Len(s) : Append(s, r)[i] = s[i]
  BY AppendProperties, LenProperties
<1>2. QED
  BY <1>1

\* The longest prefix of a log is the log.
LEMMA WholePrefix ==
    ASSUME NEW s \in Seq(Recs)
    PROVE  SubSeq(s, 1, Len(s)) = s
  BY SubSeqFull

-----------------------------------------------------------------------------
(* What a crash leaves is a state since the last flush                     *)

\* No crash makes an empty log speak of a job.
LEMMA EmptyOutcome ==
    ASSUME NEW f \in LogFiles(Recs), f.recs = << >>, NEW g \in AfterCrash(f)
    PROVE  JobsOf(ReadRecs(g)) = NoJobs
<1>1. Len(f.recs) = 0 /\ SubSeq(f.recs, 1, 0) = << >>
  OBVIOUS
<1>2. g.recs = << >>
  BY <1>1, CrashOutcome
<1>3. QED
  BY <1>2, JobsOfEmpty DEF ReadRecs

\* From every state of the invariant, Outbox::open finds a state since the last
\* flush in whatever a crash leaves.
LEMMA Recovers ==
    ASSUME IInv, up, NEW d \in AfterCrash(dest), NEW t \in AfterCrash(tmp)
    PROVE  Recovered(d, t) \in may
<1>1. dest \in LogFiles(Recs) /\ tmp \in LogFiles(Recs) /\ jobs \in may
  BY DEF IInv, TypeOK, LogInv
<1>2. CASE pc = "shredded"
  <2>1. /\ tmp.hdr = "good" /\ tmp.tail = "none" /\ tmp.synced = Len(tmp.recs)
        /\ JobsOf(tmp.recs) = jobs /\ todo = {}
    <3>1. jobs = [id \in Ids |-> jobs[id]]
      BY DEF IInv, TypeOK, Jobs
    <3>2. QED
      BY <1>2, <3>1 DEF IInv, StageInv
  <2>2. tmp.recs \in Seq(Recs) /\ Len(tmp.recs) \in Nat
    BY <1>1, LogFileFields
  <2>3. t.hdr = "good" /\ t.recs = tmp.recs /\ t.tail = "none"
    BY <1>1, <2>1, <2>2, CrashOutcome, WholePrefix
  <2>4. StagedComplete(t) /\ JobsOf(ReadRecs(t)) = jobs
    BY <2>1, <2>3 DEF StagedComplete, ReadFails, ReadTorn, ReadRecs
  <2>5. dest.hdr # "good" /\ (~ReadFails(dest) => jobs = NoJobs)
    BY <1>2 DEF IInv, ShredInv
  <2>6. d.hdr = dest.hdr /\ d.recs = dest.recs /\ d.tail = dest.tail
    <3>1. CASE dest.hdr = "resalted"
      <4>1. dest.synced = Len(dest.recs) /\ dest.recs \in Seq(Recs) /\ Len(dest.recs) \in Nat
        BY <3>1, <1>1, LogFileFields DEF IInv, ShredInv
      <4>2. QED
        BY <3>1, <4>1, <1>1, CrashOutcome, WholePrefix
    <3>2. CASE dest.hdr # "resalted"
      BY <3>2, <2>5, <1>1, CrashOutcome
    <3>3. QED
      BY <3>1, <3>2
  <2>7. ~ReadFails(d) => JobsOf(ReadRecs(d)) = jobs
    BY <2>5, <2>6, JobsOfEmpty DEF ReadFails, ReadRecs
  <2>8. QED
    BY <1>1, <2>4, <2>7 DEF Recovered
<1>3. CASE pc # "shredded"
  <2>1. ~ReadFails(dest) /\ JobsOf(ReadRecs(dest)) = jobs
    BY <1>3 DEF IInv, LogInv
  <2>2. dest.recs \in Seq(Recs) /\ Len(dest.recs) \in Nat /\ dest.hdr \in Headers
    BY <1>1, LogFileFields
  <2>3. CASE dest.hdr \in {"missing", "empty", "partial"}
    BY <2>1, <2>3, <1>1, CrashOutcome DEF Recovered
  <2>4. CASE dest.hdr = "resalted"
    <3>1. dest.recs = << >> /\ dest.tail = "none" /\ dest.synced = 0
      BY <2>1, <2>4 DEF ReadFails, IInv, ShredInv
    <3>2. d.hdr = "resalted" /\ d.recs = << >> /\ d.tail = "none"
      BY <2>4, <3>1, <1>1, CrashOutcome, WholePrefix
    <3>3. ~ReadFails(d) /\ ReadRecs(d) = << >>
      BY <3>2 DEF ReadFails, ReadRecs
    <3>4. QED
      BY <1>1, <2>1, <2>4, <3>3 DEF Recovered, ReadRecs
  <2>5. CASE dest.hdr = "good"
    <3>1. \A k \in 0 .. Len(dest.recs) :
            k >= dest.synced => JobsOf(SubSeq(dest.recs, 1, k)) \in may
      BY <2>5 DEF IInv, LogInv
    <3>2. dest.synced \in Int
      BY <1>1, LogFileFields
    <3>3. ASSUME dest.synced <= 0
          PROVE  NoJobs \in may /\ (ReadFails(d) => Recovered(d, t) = NoJobs)
      <4>1. SubSeq(dest.recs, 1, 0) = << >> /\ 0 \in 0 .. Len(dest.recs) /\ 0 >= dest.synced
        BY <2>2, <3>2, <3>3
      <4>2. NoJobs \in may
        BY <3>1, <4>1, JobsOfEmpty
      <4>3. tmp.recs = << >>
        BY <3>3 DEF IInv, TmpInv
      <4>4. QED
        BY <1>1, <4>2, <4>3, EmptyOutcome DEF Recovered
    <3>4. CASE dest.synced = -1 /\ d.hdr \in {"missing", "empty", "partial"} /\ d.recs = << >>
      BY <3>3, <3>4, JobsOfEmpty DEF Recovered, ReadRecs
    <3>5. CASE /\ d.hdr = "good"
               /\ \E k \in 0 .. Len(dest.recs) :
                    k >= dest.synced /\ d.recs = SubSeq(dest.recs, 1, k) /\ Len(d.recs) = k
      <4>1. PICK k \in 0 .. Len(dest.recs) :
              k >= dest.synced /\ d.recs = SubSeq(dest.recs, 1, k) /\ Len(d.recs) = k
        BY <3>5
      <4>2. CASE ~ReadFails(d)
        BY <3>1, <3>5, <4>1, <4>2 DEF Recovered, ReadRecs
      <4>3. CASE ReadFails(d)
        <5>1. d.recs = << >>
          BY <3>5, <4>3 DEF ReadFails
        <5>2. dest.synced <= 0
          BY <5>1, <4>1, <2>2, <3>2
        <5>3. QED
          BY <5>2, <3>3, <4>3
      <4>4. QED
        BY <4>2, <4>3
    <3>6. QED
      BY <2>5, <3>4, <3>5, <1>1, CrashOutcome
  <2>6. QED
    BY <2>2, <2>3, <2>4, <2>5 DEF Headers
<1>4. QED
  BY <1>2, <1>3

\* The invariant contains the soundness of recovery.
LEMMA IInvImpliesSound == IInv => RecoverySound
  BY Recovers DEF RecoverySound, IInv, DownInv

-----------------------------------------------------------------------------
(* The invariant is inductive                                              *)

\* A data directory without a queue satisfies the invariant.
LEMMA InitIInv == Init => IInv
<1> SUFFICES ASSUME Init PROVE IInv
  OBVIOUS
<1>1. TypeOK
  BY FixedFiles, NoJobsType, OutboxAssumption DEF Init, TypeOK, NoJobs, NoJob
<1>2. JobsOf(ReadRecs(dest)) = jobs /\ ~ReadFails(dest) /\ dest.hdr = "missing"
  BY JobsOfEmpty DEF Init, ReadRecs, ReadFails, NoFile
<1>3. QED
  BY <1>1, <1>2 DEF Init, IInv, WriterInv, LogInv, FirstPutInv, TmpInv, StageInv, ShredInv,
                    DownInv, NoFile

\* Outbox::append adds its record behind everything the log reads as.
LEMMA AppendStep ==
    ASSUME IInv, Free, NEW r \in Recs, AppendOk(r)
    PROVE  /\ dest' \in LogFiles(Recs) /\ writer' = "dest"
           /\ dest'.hdr = "good" /\ dest'.tail = "none"
           /\ dest'.recs = Append(ReadRecs(dest), r)
           /\ ReadRecs(dest) \in Seq(Recs) /\ Len(ReadRecs(dest)) \in Nat
           /\ dest'.synced \in Int /\ dest'.synced <= Len(ReadRecs(dest))
           /\ dest'.synced <= 0 => dest.synced <= 0
           /\ \A k \in 0 .. Len(ReadRecs(dest)) :
                k >= dest'.synced => JobsOf(SubSeq(ReadRecs(dest), 1, k)) \in may
<1>1. dest \in LogFiles(Recs) /\ jobs \in may /\ ~ReadFails(dest) /\ JobsOf(ReadRecs(dest)) = jobs
  BY DEF IInv, TypeOK, LogInv, Free
<1>2. PICK f \in LogFiles(Recs) :
        /\ dest' = AppendRec(f, r) /\ f.hdr = "good" /\ f.tail = "none"
        /\ f.recs = ReadRecs(dest)
        /\ dest.hdr = "good" => f.synced \in {dest.synced, Len(dest.recs)}
        /\ f.synced <= 0 => dest.synced <= 0
  <2>1. CASE writer = "none"
    <3>1. dest' = AppendRec(OpenAppend(dest), r)
      BY <2>1 DEF AppendOk
    <3>2. QED
      BY <1>1, <3>1, OpenAppendFile
  <2>2. CASE writer = "dest"
    <3>1. dest' = AppendRec(dest, r) /\ dest.hdr = "good" /\ dest.tail = "none"
      BY <2>2 DEF AppendOk, IInv, WriterInv
    <3>2. QED
      BY <1>1, <3>1 DEF ReadRecs
  <2>3. QED
    BY <2>1, <2>2 DEF IInv, TypeOK, WriterInv
<1>3. f.recs \in Seq(Recs) /\ Len(f.recs) \in Nat /\ f.synced \in Int /\ f.synced <= Len(f.recs)
  BY LogFileFields
<1>4. /\ dest' \in LogFiles(Recs) /\ dest'.hdr = "good" /\ dest'.tail = "none"
      /\ dest'.recs = Append(f.recs, r) /\ dest'.synced = f.synced
  BY <1>2, AppendRecFile
<1>5. writer' = "dest"
  BY DEF AppendOk, IInv, TypeOK, WriterInv
<1>6. ASSUME NEW k \in 0 .. Len(f.recs), k >= f.synced
      PROVE  JobsOf(SubSeq(f.recs, 1, k)) \in may
  <2>1. CASE k = Len(f.recs)
    BY <2>1, <1>1, <1>2, <1>3, WholePrefix
  <2>2. CASE k # Len(f.recs)
    <3>1. f.recs # << >>
      BY <2>2, <1>3, <1>6
    <3>2. dest.hdr = "good" /\ f.recs = dest.recs
      BY <3>1, <1>2 DEF ReadRecs
    <3>3. k >= dest.synced
      BY <3>2, <2>2, <1>2, <1>3, <1>6
    <3>4. QED
      BY <3>2, <3>3 DEF IInv, LogInv, Free
  <2>3. QED
    BY <2>1, <2>2
<1>7. QED
  BY <1>2, <1>3, <1>4, <1>5, <1>6

\* Without I/O errors Outbox::append never fails: the log it opens reads.
LEMMA AppendsSucceed == IInv /\ Free => ~AppendFails
  BY OpenAppendFile DEF IInv, TypeOK, LogInv, Free, AppendFails

\* A put or a removal: the record goes behind the log, the map changes alike.
LEMMA RecordStep ==
    ASSUME IInv, Free, NEW r \in Recs, AppendOk(r),
           jobs' = [jobs EXCEPT ![r.id] = r.ver], may' = may \cup {jobs'},
           UNCHANGED <<tmp, todo, up>>, due' \in 0 .. MaxDue, garbage' \in Nat, ver' \in Jobs,
           \/ pc' = "idle" /\ jobs[r.id] # NoJob
           \/ pc' = "syncing"
    PROVE  IInv'
<1> DEFINE s == ReadRecs(dest)
<1>1. /\ dest' \in LogFiles(Recs) /\ writer' = "dest"
      /\ dest'.hdr = "good" /\ dest'.tail = "none" /\ dest'.recs = Append(s, r)
      /\ s \in Seq(Recs) /\ Len(s) \in Nat
      /\ dest'.synced \in Int /\ dest'.synced <= Len(s)
      /\ dest'.synced <= 0 => dest.synced <= 0
      /\ \A k \in 0 .. Len(s) : k >= dest'.synced => JobsOf(SubSeq(s, 1, k)) \in may
  BY AppendStep
<1>2. pc = "idle" /\ up /\ jobs = JobsOf(s) /\ jobs \in Jobs
  BY DEF Free, IInv, LogInv, TypeOK
<1>3. r.id \in Ids /\ r.ver \in 0 .. MaxVer
  BY DEF Recs
<1>4. jobs' \in Jobs /\ jobs' = JobsOf(dest'.recs)
  BY <1>1, <1>2, <1>3, JobsOfAppend DEF Jobs
<1>5. Append(s, r) \in Seq(Recs) /\ Len(Append(s, r)) = Len(s) + 1
  BY <1>1, AppendProperties
<1>6. TypeOK'
  BY <1>1, <1>4 DEF IInv, TypeOK
<1>7. WriterInv'
  BY <1>1, <1>2 DEF WriterInv
<1>8. LogInv'
  <2>1. ~ReadFails(dest') /\ ReadRecs(dest') = dest'.recs
    BY <1>1 DEF ReadFails, ReadRecs
  <2>2. ASSUME NEW k \in 0 .. Len(dest'.recs), k >= dest'.synced
        PROVE  JobsOf(SubSeq(dest'.recs, 1, k)) \in may'
    <3>1. CASE k = Len(s) + 1
      BY <3>1, <1>1, <1>4, <1>5, WholePrefix
    <3>2. CASE k # Len(s) + 1
      <4>1. k \in 0 .. Len(s)
        BY <3>2, <1>1, <1>5
      <4>2. QED
        BY <4>1, <2>2, <1>1, PrefixOfAppend
    <3>3. QED
      BY <3>1, <3>2
  <2>3. QED
    BY <2>1, <2>2, <1>4 DEF LogInv
<1>9. FirstPutInv'
  <2>1. CASE pc' = "syncing"
    BY <2>1, <1>1, <1>2, <1>5 DEF FirstPutInv
  <2>2. CASE pc' = "idle" /\ jobs[r.id] # NoJob
    <3>1. s # << >>
      BY <2>2, <1>2, <1>3, JobsOfEmpty DEF NoJobs
    <3>2. ~(dest.synced <= 0)
      BY <3>1, <1>2 DEF IInv, FirstPutInv, ReadRecs
    <3>3. QED
      BY <2>2, <3>2, <1>1 DEF FirstPutInv
  <2>3. QED
    BY <2>1, <2>2
<1>10. TmpInv'
  BY <1>1 DEF IInv, TmpInv
<1>11. StageInv' /\ ShredInv' /\ DownInv'
  BY <1>1, <1>2 DEF IInv, StageInv, ShredInv, DownInv
<1>12. QED
  BY <1>6, <1>7, <1>8, <1>9, <1>10, <1>11 DEF IInv

\* Outbox::put keeps the invariant.
LEMMA PutIInv ==
    ASSUME IInv, NEW id \in Ids, PutNew(id) \/ PutProgress(id)
    PROVE  IInv'
<1> DEFINE r == [id |-> id, ver |-> ver[id] + 1]
<1>1. ver \in Jobs /\ due \in 0 .. MaxDue /\ garbage \in Nat /\ MaxDue \in Nat /\ MaxVer \in Nat
  BY OutboxAssumption DEF IInv, TypeOK
<1>2. PICK durable \in BOOLEAN :
        Put(id, durable) /\ (durable \/ jobs[id] # NoJob)
  BY DEF PutNew, PutProgress
<1>3. Free /\ due < MaxDue /\ ver[id] < MaxVer
  BY <1>2 DEF Put
<1>4. r \in Recs
  BY <1>1, <1>3 DEF Recs, Jobs
<1>5. ~AppendFails
  BY <1>3, AppendsSucceed
<1>6. AppendOk(r) /\ garbage' \in Nat /\ pc' = IF durable THEN "syncing" ELSE "idle"
  BY <1>1, <1>2, <1>5 DEF Put
<1>7. ver' \in Jobs /\ due' \in 0 .. MaxDue
  BY <1>1, <1>2, <1>3 DEF Put, Jobs
<1>8. jobs' = [jobs EXCEPT ![r.id] = r.ver] /\ may' = may \cup {jobs'} /\ UNCHANGED <<tmp, todo, up>>
  BY <1>2 DEF Put
<1>9. \/ pc' = "idle" /\ jobs[r.id] # NoJob
      \/ pc' = "syncing"
  BY <1>2, <1>6
<1>10. QED
  BY <1>3, <1>4, <1>6, <1>7, <1>8, <1>9, RecordStep

\* Outbox::remove keeps the invariant.
LEMMA RemoveIInv ==
    ASSUME IInv, NEW id \in Ids, Remove(id)
    PROVE  IInv'
<1> DEFINE r == [id |-> id, ver |-> NoJob]
<1>1. ver \in Jobs /\ due \in 0 .. MaxDue /\ garbage \in Nat /\ MaxDue \in Nat /\ MaxVer \in Nat
  BY OutboxAssumption DEF IInv, TypeOK
<1>2. Free /\ due < MaxDue /\ jobs[id] # NoJob
  BY DEF Remove
<1>3. r \in Recs
  BY <1>1 DEF Recs, NoJob
<1>4. AppendOk(r) /\ pc' = "idle"
  BY <1>2, AppendsSucceed DEF Remove, Free
<1>5. garbage' \in Nat /\ ver' \in Jobs /\ due' \in 0 .. MaxDue
  BY <1>1, <1>2 DEF Remove
<1>6. jobs' = [jobs EXCEPT ![r.id] = r.ver] /\ may' = may \cup {jobs'} /\ UNCHANGED <<tmp, todo, up>>
  BY DEF Remove
<1>7. QED
  BY <1>2, <1>3, <1>4, <1>5, <1>6, RecordStep

\* The flush of append_durable keeps the invariant.
LEMMA PutSyncIInv ==
    ASSUME IInv, PutSync
    PROVE  IInv'
<1>1. dest \in LogFiles(Recs) /\ dest' = SyncLog(dest)
  BY DEF IInv, TypeOK, PutSync
<1>2. /\ dest' \in LogFiles(Recs) /\ dest'.hdr = dest.hdr /\ dest'.tail = dest.tail
      /\ dest'.recs = dest.recs /\ dest'.synced = Len(dest.recs)
  BY <1>1, SyncLogFile
<1>3. up /\ pc = "syncing" /\ dest.hdr = "good" /\ Len(dest.recs) > 0
  BY DEF IInv, FirstPutInv, PutSync
<1>4. ~ReadFails(dest) /\ JobsOf(ReadRecs(dest)) = jobs
  BY <1>3 DEF IInv, LogInv
<1>5. /\ UNCHANGED <<tmp, jobs, writer, garbage, todo, due, up, ver>>
      /\ may' = {jobs} /\ pc' = "idle"
  BY DEF PutSync
<1>6. TypeOK'
  BY <1>2, <1>5 DEF IInv, TypeOK
<1>7. LogInv'
  <2>1. ~ReadFails(dest') /\ JobsOf(ReadRecs(dest')) = jobs
    BY <1>2, <1>4 DEF ReadFails, ReadRecs
  <2>2. dest.recs \in Seq(Recs) /\ Len(dest.recs) \in Nat
    BY <1>1, LogFileFields
  <2>3. JobsOf(SubSeq(dest.recs, 1, Len(dest.recs))) = jobs
    BY <2>2, <1>3, <1>4, WholePrefix DEF ReadRecs
  <2>4. QED
    BY <2>1, <2>2, <2>3, <1>2, <1>5 DEF LogInv
<1>8. WriterInv' /\ StageInv' /\ ShredInv' /\ DownInv'
  BY <1>2, <1>3, <1>5 DEF IInv, WriterInv, StageInv, ShredInv, DownInv
<1>9. FirstPutInv' /\ TmpInv'
  BY <1>2, <1>3, <1>5 DEF FirstPutInv, TmpInv
<1>10. QED
  BY <1>6, <1>7, <1>8, <1>9 DEF IInv

\* A rewrite starts with an empty staged copy and every live job to stage.
LEMMA BeginStep ==
    ASSUME TypeOK', LogInv', FirstPutInv', ShredInv', up',
           RewriteBegin(Live(jobs'))
    PROVE  IInv'
<1>1. /\ writer' = "none" /\ tmp' = CreateFile /\ todo' = Live(jobs') /\ pc' = "staging"
      /\ jobs' \in Jobs
  BY DEF RewriteBegin, TypeOK
<1>2. JobsOf(tmp'.recs) = NoJobs /\ tmp'.recs = << >> /\ tmp'.hdr = "good" /\ tmp'.tail = "none"
  BY <1>1, JobsOfEmpty DEF CreateFile
<1>3. NoJobs = [id \in Ids |-> IF id \in todo' THEN NoJob ELSE jobs'[id]]
  BY <1>1 DEF NoJobs, Live
<1>4. StageInv'
  BY <1>1, <1>2, <1>3 DEF StageInv
<1>5. WriterInv' /\ TmpInv' /\ DownInv'
  BY <1>1, <1>2 DEF WriterInv, TmpInv, DownInv
<1>6. QED
  BY <1>4, <1>5 DEF IInv

\* compact_if_needed and shred_dead keep the invariant, rewriting or not.
LEMMA CompactIInv ==
    ASSUME IInv, CompactIfNeeded \/ ShredDead
    PROVE  IInv'
<1>a. due \in 0 .. MaxDue /\ MaxDue \in Nat
  BY OutboxAssumption DEF IInv, TypeOK
<1>b. due' = due \/ (due > 0 /\ due' = due - 1)
  BY DEF CompactIfNeeded, ShredDead
<1>1. /\ UNCHANGED <<dest, jobs, garbage, up, ver, may>> /\ due' \in 0 .. MaxDue
      /\ up /\ pc = "idle"
  BY <1>a, <1>b DEF CompactIfNeeded, ShredDead, Free
<1>2. CASE RewriteBegin(Live(jobs))
  <2>1. TypeOK'
    BY <1>1, <1>2, FixedFiles DEF IInv, TypeOK, RewriteBegin, Live
  <2>2. LogInv' /\ FirstPutInv' /\ ShredInv'
    BY <1>1, <1>2 DEF IInv, LogInv, FirstPutInv, ShredInv, RewriteBegin
  <2>3. QED
    BY <1>1, <1>2, <2>1, <2>2, BeginStep
<1>3. CASE UNCHANGED <<writer, tmp, todo, pc>>
  BY <1>1, <1>3 DEF IInv, TypeOK, WriterInv, LogInv, FirstPutInv, TmpInv, StageInv, ShredInv,
                    DownInv
<1>4. QED
  BY <1>2, <1>3 DEF CompactIfNeeded, ShredDead

\* Staging a live job keeps the invariant.
LEMMA StageIInv ==
    ASSUME IInv, NEW id \in Ids, RewriteStage(id)
    PROVE  IInv'
<1> DEFINE r == [id |-> id, ver |-> jobs[id]]
<1>1. /\ up /\ pc = "staging" /\ id \in todo /\ tmp' = AppendRec(tmp, r) /\ todo' = todo \ {id}
      /\ UNCHANGED <<dest, jobs, writer, garbage, pc, due, up, ver, may>>
  BY DEF RewriteStage
<1>2. /\ tmp \in LogFiles(Recs) /\ tmp.hdr = "good" /\ tmp.tail = "none" /\ jobs \in Jobs
      /\ todo \subseteq Live(jobs) /\ todo \subseteq Ids
      /\ JobsOf(tmp.recs) = [i \in Ids |-> IF i \in todo THEN NoJob ELSE jobs[i]]
  BY <1>1 DEF IInv, TypeOK, StageInv
<1>3. r \in Recs /\ jobs[id] # NoJob
  BY <1>1, <1>2 DEF Recs, Jobs, Live
<1>4. /\ tmp' \in LogFiles(Recs) /\ tmp'.hdr = "good" /\ tmp'.tail = "none"
      /\ tmp'.recs = Append(tmp.recs, r) /\ tmp.recs \in Seq(Recs)
  BY <1>1, <1>2, <1>3, AppendRecFile, LogFileFields
<1>5. JobsOf(tmp'.recs) = [i \in Ids |-> IF i \in todo' THEN NoJob ELSE jobs[i]]
  <2>1. JobsOf(tmp'.recs) = [JobsOf(tmp.recs) EXCEPT ![id] = jobs[id]]
    BY <1>3, <1>4, JobsOfAppend
  <2>2. QED
    BY <2>1, <1>1, <1>2
<1>6. TypeOK'
  BY <1>1, <1>2, <1>4 DEF IInv, TypeOK
<1>7. StageInv'
  BY <1>1, <1>2, <1>4, <1>5 DEF StageInv
<1>8. TmpInv'
  <2>1. JobsOf(ReadRecs(dest)) # NoJobs
    BY <1>1, <1>3 DEF IInv, LogInv, NoJobs
  <2>2. dest.recs # << >>
    BY <2>1, JobsOfEmpty DEF ReadRecs
  <2>3. ~(dest.synced <= 0)
    BY <2>2, <1>1 DEF IInv, FirstPutInv
  <2>4. QED
    BY <2>3, <1>1 DEF TmpInv
<1>9. WriterInv' /\ LogInv' /\ FirstPutInv' /\ ShredInv' /\ DownInv'
  BY <1>1 DEF IInv, WriterInv, LogInv, FirstPutInv, ShredInv, DownInv
<1>10. QED
  BY <1>6, <1>7, <1>8, <1>9 DEF IInv

\* LogRewrite::finish keeps the invariant.
LEMMA FinishIInv ==
    ASSUME IInv, RewriteFinish
    PROVE  IInv'
<1>1. /\ up /\ pc = "staging" /\ todo = {} /\ tmp' = SyncLog(tmp) /\ pc' = "staged"
      /\ UNCHANGED <<dest, jobs, writer, garbage, todo, due, up, ver, may>>
      /\ tmp \in LogFiles(Recs)
  BY DEF IInv, TypeOK, RewriteFinish
<1>2. /\ tmp' \in LogFiles(Recs) /\ tmp'.hdr = tmp.hdr /\ tmp'.tail = tmp.tail
      /\ tmp'.recs = tmp.recs /\ tmp'.synced = Len(tmp.recs)
  BY <1>1, SyncLogFile
<1>3. TypeOK'
  BY <1>1, <1>2 DEF IInv, TypeOK
<1>4. StageInv' /\ TmpInv'
  BY <1>1, <1>2 DEF IInv, StageInv, TmpInv
<1>5. WriterInv' /\ LogInv' /\ FirstPutInv' /\ ShredInv' /\ DownInv'
  BY <1>1 DEF IInv, WriterInv, LogInv, FirstPutInv, ShredInv, DownInv
<1>6. QED
  BY <1>3, <1>4, <1>5 DEF IInv

\* Overwriting the old log keeps the invariant: its replacement is on disk.
LEMMA OverwriteIInv ==
    ASSUME IInv, RewriteOverwrite
    PROVE  IInv'
<1>1. /\ up /\ pc = "staged" /\ dest' = OverwriteAfter(dest) /\ pc' = "shredded"
      /\ UNCHANGED <<tmp, jobs, writer, garbage, todo, due, up, ver, may>>
      /\ dest \in LogFiles(Recs) /\ jobs \in may
      /\ ~ReadFails(dest) /\ JobsOf(ReadRecs(dest)) = jobs
  BY DEF IInv, TypeOK, LogInv, RewriteOverwrite
<1>2. /\ dest' \in LogFiles(Recs)
      /\ dest.hdr # "good" => dest' = dest
      /\ dest.hdr = "good" => /\ dest'.hdr = "resalted" /\ dest'.recs = dest.recs
                              /\ dest'.tail = dest.tail /\ dest'.synced = Len(dest.recs)
  BY <1>1, OverwriteFile
<1>3. dest.recs \in Seq(Recs) /\ Len(dest.recs) \in Nat /\ dest.synced \in Int /\ dest.synced <= Len(dest.recs)
  BY <1>1, LogFileFields
<1>4. TypeOK'
  BY <1>1, <1>2 DEF IInv, TypeOK
<1>5. ShredInv'
  <2>1. ~ReadFails(dest') => jobs = NoJobs
    <3>1. CASE dest.hdr # "good"
      BY <3>1, <1>1, JobsOfEmpty DEF ReadRecs
    <3>2. CASE dest.hdr = "good"
      BY <3>2, <1>1, <1>2, JobsOfEmpty DEF ReadRecs, ReadFails
    <3>3. QED
      BY <3>1, <3>2
  <2>2. QED
    BY <2>1, <1>1, <1>2 DEF IInv, ShredInv
<1>6. dest'.synced <= 0 => dest.synced <= 0
  BY <1>2, <1>3
<1>7. dest'.recs = dest.recs
  BY <1>2
<1>8. FirstPutInv' /\ TmpInv'
  BY <1>1, <1>6, <1>7 DEF IInv, FirstPutInv, TmpInv
<1>9. WriterInv' /\ LogInv' /\ StageInv' /\ DownInv'
  BY <1>1, <1>2 DEF IInv, WriterInv, LogInv, StageInv, DownInv
<1>10. QED
  BY <1>4, <1>5, <1>8, <1>9 DEF IInv

\* Renaming the replacement over the log keeps the invariant.
LEMMA RenameIInv ==
    ASSUME IInv, RewriteRename
    PROVE  IInv'
<1>1. /\ up /\ pc = "shredded" /\ dest' = tmp /\ tmp' = NoFile /\ garbage' = 0 /\ pc' = "idle"
      /\ may' = {jobs} /\ UNCHANGED <<jobs, todo, due, up, ver>>
      /\ writer = "none" /\ writer' = "none"
  BY DEF IInv, TypeOK, WriterInv, RewriteRename
<1>2. /\ tmp \in LogFiles(Recs) /\ tmp.hdr = "good" /\ tmp.tail = "none" /\ todo = {}
      /\ tmp.synced = Len(tmp.recs) /\ jobs \in Jobs
      /\ JobsOf(tmp.recs) = [id \in Ids |-> IF id \in todo THEN NoJob ELSE jobs[id]]
  BY <1>1 DEF IInv, TypeOK, StageInv
<1>3. JobsOf(tmp.recs) = jobs
  BY <1>2 DEF Jobs
<1>4. tmp.recs \in Seq(Recs) /\ Len(tmp.recs) \in Nat
  BY <1>2, LogFileFields
<1>5. TypeOK'
  BY <1>1, <1>2, FixedFiles DEF IInv, TypeOK
<1>6. LogInv'
  <2>1. ~ReadFails(tmp) /\ ReadRecs(tmp) = tmp.recs
    BY <1>2 DEF ReadFails, ReadRecs
  <2>2. JobsOf(SubSeq(tmp.recs, 1, Len(tmp.recs))) = jobs
    BY <1>3, <1>4, WholePrefix
  <2>3. QED
    BY <2>1, <2>2, <1>1, <1>2, <1>3, <1>4 DEF LogInv
<1>7. FirstPutInv'
  <2>1. tmp.synced <= 0 => tmp.recs = << >>
    BY <1>2, <1>4
  <2>2. QED
    BY <2>1, <1>1 DEF FirstPutInv
<1>8. WriterInv' /\ TmpInv' /\ StageInv' /\ ShredInv' /\ DownInv'
  BY <1>1, <1>2 DEF WriterInv, TmpInv, StageInv, ShredInv, DownInv, NoFile
<1>9. QED
  BY <1>5, <1>6, <1>7, <1>8 DEF IInv

\* A crash keeps the invariant.
LEMMA CrashIInv ==
    ASSUME IInv, Crash
    PROVE  IInv'
<1>1. /\ up /\ ~up' /\ dest' \in AfterCrash(dest) /\ tmp' \in AfterCrash(tmp)
      /\ jobs' = NoJobs /\ writer' = "none" /\ garbage' = 0
      /\ pc' = "idle" /\ todo' = {} /\ due' = 0 /\ UNCHANGED <<ver, may>>
      /\ dest \in LogFiles(Recs) /\ tmp \in LogFiles(Recs)
  BY DEF Crash, IInv, TypeOK
<1>2. dest' \in LogFiles(Recs) /\ tmp' \in LogFiles(Recs)
  BY <1>1, CrashOutcome
<1>a. due' \in 0 .. MaxDue /\ garbage' \in Nat
  BY <1>1, OutboxAssumption
<1>b. up' \in BOOLEAN
  BY Zenon DEF Crash
<1>3. TypeOK'
  BY <1>1, <1>2, <1>a, <1>b, NoJobsType DEF IInv, TypeOK
<1>4. /\ dest'.hdr \in {"good", "resalted"} => dest'.synced = Len(dest'.recs)
      /\ tmp'.hdr \in {"good", "resalted"} => tmp'.synced = Len(tmp'.recs)
      /\ tmp'.hdr # "resalted"
  BY <1>1, CrashOutcome DEF IInv, StageInv
<1>5. dest'.synced <= 0 => dest'.recs = << >>
  <2>1. dest'.hdr \in Headers /\ dest'.recs \in Seq(Recs) /\ Len(dest'.recs) \in Nat
        /\ (dest'.hdr \in {"missing", "empty", "partial"} => dest'.recs = << >>)
    BY <1>2, LogFileFields
  <2>2. QED
    BY <2>1, <1>4 DEF Headers
<1>6. TmpInv'
  <2>1. dest'.synced <= 0 => dest.synced <= 0
    <3>1. dest.synced \in Int
      BY <1>1, LogFileFields
    <3>2. QED
      BY <1>1, <3>1, CrashOutcome
  <2>2. tmp.recs = << >> => tmp'.recs = << >>
    <3>1. SubSeq(<< >>, 1, 0) = << >> /\ Len(<< >>) = 0
      OBVIOUS
    <3>2. QED
      BY <1>1, <3>1, CrashOutcome
  <2>3. QED
    BY <2>1, <2>2 DEF IInv, TmpInv
<1>7. DownInv'
  <2>1. Recovered(dest', tmp') \in may'
    BY <1>1, Recovers
  <2>2. ASSUME dest'.hdr = "resalted", ReadFails(dest')
        PROVE  StagedComplete(tmp')
    <3>1. dest.hdr = "resalted" /\ dest.synced = Len(dest.recs)
      BY <2>2, <1>1, CrashOutcome DEF IInv, ShredInv
    <3>2. dest.recs \in Seq(Recs) /\ Len(dest.recs) \in Nat
      BY <1>1, LogFileFields
    <3>3. dest'.recs = dest.recs /\ dest'.tail = dest.tail
      BY <2>2, <3>1, <3>2, <1>1, CrashOutcome, WholePrefix
    <3>4. ReadFails(dest)
      BY <2>2, <3>1, <3>3 DEF ReadFails
    <3>5. pc = "shredded"
      BY <3>4, <1>1 DEF IInv, LogInv
    <3>6. tmp.hdr = "good" /\ tmp.tail = "none" /\ tmp.synced = Len(tmp.recs)
      BY <3>5 DEF IInv, StageInv
    <3>7. tmp.recs \in Seq(Recs) /\ Len(tmp.recs) \in Nat
      BY <1>1, LogFileFields
    <3>8. tmp'.hdr = "good" /\ tmp'.tail = "none"
      BY <3>6, <3>7, <1>1, CrashOutcome
    <3>9. QED
      BY <3>8 DEF StagedComplete, ReadFails, ReadTorn
  <2>3. QED
    BY <2>1, <2>2, <1>4 DEF DownInv
<1>8. WriterInv' /\ LogInv' /\ FirstPutInv' /\ StageInv' /\ ShredInv'
  BY <1>1, <1>4, <1>5 DEF WriterInv, LogInv, FirstPutInv, StageInv, ShredInv
<1>9. QED
  BY <1>3, <1>6, <1>7, <1>8 DEF IInv

\* Outbox::open keeps the invariant: read, adopt or set aside, then compact.
LEMMA OpenIInv ==
    ASSUME IInv, Open
    PROVE  IInv'
<1>1. /\ ~up /\ up' = TRUE /\ jobs' = Recovered(dest, tmp) /\ may' = {jobs'}
      /\ UNCHANGED <<due, ver>>
      /\ dest \in LogFiles(Recs) /\ tmp \in LogFiles(Recs) /\ may \subseteq Jobs
  BY DEF Open, IInv, TypeOK
<1>2. jobs' \in Jobs
  BY <1>1 DEF IInv, DownInv
<1>3. pc = "idle" /\ writer = "none"
  BY <1>1 DEF IInv, TypeOK, WriterInv, FirstPutInv, StageInv
<1>4. /\ dest' \in LogFiles(Recs) /\ ~ReadFails(dest') /\ JobsOf(ReadRecs(dest')) = jobs'
      /\ dest'.hdr \in {"good", "resalted"} => dest'.synced = Len(dest'.recs)
      /\ dest'.synced <= 0 /\ ~Adopts => tmp.recs = << >>
  <2>1. CASE ~ReadFails(dest)
    BY <2>1, <1>1 DEF Open, Recovered, IInv, DownInv, ShredInv, TmpInv
  <2>2. CASE Adopts
    <3>1. dest' = tmp /\ ReadFails(dest) /\ StagedComplete(tmp)
      BY <2>2 DEF Open, Adopts
    <3>2. QED
      BY <2>2, <3>1, <1>1 DEF Recovered, StagedComplete, IInv, DownInv, StageInv
  <2>3. CASE ReadFails(dest) /\ ~Adopts
    <3>1. dest' = NoFile /\ ~StagedComplete(tmp) /\ jobs' = NoJobs
      BY <2>3, <1>1 DEF Open, Adopts, Recovered
    <3>2. dest.synced <= 0
      <4>1. CASE dest.hdr = "partial"
        <5>1. dest.recs = << >> /\ dest.synced <= Len(dest.recs)
          BY <4>1, <1>1, LogFileFields
        <5>2. QED
          BY <5>1
      <4>2. CASE dest.hdr = "good" /\ dest.recs = << >>
        BY <4>2, <1>1 DEF IInv, DownInv
      <4>3. CASE dest.hdr = "resalted"
        BY <4>3, <2>3, <3>1, <1>1 DEF IInv, DownInv
      <4>4. QED
        BY <4>1, <4>2, <4>3, <2>3 DEF ReadFails
    <3>3. ~ReadFails(NoFile) /\ JobsOf(ReadRecs(NoFile)) = NoJobs /\ NoFile.hdr = "missing"
      BY JobsOfEmpty DEF NoFile, ReadFails, ReadRecs
    <3>4. QED
      BY <3>1, <3>2, <3>3, FixedFiles DEF IInv, TmpInv
  <2>4. QED
    BY <2>1, <2>2, <2>3
<1>5. /\ dest'.recs \in Seq(Recs) /\ Len(dest'.recs) \in Nat /\ dest'.hdr \in Headers
      /\ dest'.hdr \in {"missing", "empty", "partial"} => dest'.recs = << >>
  BY <1>4, LogFileFields
<1>6. LogInv' /\ FirstPutInv' /\ ShredInv'
  <2>1. JobsOf(SubSeq(dest'.recs, 1, Len(dest'.recs))) = JobsOf(dest'.recs)
    BY <1>5, WholePrefix
  <2>2. pc' \in {"idle", "staging"}
    BY <1>3 DEF Open, RewriteBegin
  <2>3. dest'.hdr = "good" => \A k \in 0 .. Len(dest'.recs) :
            k >= dest'.synced => JobsOf(SubSeq(dest'.recs, 1, k)) \in may'
    BY <2>1, <1>1, <1>4, <1>5 DEF ReadRecs
  <2>4. LogInv'
    BY <2>2, <2>3, <1>1, <1>4 DEF LogInv
  <2>5. dest'.synced <= 0 => dest'.recs = << >>
    BY <1>4, <1>5 DEF Headers
  <2>6. QED
    BY <2>2, <2>4, <2>5, <1>4 DEF FirstPutInv, ShredInv
<1>7. /\ garbage' \in Nat /\ may' \subseteq Jobs /\ up' \in BOOLEAN
      /\ due' \in 0 .. MaxDue /\ ver' \in Jobs
  <2>1. garbage' > 0 \/ garbage' = 0
    BY DEF Open
  <2>2. garbage' \in Int
    <3>1. Live(jobs') \in SUBSET Ids
      BY DEF Live
    <3>2. Cardinality(Live(jobs')) \in Nat
      BY <3>1, OutboxAssumption, FS_Subset, FS_CardinalityType
    <3>3. Len(ReadRecs(dest')) \in Nat
      BY <1>5 DEF ReadRecs
    <3>4. garbage' = Len(ReadRecs(dest')) - Cardinality(Live(jobs'))
      BY DEF Open
    <3>5. QED
      BY <3>2, <3>3, <3>4
  <2>3. QED
    BY <2>1, <2>2, <1>1, <1>2 DEF IInv, TypeOK
<1>8. CASE RewriteBegin(Live(jobs'))
  <2>1. TypeOK'
    BY <1>2, <1>4, <1>7, <1>8, FixedFiles DEF TypeOK, RewriteBegin, Live
  <2>2. QED
    BY <1>1, <1>6, <1>8, <2>1, BeginStep
<1>9. CASE tmp' = (IF Adopts THEN NoFile ELSE tmp) /\ UNCHANGED <<writer, todo, pc>>
  <2>1. tmp' \in LogFiles(Recs)
    BY <1>1, <1>9, FixedFiles
  <2>2. TypeOK'
    BY <1>2, <1>4, <1>7, <1>9, <2>1 DEF IInv, TypeOK
  <2>3. TmpInv'
    BY <1>4, <1>9 DEF TmpInv, NoFile
  <2>4. WriterInv' /\ StageInv' /\ DownInv'
    BY <1>1, <1>3, <1>9 DEF IInv, WriterInv, StageInv, DownInv, NoFile
  <2>5. QED
    BY <1>6, <2>2, <2>3, <2>4 DEF IInv
<1>10. QED
  BY <1>8, <1>9 DEF Open

\* A step that changes nothing keeps the invariant.
LEMMA StutterIInv == IInv /\ UNCHANGED vars => IInv'
  BY DEF vars, IInv, TypeOK, WriterInv, LogInv, FirstPutInv, TmpInv, StageInv, ShredInv, DownInv

\* Every step keeps the invariant.
LEMMA NextIInv == IInv /\ [Next]_vars => IInv'
<1> SUFFICES ASSUME IInv, [Next]_vars PROVE IInv'
  OBVIOUS
<1>1. CASE \E id \in Ids : PutNew(id) \/ PutProgress(id)
  BY <1>1, PutIInv
<1>2. CASE \E id \in Ids : Remove(id)
  BY <1>2, RemoveIInv
<1>3. CASE \E id \in Ids : RewriteStage(id)
  BY <1>3, StageIInv
<1>4. CASE PutSync
  BY <1>4, PutSyncIInv
<1>5. CASE RewriteFinish
  BY <1>5, FinishIInv
<1>6. CASE RewriteOverwrite
  BY <1>6, OverwriteIInv
<1>7. CASE RewriteRename
  BY <1>7, RenameIInv
<1>8. CASE CompactIfNeeded \/ ShredDead
  BY <1>8, CompactIInv
<1>9. CASE Crash
  BY <1>9, CrashIInv
<1>10. CASE Open
  BY <1>10, OpenIInv
<1>11. CASE UNCHANGED vars
  BY <1>11, StutterIInv
<1>12. QED
  BY <1>1, <1>2, <1>3, <1>4, <1>5, <1>6, <1>7, <1>8, <1>9, <1>10, <1>11 DEF Next

\* Every reachable state of the queue is well typed; in particular Inner::garbage,
\* computed by open as a difference, never goes below zero.
THEOREM TypeCorrect == Spec => []TypeOK
<1>1. Init => IInv
  BY InitIInv
<1>2. IInv /\ [Next]_vars => IInv'
  BY NextIInv
<1>3. IInv => TypeOK
  BY DEF IInv
<1>4. QED
  BY <1>1, <1>2, <1>3, PTL DEF Spec

\* Whatever a crash at any point of a put, removal, compaction or shred leaves on
\* disk, Outbox::open recovers a state the queue passed through since its last
\* flush.
THEOREM RecoveryIsSound == Spec => []RecoverySound
<1>1. Init => IInv
  BY InitIInv
<1>2. IInv /\ [Next]_vars => IInv'
  BY NextIInv
<1>3. IInv => RecoverySound
  BY IInvImpliesSound
<1>4. QED
  BY <1>1, <1>2, <1>3, PTL DEF Spec

-----------------------------------------------------------------------------
(* The queue implements RecoverableMap                                     *)

\* The send queue with its two files implements the map of RecoverableMap: a put
\* that returned durable is never lost, a flushed removal never undone.
THEOREM OutboxIsRecoverable == Spec => Recoverable
<1>1. Init => Promise!Init
  BY DEF Init, Promise!Init, Promise!EmptyMap, NoJobs
<1>2. IInv /\ [Next]_vars => [Promise!Next]_(Promise!mapVars)
  <2> SUFFICES ASSUME IInv, [Next]_vars
               PROVE  Promise!Next \/ UNCHANGED <<jobs, may, up>>
    BY DEF Promise!mapVars
  <2>1. ASSUME NEW id \in Ids, PutNew(id) \/ PutProgress(id)
        PROVE  Promise!Write(id)
    <3>1. PICK durable \in BOOLEAN : Put(id, durable)
      BY <2>1 DEF PutNew, PutProgress
    <3>2. ver[id] + 1 \in Versions
      BY <3>1, OutboxAssumption DEF Put, Versions, IInv, TypeOK, Jobs
    <3>3. QED
      BY <3>1, <3>2 DEF Put, Promise!Write, Free
  <2>2. ASSUME NEW id \in Ids, Remove(id)
        PROVE  Promise!Write(id)
    BY <2>2 DEF Remove, Promise!Write, Free
  <2>3. CASE PutSync
    BY <2>3 DEF PutSync, Promise!Next, Promise!Flush
  <2>4. CASE RewriteRename
    BY <2>4 DEF RewriteRename, Promise!Next, Promise!Flush
  <2>5. CASE Crash
    BY <2>5 DEF Crash, Promise!Next, Promise!Crash, Promise!EmptyMap, NoJobs
  <2>6. CASE Open
    <3>1. jobs' \in may
      BY <2>6 DEF Open, IInv, DownInv
    <3>2. QED
      BY <2>6, <3>1 DEF Open, Promise!Next, Promise!Recover
  <2>7. CASE \/ \E id \in Ids : RewriteStage(id)
             \/ RewriteFinish \/ RewriteOverwrite \/ CompactIfNeeded \/ ShredDead
             \/ UNCHANGED vars
    BY <2>7 DEF RewriteStage, RewriteFinish, RewriteOverwrite, CompactIfNeeded, ShredDead, vars
  <2>8. QED
    BY <2>1, <2>2, <2>3, <2>4, <2>5, <2>6, <2>7 DEF Next, Promise!Next
<1>3. Init => IInv
  BY InitIInv
<1>4. IInv /\ [Next]_vars => IInv'
  BY NextIInv
<1>5. QED
  BY <1>1, <1>2, <1>3, <1>4, PTL DEF Spec, Recoverable, Promise!Spec
=============================================================================
