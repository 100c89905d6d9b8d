----------------------------- MODULE PushOutbox -----------------------------
(***************************************************************************)
(* The send queue that survives a restart: push/outbox.rs on top of the    *)
(* encrypted log.  The value of a job is a version number: each put of the *)
(* job stores the next one.  A Del record carries NoJob, so replaying the  *)
(* log binds each id to the value of its last record.                      *)
(***************************************************************************)
EXTENDS StateLog, FiniteSets

CONSTANTS Ids,      \* transfer ids
          MaxVer,   \* bound: puts per job
          MaxDue,   \* bound: threads between an append and its compaction check
          Slack     \* the 256 of compact_if_needed

ASSUME OutboxAssumption ==
    /\ IsFiniteSet(Ids)
    /\ MaxVer \in Nat \ {0} /\ MaxDue \in Nat \ {0} /\ Slack \in Nat

NoJob == 0
Versions == 1 .. MaxVer
Jobs == [Ids -> 0 .. MaxVer]
NoJobs == [id \in Ids |-> NoJob]
Recs == [id : Ids, ver : 0 .. MaxVer]

VARIABLES
    dest,     \* the log file
    tmp,      \* the staged replacement
    jobs,     \* Inner::jobs, NoJob when absent
    writer,   \* Inner::writer: "none", "dest", or "old" (a replaced file)
    garbage,  \* Inner::garbage
    pc,       \* what the holder of the mutex is doing
    todo,     \* rewrite_live: jobs not staged yet
    due,      \* threads that still have to call compact_if_needed(false)
    up,       \* the process runs
    ver,      \* the last version each job was put with (0: never queued)
    may       \* ghost: the maps a crash now may leave (RecoverableMap)

fileVars == <<dest, tmp>>
memVars == <<jobs, writer, garbage, pc, todo, due>>
vars == <<dest, tmp, jobs, writer, garbage, pc, todo, due, up, ver, may>>

-----------------------------------------------------------------------------
(* Helpers                                                                 *)

Live(j) == {id \in Ids : j[id] # NoJob}

\* The fold of Outbox::open over the records.
Positions(recs, id) == {i \in 1 .. Len(recs) : recs[i].id = id}
LastPosition(recs, id) ==
    CHOOSE i \in Positions(recs, id) : \A j \in Positions(recs, id) : j <= i
JobsOf(recs) ==
    [id \in Ids |-> IF Positions(recs, id) = {} THEN NoJob
                    ELSE recs[LastPosition(recs, id)].ver]

\* What Outbox::open finds in a pair of files.
Recovered(d, t) ==
    IF ~ReadFails(d) THEN JobsOf(ReadRecs(d))
    ELSE IF StagedComplete(t) THEN JobsOf(ReadRecs(t))
    ELSE NoJobs

-----------------------------------------------------------------------------
Init ==
    /\ dest = NoFile /\ tmp = NoFile
    /\ jobs = NoJobs /\ writer = "none" /\ garbage = 0
    /\ pc = "idle" /\ todo = {} /\ due = 0
    /\ up = TRUE
    /\ ver = [id \in Ids |-> 0]
    /\ may = {NoJobs}

\* The mutex is free and the process runs.
Free == up /\ pc = "idle"

\* Outbox::append: opens the log when no writer is held.
AppendFails == writer = "none" /\ OpenAppendFails(dest)
AppendOk(r) ==
    /\ ~AppendFails
    /\ dest' = CASE writer = "none" -> AppendRec(OpenAppend(dest), r)
                 [] writer = "dest" -> AppendRec(dest, r)
                 [] writer = "old"  -> dest
    /\ writer' = IF writer = "none" THEN "dest" ELSE writer

\* Outbox::put up to the flush: a job whose record cannot be written is kept in
\* memory.
Put(id, durable) ==
    /\ Free /\ due < MaxDue
    /\ ver[id] < MaxVer
    /\ ver' = [ver EXCEPT ![id] = @ + 1]
    /\ jobs' = [jobs EXCEPT ![id] = ver[id] + 1]
    /\ may' = may \cup {jobs'}
    /\ \/ /\ AppendOk([id |-> id, ver |-> ver[id] + 1])
          /\ garbage' = IF jobs[id] # NoJob THEN garbage + 1 ELSE garbage
          /\ pc' = IF durable THEN "syncing" ELSE "idle"
       \/ /\ AppendFails
          /\ UNCHANGED <<dest, writer, garbage, pc>>
    /\ due' = due + 1
    /\ UNCHANGED <<tmp, todo, up>>

\* queue_send stores a new job durably; run_job stores the state of a job that
\* is still queued without waiting for the disk.
PutNew(id) == ver[id] = 0 /\ Put(id, TRUE)
PutProgress(id) == jobs[id] # NoJob /\ Put(id, FALSE)

\* The sync of append_durable.
PutSync ==
    /\ up /\ pc = "syncing"
    /\ dest' = SyncLog(dest)
    /\ may' = {jobs}
    /\ pc' = "idle"
    /\ UNCHANGED <<tmp, jobs, writer, garbage, todo, due, up, ver>>

\* Mutated Remove: counts the Del record but not the Put it kills.
RemoveCountsOne(id) ==
    /\ Free /\ due < MaxDue
    /\ jobs[id] # NoJob
    /\ jobs' = [jobs EXCEPT ![id] = NoJob]
    /\ may' = may \cup {jobs'}
    /\ AppendOk([id |-> id, ver |-> NoJob])
    /\ garbage' = garbage + 1
    /\ due' = due + 1
    /\ UNCHANGED <<tmp, pc, todo, up, ver>>

Remove(id) ==
    /\ Free /\ due < MaxDue
    /\ jobs[id] # NoJob
    /\ jobs' = [jobs EXCEPT ![id] = NoJob]
    /\ may' = may \cup {jobs'}
    /\ \/ AppendOk([id |-> id, ver |-> NoJob])
       \/ AppendFails /\ UNCHANGED <<dest, writer>>
    /\ garbage' = garbage + 2
    /\ due' = due + 1
    /\ UNCHANGED <<tmp, pc, todo, up, ver>>

-----------------------------------------------------------------------------
(* rewrite_live, a step per file operation                                 *)

\* Mutated RewriteBegin: the writer on the old log is kept.
RewriteKeepsWriter(live) ==
    /\ writer' = writer
    /\ tmp' = CreateFile
    /\ todo' = live
    /\ pc' = "staging"

\* LogRewrite::begin; the caller has dropped the writer.
RewriteBegin(live) ==
    /\ writer' = "none"
    /\ tmp' = CreateFile
    /\ todo' = live
    /\ pc' = "staging"

RewriteStage(id) ==
    /\ up /\ pc = "staging"
    /\ id \in todo
    /\ tmp' = AppendRec(tmp, [id |-> id, ver |-> jobs[id]])
    /\ todo' = todo \ {id}
    /\ UNCHANGED <<dest, jobs, writer, garbage, pc, due, up, ver, may>>

\* Mutated RewriteFinish: the staged copy is not flushed before the overwrite.
RewriteFinishUnsynced ==
    /\ up /\ pc = "staging" /\ todo = {}
    /\ tmp' = tmp
    /\ pc' = "staged"
    /\ UNCHANGED <<dest, jobs, writer, garbage, todo, due, up, ver, may>>

\* LogRewrite::finish: the staged copy is on disk.
RewriteFinish ==
    /\ up /\ pc = "staging" /\ todo = {}
    /\ tmp' = SyncLog(tmp)
    /\ pc' = "staged"
    /\ UNCHANGED <<dest, jobs, writer, garbage, todo, due, up, ver, may>>

RewriteOverwrite ==
    /\ up /\ pc = "staged"
    /\ dest' = OverwriteAfter(dest)
    /\ pc' = "shredded"
    /\ UNCHANGED <<tmp, jobs, writer, garbage, todo, due, up, ver, may>>

\* The rename puts every live job on disk; a handle to the replaced file would
\* write to nowhere from here on.
RewriteRename ==
    /\ up /\ pc = "shredded"
    /\ dest' = tmp /\ tmp' = NoFile
    /\ writer' = IF writer = "dest" THEN "old" ELSE writer
    /\ garbage' = 0
    /\ pc' = "idle"
    /\ may' = {jobs}
    /\ UNCHANGED <<jobs, todo, due, up, ver>>

\* Mutated CompactionNeeded: the limit counts three records per job.
CompactsLate(j, g) == g > 3 * Cardinality(Live(j)) + Slack

CompactionNeeded(j, g) == g > 2 * Cardinality(Live(j)) + Slack

\* Mutated CompactIfNeeded: runs without an operation that asked for it.
CompactUnasked ==
    /\ Free
    /\ due' = due - 1
    /\ UNCHANGED <<writer, tmp, todo, pc>>
    /\ UNCHANGED <<dest, jobs, garbage, up, ver, may>>

\* compact_if_needed(false), called after the mutex was released and taken again.
CompactIfNeeded ==
    /\ Free /\ due > 0
    /\ due' = due - 1
    /\ \/ CompactionNeeded(jobs, garbage) /\ RewriteBegin(Live(jobs))
       \/ ~CompactionNeeded(jobs, garbage) /\ UNCHANGED <<writer, tmp, todo, pc>>
    /\ UNCHANGED <<dest, jobs, garbage, up, ver, may>>

\* shred_dead returns early when there is nothing to rewrite.
ShredDead ==
    /\ Free
    /\ garbage # 0 \/ dest.hdr # "missing"
    /\ RewriteBegin(Live(jobs))
    /\ UNCHANGED <<dest, jobs, garbage, due, up, ver, may>>

-----------------------------------------------------------------------------
(* Crash and Outbox::open                                                  *)

Crash ==
    /\ up
    /\ up' = FALSE
    /\ dest' \in AfterCrash(dest)
    /\ tmp' \in AfterCrash(tmp)
    /\ jobs' = NoJobs /\ writer' = "none" /\ garbage' = 0
    /\ pc' = "idle" /\ todo' = {} /\ due' = 0
    /\ UNCHANGED <<ver, may>>

\* adopt_staged_log takes the place of a log that does not read.
Adopts == ReadFails(dest) /\ StagedComplete(tmp)

\* Reads the log, adopts the staged copy or moves an unreadable log aside, and
\* compacts when any record is dead.  The fold counts a record as garbage unless
\* it is the Put that bound a live job.
Open ==
    /\ ~up
    /\ up' = TRUE
    /\ jobs' = Recovered(dest, tmp)
    /\ may' = {jobs'}
    /\ dest' = IF ~ReadFails(dest) THEN dest ELSE IF Adopts THEN tmp ELSE NoFile
    /\ garbage' = Len(ReadRecs(dest')) - Cardinality(Live(jobs'))
    /\ \/ garbage' > 0 /\ RewriteBegin(Live(jobs'))
       \/ /\ garbage' = 0
          /\ tmp' = IF Adopts THEN NoFile ELSE tmp
          /\ UNCHANGED <<writer, todo, pc>>
    /\ UNCHANGED <<due, ver>>

Next ==
    \/ \E id \in Ids : PutNew(id) \/ PutProgress(id) \/ Remove(id) \/ RewriteStage(id)
    \/ PutSync \/ RewriteFinish \/ RewriteOverwrite \/ RewriteRename
    \/ CompactIfNeeded \/ ShredDead
    \/ Crash \/ Open

Spec == Init /\ [][Next]_vars

-----------------------------------------------------------------------------
(* Properties                                                              *)

\* The types of the variables; the number of pending compaction checks never
\* goes below zero.
TypeOK ==
    /\ dest \in LogFiles(Recs) /\ tmp \in LogFiles(Recs)
    /\ jobs \in Jobs /\ ver \in Jobs
    /\ writer \in {"none", "dest", "old"}
    /\ garbage \in Nat /\ due \in 0 .. MaxDue
    /\ pc \in {"idle", "syncing", "staging", "staged", "shredded"}
    /\ todo \subseteq Ids
    /\ up \in BOOLEAN
    /\ may \subseteq Jobs

\* Whatever a crash leaves of the log and of the staged copy, at any point of a
\* put, a removal, a compaction or a shred, Outbox::open folds it into a state
\* the queue passed through since its last flush: no durable job is lost, none
\* comes back after its removal was flushed, no older version replaces a newer
\* durable one, and no half-rewritten log is taken for a whole one.
RecoverySound ==
    IF up THEN \A d \in AfterCrash(dest), t \in AfterCrash(tmp) : Recovered(d, t) \in may
          ELSE Recovered(dest, tmp) \in may

\* Inner::garbage counts "records in the log that no longer matter": with the
\* live jobs it accounts for every record, through compactions and restarts.
GarbageExact ==
    up /\ pc \in {"idle", "syncing", "staging"}
      => Len(ReadRecs(dest)) = garbage + Cardinality(Live(jobs))

\* Once every thread has made its compaction check the log is at most three
\* records per live job plus the slack, however the threads interleaved.
LogBounded ==
    Free /\ due = 0 => Len(ReadRecs(dest)) <= 3 * Cardinality(Live(jobs)) + Slack

\* The queue is a map that recovers to a state since its last flush.
Promise == INSTANCE RecoverableMap
    WITH Keys <- Ids, Values <- Versions, None <- NoJob, mem <- jobs
Recoverable == Promise!Spec

-----------------------------------------------------------------------------
(* The inductive invariant behind RecoverySound                            *)

\* A writer is held only between rewrites, on the file at the log's own path.
WriterInv ==
    /\ writer # "old"
    /\ writer = "dest" => /\ up /\ pc \in {"idle", "syncing"}
                          /\ dest.hdr = "good" /\ dest.tail = "none"

\* Until the overwrite the log says what memory says, and every prefix a crash
\* could leave of it is a state the queue passed through.
LogInv ==
    up => /\ jobs \in may
          /\ pc # "shredded" => ~ReadFails(dest) /\ JobsOf(ReadRecs(dest)) = jobs
          /\ dest.hdr = "good"
               => \A k \in 0 .. Len(dest.recs) :
                    k >= dest.synced => JobsOf(SubSeq(dest.recs, 1, k)) \in may

\* The first record of a log is a new job, so a log none of whose records is on
\* disk has none, except while that first put waits for its flush.
FirstPutInv ==
    /\ dest.synced <= 0 /\ pc # "syncing" => dest.recs = << >>
    /\ pc = "syncing" => up /\ dest.hdr = "good" /\ Len(dest.recs) > 0

\* A staged copy beside such a log is empty: adopting it changes nothing.
TmpInv == dest.synced <= 0 => tmp.recs = << >>

\* The staged copy holds the live jobs staged so far; from the flush on it is
\* whole and on disk.
StageInv ==
    /\ tmp.hdr # "resalted"
    /\ pc \in {"staging", "staged", "shredded"} =>
         /\ up
         /\ tmp.hdr = "good" /\ tmp.tail = "none"
         /\ JobsOf(tmp.recs) = [id \in Ids |-> IF id \in todo THEN NoJob ELSE jobs[id]]
    /\ pc = "staging" => todo \subseteq Live(jobs)
    /\ pc \in {"staged", "shredded"} => todo = {} /\ tmp.synced = Len(tmp.recs)

\* An overwritten log either fails to read or had nothing to say.
ShredInv ==
    /\ dest.hdr = "resalted" => dest.synced = Len(dest.recs)
    /\ pc = "shredded" => dest.hdr # "good" /\ (~ReadFails(dest) => jobs = NoJobs)

\* After a crash what is on disk stays, and an overwritten log that fails to
\* read has its whole replacement beside it.
DownInv ==
    ~up => /\ Recovered(dest, tmp) \in may
           /\ dest.hdr = "good" => dest.synced = Len(dest.recs)
           /\ tmp.hdr = "good" => tmp.synced = Len(tmp.recs)
           /\ dest.hdr = "resalted" /\ ReadFails(dest) => StagedComplete(tmp)

IInv ==
    /\ TypeOK /\ WriterInv /\ LogInv /\ FirstPutInv /\ TmpInv
    /\ StageInv /\ ShredInv /\ DownInv
=============================================================================
