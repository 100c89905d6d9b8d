---------------------------- MODULE PushOutboxIO ----------------------------
(***************************************************************************)
(* The send queue on a disk whose operations may fail.  An operation that  *)
(* fails is an action of its own: the code carries on with the job in      *)
(* memory only, or gives the rewrite up and keeps its garbage count.       *)
(***************************************************************************)
EXTENDS PushOutbox

VARIABLE sure   \* the version of each job known to be on disk (NoJob: none)

ioVars == <<vars, sure>>

InitIO == Init /\ sure = NoJobs

\* An operation that succeeds, and what it puts on disk for certain.
OkIO ==
    /\ Next
    /\ sure' = CASE PutSync -> JobsOf(dest'.recs)
                 [] RewriteRename \/ Open -> jobs'
                 [] OTHER -> [id \in Ids |-> IF jobs'[id] = NoJob /\ up' THEN NoJob ELSE sure[id]]

-----------------------------------------------------------------------------
(* Writing a record                                                        *)

\* The file as a failed write leaves it: LogWriter::append cuts it back, and
\* that may fail too.
AfterFailedWrite ==
    LET f == IF writer = "none" THEN OpenAppend(dest) ELSE dest
    IN {f, [f EXCEPT !.tail = "short"]}

\* Outbox::put when the write fails: the job is kept in memory.
PutWriteFails(id) ==
    /\ Free /\ due < MaxDue
    /\ ver[id] = 0 \/ jobs[id] # NoJob
    /\ ver[id] < MaxVer
    /\ ~AppendFails
    /\ dest' \in AfterFailedWrite /\ writer' = "none"
    /\ ver' = [ver EXCEPT ![id] = @ + 1]
    /\ jobs' = [jobs EXCEPT ![id] = ver[id] + 1]
    /\ may' = may \cup {jobs'}
    /\ due' = due + 1
    /\ UNCHANGED <<tmp, garbage, pc, todo, up, sure>>

\* append_durable when the flush fails: the record is written, not known to be
\* on disk, and put forgets its writer.
PutSyncFails ==
    /\ up /\ pc = "syncing"
    /\ writer' = "none"
    /\ pc' = "idle"
    /\ UNCHANGED <<dest, tmp, jobs, garbage, todo, due, up, ver, may, sure>>

\* Outbox::remove when the write fails: the result of append is not looked at.
RemoveWriteFails(id) ==
    /\ Free /\ due < MaxDue
    /\ jobs[id] # NoJob
    /\ ~AppendFails
    /\ dest' \in AfterFailedWrite /\ writer' = "none"
    /\ jobs' = [jobs EXCEPT ![id] = NoJob]
    /\ sure' = [sure EXCEPT ![id] = NoJob]
    /\ may' = may \cup {jobs'}
    /\ garbage' = garbage + 2
    /\ due' = due + 1
    /\ UNCHANGED <<tmp, pc, todo, up, ver>>

-----------------------------------------------------------------------------
(* The rewrite                                                             *)

\* begin, append or finish fails: dropping the LogRewrite removes the staged
\* copy, the log is as it was.
RewriteStageFails ==
    /\ up /\ pc = "staging"
    /\ tmp' = NoFile
    /\ pc' = "idle"
    /\ UNCHANGED <<dest, jobs, writer, garbage, todo, due, up, ver, may, sure>>

\* commit_shredding when the overwrite fails part of the way: the staged copy is
\* removed whatever has been overwritten.
OverwriteFails ==
    /\ up /\ pc = "staged"
    /\ dest' \in {dest, OverwriteAfter(dest)}
    /\ tmp' = NoFile
    /\ pc' = "idle"
    /\ UNCHANGED <<jobs, writer, garbage, todo, due, up, ver, may, sure>>

\* commit_shredding when the rename fails: the staged copy stays.
RenameFails ==
    /\ up /\ pc = "shredded"
    /\ pc' = "idle"
    /\ UNCHANGED <<dest, tmp, jobs, writer, garbage, todo, due, up, ver, may, sure>>

WriteErrors ==
    \/ \E id \in Ids : PutWriteFails(id) \/ RemoveWriteFails(id)
    \/ PutSyncFails \/ RewriteStageFails

SpecCommitIO ==
    InitIO /\ [][OkIO \/ WriteErrors \/ OverwriteFails \/ RenameFails]_ioVars

-----------------------------------------------------------------------------
(* Properties                                                              *)

\* "Jobs still wanted (queued, running, waiting) are kept as they are"
\* (Outbox::shred_dead): whatever writes failed before, a job that is on disk
\* and still wanted is found again after a crash, in that version or a later
\* one.
WantedJobsKept ==
    up => \A id \in Live(jobs), d \in AfterCrash(dest), t \in AfterCrash(tmp) :
            Recovered(d, t)[id] >= sure[id]
=============================================================================
