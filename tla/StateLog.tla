------------------------------ MODULE StateLog ------------------------------
(***************************************************************************)
(* The encrypted record log of state_crypto/log.rs, as operators on file   *)
(* values.  A file is what its bytes mean to the code that opens it:       *)
(*                                                                         *)
(*   hdr    "missing"   no such file                                       *)
(*          "empty"     zero bytes                                         *)
(*          "partial"   a proper prefix of the 22-byte header              *)
(*          "good"      a whole header                                     *)
(*          "resalted"  a header whose salt was overwritten: no record     *)
(*                      behind it opens any more                           *)
(*   recs   the complete records written under the file's salt             *)
(*   tail   what follows them: "none", "short" (an incomplete record or    *)
(*          zero bytes) or "bad" (a complete record that fails             *)
(*          authentication)                                                *)
(*   synced records known to be on disk (-1: not even the header)          *)
(*                                                                         *)
(* Fault model of the log (the header comment of log.rs): a crash keeps    *)
(* what was synced and a prefix of what was appended after it, and may     *)
(* tear the first record it loses.  Random bytes read as a record length   *)
(* are out of range (the odds of the contrary are 2^-16).                  *)
(***************************************************************************)
EXTENDS Integers, Sequences

Headers == {"missing", "empty", "partial", "good", "resalted"}
Tails == {"none", "short", "bad"}

\* The files whose records come from Rec.
LogFiles(Rec) ==
    {f \in [hdr : Headers, recs : Seq(Rec), tail : Tails, synced : Int] :
        /\ f.synced \in -1 .. Len(f.recs)
        /\ f.hdr \in {"missing", "empty", "partial"}
             => f.recs = << >> /\ f.tail = "none"}

NoFile == [hdr |-> "missing", recs |-> << >>, tail |-> "none", synced |-> -1]

\* LogWriter::create_file: a fresh header, not flushed to disk.
CreateFile == [hdr |-> "good", recs |-> << >>, tail |-> "none", synced |-> -1]

-----------------------------------------------------------------------------
(* LogReader: open, then next_record until Ok(None) or an error.           *)

\* A resalted file with nothing behind the header reads as an empty log: there
\* is no record whose authentication could fail.
ReadFails(f) ==
    \/ f.hdr = "partial"
    \/ f.hdr = "resalted" /\ (f.recs # << >> \/ f.tail # "none")
    \/ f.hdr = "good" /\ f.tail = "bad" /\ f.recs = << >>

ReadRecs(f) == IF f.hdr = "good" THEN f.recs ELSE << >>

\* torn_at() is Some once the reader stopped before a torn record.
ReadTorn(f) == f.hdr = "good" /\ f.tail # "none"

-----------------------------------------------------------------------------
(* LogWriter::open_append                                                  *)

OpenAppendFails(f) ==
    \/ f.hdr = "resalted" /\ (f.recs # << >> \/ f.tail # "none")
    \/ f.hdr = "good" /\ f.tail = "bad" /\ f.recs = << >>

\* A missing, empty or half-written header is replaced by a fresh one; a torn
\* tail is cut off and the cut is flushed; a header whose salt was overwritten
\* with nothing behind it is as good as any.
OpenAppend(f) ==
    IF f.hdr \in {"missing", "empty", "partial"} THEN CreateFile
    ELSE IF f.tail = "none" THEN [f EXCEPT !.hdr = "good"]
    ELSE [f EXCEPT !.tail = "none", !.synced = Len(f.recs)]

\* LogWriter::append and LogWriter::sync.
AppendRec(f, r) == [f EXCEPT !.recs = Append(f.recs, r)]
SyncLog(f) == [f EXCEPT !.synced = Len(f.recs)]

-----------------------------------------------------------------------------
(* LogRewrite::commit_shredding and adopt_staged_log                       *)

\* overwrite_after(dest, 6): everything behind magic, version and label is
\* random afterwards, the salt first; a missing file is left missing, and a
\* file too short to have a salt stays too short.
OverwriteAfter(f) ==
    IF f.hdr = "good" THEN [f EXCEPT !.hdr = "resalted", !.synced = Len(f.recs)] ELSE f

\* The staged copy reads cleanly to its end.
StagedComplete(f) ==
    f.hdr # "missing" /\ ~ReadFails(f) /\ ~ReadTorn(f)

-----------------------------------------------------------------------------
(* What a crash can leave of a file.                                       *)

Cut(f, k, t) ==
    [hdr |-> f.hdr, recs |-> SubSeq(f.recs, 1, k), tail |-> t, synced |-> k]

AfterCrash(f) ==
    IF f.hdr \in {"missing", "empty", "partial"} THEN {f}
    ELSE (IF f.synced = -1
          THEN {NoFile, [NoFile EXCEPT !.hdr = "empty"],
                [NoFile EXCEPT !.hdr = "partial"]}
          ELSE {})
         \cup {Cut(f, Len(f.recs), f.tail)}
         \cup {Cut(f, k, t) : k \in {n \in 0 .. Len(f.recs) - 1 : n >= f.synced}, t \in Tails}
=============================================================================
