----------------------------- MODULE ChatAnchor -----------------------------
(***************************************************************************)
(* chat/anchor.rs: the record, kept outside the data folder, of the        *)
(* session file that was written last, so that an earlier copy put back is *)
(* noticed.  The operators here act on what one side has of it:            *)
(*   fp    the fingerprint of the session file on disk (a fresh value at   *)
(*         every write, NoFile when there is none);                        *)
(*   rec   the record, a sequence of at most one; sure is the one that is  *)
(*         certain to survive a power loss;                                *)
(*   seen, hwm, off   the marks in memory: the file last written or found, *)
(*         the highest number, the record given up for this run;           *)
(*   old   the file was found behind and no write has replaced it since;   *)
(*   down  the process died inside a write and has not started again.      *)
(* A settling write at a start that fails, which changes nothing the       *)
(* record accepts, is left out, and so is a copy put back while running.   *)
(***************************************************************************)
EXTENDS Naturals
LOCAL INSTANCE FiniteSetsExt

NoFile == 0
Record(cur, next, hwm) == <<[cur |-> cur, next |-> next, hwm |-> hwm]>>

NewAnchor == [fp |-> NoFile, rec |-> <<>>, sure |-> <<>>, seen |-> NoFile, hwm |-> 0, off |-> FALSE,
              old |-> FALSE, down |-> FALSE]

\* write: a record written without waiting for the disk may be lost with the power.
Written(x, rec, durable) == [x EXCEPT !.rec = rec, !.sure = IF durable THEN rec ELSE @]

\* One that was not synced may be gone, or be there without its contents, which reads as none.
AfterPowerLoss(x) == {x.sure} \cup IF x.rec = x.sure THEN {} ELSE {x.rec, <<>>}

\* switch_off: the record is left alone from now on; removing it may fail.
SwitchedOff(x) == {[x EXCEPT !.off = TRUE, !.rec = r] : r \in {<<>>, x.rec}}

\* Mutated BeforeWrite: the record names the file about to be written alone.
BeforeWriteNextOnly(x, next, seq) ==
    IF x.off THEN x ELSE Written(x, Record(next, next, Max({x.hwm, seq})), TRUE)

\* before_write: the record accepts the file on disk and the one about to be written.
BeforeWrite(x, next, seq) ==
    IF x.off THEN x ELSE Written(x, Record(x.seen, next, Max({x.hwm, seq})), TRUE)

\* The file is put in place.
Replaced(x, next) == [x EXCEPT !.fp = next, !.old = FALSE]

\* after_write: the marks first, then the record, which accepts the new file only.
Marked(x, next, seq) == [x EXCEPT !.seen = next, !.hwm = Max({@, seq})]
AfterWrite(x, next, seq) ==
    LET y == Marked(x, next, seq) IN IF x.off THEN y ELSE Written(y, Record(next, next, y.hwm), FALSE)

\* check, at a start: the file must be one the record accepts, or there is no record.
Check(x, seq) ==
    LET accepted == \A i \in DOMAIN x.rec : x.fp \in {x.rec[i].cur, x.rec[i].next}
        hwm == IF x.rec = <<>> THEN seq ELSE IF accepted THEN Max({x.rec[1].hwm, seq}) ELSE x.rec[1].hwm
        y == [x EXCEPT !.seen = x.fp, !.hwm = hwm, !.off = FALSE, !.old = ~accepted, !.down = FALSE] IN
    IF accepted /\ (IF x.rec = <<>> THEN x.fp # NoFile ELSE x.rec[1].cur # x.rec[1].next)
    THEN Written(y, Record(x.fp, x.fp, hwm), FALSE) ELSE y
=============================================================================
