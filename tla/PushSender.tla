----------------------------- MODULE PushSender -----------------------------
(***************************************************************************)
(* The sending side of file push: the queue of one contact, its worker,    *)
(* and run_job with its attempts and retries (push/service.rs).  The jobs  *)
(* are sends of the same file, the case in which the receiver's partial    *)
(* file is shared.  The stored queue is PushOutbox seen through            *)
(* RecoverableMap: a removal that is not flushed may come back.            *)
(***************************************************************************)
EXTENDS PushLink

LOCAL INSTANCE SequencesExt

CONSTANT MaxJobs    \* bound: sends queued in one behaviour

ASSUME SenderAssumption == MaxJobs \in Nat \ {0}

JobIds == 1 .. MaxJobs
NoJob == 0

VARIABLES
    queue,      \* ContactQueue::jobs
    running,    \* ContactQueue::running
    cur,        \* the job the worker runs
    spc,        \* where the worker is ("none": there is no worker)
    conn,       \* the connection the worker keeps between jobs
    sent,       \* attempt_send: blocks handed to the stream, the resumed ones included
    restarted,  \* run_job: the one restart from scratch was used
    board,      \* the state shown for each send
    cancel,     \* the cancel flag of each send
    outbox,     \* is the send stored? "maybe": removed, but a crash may bring it back
    stop,       \* shutdown() was called
    src         \* the file: as it was queued, or changed since

sendVars == <<queue, running, cur, spc, conn, sent, restarted, board, cancel, outbox, stop, src>>

Finished == {"Done", "Failed", "Cancelled", "Rejected"}
BoardStates == Finished \cup {"none", "Queued", "Preparing", "Connecting", "Sending",
                              "Verifying", "Waiting", "Cleared"}
Attempting == {"reply", "sending", "confirm"}

SenderInit ==
    /\ queue = <<>> /\ running = FALSE /\ cur = NoJob /\ spc = "none"
    /\ conn = NoLink /\ sent = 0 /\ restarted = FALSE
    /\ board = [j \in JobIds |-> "none"]
    /\ cancel = [j \in JobIds |-> FALSE]
    /\ outbox = [j \in JobIds |-> "no"]
    /\ stop = FALSE /\ src = "orig"

-----------------------------------------------------------------------------
(* Ends of run_job                                                         *)

Show(st) == board' = [board EXCEPT ![cur] = st]

\* Back to the worker's loop without an ending: the job stays stored.
Leave ==
    /\ cur' = NoJob /\ spc' = "pop" /\ sent' = 0 /\ restarted' = FALSE

\* finish_kind: taken out of the stored queue (not flushed), then shown as ended.
Finish(st) ==
    /\ Leave
    /\ outbox' = [outbox EXCEPT ![cur] = "maybe"]
    /\ Show(st)

\* wait_retry up to its sleep; giving up is the end of the retry window.
WaitRetry ==
    \/ /\ Show("Waiting")
       /\ spc' = "waiting" /\ sent' = 0
       /\ UNCHANGED <<cur, restarted, outbox>>
    \/ "giveup" \in Faults /\ Finish("Failed")

\* The answers of the stream of the current job; those of an abandoned stream
\* of the same connection are never read.
Answers == SelectSeq(down[conn], LAMBDA m : m.job = cur)
Answered(kinds) == conn \in Links /\ Answers # <<>> /\ Head(Answers).t \in kinds
TakeAnswer == down' = [down EXCEPT ![conn] = Tail(Answers)]

ToReceiver(t, v) == up' = [up EXCEPT ![conn] = Append(@, [t |-> t, v |-> v, job |-> cur])]

-----------------------------------------------------------------------------
(* The queue and its worker                                                *)

\* queue_send: the row, the durable record (which flushes the earlier removals
\* too), the queue; a worker is started when none runs.
QueueSend(j) ==
    /\ board[j] = "none" /\ outbox[j] = "no"
    /\ \A i \in JobIds : i < j => board[i] # "none"
    /\ src = "orig"
    /\ board' = [board EXCEPT ![j] = "Queued"]
    /\ outbox' = [i \in JobIds |-> IF i = j THEN "yes" ELSE IF outbox[i] = "maybe" THEN "no" ELSE outbox[i]]
    /\ queue' = Append(queue, j)
    /\ running' = TRUE
    /\ spc' = IF running THEN spc ELSE "pop"
    /\ UNCHANGED <<linkVars, cur, conn, sent, restarted, cancel, stop, src>>

\* The worker's loop after a shutdown: it ends and never clears `running`.
WorkerStops ==
    /\ spc = "pop" /\ stop
    /\ spc' = "none"
    /\ sview' = Close(sview, conn, "ok") /\ conn' = NoLink
    /\ UNCHANGED <<rview, up, down, faults, queue, running, cur, sent, restarted, board, cancel,
                   outbox, stop, src>>

\* Mutated WorkerDrained: `running` is cleared after the lock was released, so a
\* send queued in between is overlooked.
DrainsUnlocked ==
    /\ spc = "pop" /\ ~stop /\ Len(queue) <= 1
    /\ running' = FALSE /\ spc' = "none"
    /\ sview' = Close(sview, conn, "ok") /\ conn' = NoLink
    /\ UNCHANGED <<rview, up, down, faults, queue, cur, sent, restarted, board, cancel,
                   outbox, stop, src>>

\* Nothing queued: `running` is cleared under the lock of the queue.
WorkerDrained ==
    /\ spc = "pop" /\ ~stop /\ queue = <<>>
    /\ running' = FALSE /\ spc' = "none"
    /\ sview' = Close(sview, conn, "ok") /\ conn' = NoLink
    /\ UNCHANGED <<rview, up, down, faults, queue, cur, sent, restarted, board, cancel,
                   outbox, stop, src>>

WorkerTakes ==
    /\ spc = "pop" /\ ~stop /\ queue # <<>>
    /\ cur' = Head(queue) /\ queue' = Tail(queue)
    /\ spc' = "start"
    /\ UNCHANGED <<linkVars, running, conn, sent, restarted, board, cancel, outbox, stop, src>>

-----------------------------------------------------------------------------
(* run_job                                                                 *)

\* Entry: cancelled meanwhile, or the file is no longer the one that was queued.
RunStart ==
    /\ spc = "start"
    /\ \/ cancel[cur] /\ Finish("Cancelled")
       \/ ~cancel[cur] /\ src = "edited" /\ Finish("Failed")
       \/ /\ ~cancel[cur] /\ src = "orig"
          /\ Show("Preparing") /\ spc' = "prepare"
          /\ UNCHANGED <<cur, sent, restarted, outbox>>
    /\ UNCHANGED <<linkVars, queue, running, conn, cancel, stop, src>>

\* The hash of the file, unless it is stored: it notices a cancel, and a change
\* of the file when its length or its readability changed.
RunPrepare ==
    /\ spc = "prepare"
    /\ \/ cancel[cur] /\ Finish("Cancelled")
       \/ src = "edited" /\ Finish("Failed")
       \/ spc' = "loop" /\ UNCHANGED <<cur, sent, restarted, board, outbox>>
    /\ UNCHANGED <<linkVars, queue, running, conn, cancel, stop, src>>

\* The head of the attempt loop: cancel, shutdown, check_source.
LoopTop ==
    /\ spc = "loop"
    /\ \/ cancel[cur] /\ Finish("Cancelled")
       \/ ~cancel[cur] /\ stop /\ Leave /\ UNCHANGED <<board, outbox>>
       \/ ~cancel[cur] /\ ~stop /\ src = "edited" /\ Finish("Failed")
       \/ /\ ~cancel[cur] /\ ~stop /\ src = "orig"
          /\ Show("Connecting") /\ spc' = "dial"
          /\ UNCHANGED <<cur, sent, restarted, outbox>>
    /\ UNCHANGED <<linkVars, queue, running, conn, cancel, stop, src>>

HaveConn == conn \in Links /\ sview[conn] = "open"

\* ensure_conn keeps a connection that is not closed; attempt_send then opens a
\* stream and writes the header.
ReuseConn ==
    /\ spc = "dial" /\ HaveConn
    /\ ToReceiver("hdr", "") /\ spc' = "reply"
    /\ UNCHANGED <<sview, rview, down, faults, queue, running, cur, conn, sent, restarted, board,
                   cancel, outbox, stop, src>>

Dial(l) ==
    /\ spc = "dial" /\ ~HaveConn
    /\ sview[l] = "none" /\ rview[l] = "none"
    /\ sview' = [sview EXCEPT ![l] = "open"] /\ rview' = [rview EXCEPT ![l] = "open"]
    /\ conn' = l
    /\ up' = [up EXCEPT ![l] = <<[t |-> "hdr", v |-> "", job |-> cur]>>]
    /\ down' = [down EXCEPT ![l] = <<>>]
    /\ spc' = "reply"
    /\ UNCHANGED <<faults, queue, running, cur, sent, restarted, board, cancel, outbox, stop, src>>

DialFails ==
    /\ spc = "dial" /\ ~HaveConn
    /\ Fault("dial")
    /\ WaitRetry
    /\ UNCHANGED <<sview, rview, up, down, queue, running, conn, cancel, stop, src>>

\* attempt_send: the receiver takes the file from block `n` on.
AcceptArrives ==
    /\ spc = "reply" /\ Answered({"accept"})
    /\ sent' = Head(Answers).n
    /\ TakeAnswer
    /\ Show("Sending") /\ spc' = "sending"
    /\ UNCHANGED <<sview, rview, up, faults, queue, running, cur, conn, restarted, cancel, outbox,
                   stop, src>>

\* Busy waits for the receiver to let go of the last attempt, on the same
\* connection; any other refusal is final.
RejectArrives ==
    /\ spc = "reply"
    /\ \/ Answered({"busy"}) /\ WaitRetry
       \/ Answered({"no_space"}) /\ Finish("Rejected")
    /\ TakeAnswer
    /\ UNCHANGED <<sview, rview, up, faults, queue, running, conn, cancel, stop, src>>

\* Mutated SendBlock: reads past the size that was queued.
SendsPastEnd ==
    /\ spc = "sending"
    /\ ToReceiver("blk", src)
    /\ sent' = sent + 1
    /\ UNCHANGED <<sview, rview, down, faults, queue, running, cur, conn, spc, restarted, board,
                   cancel, outbox, stop, src>>

SendBlock ==
    /\ spc = "sending" /\ sent < Size
    /\ ToReceiver("blk", src)
    /\ sent' = sent + 1
    /\ UNCHANGED <<sview, rview, down, faults, queue, running, cur, conn, spc, restarted, board,
                   cancel, outbox, stop, src>>

\* The file became unreadable or shorter: the stream ends early, the connection stays.
SendFatal ==
    /\ spc = "sending" /\ sent < Size /\ src = "edited"
    /\ ToReceiver("fin", "")
    /\ Finish("Failed")
    /\ UNCHANGED <<sview, rview, down, faults, queue, running, conn, cancel, stop, src>>

SendAll ==
    /\ spc = "sending" /\ sent = Size
    /\ Show("Verifying") /\ spc' = "confirm"
    /\ UNCHANGED <<linkVars, queue, running, cur, conn, sent, restarted, cancel, outbox, stop, src>>

\* The Done frame: saved; damaged (once more from scratch); or not saved.
DoneArrives ==
    /\ spc = "confirm"
    /\ \/ Answered({"ok"}) /\ Finish("Done")
       \/ Answered({"write_failed", "rename_failed"}) /\ Finish("Failed")
       \/ Answered({"hash_mismatch"}) /\ restarted /\ Finish("Failed")
       \/ /\ Answered({"hash_mismatch"}) /\ ~restarted
          /\ restarted' = TRUE /\ spc' = "loop" /\ sent' = 0
          /\ UNCHANGED <<cur, board, outbox>>
    /\ TakeAnswer
    /\ UNCHANGED <<sview, rview, up, faults, queue, running, conn, cancel, stop, src>>

\* Mutated StreamBroke: a connection the other side closed goes unnoticed.
MissesClose == Answered({"end"}) \/ (spc = "sending" /\ Answered({"write_failed"}))

\* AttemptError::Retry: the connection closed, the stream ended without the
\* awaited answer, or nothing moved for too long.  The connection is given up
\* on purpose before the wait.
StreamBroke ==
    \/ sview[conn] # "open"
    \/ Answered({"end"})
    \/ spc = "sending" /\ Answered({"write_failed"})
GiveUpLink ==
    /\ sview' = Close(sview, conn, "retry") /\ conn' = NoLink
    /\ UNCHANGED <<rview, up, down, queue, running, cancel, stop, src>>
AttemptBroken ==
    /\ spc \in Attempting
    /\ StreamBroke
    /\ WaitRetry
    /\ GiveUpLink
    /\ UNCHANGED faults
AttemptTimesOut ==
    /\ spc \in Attempting
    /\ Fault("timeout")
    /\ WaitRetry
    /\ GiveUpLink

\* AttemptError::Cancelled tells the receiver; a cancel while waiting does not.
CancelNoticed ==
    /\ spc \in Attempting \cup {"waiting"} /\ cancel[cur]
    /\ Finish("Cancelled")
    /\ \/ /\ spc \in Attempting
          /\ sview' = Close(sview, conn, "cancelled") /\ conn' = NoLink
       \/ spc = "waiting" /\ UNCHANGED <<sview, conn>>
    /\ UNCHANGED <<rview, up, down, faults, queue, running, cancel, stop, src>>

\* AttemptError::Shutdown, and a shutdown while waiting.
StopNoticed ==
    /\ spc \in Attempting \cup {"waiting"} /\ stop
    /\ Leave
    /\ \/ /\ spc \in Attempting
          /\ sview' = Close(sview, conn, "ok") /\ conn' = NoLink
       \/ spc = "waiting" /\ UNCHANGED <<sview, conn>>
    /\ UNCHANGED <<rview, up, down, faults, queue, running, board, cancel, outbox, stop, src>>

\* The timer, or a wake-up (network change, the contact connects, "Try now").
WaitEnds ==
    /\ spc = "waiting"
    /\ spc' = "loop"
    /\ UNCHANGED <<linkVars, queue, running, cur, conn, sent, restarted, board, cancel, outbox,
                   stop, src>>

-----------------------------------------------------------------------------
(* The person, the file system, and the life of the process                *)

\* Board::cancel.
Cancel(j) ==
    /\ board[j] \notin Finished \cup {"none"} /\ ~cancel[j]
    /\ Fault("cancel")
    /\ cancel' = [cancel EXCEPT ![j] = TRUE]
    /\ UNCHANGED <<sview, rview, up, down, queue, running, cur, spc, conn, sent, restarted, board,
                   outbox, stop, src>>

EditSource ==
    /\ src = "orig"
    /\ Fault("edit")
    /\ src' = "edited"
    /\ UNCHANGED <<sview, rview, up, down, queue, running, cur, spc, conn, sent, restarted, board,
                   cancel, outbox, stop>>

Shutdown ==
    /\ ~stop
    /\ Fault("shutdown")
    /\ stop' = TRUE
    /\ UNCHANGED <<sview, rview, up, down, queue, running, cur, spc, conn, sent, restarted, board,
                   cancel, outbox, src>>

\* The process ends, after a shutdown or at any moment, and starts again:
\* restore_jobs queues what is stored, oldest first.
Restart ==
    /\ \/ stop /\ spc = "none" /\ UNCHANGED faults
       \/ Fault("crash")
    /\ \E back \in SUBSET {j \in JobIds : outbox[j] = "maybe"} :
         LET jobs == back \cup {j \in JobIds : outbox[j] = "yes"} IN
         /\ outbox' = [j \in JobIds |-> IF j \in jobs THEN "yes" ELSE "no"]
         /\ queue' = SetToSortSeq(jobs, <)
         /\ board' = [j \in JobIds |-> IF j \in jobs THEN "Queued"
                                       ELSE IF board[j] = "none" THEN "none" ELSE "Cleared"]
         /\ running' = (jobs # {}) /\ spc' = IF jobs # {} THEN "pop" ELSE "none"
    /\ cur' = NoJob /\ conn' = NoLink /\ sent' = 0 /\ restarted' = FALSE
    /\ cancel' = [j \in JobIds |-> FALSE] /\ stop' = FALSE
    /\ sview' = [l \in Links |-> IF sview[l] = "open" THEN "lost" ELSE sview[l]]
    /\ UNCHANGED <<rview, up, down, src>>

SenderStep ==
    \/ WorkerStops \/ WorkerDrained \/ WorkerTakes
    \/ RunStart \/ RunPrepare \/ LoopTop \/ ReuseConn
    \/ AcceptArrives \/ RejectArrives \/ SendBlock \/ SendFatal \/ SendAll \/ DoneArrives
    \/ AttemptBroken \/ CancelNoticed \/ StopNoticed \/ WaitEnds

SenderEvents ==
    \/ \E j \in JobIds : QueueSend(j) \/ Cancel(j)
    \/ DialFails \/ AttemptTimesOut \/ EditSource \/ Shutdown \/ Restart
=============================================================================
