---------------------------- MODULE ChatDelivery ----------------------------
(***************************************************************************)
(* The delivery of texts and receipts between two contacts: the worker of  *)
(* chat/service.rs on each side, the catch-up of chat/sync.rs, the stream  *)
(* a request and its answer travel on, holders of copies, restarts and     *)
(* power losses.  A worker takes the oldest entry, connects (a new         *)
(* connection starts with the catch-up), prepares the bytes, sends them    *)
(* and acts on the answer.  Delays of the retry schedule are the worker    *)
(* being idle.                                                             *)
(***************************************************************************)
EXTENDS ChatEngine
LOCAL INSTANCE SequencesExt
LOCAL INSTANCE FiniteSetsExt

VARIABLES pc,     \* where the worker of a side is
          cur,    \* the entry it works on
          fin,    \* how that entry ends
          conn,   \* whether it has a connection
          late    \* requests given up on that are still under way

worker == <<pc, cur, fin, conn>>
vars == <<engine, faults, pc, cur, fin, conn, late>>

Init ==
    /\ EngineInit
    /\ pc = [a \in Nodes |-> "idle"]
    /\ cur = [a \in Nodes |-> [id |-> 0, kind |-> "none"]]
    /\ fin = [a \in Nodes |-> "delivered"]
    /\ conn = [a \in Nodes |-> FALSE]
    /\ late = [a \in Nodes |-> {}]

Goto(a, where) == pc' = [pc EXCEPT ![a] = where]

\* Outcome::Retry: with custody on, a copy of a text goes to the holders before the wait.
Retry(a, e) == Goto(a, IF Custody /\ e.kind = "text" THEN "custody" ELSE "idle")

\* Mutated Oldest: the worker turns to the newest entry.
Newest(a) == Last(box[a])

\* The worker turns to the oldest entry: it needs permission and a connection.
Oldest(a) == Head(box[a])
Takes(a) == pc[a] = "idle" /\ box[a] # <<>> /\ cur' = [cur EXCEPT ![a] = Oldest(a)]

HasConn(a) ==
    /\ Takes(a) /\ conn[a]
    /\ Goto(a, "prepare")
    /\ UNCHANGED <<engine, faults, fin, conn, late>>

NotAllowed(a) ==
    /\ Takes(a) /\ Fault("refuse")
    /\ fin' = [fin EXCEPT ![a] = "failed"]
    /\ Goto(a, IF Oldest(a).kind = "read" THEN "remove" ELSE "record")
    /\ UNCHANGED <<engine, conn, late>>

DialFails(a) ==
    /\ Takes(a) /\ ~conn[a] /\ Fault("dial")
    /\ Retry(a, Oldest(a))
    /\ UNCHANGED <<engine, fin, conn, late>>

\* A new connection: the contact says which waiting texts it has applied (sync::answer; none
\* when it is an older build or limits the question), and those end as delivered.
AppliedThere(a) ==
    {e \in ToSet(box[a]) : e.kind = "text" /\ ~e.big /\ ~IsNewSeq(mem[Peer(a)], e.seq)}
Connect(a) ==
    /\ Takes(a) /\ ~conn[a] /\ ~anchor[Peer(a)].down
    /\ conn' = [conn EXCEPT ![a] = TRUE]
    /\ \E closed \in {{}, AppliedThere(a)} :
         LET done == SelectSeq(box[a], LAMBDA e : e \in closed) IN
         /\ Goto(a, IF Oldest(a) \in closed THEN "idle" ELSE "prepare")
         /\ hist' = [hist EXCEPT ![a] =
                        @ \o [i \in DOMAIN done |-> [id |-> done[i].id, st |-> "delivered"]]]
         /\ BoxWritten(a, [i \in DOMAIN done |-> [op |-> "done", id |-> done[i].id]])
    /\ UNCHANGED <<peer, synced, gate, link, held, sent, gone, made, fresh, faults, fin, late>>

\* The prepared bytes leave: to the contact, or to the holders.
Leaves(a, env) ==
    /\ sent' = [sent EXCEPT ![a] = @ \cup {env}]
    /\ IF pc[a] = "prepare"
       THEN /\ link' = [link EXCEPT ![a] = [st |-> "sent", env |-> env]]
            /\ UNCHANGED held /\ Goto(a, "sent")
       ELSE /\ held' = [held EXCEPT ![a] = @ \cup {env}]
            /\ UNCHANGED link /\ Goto(a, "idle")

\* prepare_wire: the entry is gone, has its sealed bytes, or is sealed now.
PreparedBefore(a) ==
    /\ pc[a] \in {"prepare", "custody"} /\ gate[a] = Free
    /\ \/ Queued(a, cur[a].id) = {} /\ Goto(a, "idle") /\ UNCHANGED <<sent, link, held>>
       \/ \E e \in Queued(a, cur[a].id) : e.sealed # <<>> /\ ~rolled[a] /\ Leaves(a, e.sealed[1])
    /\ UNCHANGED <<peer, box, stable, vol, hist, synced, gate, gone, made, fresh, faults>>
    /\ UNCHANGED <<cur, fin, conn, late>>

Prepare(a) ==
    /\ pc[a] \in {"prepare", "custody"} /\ gate[a] = Free
    /\ \E e \in Queued(a, cur[a].id) : (e.sealed = <<>> \/ rolled[a]) /\ Seal(a, e)
    /\ SettleRollback(a)
    /\ IF gate' # gate THEN UNCHANGED pc
       ELSE IF pc[a] = "prepare" THEN Retry(a, cur[a]) ELSE Goto(a, "idle")
    /\ UNCHANGED <<hist, synced, link, held, sent, gone, made, cur, fin, conn, late>>

\* Mutated Keep: the sealed bytes are sent without being kept.
KeepNothing(a) ==
    /\ gate[a].step = "keep" /\ Leaves(a, gate[a].env)
    /\ gate' = [gate EXCEPT ![a] = Free]
    /\ OutboxSame /\ UNCHANGED <<peer, hist, synced, gone, made, fresh, faults, cur, fin, conn, late>>

\* The second half: set_sealed keeps the bytes before they leave; a failed write sends nothing.
Keep(a) ==
    /\ gate[a].step = "keep"
    /\ \/ /\ IF Queued(a, gate[a].id) = {} THEN OutboxSame
             ELSE BoxSynced(a, [i \in DOMAIN box[a] |-> IF box[a][i].id = gate[a].id
                      THEN [box[a][i] EXCEPT !.sealed = <<gate[a].env>>] ELSE box[a][i]])
          /\ Leaves(a, gate[a].env) /\ UNCHANGED faults
       \/ /\ Fault("disk") /\ OutboxSame /\ UNCHANGED <<sent, link, held>>
          /\ IF pc[a] = "prepare" THEN Retry(a, cur[a]) ELSE Goto(a, "idle")
    /\ gate' = [gate EXCEPT ![a] = Free]
    /\ UNCHANGED <<peer, hist, synced, gone, made, fresh, cur, fin, conn, late>>

----------------------------------------------------------------------------
(* The contact's side of an exchange. *)

\* serve: a request is read and applied, or put off by the rate limit.
Arrive(b) ==
    /\ link[Peer(b)].st = "sent"
    /\ Accept(b, link[Peer(b)].env, "link")
    /\ UNCHANGED <<pc, cur, fin, conn, late>>

RateLimited(b) ==
    /\ link[Peer(b)].st = "sent" /\ Fault("rate")
    /\ Answer(b, "link", link[Peer(b)].env, "Rate")
    /\ UNCHANGED <<peer, box, stable, vol, hist, synced, gate, sent, gone, made, fresh>>
    /\ UNCHANGED <<pc, cur, fin, conn, late>>

\* A request its sender has given up on arrives after all.
LateArrives(b) ==
    /\ \E e \in late[Peer(b)] :
         Accept(b, e, "late") /\ late' = [late EXCEPT ![Peer(b)] = @ \ {e}]
    /\ UNCHANGED <<pc, cur, fin, conn>>

\* collect_from_holders: a copy is fetched and applied.
Collect(b) ==
    /\ \E e \in held[Peer(b)] : Accept(b, e, "held")
    /\ UNCHANGED <<pc, cur, fin, conn, late>>

----------------------------------------------------------------------------
(* The answer at the worker. *)

\* mark_delivered and mark_failed begin: `finish` reads the entry, without the gate.
Finish(a, how) ==
    /\ fin' = [fin EXCEPT ![a] = how]
    /\ Goto(a, CASE Queued(a, cur[a].id) = {} -> "idle"
                 [] Queued(a, cur[a].id) # {} /\ cur[a].kind = "read" -> "remove"
                 [] OTHER -> "record")

Acked(a) ==
    /\ pc[a] = "sent" /\ link[a].st = "ack"
    /\ LET say == link[a].say IN
       \/ say \in Delivered /\ Finish(a, "delivered")
       \/ say = "TooBig" /\ Finish(a, "failed")
       \/ say = "NoSession" /\ Goto(a, "reset") /\ UNCHANGED fin
       \/ say \in {"Busy", "Rate", "Failed"} /\ Retry(a, cur[a]) /\ UNCHANGED fin
    /\ link' = [link EXCEPT ![a] = NoLink]
    /\ UNCHANGED <<peer, box, stable, vol, hist, synced, gate, held, sent, gone, made, fresh>>
    /\ UNCHANGED <<faults, cur, conn, late>>

\* Mutated RecordFinished: an entry is removed although its history record failed.
RecordErrorIgnored(a) ==
    /\ pc[a] = "record" /\ Goto(a, "remove")
    /\ \/ Recorded(a, cur[a].id, fin[a], FALSE) /\ UNCHANGED faults
       \/ Fault("disk") /\ UNCHANGED <<hist, synced>>
    /\ UNCHANGED <<peer, box, stable, vol, gate, link, held, sent, gone, made, fresh>>
    /\ UNCHANGED <<cur, fin, conn, late>>

\* finish: the history record first (not synced), then the entry leaves the outbox.
RecordFinished(a) ==
    /\ pc[a] = "record"
    /\ \/ Recorded(a, cur[a].id, fin[a], FALSE) /\ Goto(a, "remove") /\ UNCHANGED faults
       \/ Fault("disk") /\ Goto(a, "idle") /\ UNCHANGED <<hist, synced>>
    /\ UNCHANGED <<peer, box, stable, vol, gate, link, held, sent, gone, made, fresh>>
    /\ UNCHANGED <<cur, fin, conn, late>>

RemoveFinished(a) ==
    /\ pc[a] = "remove"
    /\ IF Queued(a, cur[a].id) = {} THEN OutboxSame
       ELSE BoxWritten(a, <<[op |-> "done", id |-> cur[a].id]>>)
    /\ Goto(a, "idle")
    /\ UNCHANGED <<peer, hist, synced, gate, link, held, sent, gone, made, fresh>>
    /\ UNCHANGED <<faults, cur, fin, conn, late>>

Reset(a) ==
    /\ pc[a] = "reset" /\ ResetSession(a)
    /\ Goto(a, "idle")
    /\ UNCHANGED <<cur, fin, conn, late>>

\* No answer in time, or the connection is lost.  A request that was not read yet may still
\* arrive, and one being applied is; its answer is for nobody.
GiveUp(a) ==
    /\ link' = [link EXCEPT ![a] = NoLink] /\ conn' = [conn EXCEPT ![a] = FALSE]
    /\ Retry(a, cur[a])
    /\ UNCHANGED <<peer, box, stable, vol, hist, synced, held, sent, gone, made, fresh, cur, fin>>

\* Mutated NoAnswer: the answer of an exchange that was given up goes to the next one.
NoAnswerKeepsRoute(a) ==
    /\ pc[a] = "sent" /\ Fault("loss") /\ UNCHANGED <<late, gate>> /\ GiveUp(a)

NoAnswer(a) ==
    /\ pc[a] = "sent"
    /\ \/ Fault("loss") /\ UNCHANGED late
       \/ Fault("late") /\ link[a].st = "sent" /\ late' = [late EXCEPT ![a] = @ \cup {link[a].env}]
    /\ gate' = IF link[a].st # "read" THEN gate ELSE [gate EXCEPT ![Peer(a)].to = "late"]
    /\ GiveUp(a)

PeerWentAway(a) ==
    /\ pc[a] = "sent" /\ link[a].st = "dead"
    /\ GiveUp(a) /\ UNCHANGED <<gate, late, faults>>

\* Mutated LoadPeer: the session of a file found behind is used.
LoadPeerKeepsSession(a, file, x) ==
    LET y == IF a \in Anchored THEN Check(x, file.seq) ELSE x IN
    /\ disk' = [disk EXCEPT ![a] = file] /\ AnchorIs(a, y) /\ UNCHANGED copy
    /\ rolled' = [rolled EXCEPT ![a] = y.old]
    /\ mem' = [mem EXCEPT ![a] = IF y.old THEN [file EXCEPT !.seq = Max({@, y.hwm})] ELSE file]

\* Mutated LoadPeer: the numbers of a file found behind go on from where it stands.
LoadPeerLowCounter(a, file, x) ==
    LET y == IF a \in Anchored THEN Check(x, file.seq) ELSE x IN
    /\ disk' = [disk EXCEPT ![a] = file] /\ AnchorIs(a, y) /\ UNCHANGED copy
    /\ rolled' = [rolled EXCEPT ![a] = y.old]
    /\ mem' = [mem EXCEPT ![a] = IF y.old THEN [file EXCEPT !.sess = <<>>] ELSE file]

\* The session file is loaded: one found behind loses its session, and its numbers go on above
\* those the record has seen.
LoadPeer(a, file, x) ==
    LET y == IF a \in Anchored THEN Check(x, file.seq) ELSE x IN
    /\ disk' = [disk EXCEPT ![a] = file] /\ AnchorIs(a, y) /\ UNCHANGED copy
    /\ rolled' = [rolled EXCEPT ![a] = y.old]
    /\ mem' = [mem EXCEPT ![a] =
                  IF y.old THEN [file EXCEPT !.sess = <<>>, !.seq = Max({@, y.hwm})] ELSE file]

\* A copy of the chat folder is made, at any moment.
Copy(a) ==
    /\ a \in Anchored /\ copy[a] = <<>> /\ Fault("copy")
    /\ copy' = [copy EXCEPT ![a] =
                   <<[peer |-> disk[a], fp |-> anchor[a].fp, box |-> box[a], hist |-> hist[a]]>>]
    /\ UNCHANGED <<mem, disk, anchor, rolled, box, stable, vol, hist, synced, gate, link, held, sent>>
    /\ UNCHANGED <<gone, made, fresh, pc, cur, fin, conn, late>>

\* The process ends and starts again.  After a power loss the unsynced ends of the outbox log
\* and of the history may be missing, each from any record on.  In between the copy may be put
\* back.
Restart(a) ==
    /\ \/ /\ IF anchor[a].down THEN UNCHANGED faults ELSE Fault("crash")
          /\ BoxSynced(a, box[a]) /\ UNCHANGED hist
          /\ LoadPeer(a, disk[a], anchor[a])
       \/ /\ Fault("power")
          /\ \E n \in 0 .. Len(vol[a]) : BoxSynced(a, Replayed(stable[a], SubSeq(vol[a], 1, n)))
          /\ \E n \in synced[a] .. Len(hist[a]) : hist' = [hist EXCEPT ![a] = SubSeq(@, 1, n)]
          /\ \E r \in AfterPowerLoss(anchor[a]) :
                LoadPeer(a, disk[a], [anchor[a] EXCEPT !.rec = r, !.sure = r])
       \/ \E c \in ToSet(copy[a]) :
             /\ Fault("restore")
             /\ BoxSynced(a, c.box) /\ hist' = [hist EXCEPT ![a] = c.hist]
             /\ LoadPeer(a, c.peer, [anchor[a] EXCEPT !.fp = c.fp])
    /\ synced' = [synced EXCEPT ![a] = Len(hist'[a])]
    /\ gate' = [b \in Nodes |-> IF b = a THEN Free
                   ELSE IF gate[b].step = "commit" /\ gate[b].to = "link" THEN [gate[b] EXCEPT !.to = "late"]
                   ELSE gate[b]]
    /\ link' = [link EXCEPT ![a] = NoLink, ![Peer(a)] = IF @.st = "none" THEN @ ELSE [st |-> "dead"]]
    /\ pc' = [pc EXCEPT ![a] = "idle"] /\ conn' = [conn EXCEPT ![a] = FALSE]
    /\ late' = [late EXCEPT ![Peer(a)] = {}]
    /\ UNCHANGED <<held, sent, gone, made, fresh, cur, fin>>

----------------------------------------------------------------------------
Person(a) == (Enqueue(a) \/ MarkRead(a) \/ DeleteMessage(a)) /\ UNCHANGED <<pc, cur, fin, conn, late>>

Worker(a) ==
    \/ HasConn(a) \/ NotAllowed(a) \/ DialFails(a) \/ Connect(a) \/ PreparedBefore(a) \/ Prepare(a)
    \/ Keep(a) \/ Acked(a) \/ RecordFinished(a) \/ RemoveFinished(a) \/ Reset(a) \/ PeerWentAway(a)
Serve(b) == Arrive(b) \/ RateLimited(b) \/ (Commit(b) /\ UNCHANGED <<pc, cur, fin, conn, late>>)
Network(a) == NoAnswer(a) \/ LateArrives(a) \/ Collect(a)

Process(a) == ~anchor[a].down /\ (Person(a) \/ Worker(a) \/ Serve(a) \/ Network(a))

Next == \E a \in Nodes : Process(a) \/ Copy(a) \/ Restart(a)

Spec == Init /\ [][Next]_vars

\* Workers and the serving tasks run; the network delivers what it does not lose.
FairSpec == Spec /\ \A a \in Nodes : WF_vars(Worker(a)) /\ WF_vars(Serve(a))

----------------------------------------------------------------------------
(* Properties. *)

Statuses == {"Stored", "Duplicate", "TooBig", "NoSession", "Busy", "Rate", "Failed"}

\* The outbox holds one entry per message and one receipt at most, its synced part and the
\* unsynced records replay to it, the gate and the worker agree on who prepares, and an
\* exchange is open exactly while the worker waits for its answer.
TypeOK ==
    /\ Cardinality(faults) <= MaxFaults
    /\ \A a \in Nodes :
         /\ Replayed(stable[a], vol[a]) = box[a]
         /\ \A i, j \in DOMAIN box[a] : box[a][i].id = box[a][j].id => i = j
         /\ \A i, j \in DOMAIN box[a] : box[a][i].kind = "read" /\ box[a][j].kind = "read" => i = j
         /\ synced[a] \in 0 .. Len(hist[a])
         /\ gate[a].step \in {"free", "keep", "commit"}
         /\ gate[a].step = "keep" => pc[a] \in {"prepare", "custody"}
         /\ gate[a].step = "commit" /\ gate[a].to = "link" => link[Peer(a)].st = "read"
         /\ (pc[a] = "sent") = (link[a].st # "none")
         /\ link[a].st = "ack" => link[a].say \in Statuses
         /\ mem[a].read <= mem[a].seq

\* A text that a side shows as delivered is in the contact's history: the acknowledgement, the
\* "duplicate" answer and the catch-up never close a message that was not stored.
DeliveredIsStored ==
    \A a \in Nodes : \A i \in DOMAIN hist[a] :
        hist[a][i].st = "delivered" =>
            [id |-> hist[a][i].id, st |-> "received"] \in ToSet(hist[Peer(a)])

\* A text is stored once, however often it is sent, on however many sessions, as long as no
\* restart or failed write separates the history record from the peer state.
StoredOnce ==
    ~Met({"crash", "power", "disk"}) => \A a \in Nodes : \A i, j \in DOMAIN hist[a] :
        hist[a][i] = hist[a][j] /\ hist[a][i].st = "received" => i = j

\* The texts of a contact are stored in the order they were written: the worker does not pass
\* to the next entry before the oldest has ended.  (A text that was deleted, or given up because
\* the contact is no longer allowed, ends early: a copy of it may come after its successor; and a
\* restart between the history record and the peer state may store a text again.)
StoredInOrder ==
    ~Met({"delete", "refuse", "crash", "power"}) => \A a \in Nodes : \A i, j \in DOMAIN hist[a] :
        /\ i < j /\ hist[a][i].st = "received" /\ hist[a][j].st = "received"
        => hist[a][i].id <= hist[a][j].id

\* The record no longer tells an earlier copy apart: it was given up; or the first write after a
\* copy was put back did not get through, which leaves a record that accepts the copy; or the
\* power took the record that named the last file alone.
Misled == Met({"record", "redo"}) \/ (Met({"restore"}) /\ Met({"power"}))

\* A message key seals one envelope only: across restarts and failed writes, because the session
\* is written down before the bytes leave, and when the chat folder is put back to an earlier
\* copy, because the record outside it tells (anchor.rs: "The record lets the program notice
\* that before anything is sent").
KeysUsedOnce ==
    ~Misled => \A a \in Nodes : \A e, f \in sent[a] : e.chain = f.chain /\ e.n = f.n => e = f

\* Within a session a text goes out as the same bytes every time, retries after a restart
\* included (engine.rs: "later calls (retries, also after a restart) return the same bytes").
SameBytesAgain ==
    \A a \in Nodes : \A e, f \in sent[a] :
        /\ e.body.kind = "text" /\ e.body.id = f.body.id /\ e.chain[1] = f.chain[1]
        => e = f

\* A contact has one sealed envelope waiting at most (outbox.rs: "at most one sealed envelope
\* per contact exists"), also when a power loss brings removed entries back.
OneSealed ==
    \A a \in Nodes : \A i, j \in DOMAIN box[a] :
        box[a][i].sealed # <<>> /\ box[a][j].sealed # <<>> => i = j

\* A number is never given to two texts (engine.rs: "after a crash it may be skipped, never
\* given twice"), nor when the chat folder is put back (anchor.rs: "the send counter continues
\* above the highest value the record has seen").
NumbersGivenOnce ==
    ~Misled => \A a \in Nodes :
        LET texts == {e.body : e \in sent[a]} \cup ToSet(box[a]) IN
        \A x, y \in {t \in texts : t.kind = "text"} : x.seq = y.seq => x.id = y.id

\* A text that went out stays in the outbox or the history until the person deletes it, through
\* restarts and failed writes (not through a power loss: the two files are synced apart; nor
\* when an earlier copy of both is put back).
TextsKept ==
    ~Met({"power", "restore"}) => \A a \in Nodes : \A e \in sent[a] :
        e.body.kind = "text" =>
            \/ e.body.id \in gone[a] \/ Queued(a, e.body.id) # {}
            \/ \E i \in DOMAIN hist[a] : hist[a][i].id = e.body.id

\* No restart drops a session unless a copy was put back: wherever a write of the session file is
\* cut short, and whichever record a power loss leaves, the record accepts the file on disk
\* (anchor.rs: "A crash between the steps leaves a record that accepts the file that is on
\* disk").  A record that was given up and could not be removed is excepted.
NoFalseAlarm ==
    ~Met({"restore", "record"}) => \A a \in Nodes : ~anchor[a].old

\* A text deleted from the history, or cancelled, does not come back to the history
\* (engine.rs: "Delete one message locally: from the history, or cancel it").
DeletedStaysDeleted ==
    \A a \in Nodes : \A i \in DOMAIN hist[a] : hist[a][i].id \notin gone[a]

\* Every text in the outbox ends: the sessions of the two sides always come together again,
\* whoever started them, whatever was lost.  (A side writes MaxTexts texts, so that each of them
\* ends when both outboxes are free of texts again and again.)
EveryTextEnds ==
    []<>(\A a \in Nodes : \A i \in DOMAIN box[a] : box[a][i].kind # "text")
=============================================================================
