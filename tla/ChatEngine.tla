----------------------------- MODULE ChatEngine -----------------------------
(***************************************************************************)
(* chat/engine.rs with the state it drives: two contacts, and at each one  *)
(* the peer state of the other (chat/store.rs PeerState: its numbers, the  *)
(* applied numbers, the session), the outbox, the history, and the gate    *)
(* that serialises everything that touches a session.  A handler that      *)
(* writes to disk half-way through is two steps with the gate held between *)
(* them, so that a crash may fall in between; only `finish`, which the     *)
(* code runs without the gate, interleaves with them.                      *)
(*                                                                         *)
(* The files: the peer state is one durable document, replaced whole, with *)
(* the record of ChatAnchor written around the replacement; the outbox and *)
(* the history are logs whose unsynced tail a power loss may cut.  The     *)
(* exchange in progress from a contact to the other is `link`.             *)
(* The hybrid (pqc) layer, group and call records, receipts switched off,  *)
(* the size limits of the outbox and the caches' limits are left out.      *)
(***************************************************************************)
EXTENDS ChatRatchet, ChatAnchor, FiniteSets
LOCAL INSTANCE SequencesExt
LOCAL INSTANCE FiniteSetsExt

CONSTANTS MaxTexts,   \* texts each side writes
          MaxAbove,   \* MAX_ABOVE: applied numbers kept above a gap
          MaxEnvs,    \* MAX_RECENT_ENV: envelopes remembered
          MaxEks,     \* MAX_SEEN_EKS: first-flight keys remembered
          MaxKeys,    \* bound on the random keys and envelopes of a side
          Receipts,   \* read receipts are used
          Custody,    \* a failed send leaves a copy with a holder
          Anchored,   \* the sides whose store keeps a record of the session file
          Faults,     \* the faults that may happen
          MaxFaults   \* bound on how many do

Nodes == {1, 2}
Peer(a) == 3 - a
FaultKinds == {"loss", "late", "dial", "rate", "refuse", "big", "disk", "crash", "power", "delete",
               "cut", "redo", "record", "copy", "restore"}

ASSUME ChatAssumption == /\ MaxTexts \in [{1, 2} -> Nat] /\ MaxKeys \in Nat
                         /\ {MaxAbove, MaxEnvs, MaxEks} \subseteq Nat \ {0}
                         /\ Receipts \in BOOLEAN /\ Custody \in BOOLEAN /\ Anchored \subseteq {1, 2}
                         /\ Faults \subseteq FaultKinds /\ MaxFaults \in Nat

VARIABLES mem,      \* the peer state in memory
          disk,     \* the peer state on disk
          anchor,   \* the record of the session file, and what memory holds of it
          rolled,   \* the session file was found behind, and what was sealed on it is not void yet
          copy,     \* an earlier copy of the chat folder, if one was made
          box,      \* the outbox, oldest first
          stable,   \* the outbox its log is certain to hold after a power loss
          vol,      \* the log records written since, not yet synced
          hist,     \* the history
          synced,   \* how many of its records are certain to survive a power loss
          gate,     \* the handler that holds the gate
          link,     \* the exchange in progress towards the peer
          held,     \* copies of this side's envelopes in custody
          sent,     \* every envelope of this side that ever left
          gone,     \* the texts the person deleted here
          made,     \* texts written here so far
          fresh,    \* random keys drawn here so far
          faults    \* faults so far

peer == <<mem, disk, anchor, rolled, copy>>
engine == <<peer, box, stable, vol, hist, synced, gate, link, held, sent, gone, made, fresh>>

\* The faults so far are a bag: a kind met again is paired with the next number.  A copy
\* leaves room for the restore it is for, and a lost record, after which little is promised, is
\* met with one fault less.
Met(kinds) == \E f \in faults : f[1] \in kinds
Reserved(kinds) ==
    \/ kinds \cap {"copy", "restore"} = {"copy"}
    \/ "record" \in kinds
Fault(kind) ==
    /\ kind \in Faults
    /\ Cardinality(faults) < MaxFaults - IF Reserved({kind} \cup {f[1] : f \in faults}) THEN 1 ELSE 0
    /\ faults' = faults \cup {<<kind, Cardinality({f \in faults : f[1] = kind})>>}

Free == [step |-> "free"]
NoLink == [st |-> "none"]

NewPeer == [seq |-> 0, floor |-> 0, above |-> {}, eks |-> <<>>, envs |-> <<>>, sess |-> <<>>,
            read |-> 0, rep |-> 0]

EngineInit ==
    /\ mem = [a \in Nodes |-> NewPeer] /\ disk = mem
    /\ anchor = [a \in Nodes |-> NewAnchor] /\ rolled = [a \in Nodes |-> FALSE]
    /\ copy = [a \in Nodes |-> <<>>]
    /\ box = [a \in Nodes |-> <<>>] /\ stable = box /\ vol = box
    /\ hist = [a \in Nodes |-> <<>>] /\ synced = [a \in Nodes |-> 0]
    /\ gate = [a \in Nodes |-> Free] /\ link = [a \in Nodes |-> NoLink]
    /\ held = [a \in Nodes |-> {}] /\ sent = held /\ gone = held
    /\ made = [a \in Nodes |-> 0] /\ fresh = made /\ faults = {}

----------------------------------------------------------------------------
(* PeerState: the numbers applied are all up to `floor` and those in `above`. *)

IsNewSeq(p, n) == n > p.floor /\ n \notin p.above

\* Mutated MarkSeq: the floor is taken one number too far.
MarkSeqOneAhead(p, n) ==
    IF ~IsNewSeq(p, n) THEN p
    ELSE LET floor == Max(p.above \cup {n, p.floor}) + 1 IN [p EXCEPT !.floor = floor, !.above = {}]

\* mark_seq: a gap that outlives MaxAbove later numbers is given up on.
MarkSeq(p, n) ==
    IF ~IsNewSeq(p, n) THEN p
    ELSE LET above == p.above \cup {n}
             start == IF Cardinality(above) > MaxAbove THEN Min(above) ELSE p.floor
             floor == Max({k \in start .. start + Cardinality(above) :
                             \A i \in start + 1 .. k : i \in above}) IN
         [p EXCEPT !.floor = floor, !.above = {k \in above : k > floor}]

\* remember_ek and remember_envelope: the oldest makes room.
Remember(q, x, max) == IF Len(q) >= max THEN Append(Tail(q), x) ELSE Append(q, x)
RememberEk(p, ek) ==
    IF ek = 0 \/ ek \in ToSet(p.eks) THEN p ELSE [p EXCEPT !.eks = Remember(@, ek, MaxEks)]
RememberEnvelope(p, id) == [p EXCEPT !.envs = Remember(@, id, MaxEnvs)]

MaxRecvSeq(p) == Max(p.above \cup {p.floor})

\* Random values: distinct, and first-flight keys come in any order.
Key(a, i) == 100 * a + fresh[a] + i
Ranks == {0, 1000}

----------------------------------------------------------------------------
(* The files. *)

\* The fingerprint of a file about to be written: none that is still around.
Fingerprints(x) == {x.fp, x.seen} \cup
    UNION {UNION {{r[i].cur, r[i].next} : i \in DOMAIN r} : r \in {x.rec, x.sure}}
NextFp(a) == Min((1 .. 9) \ (Fingerprints(anchor[a]) \cup {copy[a][i].fp : i \in DOMAIN copy[a]}))

\* write_peer: the record, the file, the record again.  Without an anchor it is the file alone.
AnchorIs(a, x) == anchor' = IF a \in Anchored THEN [anchor EXCEPT ![a] = x] ELSE anchor
FlushedWith(a, p, x) ==
    /\ mem' = [mem EXCEPT ![a] = p] /\ disk' = [disk EXCEPT ![a] = p]
    /\ AnchorIs(a, x) /\ UNCHANGED copy
FlushOk(a, p) ==
    LET fp == NextFp(a) IN
    FlushedWith(a, p, AfterWrite(Replaced(BeforeWrite(anchor[a], fp, p.seq), fp), fp, p.seq))

\* The record cannot be written, before the file or after it: it is given up for this run.
FlushUnrecorded(a, p) ==
    /\ a \in Anchored /\ ~anchor[a].off /\ Fault("record")
    /\ LET fp == NextFp(a) IN
       \/ \E x \in SwitchedOff(anchor[a]) : FlushedWith(a, p, AfterWrite(Replaced(x, fp), fp, p.seq))
       \/ \E x \in SwitchedOff(Marked(Replaced(BeforeWrite(anchor[a], fp, p.seq), fp), fp, p.seq)) :
              FlushedWith(a, p, x)
Flushed(a, p) == (FlushOk(a, p) /\ UNCHANGED faults) \/ FlushUnrecorded(a, p)

\* A write that does not get through; told apart when the file on disk is one found behind.
Trouble(a, kind) == Fault(IF anchor[a].old THEN "redo" ELSE kind)

\* The file cannot be written, and the change stays in memory.
FlushFails(a, p) ==
    /\ Trouble(a, "disk") /\ mem' = [mem EXCEPT ![a] = p]
    /\ AnchorIs(a, BeforeWrite(anchor[a], NextFp(a), p.seq)) /\ UNCHANGED <<disk, copy>>

\* The process dies after the first record, or after the file.
FlushCut(a, p) ==
    /\ a \in Anchored /\ Trouble(a, "cut")
    /\ LET x == [BeforeWrite(anchor[a], NextFp(a), p.seq) EXCEPT !.down = TRUE] IN
       \/ FlushedWith(a, p, Replaced(x, NextFp(a)))
       \/ AnchorIs(a, x) /\ UNCHANGED <<mem, disk, copy>>

\* An outbox record and its replay.
Applied(entries, r) ==
    IF r.op = "done" THEN SelectSeq(entries, LAMBDA e : e.id # r.id)
    ELSE [i \in DOMAIN entries |->
             IF entries[i].id = r.id THEN [entries[i] EXCEPT !.sealed = <<>>] ELSE entries[i]]
Replayed(entries, rs) ==
    LET after[n \in 0 .. Len(rs)] == IF n = 0 THEN entries ELSE Applied(after[n - 1], rs[n]) IN
    after[Len(rs)]

\* A durable append (push, set_sealed), or a compaction, syncs the whole log.
BoxSynced(a, entries) ==
    /\ box' = [box EXCEPT ![a] = entries]
    /\ stable' = [stable EXCEPT ![a] = entries]
    /\ vol' = [vol EXCEPT ![a] = <<>>]

OutboxSame == UNCHANGED <<box, stable, vol>>

\* Records that are not synced (remove, clear_sealed); the log may be compacted after them.
BoxWritten(a, rs) ==
    LET entries == Replayed(box[a], rs) IN
    \/ rs = <<>> /\ OutboxSame
    \/ rs # <<>> /\ BoxSynced(a, entries)
    \/ /\ rs # <<>> /\ "power" \in Faults
       /\ box' = [box EXCEPT ![a] = entries]
       /\ vol' = [vol EXCEPT ![a] = @ \o rs]
       /\ UNCHANGED stable

\* void_sealed: forget the envelopes sealed on a session that is gone.
VoidSealed(a) ==
    BoxWritten(a, [i \in 1 .. Len(SelectSeq(box[a], LAMBDA e : e.sealed # <<>>)) |->
        [op |-> "unseal", id |-> SelectSeq(box[a], LAMBDA e : e.sealed # <<>>)[i].id]])

\* settle_rollback: what was sealed on a session found behind is void.
SettleRollback(a) ==
    /\ rolled' = [rolled EXCEPT ![a] = FALSE]
    /\ IF rolled[a] THEN VoidSealed(a) ELSE OutboxSame

Queued(a, id) == {e \in ToSet(box[a]) : e.id = id}

\* ChatStore::record; a durable append syncs the records before it too.
Recorded(a, id, st, durable) ==
    /\ hist' = [hist EXCEPT ![a] = Append(@, [id |-> id, st |-> st])]
    /\ synced' = IF durable THEN [synced EXCEPT ![a] = Len(hist[a]) + 1] ELSE synced

----------------------------------------------------------------------------
(* Sending. *)

TextId(a, k) == 10 * a + k
ReceiptId(a, n) == 10 * a + 5 + n

\* enqueue: the number is on disk before the text is in the outbox; either write may fail.  A
\* text the contact will find too big is one of the faults.
Enqueue(a) ==
    /\ gate[a] = Free /\ made[a] < MaxTexts[a]
    /\ LET p == [mem[a] EXCEPT !.seq = @ + 1]
           Entry(big) == [id |-> TextId(a, made[a] + 1), kind |-> "text", seq |-> p.seq, big |-> big,
                          sealed |-> <<>>] IN
       \/ Flushed(a, p) /\ BoxSynced(a, Append(box[a], Entry(FALSE)))
       \/ FlushOk(a, p) /\ BoxSynced(a, Append(box[a], Entry(TRUE))) /\ Fault("big")
       \/ (FlushFails(a, p) \/ FlushCut(a, p)) /\ OutboxSame
       \/ Fault("disk") /\ FlushOk(a, p) /\ OutboxSame
    /\ made' = [made EXCEPT ![a] = @ + 1]
    /\ UNCHANGED <<rolled, hist, synced, gate, link, held, sent, gone, fresh>>

\* mark_read: one receipt waits per contact; what was reported is written after it.
MarkRead(a) ==
    /\ Receipts /\ gate[a] = Free
    /\ \E n \in mem[a].rep + 1 .. MaxRecvSeq(mem[a]) :
         LET p == [mem[a] EXCEPT !.rep = n]
             e == [id |-> ReceiptId(a, n), kind |-> "read", seq |-> n, big |-> FALSE,
                   sealed |-> <<>>] IN
         /\ BoxSynced(a, Append(SelectSeq(box[a], LAMBDA x : x.kind = "text"), e))
         /\ Flushed(a, p) \/ FlushFails(a, p) \/ FlushCut(a, p)
    /\ UNCHANGED <<rolled, hist, synced, gate, link, held, sent, gone, made, fresh>>

\* prepare_wire, first half: seal with the next key and write the session down.  Without a
\* session a new one is started.  The other half (Keep) runs with the gate still held.
Sessions(a) ==
    IF mem[a].sess # <<>> THEN {mem[a].sess[1]}
    ELSE {NewInitiator(Peer(a), Key(a, 1) + rank, Key(a, 2)) : rank \in Ranks}
\* Mutated Seal: the session is not written down after the key was used.
SealUnwritten(a, e) ==
    /\ fresh[a] < MaxKeys
    /\ \E s \in Sessions(a) :
         LET body == [kind |-> e.kind, id |-> e.id, seq |-> e.seq, big |-> e.big] IN
         /\ mem' = [mem EXCEPT ![a].sess = <<AfterSeal(s)>>]
         /\ gate' = [gate EXCEPT ![a] =
                [step |-> "keep", id |-> e.id, env |-> Sealed(s, Key(a, 3), body)]]
    /\ fresh' = [fresh EXCEPT ![a] = @ + 3]
    /\ UNCHANGED <<disk, anchor, copy, faults>>

Seal(a, e) ==
    /\ fresh[a] < MaxKeys
    /\ \E s \in Sessions(a) :
         LET p == [mem[a] EXCEPT !.sess = <<AfterSeal(s)>>]
             body == [kind |-> e.kind, id |-> e.id, seq |-> e.seq, big |-> e.big] IN
         \/ /\ Flushed(a, p)
            /\ gate' = [gate EXCEPT ![a] =
                   [step |-> "keep", id |-> e.id, env |-> Sealed(s, Key(a, 3), body)]]
         \/ (FlushFails(a, p) \/ FlushCut(a, p)) /\ UNCHANGED gate
    /\ fresh' = [fresh EXCEPT ![a] = @ + 3]

\* reset_session, for a peer that has none: a failed write is ignored.
ResetSession(a) ==
    /\ gate[a] = Free
    /\ LET p == [mem[a] EXCEPT !.sess = <<>>] IN
         \/ (Flushed(a, p) \/ FlushFails(a, p)) /\ VoidSealed(a)
         \/ FlushCut(a, p) /\ OutboxSame
    /\ UNCHANGED <<rolled, hist, synced, gate, link, held, sent, gone, made, fresh>>

\* delete_message, for a text of this side.
DeleteMessage(a) ==
    /\ gate[a] = Free /\ Fault("delete")
    /\ \E k \in 1 .. made[a] :
         LET id == TextId(a, k)
             kept == SelectSeq(hist[a], LAMBDA m : m.id # id) IN
         /\ Queued(a, id) # {} \/ Len(kept) < Len(hist[a])
         /\ IF Queued(a, id) # {} THEN BoxWritten(a, <<[op |-> "done", id |-> id]>>) ELSE OutboxSame
         /\ hist' = [hist EXCEPT ![a] = kept]
         /\ synced' = IF kept = hist[a] THEN synced ELSE [synced EXCEPT ![a] = Len(kept)]
         /\ gone' = [gone EXCEPT ![a] = @ \cup {id}]
    /\ UNCHANGED <<peer, gate, link, held, sent, made, fresh>>

----------------------------------------------------------------------------
(* Receiving: accept. *)

\* A first-flight key that may start a session here.
StartsSession(p, e) ==
    e.ek # 0 /\ e.ek \notin ToSet(p.eks) /\ (p.sess # <<>> => e.ek # p.sess[1].ek)

\* Mutated OursWins: each side insists on its own session.
AlwaysOurs(p, e) == p.sess # <<>> /\ p.sess[1].init /\ p.sess[1].pend

\* Both sides started and ours wins.
OursWins(p, e) == p.sess # <<>> /\ p.sess[1].init /\ p.sess[1].pend /\ p.sess[1].ek < e.ek

\* Step 1 of accept, on copies: an answer at once, or the session after opening.
Verdict(b, e) ==
    LET p == mem[b]
        open == IF p.sess = <<>> THEN {} ELSE Opened(p.sess[1], e, Key(b, 1)) IN
    CASE e.id \in ToSet(p.envs) -> [say |-> "Duplicate"]
      [] e.id \notin ToSet(p.envs) /\ open # {} ->
            [say |-> "open", sess |-> CHOOSE s \in open : TRUE, replaced |-> FALSE, ek |-> 0]
      [] e.id \notin ToSet(p.envs) /\ open = {} /\ StartsSession(p, e) ->
            IF OursWins(p, e) THEN [say |-> "Busy"]
            ELSE [say |-> "open", replaced |-> p.sess # <<>>, ek |-> e.ek,
                  sess |-> CHOOSE s \in Opened(NewResponder(b, e.ek), e, Key(b, 1)) : TRUE]
      [] OTHER -> [say |-> "NoSession"]

Delivered == {"Stored", "Duplicate"}

\* The answer goes back on the exchange it belongs to; a holder deletes a delivered copy.
Answer(b, to, e, say) ==
    /\ link' = IF to = "link" THEN [link EXCEPT ![Peer(b)] = [st |-> "ack", say |-> say, env |-> e]]
               ELSE link
    /\ held' = IF to = "held" /\ say \in Delivered THEN [held EXCEPT ![Peer(b)] = @ \ {e}] ELSE held

IsNewText(b, e) == e.body.kind = "text" /\ IsNewSeq(mem[b], e.body.seq)

\* The first part of accept: step 1, and the durable history record of a new text.
Accept(b, e, to) ==
    /\ gate[b] = Free /\ fresh[b] < MaxKeys
    /\ LET v == Verdict(b, e)
           store == v.say = "open" /\ IsNewText(b, e) /\ ~e.body.big
           fails == Fault("disk") /\ Answer(b, to, e, "Failed")
                    /\ UNCHANGED <<gate, hist, synced, fresh>> IN
       \/ /\ v.say # "open" /\ Answer(b, to, e, v.say)
          /\ UNCHANGED <<gate, hist, synced, fresh, faults>>
       \/ /\ v.say = "open"
          /\ gate' = [gate EXCEPT ![b] =
                [step |-> "commit", env |-> e, to |-> to, stored |-> store, verdict |-> v]]
          /\ IF store THEN Recorded(b, e.body.id, "received", TRUE) ELSE UNCHANGED <<hist, synced>>
          /\ link' = IF to = "link" THEN [link EXCEPT ![Peer(b)] = [st |-> "read", env |-> e]] ELSE link
          /\ fresh' = [fresh EXCEPT ![b] = @ + 1]
          /\ UNCHANGED <<held, faults>>
       \/ store /\ fails
    /\ SettleRollback(b)
    /\ UNCHANGED <<mem, disk, anchor, copy, sent, gone, made>>

\* Mutated Committed: the number of a text is not marked as applied.
CommittedUnmarked(p, j) ==
    RememberEnvelope(RememberEk([p EXCEPT !.sess = <<j.verdict.sess>>], j.verdict.ek), j.env.id)

\* What accept commits: the session, the number or the receipt, the envelope.
Committed(p, j) ==
    LET body == j.env.body
        q == RememberEnvelope(RememberEk([p EXCEPT !.sess = <<j.verdict.sess>>], j.verdict.ek),
                              j.env.id) IN
    CASE body.kind = "text" -> MarkSeq(q, body.seq)
      [] body.kind = "read" /\ body.seq <= p.seq /\ body.seq > p.read -> [q EXCEPT !.read = body.seq]
      [] OTHER -> q

Status(j) == CASE j.env.body.kind = "read" \/ j.stored -> "Stored"
               [] j.env.body.big -> "TooBig"
               [] OTHER -> "Duplicate"

\* The last part of accept: commit, write down, and void what a replaced session sealed.
Commit(b) ==
    /\ gate[b].step = "commit"
    /\ LET j == gate[b]
           p == Committed(mem[b], j) IN
       \/ /\ Flushed(b, p)
          /\ IF j.verdict.replaced THEN VoidSealed(b) ELSE OutboxSame
          /\ Answer(b, j.to, j.env, Status(j))
       \/ FlushFails(b, p) /\ OutboxSame /\ Answer(b, j.to, j.env, "Failed")
       \/ FlushCut(b, p) /\ OutboxSame /\ UNCHANGED <<link, held>>
    /\ gate' = IF anchor'[b].down THEN gate ELSE [gate EXCEPT ![b] = Free]
    /\ UNCHANGED <<rolled, hist, synced, sent, gone, made, fresh>>
=============================================================================
