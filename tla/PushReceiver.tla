---------------------------- MODULE PushReceiver ----------------------------
(***************************************************************************)
(* The receiving side of file push: serve_link, receive_one and            *)
(* receive_body of push/service.rs, one handler per connection.  All       *)
(* transfers are of the same content, so they share one partial file; a    *)
(* block of a file is the version of the source it was read from.          *)
(***************************************************************************)
EXTENDS PushLink

CONSTANTS MaxInbound,   \* permits of inbound_slots
          Rounds        \* times a newcomer asks the owner of a partial file to let go

ASSUME ReceiverAssumption == MaxInbound \in Nat \ {0} /\ Rounds \in Nat \ {0}

VARIABLES
    rx,        \* the handler of each connection
    holder,    \* active_parts: the handler that owns the partial file
    part,      \* the blocks of the partial file (no file: none)
    unlinked,  \* the owner's open file is no longer the one in the folder
    saved,     \* the contents of the files placed in the inbox
    rdone,     \* rows of the receiver's board that ended as Done
    clear      \* clear_finished: "no", "snap" (active parts read), "over" (overwritten)

recvVars == <<rx, holder, part, unlinked, saved, rdone, clear>>

\* pc: "none" (no connection), "idle" (between streams), "claim" (waiting for the
\* partial file), "hash" (owns it), "body", "verify", "final" (receive_body has
\* returned), "ack" (the row is final), "gone" (serve_link has returned).
Handler(pc) == [pc |-> pc, job |-> 0, waited |-> 0, hashed |-> <<>>, cancel |-> FALSE,
                poke |-> FALSE, ack |-> ""]
Busy == {"claim", "hash", "body", "verify"}

Whole == [i \in 1 .. Size |-> "orig"]

ReceiverInit ==
    /\ rx = [l \in Links |-> Handler("none")]
    /\ holder = NoLink /\ part = <<>> /\ unlinked = FALSE
    /\ saved = <<>> /\ rdone = 0 /\ clear = "no"

Step(l, from, to) == rx[l].pc = from /\ rx' = [rx EXCEPT ![l].pc = to]
Ends(l, pc) == rx' = [rx EXCEPT ![l] = Handler(pc)]

\* An answer on the stream of the handler's transfer; "end": the stream ends.
Answer(l, t, n) ==
    down' = IF rview[l] = "open"
            THEN [down EXCEPT ![l] = Append(@, [t |-> t, n |-> n, job |-> rx[l].job])]
            ELSE down

\* File writes go to a position, whatever the length of the file is by then.
WriteAt(p, k, v) ==
    [i \in 1 .. IF k > Len(p) THEN k ELSE Len(p) |->
        IF i = k THEN v ELSE IF i <= Len(p) THEN p[i] ELSE "zero"]

-----------------------------------------------------------------------------
(* serve_link                                                              *)

Serve(l) ==
    /\ rview[l] = "open"
    /\ Step(l, "none", "idle")
    /\ UNCHANGED <<linkVars, holder, part, unlinked, saved, rdone, clear>>

\* accept_bi fails, or nothing came for the idle time.
ServeEnds(l) ==
    /\ Step(l, "idle", "gone")
    /\ \/ rview[l] # "open" /\ UNCHANGED <<rview, faults>>
       \/ rview[l] = "open" /\ Fault("timeout") /\ rview' = Close(rview, l, "ok")
    /\ UNCHANGED <<sview, up, down, holder, part, unlinked, saved, rdone, clear>>

\* What a stream that is over still had on its way is skipped.
Headers(l) == {i \in 1 .. Len(up[l]) : up[l][i].t = "hdr"}
FirstHeader(l) == CHOOSE i \in Headers(l) : \A k \in Headers(l) : i <= k

\* receive_one up to the claim: refused when all inbound slots are taken.
Slots == Cardinality({m \in Links : rx[m].pc \in Busy})
HeaderArrives(l) ==
    /\ rx[l].pc = "idle" /\ Headers(l) # {}
    /\ LET h == FirstHeader(l)  j == up[l][h].job IN
       /\ up' = [up EXCEPT ![l] = SubSeq(@, h + 1, Len(@))]
       /\ \/ /\ Slots < MaxInbound
             /\ rx' = [rx EXCEPT ![l] = [Handler("claim") EXCEPT !.job = j]]
             /\ UNCHANGED down
          \/ /\ Slots >= MaxInbound
             /\ down' = [down EXCEPT ![l] = Append(@, [t |-> "busy", n |-> 0, job |-> j])]
             /\ UNCHANGED rx
    /\ UNCHANGED <<sview, rview, faults, holder, part, unlinked, saved, rdone, clear>>

-----------------------------------------------------------------------------
(* receive_body: owning the partial file                                   *)

\* Mutated Claim: a newcomer that has asked the owner to let go takes the file
\* without waiting for it.
ClaimsAtOnce(l) ==
    /\ Step(l, "claim", "hash")
    /\ holder \in Links => rx[holder].poke
    /\ holder' = l
    /\ UNCHANGED <<linkVars, part, unlinked, saved, rdone, clear>>

Claim(l) ==
    /\ rx[l].pc = "claim"
    /\ holder = NoLink
    /\ rx' = [rx EXCEPT ![l].pc = "hash", ![l].waited = 0]
    /\ holder' = l
    /\ UNCHANGED <<linkVars, part, unlinked, saved, rdone, clear>>

\* notify_one leaves a permit with the owner, which may use it any time later.
AskOwner(l) ==
    /\ rx[l].pc = "claim"
    /\ holder \in Links /\ rx[l].waited < Rounds
    /\ rx' = [rx EXCEPT ![holder].poke = TRUE, ![l].waited = @ + 1]
    /\ UNCHANGED <<linkVars, holder, part, unlinked, saved, rdone, clear>>

\* The file was never free in any of the rounds.
ClaimGivesUp(l) ==
    /\ rx[l].pc = "claim"
    /\ holder \in Links /\ rx[l].waited = Rounds
    /\ Ends(l, "idle") /\ Answer(l, "busy", 0)
    /\ UNCHANGED <<sview, rview, up, faults, holder, part, unlinked, saved, rdone, clear>>

\* The bytes on disk are hashed, the file is cut to them and opened there, and
\* the sender is told where to resume.
AcceptFile(l) ==
    /\ rx[l].pc = "hash"
    /\ ~rx[l].cancel \/ part = <<>>
    /\ unlinked' = FALSE
    /\ \/ /\ rview[l] = "open"
          /\ rx' = [rx EXCEPT ![l].pc = "body", ![l].hashed = part]
          /\ Answer(l, "accept", Len(part))
          /\ UNCHANGED holder
       \/ /\ rview[l] # "open"
          /\ Ends(l, "idle") /\ holder' = NoLink /\ UNCHANGED down
    /\ UNCHANGED <<sview, rview, up, faults, part, saved, rdone, clear>>

NoSpace(l) ==
    /\ rx[l].pc = "hash"
    /\ Fault("disk")
    /\ Ends(l, "idle") /\ holder' = NoLink /\ Answer(l, "no_space", 0)
    /\ UNCHANGED <<sview, rview, up, part, unlinked, saved, rdone, clear>>

-----------------------------------------------------------------------------
(* receive_body: the bytes                                                 *)

BlockArrives(l) ==
    /\ rx[l].pc = "body" /\ Len(rx[l].hashed) < Size
    /\ up[l] # <<>> /\ Head(up[l]).t = "blk" /\ Head(up[l]).job = rx[l].job
    /\ LET k == Len(rx[l].hashed) + 1  v == Head(up[l]).v IN
       /\ rx' = [rx EXCEPT ![l].hashed = Append(@, v)]
       /\ part' = IF unlinked THEN part ELSE WriteAt(part, k, v)
    /\ up' = [up EXCEPT ![l] = Tail(@)]
    /\ UNCHANGED <<sview, rview, down, faults, holder, unlinked, saved, rdone, clear>>

\* A newer connection asked for the file: what is written is kept.
Superseded(l) ==
    /\ rx[l].pc = "body" /\ Len(rx[l].hashed) < Size
    /\ rx[l].poke
    /\ Ends(l, "gone") /\ holder' = NoLink
    /\ rview' = Close(rview, l, "superseded")
    /\ UNCHANGED <<sview, up, down, faults, part, unlinked, saved, rdone, clear>>

\* rx_broke: a sender that closed with CLOSE_CANCELLED will not resume.
StreamEnds(l) ==
    \/ rview[l] # "open" /\ UNCHANGED faults
    \/ up[l] # <<>> /\ Head(up[l]).t = "fin" /\ UNCHANGED faults
    \/ Fault("timeout")

BodyBroke(l) ==
    /\ rx[l].pc = "body" /\ Len(rx[l].hashed) < Size
    /\ StreamEnds(l)
    /\ holder' = NoLink
    /\ \/ rview[l] = "cancelled" /\ Ends(l, "gone") /\ part' = IF unlinked THEN part ELSE <<>>
       \/ rview[l] # "cancelled" /\ Ends(l, "idle") /\ part' = part
    /\ Answer(l, "end", 0)
    /\ UNCHANGED <<sview, rview, up, unlinked, saved, rdone, clear>>

\* Cancelled on this side; before the body the partial file is left.
BodyCancelled(l) ==
    /\ rx[l].pc \in {"hash", "body"} /\ rx[l].cancel
    /\ rx[l].pc = "hash" => part # <<>>
    /\ rx[l].pc = "body" => Len(rx[l].hashed) < Size
    /\ part' = IF rx[l].pc = "body" /\ ~unlinked THEN <<>> ELSE part
    /\ Ends(l, "gone") /\ holder' = NoLink
    /\ rview' = Close(rview, l, "cancelled")
    /\ UNCHANGED <<sview, up, down, faults, unlinked, saved, rdone, clear>>

\* A failed write: what the writer had buffered may not have reached the disk.
WriteFails(l) ==
    /\ rx[l].pc = "body"
    /\ Fault("disk")
    /\ rx' = [rx EXCEPT ![l].pc = "final", ![l].ack = "write_failed"]
    /\ holder' = NoLink
    /\ \E k \in 0 .. Len(part) : part' = IF unlinked THEN part ELSE SubSeq(part, 1, k)
    /\ UNCHANGED <<sview, rview, up, down, unlinked, saved, rdone, clear>>

AllArrived(l) ==
    /\ Step(l, "body", "verify")
    /\ Len(rx[l].hashed) = Size
    /\ UNCHANGED <<linkVars, holder, part, unlinked, saved, rdone, clear>>

\* Mutated Verify: the file is placed without comparing its hash.
PlacesUnverified(l) ==
    /\ rx[l].pc = "verify"
    /\ holder' = NoLink
    /\ saved' = Append(saved, part) /\ part' = <<>>
    /\ rx' = [rx EXCEPT ![l].pc = "final", ![l].ack = "ok"]
    /\ UNCHANGED <<linkVars, unlinked, rdone, clear>>

\* The hash of what was read and written decides; the file is then renamed to
\* its name, or to "name (1)" and so on.
Verify(l) ==
    /\ rx[l].pc = "verify"
    /\ holder' = NoLink
    /\ \/ /\ rx[l].hashed = Whole /\ ~unlinked
          /\ saved' = Append(saved, part) /\ part' = <<>>
          /\ rx' = [rx EXCEPT ![l].pc = "final", ![l].ack = "ok"]
          /\ UNCHANGED faults
       \/ /\ rx[l].hashed = Whole
          /\ (unlinked /\ UNCHANGED faults) \/ Fault("disk")
          /\ rx' = [rx EXCEPT ![l].pc = "final", ![l].ack = "rename_failed"]
          /\ UNCHANGED <<saved, part>>
       \/ /\ rx[l].hashed # Whole
          /\ part' = IF unlinked THEN part ELSE <<>>
          /\ rx' = [rx EXCEPT ![l].pc = "final", ![l].ack = "hash_mismatch"]
          /\ UNCHANGED <<saved, faults>>
    /\ UNCHANGED <<sview, rview, up, down, unlinked, rdone, clear>>

\* The row gets its final state, and only then the sender its answer.
RowFinal(l) ==
    /\ Step(l, "final", "ack")
    /\ rdone' = IF rx[l].ack = "ok" THEN rdone + 1 ELSE rdone
    /\ UNCHANGED <<linkVars, holder, part, unlinked, saved, clear>>

\* Mutated SendDone: the answer goes out before the row is final.
AcksBeforeRow(l) ==
    /\ rx[l].pc \in {"final", "ack"}
    /\ Ends(l, "idle") /\ Answer(l, rx[l].ack, 0)
    /\ UNCHANGED <<sview, rview, up, faults, holder, part, unlinked, saved, rdone, clear>>

SendDone(l) ==
    /\ rx[l].pc = "ack"
    /\ Ends(l, "idle") /\ Answer(l, rx[l].ack, 0)
    /\ UNCHANGED <<sview, rview, up, faults, holder, part, unlinked, saved, rdone, clear>>

-----------------------------------------------------------------------------
(* The person, the clean-ups, and the life of the process                  *)

CancelRow(l) ==
    /\ rx[l].pc \in Busy /\ ~rx[l].cancel
    /\ Fault("rxcancel")
    /\ rx' = [rx EXCEPT ![l].cancel = TRUE]
    /\ UNCHANGED <<sview, rview, up, down, holder, part, unlinked, saved, rdone, clear>>

\* sweep_partials: a partial file that nobody owns and that is old enough.
SweepPartials ==
    /\ holder = NoLink /\ part # <<>>
    /\ Fault("sweep")
    /\ part' = <<>>
    /\ UNCHANGED <<sview, rview, up, down, rx, holder, unlinked, saved, rdone, clear>>

\* A partial file kept for a resume does not read back as it was written.
DiskRots ==
    /\ holder = NoLink /\ part # <<>>
    /\ Fault("rot")
    /\ part' = [part EXCEPT ![1] = "random"]
    /\ UNCHANGED <<sview, rview, up, down, rx, holder, unlinked, saved, rdone, clear>>

\* clear_finished reads the set of owned parts once, then overwrites and removes
\* the files that were not in it.
ClearSnapshot ==
    /\ clear = "no" /\ holder = NoLink /\ part # <<>>
    /\ Fault("clear")
    /\ clear' = "snap"
    /\ UNCHANGED <<sview, rview, up, down, rx, holder, part, unlinked, saved, rdone>>
ClearOverwrites ==
    /\ clear = "snap"
    /\ clear' = IF part = <<>> THEN "no" ELSE "over"
    /\ part' = [i \in 1 .. Len(part) |-> "random"]
    /\ UNCHANGED <<linkVars, rx, holder, unlinked, saved, rdone>>
ClearRemoves ==
    /\ clear = "over"
    /\ clear' = "no"
    /\ part' = <<>>
    /\ unlinked' = (unlinked \/ (holder \in Links /\ rx[holder].pc \in {"body", "verify"}))
    /\ UNCHANGED <<linkVars, rx, holder, saved, rdone>>

\* The process ends at any moment and starts again; buffered bytes are lost.
ReceiverRestart ==
    /\ Fault("rxcrash")
    /\ rx' = [l \in Links |-> IF rx[l].pc = "none" THEN rx[l] ELSE Handler("gone")]
    /\ holder' = NoLink /\ unlinked' = FALSE /\ clear' = "no"
    /\ \E k \in 0 .. Len(part) : part' = SubSeq(part, 1, k)
    /\ rview' = [l \in Links |-> IF rview[l] = "open" THEN "lost" ELSE rview[l]]
    /\ UNCHANGED <<sview, up, down, saved, rdone>>

ReceiverStep(l) ==
    \/ Serve(l) \/ HeaderArrives(l) \/ Claim(l) \/ AskOwner(l) \/ ClaimGivesUp(l) \/ AcceptFile(l)
    \/ BlockArrives(l) \/ Superseded(l) \/ BodyBroke(l) \/ BodyCancelled(l)
    \/ AllArrived(l) \/ Verify(l) \/ RowFinal(l) \/ SendDone(l) \/ ServeEnds(l)

ReceiverEvents ==
    \/ \E l \in Links : NoSpace(l) \/ WriteFails(l) \/ CancelRow(l)
    \/ SweepPartials \/ DiskRots \/ ClearSnapshot \/ ClearOverwrites \/ ClearRemoves \/ ReceiverRestart
=============================================================================
