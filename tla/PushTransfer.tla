---------------------------- MODULE PushTransfer ----------------------------
(***************************************************************************)
(* File push end to end: the sending daemon, the receiving daemon and the  *)
(* connections between them.                                               *)
(***************************************************************************)
EXTENDS PushSender, PushReceiver

vars == <<linkVars, sendVars, recvVars>>

Init == LinkInit /\ SenderInit /\ ReceiverInit

\* Both ends are done with a connection: it no longer exists.
Forget(l) ==
    /\ sview[l] \in CloseCodes /\ rview[l] \in CloseCodes
    /\ rx[l].pc \in {"none", "gone"} /\ conn # l
    /\ sview' = [sview EXCEPT ![l] = "none"] /\ rview' = [rview EXCEPT ![l] = "none"]
    /\ up' = [up EXCEPT ![l] = <<>>] /\ down' = [down EXCEPT ![l] = <<>>]
    /\ rx' = [rx EXCEPT ![l] = Handler("none")]
    /\ UNCHANGED <<faults, sendVars, holder, part, unlinked, saved, rdone, clear>>

Sender == (SenderStep \/ SenderEvents \/ \E l \in Links : Dial(l)) /\ UNCHANGED recvVars
Receiver == ((\E l \in Links : ReceiverStep(l)) \/ ReceiverEvents) /\ UNCHANGED sendVars
Network ==
    /\ \E l \in Links : CloseArrives(l) \/ LinkLost(l)
    /\ UNCHANGED <<sendVars, recvVars>>

Next == Sender \/ Receiver \/ Network \/ \E l \in Links : Forget(l)

Spec == Init /\ [][Next]_vars

\* The executor runs every task that can run and timers fire; a dial that is
\* tried again and again goes through in the end.
Fairness ==
    /\ WF_vars(SenderStep /\ UNCHANGED recvVars)
    /\ SF_vars((\E l \in Links : Dial(l)) /\ UNCHANGED recvVars)
    /\ \A l \in Links :
         /\ WF_vars(ReceiverStep(l) /\ UNCHANGED sendVars)
         /\ WF_vars(CloseArrives(l) /\ UNCHANGED <<sendVars, recvVars>>)
         /\ WF_vars(Forget(l))

FairSpec == Spec /\ Fairness

-----------------------------------------------------------------------------
(* Properties                                                              *)

UpMsgs == [t : {"hdr", "blk", "fin"}, v : {"", "orig", "edited"}, job : JobIds]
AnswerKinds == {"accept", "busy", "no_space", "ok", "write_failed", "rename_failed", "hash_mismatch", "end"}

\* The types of the variables.
TypeOK ==
    /\ sview \in [Links -> Views] /\ rview \in [Links -> Views]
    /\ \A l \in Links : /\ \A i \in 1 .. Len(up[l]) : up[l][i] \in UpMsgs
                        /\ \A i \in 1 .. Len(down[l]) :
                             down[l][i] \in [t : AnswerKinds, n : 0 .. Size, job : JobIds]
                        /\ Len(rx[l].hashed) <= Size
    /\ Cardinality(faults) <= MaxFaults
    /\ \A i \in 1 .. Len(queue) : queue[i] \in JobIds
    /\ cur \in JobIds \cup {NoJob} /\ conn \in Links \cup {NoLink}
    /\ sent \in 0 .. Size
    /\ board \in [JobIds -> BoardStates]
    /\ outbox \in [JobIds -> {"yes", "no", "maybe"}]
    /\ holder \in Links \cup {NoLink}

\* What the hash of a receive has covered is what its file holds: receive_body
\* hashes the bytes it reads, not the file it renames.  (Clearing finished
\* transfers breaks it: RunningUntouched below.)
HashedIsStored ==
    ~Met({"clear"}) => \A l \in Links : rx[l].pc \in {"body", "verify"} =>
        holder = l /\ (~unlinked => part = rx[l].hashed)

\* Every file placed in the inbox has the content the sender queued (with the
\* same exception).
SavedIntact == ~Met({"clear"}) => \A i \in 1 .. Len(saved) : saved[i] = Whole

\* A send shown as done was saved, and the row on the other side was final
\* before ("whoever sees the sender's done must find this side final too").
DoneIsFinal ==
    /\ Cardinality({j \in JobIds : board[j] = "Done"}) <= rdone
    /\ rdone <= Len(saved)

\* A send that is not finished is stored, and a worker has it or will take it.
NothingStranded ==
    \A j \in JobIds : board[j] \notin Finished \cup {"none", "Cleared"} =>
        /\ outbox[j] = "yes"
        /\ \/ stop
           \/ cur = j
           \/ running /\ spc # "none" /\ \E i \in 1 .. Len(queue) : queue[i] = j

ReasonsToFail == {"cancel", "edit", "disk"}

\* Clearing finished transfers leaves the file of a running receive alone
\* ("Queued, running and waiting transfers are untouched").
RunningUntouched ==
    [][clear # "no" /\ clear' # clear /\ holder \in Links /\ holder' = holder => part' = part]_vars

\* Every queued send ends, and it arrives unless there was a reason to fail:
\* whatever connections, dials and processes are lost on the way.
EverySendEnds ==
    \A j \in JobIds :
        board[j] = "Queued" ~> \/ board[j] = "Done"
                               \/ board[j] \in Finished /\ Met(ReasonsToFail)
=============================================================================
