------------------------------ MODULE PushLink ------------------------------
(***************************************************************************)
(* The connections file push runs over (the Link and Dialer seams of       *)
(* push/service.rs; QUIC itself is outside the repository).  Each end has  *)
(* its own view of a connection: one end closes or loses it, the other end *)
(* learns of it later, with the close code or as a plain loss.  Bytes of a *)
(* stream arrive in order or not at all.                                   *)
(***************************************************************************)
EXTENDS Naturals, Sequences, FiniteSets

CONSTANTS Links,      \* connections that may exist at the same time
          Size,       \* blocks of the file
          Faults,     \* the kinds of fault this instance may meet
          MaxFaults   \* bound: faults in one behaviour

FaultKinds == {"loss", "timeout", "dial", "giveup", "cancel", "edit", "shutdown",
               "crash", "rxcancel", "rxcrash", "disk", "sweep", "clear", "rot"}

ASSUME LinkAssumption ==
    /\ IsFiniteSet(Links) /\ Links # {}
    /\ Size \in Nat \ {0}
    /\ Faults \subseteq FaultKinds /\ MaxFaults \in Nat

VARIABLES sview,    \* the sending daemon's view of each connection
          rview,    \* the receiving daemon's view
          up,       \* per connection: headers and blocks on their way to the receiver
          down,     \* per connection: answers on their way to the sender
          faults    \* faults met so far

linkVars == <<sview, rview, up, down, faults>>

NoLink == "no link"
CloseCodes == {"ok", "retry", "cancelled", "superseded", "lost"}
Views == CloseCodes \cup {"none", "open"}

LinkInit ==
    /\ sview = [l \in Links |-> "none"] /\ rview = [l \in Links |-> "none"]
    /\ up = [l \in Links |-> <<>>] /\ down = [l \in Links |-> <<>>]
    /\ faults = {}

\* The faults so far are a bag: a kind met again is paired with the next number.
Fault(kind) ==
    /\ kind \in Faults /\ Cardinality(faults) < MaxFaults
    /\ faults' = faults \cup {<<kind, Cardinality({f \in faults : f[1] = kind})>>}
Met(kinds) == \E f \in faults : f[1] \in kinds

\* Link::close: the first close of an end decides what that end shows.
Close(view, l, code) == IF l \in Links /\ view[l] = "open" THEN [view EXCEPT ![l] = code] ELSE view

\* One end has closed; the other learns the code, or only that the link died.
CloseArrives(l) ==
    /\ \/ /\ sview[l] \in CloseCodes /\ rview[l] = "open"
          /\ \E c \in {sview[l], "lost"} : rview' = [rview EXCEPT ![l] = c]
          /\ UNCHANGED sview
       \/ /\ rview[l] \in CloseCodes /\ sview[l] = "open"
          /\ \E c \in {rview[l], "lost"} : sview' = [sview EXCEPT ![l] = c]
          /\ UNCHANGED rview
    /\ UNCHANGED <<up, down, faults>>

\* The network drops the connection; one end notices first.
LinkLost(l) ==
    /\ sview[l] = "open" /\ rview[l] = "open"
    /\ Fault("loss")
    /\ \/ sview' = [sview EXCEPT ![l] = "lost"] /\ UNCHANGED rview
       \/ rview' = [rview EXCEPT ![l] = "lost"] /\ UNCHANGED sview
    /\ UNCHANGED <<up, down>>
=============================================================================
