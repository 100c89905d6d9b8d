--------------------------- MODULE RecoverableMap ---------------------------
(***************************************************************************)
(* What a keyed store kept in memory and mirrored to a log promises: after *)
(* a crash it comes back as one of the states it passed through since the  *)
(* last flush, never as anything else.  "may" is the set of those states.  *)
(***************************************************************************)
CONSTANTS Keys,    \* the keys of the map
          Values,  \* what a key may be bound to
          None     \* the value of an absent key

VARIABLES mem,     \* the map in memory
          may,     \* the maps a crash now could leave
          up       \* FALSE between a crash and the next start

mapVars == <<mem, may, up>>

Maps == [Keys -> Values \cup {None}]
EmptyMap == [k \in Keys |-> None]

Init == mem = EmptyMap /\ may = {EmptyMap} /\ up = TRUE

\* A change of one key, not flushed yet.
Write(k) ==
    /\ up
    /\ \E v \in Values \cup {None} : mem' = [mem EXCEPT ![k] = v]
    /\ may' = may \cup {mem'}
    /\ up' = up

\* Everything written so far survives from here on.
Flush ==
    /\ up
    /\ may' = {mem}
    /\ UNCHANGED <<mem, up>>

Crash ==
    /\ up
    /\ up' = FALSE
    /\ mem' = EmptyMap
    /\ may' = may

Recover ==
    /\ ~up
    /\ mem' \in may
    /\ may' = {mem'}
    /\ up' = TRUE

Next == (\E k \in Keys : Write(k)) \/ Flush \/ Crash \/ Recover

Spec == Init /\ [][Next]_mapVars
=============================================================================
