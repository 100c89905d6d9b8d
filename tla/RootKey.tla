------------------------------ MODULE RootKey ------------------------------
(***************************************************************************)
(* The files of the node's root key (root_key/mod.rs, sealed.rs,           *)
(* durable.rs, provider.rs) and the processes that open them.              *)
(*                                                                         *)
(* A key is a number.  master.key is a plain key or a marker that names a  *)
(* sealed file; root.sealed wraps a key.  A plain file has an identity of  *)
(* its own, because the second name it gets during the move to the sealed  *)
(* form is a hard link: bytes written through one name appear under the    *)
(* other.  Every read of a file and every change of a name is a step, any  *)
(* number of processes take them, and each may die between any two.        *)
(*                                                                         *)
(* Staging files are not represented: their names are unique and nothing   *)
(* but the step that moves one into place looks at it.                     *)
(***************************************************************************)
EXTENDS Naturals, FiniteSets

CONSTANTS Procs,     \* processes that use the data folder
          Sealers,   \* those with a device wrap installed; the others keep a plain key
          Nobody,    \* not a process
          Together,  \* the sets of processes that may use one folder
          MaxMade,   \* bound: keys and sealed files made in one behaviour
          Files,     \* identities of plain files
          Faults,    \* the kinds of fault this instance may meet
          MaxFaults  \* bound: faults in one behaviour

FaultKinds == {"crash", "unavail", "flaky", "badwrap", "gone", "link", "io", "rename"}

ASSUME RootKeyAssumption ==
    /\ Sealers \subseteq Procs /\ Nobody \notin Procs
    /\ Together \subseteq SUBSET Procs /\ \A s \in Together : s \cap Sealers # {}
    /\ MaxMade \in Nat \ {0} /\ Files \subseteq Nat \ {0} /\ 1 \in Files
    /\ Faults \subseteq FaultKinds /\ MaxFaults \in Nat

VARIABLES master,   \* master.key
          bytes,    \* what a plain file holds: a key, or Junk
          aside,    \* master.key.premigrate: a plain file, or 0
          sealed,   \* root.sealed
          lock,     \* who holds the migration lock
          made,     \* how many keys and sealed files have been made
          used,     \* the keys that processes have worked with
          around,   \* the processes of this behaviour
          pc,       \* per process: the step it is at,
          seen,     \* ... what master.key was when it read it,
          blob,     \* ... the sealed file it read or made,
          key,      \* ... the key it has,
          hand,     \* ... the plain file it has open for overwriting
          faults    \* faults met so far

disk == <<master, bytes, aside, sealed>>
local == <<pc, seen, blob, key, hand>>
vars == <<disk, lock, made, used, around, local, faults>>

Keys == 1 .. MaxMade
Junk == 0      \* random bytes of the length of a key: a reader takes them for one
Nothing == [is |-> "none", n |-> 0]
Plain(f) == [is |-> "plain", n |-> f]
Stub(id) == [is |-> "stub", n |-> id]
NoBlob == [id |-> 0, key |-> Junk, is |-> "none"]

\* A folder with a plain key, or a new one. A program without a wrap is run on the first kind
\* only: on a new folder it and a sealing one would each make a key of their own.
Init ==
    /\ around \in Together
    /\ \/ master = Plain(1) /\ used = {1}
       \/ master = Nothing /\ used = {} /\ around \subseteq Sealers
    /\ bytes = [f \in Files |-> IF f = 1 THEN 1 ELSE Junk]
    /\ aside = 0 /\ sealed = NoBlob
    /\ lock = Nobody /\ made = 1 /\ faults = {}
    /\ pc = [p \in Procs |-> "off"]
    /\ seen = [p \in Procs |-> Nothing]
    /\ blob = [p \in Procs |-> NoBlob]
    /\ key = [p \in Procs |-> Junk]
    /\ hand = [p \in Procs |-> 0]

\* What is in root.sealed now opens to k.
OpensTo(k) == sealed.is = "good" /\ sealed.key = k

\* The faults so far are a bag: a kind met again is paired with the next number.
Fault(kind) ==
    /\ kind \in Faults /\ Cardinality(faults) < MaxFaults
    /\ faults' = faults \cup {<<kind, Cardinality({f \in faults : f[1] = kind})>>}
Met(kinds) == \E f \in faults : f[1] \in kinds

\* The key store cannot be used right now.
Unavailable == Fault("unavail")

Go(p, step) == pc' = [pc EXCEPT ![p] = step]
\* The process is back from get, with a key or without; a lock it holds is dropped.
Leave(p, step, k) ==
    /\ Go(p, step)
    /\ seen' = [seen EXCEPT ![p] = Nothing]
    /\ blob' = [blob EXCEPT ![p] = NoBlob]
    /\ key' = [key EXCEPT ![p] = k]
    /\ hand' = [hand EXCEPT ![p] = 0]
    /\ lock' = IF lock = p THEN Nobody ELSE lock
Fail(p) == Leave(p, "off", Junk) /\ UNCHANGED used
Done(p, k) == Leave(p, "on", k) /\ used' = used \cup {k}

----------------------------------------------------------------------------
(* The start-up rules: get_with and sealed::open.                           *)

Get(p) ==
    /\ p \in around /\ pc[p] = "off"
    /\ Go(p, "master")
    /\ UNCHANGED <<disk, lock, made, used, around, seen, blob, key, hand, faults>>

\* read_master; a plain file is read with its bytes.
ReadMaster(p) ==
    /\ pc[p] \in {"master", "again"}
    /\ seen' = [seen EXCEPT ![p] = IF master.is = "plain" THEN Plain(bytes[master.n]) ELSE master]
    /\ Go(p, IF pc[p] = "master" THEN "sealed" ELSE "sealed again")
    /\ UNCHANGED <<disk, lock, made, used, around, blob, key, hand, faults>>

\* read_sealed, and the row of the table: with nothing there a key may be made once, if the
\* caller allows it; a plain key is used, and sealed when a wrap is installed.
ReadSealed(p) ==
    /\ pc[p] \in {"sealed", "sealed again"}
    /\ LET m == seen[p].is IN
       \/ m = "none" /\ sealed = NoBlob /\ Fail(p)
       \/ /\ m = "none" /\ sealed = NoBlob /\ pc[p] = "sealed"
          /\ Go(p, "create")
          /\ UNCHANGED <<lock, used, seen, blob, key, hand>>
       \/ m = "plain" /\ p \notin Sealers /\ Done(p, seen[p].n)
       \/ /\ m = "plain" /\ p \in Sealers
          /\ Go(p, "lock") /\ key' = [key EXCEPT ![p] = seen[p].n]
          /\ UNCHANGED <<lock, used, seen, blob, hand>>
       \/ m = "stub" /\ sealed = NoBlob /\ Fail(p)
       \/ /\ m # "plain" /\ sealed # NoBlob
          /\ Go(p, "open") /\ blob' = [blob EXCEPT ![p] = sealed]
          /\ UNCHANGED <<lock, used, seen, key, hand>>
    /\ UNCHANGED <<disk, made, around, faults>>

\* open_blob on the bytes that were read: the marker must name them and the wrap must open them.
\* A second name of the plain key is then in the way, or the way back.
OpenSealed(p) ==
    /\ pc[p] = "open"
    /\ LET m == seen[p]
           b == blob[p] IN
       \/ m.is = "stub" /\ m.n # b.id /\ Fail(p) /\ UNCHANGED faults
       \/ Unavailable /\ Fail(p)
       \/ b.is = "bad" /\ (m.is = "none" \/ aside = 0) /\ Fail(p) /\ UNCHANGED faults
       \/ /\ m = Stub(b.id) /\ b.is = "bad" /\ aside # 0
          /\ Go(p, "restore") /\ UNCHANGED <<lock, used, seen, blob, key, hand, faults>>
       \/ m = Stub(b.id) /\ b.is = "good" /\ aside = 0 /\ Done(p, b.key) /\ UNCHANGED faults
       \/ /\ b.is = "good" /\ (m.is = "none" \/ (m.n = b.id /\ aside # 0))
          /\ Go(p, IF m.is = "none" THEN "marker" ELSE "compare")
          /\ key' = [key EXCEPT ![p] = b.key]
          /\ UNCHANGED <<lock, used, seen, blob, hand, faults>>
    /\ UNCHANGED <<disk, made, around>>

\* The marker is put back (write_new: only where there is none), as well as can be.
PutMarker(p) ==
    /\ pc[p] = "marker"
    /\ \/ master' = (IF master = Nothing THEN Stub(blob[p].id) ELSE master) /\ UNCHANGED faults
       \/ Fault("io") /\ UNCHANGED master
    /\ Done(p, key[p])
    /\ UNCHANGED <<bytes, aside, sealed, made, around>>

\* Mutant of CompareAside: the second name is never compared, and stays.
LeavesAside(p) ==
    /\ pc[p] = "compare" /\ Done(p, key[p])
    /\ UNCHANGED <<disk, made, around, faults>>

\* finish_aside: a second name that holds this key is erased, without the lock.
CompareAside(p) ==
    /\ pc[p] = "compare"
    /\ \/ /\ aside # 0 /\ bytes[aside] = key[p]
          /\ Go(p, "erase") /\ UNCHANGED <<lock, used, seen, blob, key, hand>>
       \/ ~(aside # 0 /\ bytes[aside] = key[p]) /\ Done(p, key[p])
    /\ UNCHANGED <<disk, made, around, faults>>

\* overwrite_and_remove: open the file by its name ...
OpenAside(p) ==
    /\ pc[p] = "erase"
    /\ \/ aside = 0 /\ Done(p, key[p]) /\ UNCHANGED faults
       \/ aside # 0 /\ Fault("io") /\ Done(p, key[p])
       \/ /\ aside # 0
          /\ Go(p, "overwrite") /\ hand' = [hand EXCEPT ![p] = aside]
          /\ UNCHANGED <<lock, used, seen, blob, key, faults>>
    /\ UNCHANGED <<disk, made, around>>

\* ... write random bytes over what was opened ...
Overwrite(p) ==
    /\ pc[p] = "overwrite"
    /\ bytes' = [bytes EXCEPT ![hand[p]] = Junk]
    /\ Go(p, "unlink")
    /\ UNCHANGED <<master, aside, sealed, lock, made, used, around, seen, blob, key, hand, faults>>

\* ... and remove the name.
UnlinkAside(p) ==
    /\ pc[p] = "unlink"
    /\ \/ aside' = 0 /\ UNCHANGED faults
       \/ Fault("io") /\ UNCHANGED aside
    /\ Done(p, key[p])
    /\ UNCHANGED <<master, bytes, sealed, made, around>>

\* restore_from_aside: under the lock, when the second name holds the key that was sealed.
RestoreBegin(p) ==
    /\ pc[p] = "restore"
    /\ IF lock = Nobody /\ aside # 0 /\ bytes[aside] = blob[p].key
       THEN /\ lock' = p /\ Go(p, "replace") /\ key' = [key EXCEPT ![p] = blob[p].key]
            /\ UNCHANGED <<used, seen, blob, hand>>
       ELSE Fail(p)
    /\ UNCHANGED <<disk, made, around, faults>>

\* replace_with(aside, master.key): when the rename fails its source is removed.
PutBack == aside # 0 /\ master' = Plain(aside) /\ aside' = 0 /\ UNCHANGED faults
PutBackFails ==
    /\ IF aside = 0 THEN UNCHANGED faults ELSE Fault("rename")
    /\ aside' = 0 /\ UNCHANGED master

RestorePlain(p) ==
    /\ pc[p] = "replace"
    /\ \/ PutBack /\ Go(p, "discard") /\ UNCHANGED <<lock, used, seen, blob, key, hand>>
       \/ PutBackFails /\ Fail(p)
    /\ UNCHANGED <<bytes, sealed, made, around>>

\* set_aside_corrupt: what could not be opened gets another name.
Discard(p) ==
    /\ pc[p] = "discard"
    /\ \/ sealed # NoBlob /\ sealed' = NoBlob /\ Done(p, key[p]) /\ UNCHANGED faults
       \/ Fault("io") /\ UNCHANGED sealed /\ Fail(p)
    /\ UNCHANGED <<master, bytes, aside, made, around>>

----------------------------------------------------------------------------
(* Making a new key: create of either provider.                             *)

\* new_blob may give a file that does not open.
NewBlob(k, is) == [id |-> made + 1, key |-> k, is |-> is]
Wrap(is) ==
    /\ made < MaxMade /\ made' = made + 1
    /\ \/ is = "good" /\ UNCHANGED faults
       \/ is = "bad" /\ Fault("badwrap")

\* The first to give its file the name root.sealed wins; the others use the winner's.
Create(p) ==
    /\ pc[p] = "create"
    /\ \/ Unavailable /\ Fail(p) /\ UNCHANGED <<sealed, made>>
       \/ \E is \in {"good", "bad"} :
            /\ Wrap(is)
            /\ IF sealed = NoBlob
               THEN /\ sealed' = NewBlob(made + 1, is)
                    /\ blob' = [blob EXCEPT ![p] = NewBlob(made + 1, is)]
                    /\ Go(p, "read back")
               ELSE Go(p, "again") /\ UNCHANGED <<sealed, blob>>
            /\ UNCHANGED <<lock, used, seen, key, hand>>
    /\ UNCHANGED <<master, bytes, aside, around>>

\* The winner reads its file back and opens it, or takes it away again.
ReadBack(p) ==
    /\ pc[p] = "read back"
    /\ \/ /\ OpensTo(blob[p].key)
          /\ Go(p, "new marker") /\ UNCHANGED <<sealed, lock, used, seen, blob, key, hand, faults>>
       \/ /\ IF OpensTo(blob[p].key) THEN Fault("flaky") ELSE UNCHANGED faults
          /\ sealed' = NoBlob /\ Fail(p)
    /\ UNCHANGED <<master, bytes, aside, made, around>>

NewMarker(p) ==
    /\ pc[p] = "new marker"
    /\ \/ /\ master' = IF master = Nothing THEN Stub(blob[p].id) ELSE master
          /\ Go(p, "again")
          /\ UNCHANGED <<lock, used, seen, blob, key, hand, faults>>
       \/ Fault("io") /\ Fail(p) /\ UNCHANGED master
    /\ UNCHANGED <<bytes, aside, sealed, made, around>>

----------------------------------------------------------------------------
(* Moving a plain key to the sealed form: migrate.  Whatever goes wrong,    *)
(* the process goes on with the plain key it has read.                      *)

StayPlain(p) == Done(p, key[p])

\* Mutant of Lock: the lock is taken though another process holds it.
LockAnyway(p) ==
    /\ pc[p] = "lock" /\ lock' = p /\ Go(p, "clean")
    /\ UNCHANGED <<disk, made, used, around, seen, blob, key, hand, faults>>

Lock(p) ==
    /\ pc[p] = "lock"
    /\ \/ Unavailable /\ StayPlain(p)
       \/ lock # Nobody /\ StayPlain(p) /\ UNCHANGED faults
       \/ /\ lock = Nobody /\ lock' = p /\ Go(p, "clean")
          /\ UNCHANGED <<used, seen, blob, key, hand, faults>>
    /\ UNCHANGED <<disk, made, around>>

\* A second name left by an earlier move is unlinked, as well as can be.
Clean(p) ==
    /\ pc[p] = "clean"
    /\ \/ aside' = 0 /\ UNCHANGED faults
       \/ aside # 0 /\ Fault("io") /\ UNCHANGED aside
    /\ Go(p, "recheck")
    /\ UNCHANGED <<master, bytes, sealed, lock, made, used, around, seen, blob, key, hand>>

\* The plain key must still be the one this process has read.
Recheck(p) ==
    /\ pc[p] = "recheck"
    /\ IF master.is = "plain" /\ bytes[master.n] = key[p]
       THEN Go(p, "reuse") /\ UNCHANGED <<lock, used, seen, blob, key, hand>>
       ELSE StayPlain(p)
    /\ UNCHANGED <<disk, made, around, faults>>

\* A sealed file of an earlier attempt is reused, or set aside, or cannot be judged now.
Reuse(p) ==
    /\ pc[p] = "reuse"
    /\ \/ /\ sealed = NoBlob
          /\ Go(p, "seal") /\ UNCHANGED <<sealed, lock, used, seen, blob, key, hand, faults>>
       \/ sealed # NoBlob /\ Unavailable /\ StayPlain(p) /\ UNCHANGED sealed
       \/ /\ sealed # NoBlob /\ OpensTo(key[p])
          /\ blob' = [blob EXCEPT ![p] = sealed]
          /\ Go(p, "verify") /\ UNCHANGED <<sealed, lock, used, seen, key, hand, faults>>
       \/ /\ sealed # NoBlob /\ ~OpensTo(key[p])
          /\ \/ sealed' = NoBlob /\ Go(p, "seal")
                /\ UNCHANGED <<lock, used, seen, blob, key, hand, faults>>
             \/ Fault("io") /\ UNCHANGED sealed /\ StayPlain(p)
    /\ UNCHANGED <<master, bytes, aside, made, around>>

\* The key is wrapped, staged and given its name, which must still be free.
Seal(p) ==
    /\ pc[p] = "seal"
    /\ \/ Unavailable /\ StayPlain(p) /\ UNCHANGED <<sealed, made>>
       \/ \E is \in {"good", "bad"} :
            /\ Wrap(is)
            /\ IF sealed = NoBlob
               THEN /\ sealed' = NewBlob(key[p], is)
                    /\ blob' = [blob EXCEPT ![p] = NewBlob(key[p], is)]
                    /\ Go(p, "verify") /\ UNCHANGED <<lock, used, seen, key, hand>>
               ELSE StayPlain(p) /\ UNCHANGED sealed
    /\ UNCHANGED <<master, bytes, aside, around>>

\* Mutant of Verify: the plain file is erased at once, before the marker takes its place.
ErasesTooEarly(p) ==
    /\ pc[p] = "verify" /\ OpensTo(key[p])
    /\ bytes' = [bytes EXCEPT ![master.n] = Junk] /\ StayPlain(p)
    /\ UNCHANGED <<master, aside, sealed, made, around, faults>>

\* The sealed file is read back and must open to this key.
Verify(p) ==
    /\ pc[p] = "verify"
    /\ \/ /\ OpensTo(key[p])
          /\ Go(p, "link") /\ UNCHANGED <<lock, used, seen, blob, key, hand, faults>>
       \/ ~OpensTo(key[p]) /\ StayPlain(p) /\ UNCHANGED faults
       \/ Unavailable /\ StayPlain(p)
    /\ UNCHANGED <<disk, made, around>>

\* link_or_copy: the plain file gets its second name, or a copy gets it; a file that still has the
\* name is written over.
CopyInto(f) == aside' = f /\ bytes' = [bytes EXCEPT ![f] = bytes[master.n]]
LinkAside(p) ==
    /\ pc[p] = "link"
    /\ \/ /\ master.is = "plain"
          /\ \/ aside = 0 /\ aside' = master.n /\ UNCHANGED <<bytes, faults>>
             \/ aside # 0 /\ CopyInto(aside) /\ UNCHANGED faults
             \/ /\ aside = 0 /\ Fault("link")
                /\ \E f \in Files \ ({master.n} \cup {hand[q] : q \in Procs}) : CopyInto(f)
          /\ Go(p, "swap") /\ UNCHANGED <<lock, used, seen, blob, key, hand>>
       \/ Fault("io") /\ StayPlain(p) /\ UNCHANGED <<bytes, aside>>
    /\ UNCHANGED <<master, sealed, made, around>>

\* The staged marker replaces the plain key.
SwapMarker(p) ==
    /\ pc[p] = "swap"
    /\ \/ /\ master' = Stub(blob[p].id)
          /\ Go(p, "reverify") /\ UNCHANGED <<lock, used, seen, blob, key, hand, faults>>
       \/ Fault("io") /\ StayPlain(p) /\ UNCHANGED master
    /\ UNCHANGED <<bytes, aside, sealed, made, around>>

\* The key is opened again, through the marker: the plain copy goes, or it goes back.
Opens(p) == master = Stub(blob[p].id) /\ sealed.id = blob[p].id /\ OpensTo(key[p])
\* Mutant of Reverify: the plain copy is erased without opening the key through the marker.
ErasesUnverified(p) ==
    /\ pc[p] = "reverify" /\ Go(p, "erase")
    /\ UNCHANGED <<disk, lock, made, used, around, seen, blob, key, hand, faults>>

Reverify(p) ==
    /\ pc[p] = "reverify"
    /\ \/ Opens(p) /\ Go(p, "erase") /\ UNCHANGED faults
       \/ Opens(p) /\ Fault("flaky") /\ Go(p, "undo")
       \/ ~Opens(p) /\ Go(p, "undo") /\ UNCHANGED faults
    /\ UNCHANGED <<disk, lock, made, used, around, seen, blob, key, hand>>

Undo(p) ==
    /\ pc[p] = "undo"
    /\ PutBack \/ PutBackFails
    /\ StayPlain(p)
    /\ UNCHANGED <<bytes, sealed, made, around>>

----------------------------------------------------------------------------
Step(p) ==
    \/ ReadMaster(p) \/ ReadSealed(p) \/ OpenSealed(p) \/ PutMarker(p)
    \/ CompareAside(p) \/ OpenAside(p) \/ Overwrite(p) \/ UnlinkAside(p)
    \/ RestoreBegin(p) \/ RestorePlain(p) \/ Discard(p)
    \/ Create(p) \/ ReadBack(p) \/ NewMarker(p)
    \/ Lock(p) \/ Clean(p) \/ Recheck(p) \/ Reuse(p) \/ Seal(p) \/ Verify(p)
    \/ LinkAside(p) \/ SwapMarker(p) \/ Reverify(p) \/ Undo(p)

\* A process that has its key ends some time; any process may die.
Exit(p) == pc[p] = "on" /\ Fail(p) /\ UNCHANGED <<disk, made, around, faults>>
Crash(p) ==
    /\ pc[p] \notin {"off", "on"}
    /\ Fault("crash") /\ Fail(p)
    /\ UNCHANGED <<disk, made, around>>

\* What wraps the key is lost (another user, a reset account): no sealed file made so far opens.
\* Considered only while a plain copy is there that no process is erasing; without one nothing
\* could bring the key back.
Holds(k) == (master.is = "plain" /\ bytes[master.n] = k) \/ (aside # 0 /\ bytes[aside] = k)
Spoiled(b) == [b EXCEPT !.is = IF b = NoBlob THEN "none" ELSE "bad"]
WrapGone ==
    /\ \E k \in used : Holds(k)
    /\ \A p \in Procs : pc[p] \notin {"compare", "erase", "overwrite", "unlink"}
    /\ Fault("gone")
    /\ sealed' = Spoiled(sealed)
    /\ blob' = [p \in Procs |-> Spoiled(blob[p])]
    /\ UNCHANGED <<master, bytes, aside, lock, made, used, around, pc, seen, key, hand>>

Next == WrapGone \/ \E p \in Procs : Get(p) \/ Step(p) \/ Exit(p) \/ Crash(p)

Spec == Init /\ [][Next]_vars

\* A process goes on, ends and is started again: "the next start converges" (sealed.rs).
FairSpec ==
    /\ Spec
    /\ \A p \in Procs : WF_vars(Get(p)) /\ WF_vars(Step(p)) /\ WF_vars(Exit(p))

----------------------------------------------------------------------------
\* Only the holder of the lock moves key files.
Moving == {"replace", "discard", "clean", "recheck", "reuse", "seal", "verify", "link", "swap",
           "reverify", "undo"}
TypeOK ==
    /\ master.is \in {"none", "plain", "stub"} /\ (master.is = "plain" => master.n \in Files)
    /\ bytes \in [Files -> Keys \cup {Junk}] /\ aside \in Files \cup {0}
    /\ sealed.id \in Keys \cup {0} /\ lock \in around \cup {Nobody} /\ made \in Keys
    /\ \A p \in Procs : hand[p] # 0 <=> pc[p] \in {"overwrite", "unlink"}
    /\ \A p \in Procs : p \notin around => pc[p] = "off"
    /\ \A p \in Procs : pc[p] \in Moving => lock = p

\* finish_aside erases the second name without the lock, so a second process may erase the plain
\* file that a failed move puts back (see MoveKeepsKey), or one that restore_from_aside, acting on
\* an old reading, puts back; and replace_with removes its source when its rename fails.
Excused ==
    \/ Met({"flaky", "gone"}) /\ \E p, q \in around : p # q
    \/ Met({"rename"}) /\ Met({"gone"})

\* Whatever processes start, race and die, nobody ever works with a second key: a race of two
\* creators has one winner, and no reader takes erased bytes or a stale file for the key.
OneKey == Excused \/ \A j, k \in used : j = k

\* The key somebody works with is on disk at every instant, in the plain file, under its second
\* name, or in a sealed file that opens.
KeyOnDisk == Excused \/ \A k \in used : Holds(k) \/ OpensTo(k)

\* An interrupted or failed move converges: again and again the key is in the sealed form only.
Settled(k) ==
    /\ master = Stub(sealed.id) /\ OpensTo(k)
    /\ aside # 0 => bytes[aside] # k
Converges == []<>(Excused \/ \A k \in used : Settled(k))

\* "The plain key stays authoritative until the marker replaces it, so an unfinished or failed
\* move never changes which key is used." (open, sealed.rs)
MoveKeepsKey == \A j, k \in used : j = k
=============================================================================
