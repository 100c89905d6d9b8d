--------------------------- MODULE RootKeyProofs ---------------------------
(***************************************************************************)
(* OneKey and KeyOnDisk of RootKey, proved for any number of processes,    *)
(* files and faults.                                                       *)
(*                                                                         *)
(* A folder that began with a plain key is told from a new one by its key: *)
(* the plain key is 1 and a key that is made later is larger.  In either   *)
(* folder the argument is that a process acts on what it has read, so the  *)
(* invariant says, for every step of a process, which of the things it has *)
(* read are still true.                                                    *)
(***************************************************************************)
EXTENDS RootKey, TLAPS

Several == \E p, q \in around : p # q
Gone == Met({"gone"})
Flaky == Met({"flaky"})

Steps == {"off", "on", "master", "again", "sealed", "sealed again", "open", "marker", "compare",
          "erase", "overwrite", "unlink", "restore", "create", "read back", "new marker", "lock"}
         \cup Moving
Erasing == {"compare", "erase", "overwrite", "unlink"}
HasKey == Erasing \cup {"marker", "lock"} \cup Moving

Masters == [is : {"none", "plain", "stub"}, n : Nat]
Blobs == [id : Keys \cup {0}, key : Nat, is : {"none", "good", "bad"}]

DiskTypes ==
    /\ master \in Masters /\ (master.is = "plain" => master.n \in Files)
    /\ master.is = "none" => master = Nothing
    /\ bytes \in [Files -> Keys \cup {Junk}] /\ aside \in Files \cup {0}
    /\ sealed \in Blobs /\ (sealed.id = 0 => sealed = NoBlob) /\ (sealed.id # 0 => sealed.is # "none")
    /\ lock \in around \cup {Nobody} /\ made \in Keys /\ used \subseteq Nat /\ around \subseteq Procs
LocalTypes ==
    /\ pc \in [Procs -> Steps] /\ seen \in [Procs -> Masters] /\ blob \in [Procs -> Blobs]
    /\ key \in [Procs -> Nat] /\ hand \in [Procs -> Files \cup {0}]
LocalType(p) ==
    /\ pc[p] \in Steps /\ seen[p] \in Masters /\ blob[p] \in Blobs
    /\ key[p] \in Nat /\ hand[p] \in Files \cup {0}

Common(p) ==
    /\ p \notin around => pc[p] = "off"
    /\ pc[p] \in Moving => lock = p
    /\ hand[p] # 0 <=> pc[p] \in {"overwrite", "unlink"}
    /\ blob[p].id = 0 => blob[p] = NoBlob
    /\ blob[p].id # 0 => blob[p].is # "none"
    /\ pc[p] \in {"open", "restore", "read back", "new marker"} => blob[p].id # 0

\* A folder that began with the plain key 1.
PlainShared ==
    /\ used = {1}
    /\ master.is # "none"
    /\ master.is = "plain" => bytes[master.n] = 1
    /\ sealed.id # 0 => sealed.key = 1
    /\ master.is = "stub" => \/ sealed.id = master.n /\ sealed.is = "good"
                             \/ Gone /\ aside # 0 /\ bytes[aside] = 1

\* ... a process that reads and opens ...
PlainReader(p) ==
    /\ blob[p].id # 0 => blob[p].key = 1
    /\ pc[p] \in HasKey => key[p] = 1
    /\ pc[p] \notin {"create", "read back", "new marker", "marker"}
    /\ pc[p] \in {"sealed", "sealed again"} =>
         /\ seen[p].is # "none"
         /\ seen[p].is = "plain" => seen[p].n = 1 /\ (Several \/ master.is = "plain")
         /\ seen[p].is = "stub" => master.is = "stub" /\ (Several \/ master = seen[p])
    /\ pc[p] = "open" =>
         /\ seen[p].is = "stub" /\ master.is = "stub" /\ (blob[p].is = "good" \/ Gone)
         /\ Several \/ (sealed = blob[p] /\ master = seen[p])
    /\ pc[p] \in Erasing => master.is = "stub" /\ sealed.id = master.n /\ sealed.is = "good"
    /\ pc[p] = "restore" => Gone

\* ... and one that moves the key.
PlainMover(p) ==
    /\ pc[p] \in {"replace", "discard"} => Gone
    /\ pc[p] = "discard" => master.is = "plain"
    /\ pc[p] = "replace" => aside # 0 /\ bytes[aside] = 1
    /\ pc[p] \in {"lock", "clean", "recheck"} => Several \/ master.is = "plain"
    /\ pc[p] \in {"reuse", "seal", "verify", "link", "swap"} => master.is = "plain"
    /\ pc[p] \in {"verify", "link", "swap", "reverify"} => blob[p].id # 0 /\ sealed.id = blob[p].id
    /\ pc[p] \in {"link", "swap", "reverify"} => sealed.is = "good" \/ Gone
    /\ pc[p] = "swap" => aside # 0 /\ bytes[aside] = 1
    /\ pc[p] = "reverify" => master = Stub(blob[p].id)
    /\ pc[p] \in {"reverify", "undo"} => Several \/ (aside # 0 /\ bytes[aside] = 1)
    /\ pc[p] = "undo" => Gone \/ Flaky

PlainLocal(p) == PlainReader(p) /\ PlainMover(p)

\* A new folder.
NewShared ==
    /\ aside = 0 /\ master.is # "plain" /\ ~Gone /\ 1 \notin used
    /\ sealed.id # 0 => sealed.key # 1
    /\ master.is = "stub" => sealed.id = master.n /\ sealed.is = "good"
    /\ \A k \in used : OpensTo(k)

Creating == {"read back", "new marker"}
NewLocal(p) ==
    /\ pc[p] \in {"off", "on", "master", "again", "sealed", "sealed again", "open", "marker",
                  "create"} \cup Creating
    /\ seen[p].is # "plain"
    /\ pc[p] \in {"open", "marker"} /\ blob[p].is = "good" => sealed = blob[p]
    /\ pc[p] = "marker" => blob[p].is = "good" /\ key[p] = blob[p].key
    /\ pc[p] \in Creating => sealed = blob[p]
    /\ pc[p] = "read back" => Several \/ (used = {} /\ master = Nothing)
    /\ pc[p] = "new marker" => sealed.is = "good"

PlainFolder == PlainShared /\ \A p \in Procs : PlainLocal(p)
NewFolder ==
    /\ NewShared
    /\ \A p \in Procs : NewLocal(p)
    /\ \A p, q \in Procs : pc[p] \in Creating /\ pc[q] \in Creating => p = q

Typed == DiskTypes /\ LocalTypes /\ \A p \in Procs : Common(p)
IInv == Typed /\ (Excused \/ PlainFolder \/ NewFolder)

Act(p) == Get(p) \/ Step(p) \/ Exit(p) \/ Crash(p)

\* What every step of p leaves alone: the other processes, their lock, and whether the wrap is lost.
Frame(p) ==
    /\ around' = around
    /\ \A q \in Procs \ {p} : /\ pc'[q] = pc[q] /\ seen'[q] = seen[q] /\ blob'[q] = blob[q]
                             /\ key'[q] = key[q] /\ hand'[q] = hand[q]
    /\ pc' = [q \in Procs |-> pc'[q]] /\ seen' = [q \in Procs |-> seen'[q]]
    /\ blob' = [q \in Procs |-> blob'[q]] /\ key' = [q \in Procs |-> key'[q]]
    /\ hand' = [q \in Procs |-> hand'[q]]
    /\ lock' = lock \/ (lock = p /\ lock' = Nobody) \/ (lock = Nobody /\ lock' = p)
    /\ faults' = faults \/ \E kind \in FaultKinds \ {"gone"} : Fault(kind)

----------------------------------------------------------------------------
(* Faults.                                                                  *)

\* A fault that is met stays met (faults only grows), and it is the one that is named.
LEMMA FaultMet ==
    ASSUME NEW kind, Fault(kind)
    PROVE  /\ Met({kind})'
           /\ \A kinds : Met(kinds) => Met(kinds)'
           /\ kind # "gone" => (Gone' => Gone)
<1> DEFINE new == <<kind, Cardinality({f \in faults : f[1] = kind})>>
<1>1. faults' = faults \cup {new}
  BY DEF Fault
<1>2. new[1] = kind
  OBVIOUS
<1>3. Met({kind})'
  BY <1>1, <1>2 DEF Met
<1>4. \A kinds : Met(kinds) => Met(kinds)'
  BY <1>1 DEF Met
<1>5. kind # "gone" => (Gone' => Gone)
  BY <1>1, <1>2 DEF Gone, Met
<1> QED
  BY <1>3, <1>4, <1>5

\* The excuse, in the terms of the invariant.
LEMMA ExcusedIs ==
    /\ Excused <=> (((Flaky \/ Gone) /\ Several) \/ (Met({"rename"}) /\ Gone))
    /\ Excused' <=> (((Flaky' \/ Gone') /\ Several') \/ (Met({"rename"})' /\ Gone'))
BY DEF Excused, Flaky, Gone, Several, Met

\* What a step of one process does to the excuse.
LEMMA FaultsKept ==
    ASSUME NEW p \in Procs, Frame(p)
    PROVE  /\ Excused => Excused'
           /\ Gone <=> Gone'
           /\ Flaky => Flaky'
           /\ Several <=> Several'
<1>1. Several <=> Several'
  BY DEF Frame, Several
<1>2. CASE faults' = faults
  BY <1>1, <1>2, ExcusedIs DEF Gone, Flaky, Met
<1>3. CASE \E kind \in FaultKinds \ {"gone"} : Fault(kind)
  <2>1. PICK kind \in FaultKinds \ {"gone"} : Fault(kind)
    BY <1>3
  <2>2. \A kinds : Met(kinds) => Met(kinds)'
    BY <2>1, FaultMet
  <2>3. Gone <=> Gone'
    BY <2>1, <2>2, FaultMet DEF Gone
  <2> QED
    BY <1>1, <2>2, <2>3, ExcusedIs DEF Flaky
<1> QED
  BY <1>2, <1>3 DEF Frame

\* Two processes that are at work are two processes around.
LEMMA TwoAround ==
    ASSUME NEW p \in Procs, NEW q \in Procs, p # q, Common(p), Common(q), pc[p] # "off", pc[q] # "off"
    PROVE  Several
BY DEF Common, Several

----------------------------------------------------------------------------
(* Types.                                                                   *)

\* The values that the steps put into master.key, root.sealed and what a process remembers.
LEMMA Values ==
    /\ Nothing \in Masters /\ Nothing.is = "none" /\ Nothing.n = 0
    /\ \A n \in Nat : /\ Plain(n) \in Masters /\ Plain(n).is = "plain" /\ Plain(n).n = n
                     /\ Stub(n) \in Masters /\ Stub(n).is = "stub" /\ Stub(n).n = n
    /\ NoBlob \in Blobs /\ NoBlob.id = 0 /\ NoBlob.key = 0 /\ NoBlob.is = "none"
    /\ \A m \in Masters : m.is \in {"none", "plain", "stub"} /\ m.n \in Nat
    /\ \A b \in Blobs : b.id \in Nat /\ b.key \in Nat /\ b.is \in {"none", "good", "bad"}
    /\ \A f \in Files : f \in Nat /\ f # 0
    /\ Keys \subseteq Nat /\ 0 \notin Keys
BY RootKeyAssumption DEF Nothing, Masters, Plain, Stub, NoBlob, Blobs, Junk, Keys

\* A plain master.key holds a number.
LEMMA PlainBytes ==
    ASSUME DiskTypes, master.is = "plain"
    PROVE  /\ bytes[master.n] \in Nat
           /\ Plain(bytes[master.n]) \in Masters
           /\ Plain(bytes[master.n]).is = "plain" /\ Plain(bytes[master.n]).n = bytes[master.n]
<1>1. master.n \in Files /\ bytes \in [Files -> Keys \cup {0}]
  BY DEF DiskTypes, Junk
<1>2. bytes[master.n] \in Keys \cup {0}
  BY <1>1
<1>3. \A k \in Keys \cup {0} : k \in Nat
  BY Values
<1>4. bytes[master.n] \in Nat
  BY <1>2, <1>3
<1> QED
  BY <1>4, Values

\* The sealed file that a step makes.
LEMMA Wrapped ==
    ASSUME made \in Keys, NEW k \in Nat, NEW is \in {"good", "bad"}, Wrap(is)
    PROVE  /\ made' \in Keys /\ made + 1 \in Nat /\ made + 1 # 1
           /\ NewBlob(k, is) \in Blobs /\ NewBlob(k, is).id # 0
           /\ NewBlob(k, is).key = k /\ NewBlob(k, is).is = is
BY RootKeyAssumption DEF Wrap, NewBlob, Blobs, Keys

\* Every action of a process stays within its frame.
LEMMA FrameHolds ==
    ASSUME LocalTypes, NEW p \in Procs, Act(p)
    PROVE  Frame(p)
<1> USE DEF LocalTypes, Frame, Fail, Done, Leave, Go, FaultKinds, disk
<1>1. CASE Get(p)
  BY <1>1 DEF Get
<1>2. CASE ReadMaster(p)
  BY <1>2 DEF ReadMaster
<1>3. CASE ReadSealed(p)
  BY <1>3 DEF ReadSealed
<1>4. CASE OpenSealed(p)
  BY <1>4 DEF OpenSealed, Unavailable
<1>5. CASE PutMarker(p)
  BY <1>5 DEF PutMarker
<1>6. CASE CompareAside(p)
  BY <1>6 DEF CompareAside
<1>7. CASE OpenAside(p)
  BY <1>7 DEF OpenAside
<1>8. CASE Overwrite(p)
  BY <1>8 DEF Overwrite
<1>9. CASE UnlinkAside(p)
  BY <1>9 DEF UnlinkAside
<1>10. CASE RestoreBegin(p)
  BY <1>10 DEF RestoreBegin
<1>11. CASE RestorePlain(p)
  BY <1>11 DEF RestorePlain, PutBack, PutBackFails
<1>12. CASE Discard(p)
  BY <1>12 DEF Discard
<1>13. CASE Create(p)
  BY <1>13 DEF Create, Wrap, Unavailable
<1>14. CASE ReadBack(p)
  BY <1>14 DEF ReadBack
<1>15. CASE NewMarker(p)
  BY <1>15 DEF NewMarker
<1>16. CASE Lock(p)
  BY <1>16 DEF Lock, Unavailable, StayPlain
<1>17. CASE Clean(p)
  BY <1>17 DEF Clean
<1>18. CASE Recheck(p)
  BY <1>18 DEF Recheck, StayPlain
<1>19. CASE Reuse(p)
  BY <1>19 DEF Reuse, Unavailable, StayPlain
<1>20. CASE Seal(p)
  BY <1>20 DEF Seal, Wrap, Unavailable, StayPlain
<1>21. CASE Verify(p)
  BY <1>21 DEF Verify, Unavailable, StayPlain
<1>22. CASE LinkAside(p)
  BY <1>22 DEF LinkAside, StayPlain, CopyInto
<1>23. CASE SwapMarker(p)
  BY <1>23 DEF SwapMarker, StayPlain
<1>24. CASE Reverify(p)
  BY <1>24 DEF Reverify
<1>25. CASE Undo(p)
  BY <1>25 DEF Undo, PutBack, PutBackFails, StayPlain
<1>26. CASE Exit(p)
  BY <1>26 DEF Exit
<1>27. CASE Crash(p)
  BY <1>27 DEF Crash
<1> QED
  BY <1>1, <1>2, <1>3, <1>4, <1>5, <1>6, <1>7, <1>8, <1>9, <1>10, <1>11, <1>12, <1>13, <1>14, <1>15,
         <1>16, <1>17, <1>18, <1>19, <1>20, <1>21, <1>22, <1>23, <1>24, <1>25, <1>26, <1>27 DEF Act,
         Step

\* A step of one process leaves the lock of another alone.
LEMMA OthersCommon ==
    ASSUME Typed, NEW p \in Procs, Frame(p), NEW q \in Procs \ {p}
    PROVE  Common(q)'
<1>1. Common(q)
  BY DEF Typed
<1>2. pc'[q] = pc[q] /\ blob'[q] = blob[q] /\ hand'[q] = hand[q] /\ around' = around
  BY DEF Frame
<1>3. pc[q] \in Moving => lock' = q
  BY <1>1, RootKeyAssumption DEF Frame, Common
<1> QED
  BY <1>1, <1>2, <1>3 DEF Common

\* With what it leaves alone, the types after a step are the types of the process that took it.
LEMMA LocalTypesStep ==
    ASSUME LocalTypes, NEW p \in Procs, Frame(p), LocalType(p)'
    PROVE  LocalTypes'
<1>1. \A q \in Procs : LocalType(q)'
  BY DEF LocalTypes, LocalType, Frame
<1> QED
  BY <1>1 DEF LocalTypes, LocalType, Frame

----------------------------------------------------------------------------
(* Three ways to take a step.                                               *)

\* What p must have so that its step, if it changes nothing that others see, is allowed.
Fits(p) ==
    /\ LocalType(p)' /\ Common(p)'
    /\ lock' \in around' \cup {Nobody} /\ made' \in Keys
    /\ PlainFolder => Excused' \/ PlainLocal(p)'
    /\ NewFolder => NewLocal(p)' /\ (pc'[p] \in Creating => pc[p] \in Creating)

\* The parts of the invariant, put together.
LEMMA Whole ==
    ASSUME IInv, NEW p \in Procs, Frame(p), DiskTypes', LocalType(p)', Common(p)',
           Excused' \/ PlainFolder' \/ NewFolder'
    PROVE  IInv'
<1>1. LocalTypes'
  BY LocalTypesStep DEF IInv, Typed
<1>2. \A q \in Procs : Common(q)'
  BY OthersCommon DEF IInv
<1> QED
  BY <1>1, <1>2 DEF IInv, Typed

\* A step that leaves the files alone does not disturb another process.
LEMMA OthersQuiet ==
    ASSUME Typed, NEW p \in Procs, Frame(p), UNCHANGED disk, pc[p] # "off" \/ used' = used, NEW q \in Procs \ {p}
    PROVE  (PlainLocal(q) => PlainLocal(q)') /\ (NewLocal(q) => NewLocal(q)')
<1>1. /\ pc'[q] = pc[q] /\ seen'[q] = seen[q] /\ blob'[q] = blob[q] /\ key'[q] = key[q]
      /\ hand'[q] = hand[q] /\ (Gone' <=> Gone) /\ (Flaky => Flaky') /\ (Several' <=> Several)
  BY FaultsKept DEF Frame
<1>2. PlainReader(q) => PlainReader(q)'
  BY <1>1 DEF PlainReader, disk
<1>3. PlainMover(q) => PlainMover(q)'
  BY <1>1 DEF PlainMover, disk, Stub
<1>4. used' = used \/ Several \/ pc[q] = "off"
  BY TwoAround DEF Typed
<1>5. NewLocal(q) => NewLocal(q)'
  BY <1>1, <1>4 DEF NewLocal, disk
<1> QED
  BY <1>2, <1>3, <1>5 DEF PlainLocal

\* A step that leaves the files and the keys in use alone.
LEMMA Quiet ==
    ASSUME IInv, NEW p \in Procs, Frame(p), UNCHANGED disk, UNCHANGED used, Fits(p)
    PROVE  IInv'
<1>1. DiskTypes'
  BY DEF IInv, Typed, DiskTypes, Fits, disk, Frame
<1>2. (Gone' <=> Gone) /\ (Excused => Excused')
  BY FaultsKept
<1>3. ASSUME PlainFolder, ~Excused' PROVE PlainFolder'
  <2>1. PlainShared'
    BY <1>2, <1>3 DEF PlainFolder, PlainShared, disk
  <2>2. \A q \in Procs : PlainLocal(q)'
    BY <1>3, OthersQuiet DEF PlainFolder, Fits, IInv
  <2> QED
    BY <2>1, <2>2 DEF PlainFolder
<1>4. ASSUME NewFolder PROVE NewFolder'
  <2>1. NewShared'
    BY <1>2, <1>4 DEF NewFolder, NewShared, OpensTo, disk
  <2>2. \A q \in Procs : NewLocal(q)'
    BY <1>4, OthersQuiet DEF NewFolder, Fits, IInv
  <2>3. \A q \in Procs : pc'[q] \in Creating => pc[q] \in Creating
    BY <1>4 DEF Fits, Frame
  <2> QED
    BY <1>4, <2>1, <2>2, <2>3 DEF NewFolder
<1> QED
  BY <1>1, <1>2, <1>3, <1>4, Whole DEF Fits, IInv

\* A process that is back from get, with a key or without.
Back(p) ==
    /\ pc'[p] \in {"off", "on"} /\ seen'[p] = Nothing /\ blob'[p] = NoBlob /\ key'[p] \in Nat /\ hand'[p] = 0
    /\ lock' = IF lock = p THEN Nobody ELSE lock

\* What Fail and Done do to their process.
LEMMA Leaves ==
    ASSUME LocalTypes, NEW p \in Procs
    PROVE  /\ Fail(p) => Back(p) /\ used' = used
           /\ \A k \in Nat : Done(p, k) => Back(p) /\ used' = used \cup {k}
BY DEF Fail, Done, Leave, Go, LocalTypes, Back, Junk

\* It has nothing that the invariant is about.
LEMMA BackFits ==
    ASSUME Typed, NEW p \in Procs, Back(p), pc[p] # "off", around' = around
    PROVE  /\ LocalType(p)' /\ Common(p)' /\ lock' \in around' \cup {Nobody}
           /\ PlainLocal(p)' /\ NewLocal(p)' /\ pc'[p] \notin Creating
<1>1. LocalType(p)'
  BY Values DEF Back, LocalType, Steps
<1>2. Common(p)'
  BY Values DEF Back, Common, Moving, Typed
<1>3. lock' \in around' \cup {Nobody}
  BY DEF Back, Typed, DiskTypes
<1>4. PlainLocal(p)'
  BY Values DEF Back, PlainLocal, PlainReader, PlainMover, HasKey, Erasing, Moving
<1>5. NewLocal(p)' /\ pc'[p] \notin Creating
  BY Values DEF Back, NewLocal, Creating
<1> QED
  BY <1>1, <1>2, <1>3, <1>4, <1>5

\* p gives up.
LEMMA FailQuiet ==
    ASSUME IInv, NEW p \in Procs, Frame(p), UNCHANGED disk, made' \in Keys, pc[p] # "off", Fail(p)
    PROVE  IInv'
<1>1. Back(p) /\ used' = used
  BY Leaves DEF IInv, Typed
<1>2. Fits(p)
  BY <1>1, BackFits DEF Fits, Frame, IInv
<1> QED
  BY <1>1, <1>2, Quiet

\* p works with k, which is the key of the folder.
LEMMA DoneQuiet ==
    ASSUME IInv, NEW p \in Procs, Frame(p), UNCHANGED disk, made' \in Keys, pc[p] # "off", NEW k \in Nat, Done(p, k),
           PlainFolder => k = 1, NewFolder => OpensTo(k)
    PROVE  IInv'
<1>1. Back(p) /\ used' = used \cup {k}
  BY Leaves DEF IInv, Typed
<1>2. /\ LocalType(p)' /\ Common(p)' /\ lock' \in around' \cup {Nobody}
      /\ PlainLocal(p)' /\ NewLocal(p)' /\ pc'[p] \notin Creating
  BY <1>1, BackFits DEF Frame, IInv
<1>3. DiskTypes'
  BY <1>1, <1>2 DEF IInv, Typed, DiskTypes, disk, Frame
<1>4. (Gone' <=> Gone) /\ (Excused => Excused')
  BY FaultsKept
<1>5. ASSUME PlainFolder, ~Excused' PROVE PlainFolder'
  <2>1. used' = used
    BY <1>1, <1>5 DEF PlainFolder, PlainShared
  <2>2. Fits(p)
    BY <1>2, <1>5, <2>1 DEF Fits, PlainFolder, NewFolder, PlainShared, NewShared
  <2>3. IInv'
    BY <2>1, <2>2, Quiet
  <2> QED
    BY <1>5, <2>1, <2>3 DEF IInv, NewFolder, NewShared, PlainFolder, PlainShared
<1>6. ASSUME NewFolder PROVE NewFolder'
  <2>1. k # 1
    BY <1>6, Values DEF NewFolder, NewShared, OpensTo, IInv, Typed, DiskTypes
  <2>2. NewShared'
    BY <1>1, <1>4, <1>6, <2>1 DEF NewFolder, NewShared, OpensTo, disk
  <2>3. \A q \in Procs : NewLocal(q)'
    BY <1>2, <1>6, OthersQuiet DEF NewFolder, IInv
  <2>4. \A q \in Procs : pc'[q] \in Creating => pc[q] \in Creating
    BY <1>2 DEF Frame
  <2> QED
    BY <1>6, <2>2, <2>3, <2>4 DEF NewFolder
<1> QED
  BY <1>2, <1>3, <1>4, <1>5, <1>6, Whole DEF IInv

----------------------------------------------------------------------------
(* Reading and opening.                                                     *)

\* A process starts and knows nothing yet.
LEMMA GetStep ==
    ASSUME IInv, NEW p \in Procs, Frame(p), Get(p)
    PROVE  IInv'
<1>1. LocalType(p) /\ Common(p) /\ DiskTypes
  BY DEF IInv, Typed, LocalTypes, LocalType
<1>2. /\ pc[p] = "off" /\ p \in around /\ pc'[p] = "master" /\ seen'[p] = seen[p] /\ blob'[p] = blob[p]
      /\ key'[p] = key[p] /\ hand'[p] = hand[p] /\ UNCHANGED <<disk, lock, made, used, around>>
  BY DEF Get, Go, IInv, Typed, LocalTypes
<1>3. LocalType(p)'
  BY <1>1, <1>2 DEF LocalType, Steps
<1>4. Common(p)'
  BY <1>1, <1>2 DEF Common, Moving
<1>5. PlainFolder => PlainLocal(p)'
  BY <1>2 DEF PlainFolder, PlainLocal, PlainReader, PlainMover, HasKey, Erasing, Moving
<1>6. NewFolder => NewLocal(p)' /\ pc'[p] \notin Creating
  BY <1>2 DEF NewFolder, NewLocal, Creating
<1>7. Fits(p)
  BY <1>1, <1>2, <1>3, <1>4, <1>5, <1>6 DEF Fits, DiskTypes
<1> QED
  BY <1>2, <1>7, Quiet

\* What is read of master.key is true when it is read: a plain file holds the key.
LEMMA ReadMasterStep ==
    ASSUME IInv, NEW p \in Procs, Frame(p), ReadMaster(p)
    PROVE  IInv'
<1>1. LocalType(p) /\ Common(p) /\ DiskTypes
  BY DEF IInv, Typed, LocalTypes, LocalType
<1>2. /\ pc[p] \in {"master", "again"} /\ pc'[p] \in {"sealed", "sealed again"}
      /\ seen'[p] = IF master.is = "plain" THEN Plain(bytes[master.n]) ELSE master
      /\ blob'[p] = blob[p] /\ key'[p] = key[p] /\ hand'[p] = hand[p]
      /\ UNCHANGED <<disk, lock, made, used, around>>
  BY DEF ReadMaster, Go, IInv, Typed, LocalTypes
<1>0. seen'[p] \in Masters /\ (master.is = "plain" => seen'[p].is = "plain" /\ seen'[p].n = bytes[master.n])
  <2>1. CASE master.is = "plain"
    BY <1>1, <1>2, <2>1, PlainBytes
  <2>2. CASE master.is # "plain"
    BY <1>1, <1>2, <2>2 DEF DiskTypes
  <2> QED
    BY <2>1, <2>2
<1>3. LocalType(p)'
  BY <1>0, <1>1, <1>2 DEF LocalType, Steps
<1>4. Common(p)'
  BY <1>1, <1>2 DEF Common, Moving
<1>5. PlainFolder => PlainLocal(p)'
  <2>1. PlainFolder => PlainReader(p)'
    BY <1>0, <1>1, <1>2
       DEF PlainFolder, PlainLocal, PlainShared, PlainReader, HasKey, Erasing, Moving, disk
  <2>2. PlainMover(p)'
    BY <1>2 DEF PlainMover
  <2> QED
    BY <2>1, <2>2 DEF PlainLocal
<1>6. NewFolder => NewLocal(p)' /\ pc'[p] \notin Creating
  BY <1>2 DEF NewFolder, NewShared, NewLocal, Creating
<1>7. Fits(p)
  BY <1>1, <1>2, <1>3, <1>4, <1>5, <1>6 DEF Fits, DiskTypes
<1> QED
  BY <1>2, <1>7, Quiet
\* The row of the start-up table: a plain key is the key, and what a marker names opens.
LEMMA ReadSealedStep ==
    ASSUME IInv, NEW p \in Procs, Frame(p), ReadSealed(p)
    PROVE  IInv'
<1>1. LocalTypes /\ LocalType(p) /\ Common(p) /\ DiskTypes
  BY DEF IInv, Typed, LocalTypes, LocalType
<1>2. pc[p] \in {"sealed", "sealed again"} /\ UNCHANGED <<disk, made, around>> /\ made' \in Keys /\ seen[p].n \in Nat
  BY <1>1, Values DEF ReadSealed, DiskTypes, LocalType
<1>3. CASE Fail(p)
  BY <1>2, <1>3, FailQuiet
<1>4. CASE seen[p].is = "plain" /\ Done(p, seen[p].n)
  <2>1. PlainFolder => seen[p].n = 1
    BY <1>2, <1>4 DEF PlainFolder, PlainLocal, PlainReader
  <2>2. ~NewFolder
    BY <1>4 DEF NewFolder, NewLocal
  <2> QED
    BY <1>2, <1>4, <2>1, <2>2, DoneQuiet
<1>5. CASE /\ seen[p].is = "none" /\ sealed = NoBlob /\ pc[p] = "sealed"
           /\ Go(p, "create")
           /\ UNCHANGED <<lock, used, seen, blob, key, hand>>
  <2>1. pc'[p] = "create" /\ UNCHANGED <<lock, used, seen, blob, key, hand>>
    BY <1>1, <1>5 DEF Go, LocalTypes
  <2>2. LocalType(p)' /\ Common(p)'
    BY <1>1, <1>2, <2>1 DEF LocalType, Common, Steps, Moving
  <2>3. ~PlainFolder
    BY <1>2, <1>5 DEF PlainFolder, PlainLocal, PlainReader
  <2>4. NewFolder => NewLocal(p)' /\ pc'[p] \notin Creating
    BY <1>2, <2>1 DEF NewFolder, NewLocal, Creating
  <2> QED
    BY <1>1, <1>2, <2>1, <2>2, <2>3, <2>4, Quiet DEF Fits, DiskTypes
<1>6. CASE /\ seen[p].is = "plain" /\ p \in Sealers
           /\ Go(p, "lock") /\ key' = [key EXCEPT ![p] = seen[p].n]
           /\ UNCHANGED <<lock, used, seen, blob, hand>>
  <2>1. pc'[p] = "lock" /\ key'[p] = seen[p].n /\ UNCHANGED <<lock, used, seen, blob, hand>>
    BY <1>1, <1>6 DEF Go, LocalTypes
  <2>2. LocalType(p)' /\ Common(p)'
    BY <1>1, <1>2, <2>1 DEF LocalType, Common, Steps, Moving
  <2>3. PlainFolder => PlainLocal(p)'
    <3>1. Several' <=> Several
      BY FaultsKept
    <3> QED
      BY <1>2, <1>6, <2>1, <3>1
         DEF PlainFolder, PlainLocal, PlainReader, PlainMover, HasKey, Erasing, disk
  <2>4. ~NewFolder
    BY <1>6 DEF NewFolder, NewLocal
  <2> QED
    BY <1>1, <1>2, <2>1, <2>2, <2>3, <2>4, Quiet DEF Fits, DiskTypes
<1>7. CASE /\ seen[p].is # "plain" /\ sealed # NoBlob
           /\ Go(p, "open") /\ blob' = [blob EXCEPT ![p] = sealed]
           /\ UNCHANGED <<lock, used, seen, key, hand>>
  <2>1. pc'[p] = "open" /\ blob'[p] = sealed /\ UNCHANGED <<lock, used, seen, key, hand>>
    BY <1>1, <1>7 DEF Go, LocalTypes
  <2>2. LocalType(p)' /\ Common(p)'
    BY <1>1, <1>2, <1>7, <2>1 DEF LocalType, Common, Steps, Moving, DiskTypes
  <2>3. PlainFolder => PlainLocal(p)'
    <3>1. (Several' <=> Several) /\ (Gone' <=> Gone)
      BY FaultsKept
    <3>2. seen[p].is \in {"none", "plain", "stub"}
      BY <1>1, Values DEF LocalType
    <3> QED
      BY <1>2, <1>7, <2>1, <3>1, <3>2
         DEF PlainFolder, PlainLocal, PlainShared, PlainReader, PlainMover, HasKey, Erasing, Moving,
             disk
  <2>4. NewFolder => NewLocal(p)' /\ pc'[p] \notin Creating
    BY <1>2, <2>1 DEF NewFolder, NewLocal, Creating, disk
  <2> QED
    BY <1>1, <1>2, <2>1, <2>2, <2>3, <2>4, Quiet DEF Fits, DiskTypes
<1> QED
  BY <1>3, <1>4, <1>5, <1>6, <1>7 DEF ReadSealed
\* The key in the sealed file is the key of the folder; the way back is taken only when the wrap is
\* lost.
LEMMA OpenSealedStep ==
    ASSUME IInv, NEW p \in Procs, Frame(p), OpenSealed(p)
    PROVE  IInv'
<1>1. LocalTypes /\ LocalType(p) /\ Common(p) /\ DiskTypes
  BY DEF IInv, Typed, LocalTypes, LocalType
<1>2. pc[p] = "open" /\ UNCHANGED <<disk, made, around>> /\ made' \in Keys /\ blob[p].key \in Nat
  BY <1>1, Values DEF OpenSealed, DiskTypes, LocalType
<1>3. (Excused => Excused') /\ (Several' <=> Several) /\ (Gone' <=> Gone)
  BY FaultsKept
<1>4. CASE Fail(p)
  BY <1>2, <1>4, FailQuiet
<1>5. CASE blob[p].is = "good" /\ Done(p, blob[p].key)
  <2>1. PlainFolder => blob[p].key = 1
    BY <1>1, <1>2 DEF PlainFolder, PlainLocal, PlainReader, Common
  <2>2. NewFolder => OpensTo(blob[p].key)
    BY <1>2, <1>5 DEF NewFolder, NewLocal, OpensTo
  <2> QED
    BY <1>2, <1>5, <2>1, <2>2, DoneQuiet
<1>6. CASE /\ seen[p] = Stub(blob[p].id) /\ blob[p].is = "bad" /\ aside # 0
           /\ Go(p, "restore") /\ UNCHANGED <<lock, used, seen, blob, key, hand, faults>>
  <2>1. pc'[p] = "restore" /\ UNCHANGED <<lock, used, seen, blob, key, hand>>
    BY <1>1, <1>6 DEF Go, LocalTypes
  <2>2. LocalType(p)' /\ Common(p)'
    BY <1>1, <1>2, <2>1 DEF LocalType, Common, Steps, Moving
  <2>3. PlainFolder => PlainLocal(p)'
    BY <1>2, <1>3, <1>6, <2>1
       DEF PlainFolder, PlainLocal, PlainReader, PlainMover, HasKey, Erasing, Moving
  <2>4. ~NewFolder
    BY <1>6 DEF NewFolder, NewShared
  <2> QED
    BY <1>1, <1>2, <2>1, <2>2, <2>3, <2>4, Quiet DEF Fits, DiskTypes
<1>7. CASE /\ blob[p].is = "good" /\ (seen[p].is = "none" \/ (seen[p].n = blob[p].id /\ aside # 0))
           /\ Go(p, IF seen[p].is = "none" THEN "marker" ELSE "compare")
           /\ key' = [key EXCEPT ![p] = blob[p].key]
           /\ UNCHANGED <<lock, used, seen, blob, hand, faults>>
  <2>1. /\ pc'[p] = IF seen[p].is = "none" THEN "marker" ELSE "compare"
        /\ key'[p] = blob[p].key /\ UNCHANGED <<lock, used, seen, blob, hand>>
    BY <1>1, <1>7 DEF Go, LocalTypes
  <2>2. LocalType(p)' /\ Common(p)'
    BY <1>1, <1>2, <2>1 DEF LocalType, Common, Steps, Moving
  <2>3. ASSUME PlainFolder, ~Excused' PROVE PlainLocal(p)'
    <3>1. pc'[p] = "compare" /\ key'[p] = 1 /\ master.is = "stub"
      BY <1>1, <1>2, <1>7, <2>1, <2>3 DEF PlainFolder, PlainLocal, PlainReader, Common
    <3>2. sealed.id = master.n /\ sealed.is = "good"
      <4>1. CASE ~Gone
        BY <2>3, <3>1, <4>1 DEF PlainFolder, PlainShared
      <4>2. CASE Gone
        <5>1. ~Several
          BY <1>3, <2>3, <4>2, ExcusedIs
        <5> QED
          BY <1>2, <1>7, <2>3, <5>1 DEF PlainFolder, PlainLocal, PlainReader
      <4> QED
        BY <4>1, <4>2
    <3> QED
      BY <1>2, <2>1, <2>3, <3>1, <3>2
         DEF PlainFolder, PlainLocal, PlainReader, PlainMover, HasKey, Erasing, Moving, disk
  <2>4. NewFolder => NewLocal(p)' /\ pc'[p] \notin Creating
    BY <1>2, <1>7, <2>1 DEF NewFolder, NewShared, NewLocal, Creating, disk
  <2> QED
    BY <1>1, <1>2, <2>1, <2>2, <2>3, <2>4, Quiet DEF Fits, DiskTypes
<1> QED
  BY <1>4, <1>5, <1>6, <1>7 DEF OpenSealed

\* The second name may be erased: the marker names a sealed file that opens.
LEMMA CompareAsideStep ==
    ASSUME IInv, NEW p \in Procs, Frame(p), CompareAside(p)
    PROVE  IInv'
<1>1. LocalTypes /\ LocalType(p) /\ Common(p) /\ DiskTypes
  BY DEF IInv, Typed, LocalTypes, LocalType
<1>2. /\ pc[p] = "compare" /\ UNCHANGED <<disk, made, around>> /\ made' \in Keys /\ key[p] \in Nat
      /\ PlainFolder => key[p] = 1
      /\ ~NewFolder
  BY <1>1
     DEF CompareAside, DiskTypes, LocalType, PlainFolder, PlainLocal, PlainReader, HasKey, Erasing,
         NewFolder, NewLocal, Creating
<1>3. CASE Done(p, key[p])
  BY <1>2, <1>3, DoneQuiet
<1>4. CASE Go(p, "erase") /\ UNCHANGED <<lock, used, seen, blob, key, hand>>
  <2>1. pc'[p] = "erase" /\ UNCHANGED <<lock, used, seen, blob, key, hand>>
    BY <1>1, <1>4 DEF Go, LocalTypes
  <2>2. LocalType(p)' /\ Common(p)'
    BY <1>1, <1>2, <2>1 DEF LocalType, Common, Steps, Moving
  <2>3. PlainFolder => PlainLocal(p)'
    BY <1>2, <2>1 DEF PlainFolder, PlainLocal, PlainReader, PlainMover, HasKey, Erasing, Moving, disk
  <2> QED
    BY <1>1, <1>2, <2>1, <2>2, <2>3, Quiet DEF Fits, DiskTypes
<1> QED
  BY <1>3, <1>4 DEF CompareAside

\* The file to erase is opened by its name.
LEMMA OpenAsideStep ==
    ASSUME IInv, NEW p \in Procs, Frame(p), OpenAside(p)
    PROVE  IInv'
<1>1. LocalTypes /\ LocalType(p) /\ Common(p) /\ DiskTypes
  BY DEF IInv, Typed, LocalTypes, LocalType
<1>2. /\ pc[p] = "erase" /\ UNCHANGED <<disk, made, around>> /\ made' \in Keys /\ key[p] \in Nat
      /\ PlainFolder => key[p] = 1
      /\ ~NewFolder
  BY <1>1
     DEF OpenAside, DiskTypes, LocalType, PlainFolder, PlainLocal, PlainReader, HasKey, Erasing,
         NewFolder, NewLocal, Creating
<1>3. CASE Done(p, key[p])
  BY <1>2, <1>3, DoneQuiet
<1>4. CASE /\ aside # 0
           /\ Go(p, "overwrite") /\ hand' = [hand EXCEPT ![p] = aside]
           /\ UNCHANGED <<lock, used, seen, blob, key, faults>>
  <2>1. pc'[p] = "overwrite" /\ hand'[p] = aside /\ UNCHANGED <<lock, used, seen, blob, key>>
    BY <1>1, <1>4 DEF Go, LocalTypes
  <2>2. LocalType(p)' /\ Common(p)'
    BY <1>1, <1>2, <1>4, <2>1 DEF LocalType, Common, Steps, Moving, DiskTypes
  <2>3. PlainFolder => PlainLocal(p)'
    BY <1>2, <2>1 DEF PlainFolder, PlainLocal, PlainReader, PlainMover, HasKey, Erasing, Moving, disk
  <2> QED
    BY <1>1, <1>2, <2>1, <2>2, <2>3, Quiet DEF Fits, DiskTypes
<1> QED
  BY <1>3, <1>4 DEF OpenAside

\* What goes back is the key that was sealed, and the lock is held.
LEMMA RestoreBeginStep ==
    ASSUME IInv, NEW p \in Procs, Frame(p), RestoreBegin(p)
    PROVE  IInv'
<1>1. LocalTypes /\ LocalType(p) /\ Common(p) /\ DiskTypes
  BY DEF IInv, Typed, LocalTypes, LocalType
<1>2. pc[p] = "restore" /\ UNCHANGED <<disk, made, around>> /\ made' \in Keys /\ blob[p].key \in Nat /\ p \in around
  BY <1>1, Values DEF RestoreBegin, DiskTypes, LocalType, Common
<1>3. CASE Fail(p)
  BY <1>2, <1>3, FailQuiet
<1>4. CASE /\ aside # 0 /\ bytes[aside] = blob[p].key
           /\ lock' = p /\ Go(p, "replace") /\ key' = [key EXCEPT ![p] = blob[p].key]
           /\ UNCHANGED <<used, seen, blob, hand>>
  <2>1. pc'[p] = "replace" /\ key'[p] = blob[p].key /\ lock' = p /\ UNCHANGED <<used, seen, blob, hand>>
    BY <1>1, <1>4 DEF Go, LocalTypes
  <2>2. LocalType(p)' /\ Common(p)'
    BY <1>1, <1>2, <2>1 DEF LocalType, Common, Steps, Moving
  <2>3. Gone' <=> Gone
    BY FaultsKept
  <2>4. PlainFolder => blob[p].key = 1
    BY <1>1, <1>2 DEF PlainFolder, PlainLocal, PlainReader, Common
  <2>5. PlainFolder => PlainLocal(p)'
    BY <1>2, <1>4, <2>1, <2>3, <2>4
       DEF PlainFolder, PlainLocal, PlainReader, PlainMover, HasKey, Erasing, Moving, disk
  <2>6. ~NewFolder
    BY <1>4 DEF NewFolder, NewShared
  <2> QED
    BY <1>1, <1>2, <2>1, <2>2, <2>5, <2>6, Quiet DEF Fits, DiskTypes
<1> QED
  BY <1>3, <1>4 DEF RestoreBegin
----------------------------------------------------------------------------
(* Moving a plain key, before the files change.                             *)

\* The move begins with the lock, or does not begin.
LEMMA LockStep ==
    ASSUME IInv, NEW p \in Procs, Frame(p), Lock(p)
    PROVE  IInv'
<1>1. LocalTypes /\ LocalType(p) /\ Common(p) /\ DiskTypes
  BY DEF IInv, Typed, LocalTypes, LocalType
<1>2. /\ pc[p] = "lock" /\ UNCHANGED <<disk, made, around>> /\ made' \in Keys /\ key[p] \in Nat /\ p \in around
      /\ PlainFolder => key[p] = 1
      /\ ~NewFolder
  BY <1>1
     DEF Lock, DiskTypes, LocalType, Common, PlainFolder, PlainLocal, PlainReader, HasKey, Moving,
         NewFolder, NewLocal, Creating
<1>3. CASE Done(p, key[p])
  BY <1>2, <1>3, DoneQuiet
<1>4. CASE /\ lock' = p /\ Go(p, "clean")
           /\ UNCHANGED <<used, seen, blob, key, hand, faults>>
  <2>1. pc'[p] = "clean" /\ lock' = p /\ UNCHANGED <<used, seen, blob, key, hand>>
    BY <1>1, <1>4 DEF Go, LocalTypes
  <2>2. LocalType(p)' /\ Common(p)'
    BY <1>1, <1>2, <2>1 DEF LocalType, Common, Steps, Moving
  <2>3. (Several' <=> Several) /\ (Gone' <=> Gone)
    BY FaultsKept
  <2>4. PlainFolder => PlainLocal(p)'
    BY <1>2, <1>4, <2>1, <2>3
       DEF PlainFolder, PlainLocal, PlainReader, PlainMover, HasKey, Erasing, Moving, disk
  <2> QED
    BY <1>1, <1>2, <2>1, <2>2, <2>4, Quiet DEF Fits, DiskTypes
<1> QED
  BY <1>3, <1>4 DEF Lock, StayPlain

\* Under the lock, a plain master.key holds the key that was read.
LEMMA RecheckStep ==
    ASSUME IInv, NEW p \in Procs, Frame(p), Recheck(p)
    PROVE  IInv'
<1>1. LocalTypes /\ LocalType(p) /\ Common(p) /\ DiskTypes
  BY DEF IInv, Typed, LocalTypes, LocalType
<1>2. /\ pc[p] = "recheck" /\ UNCHANGED <<disk, made, around>> /\ made' \in Keys /\ key[p] \in Nat /\ p \in around
      /\ PlainFolder => key[p] = 1
      /\ ~NewFolder
  BY <1>1
     DEF Recheck, DiskTypes, LocalType, Common, PlainFolder, PlainLocal, PlainReader, HasKey, Moving,
         NewFolder, NewLocal, Creating
<1>3. CASE Done(p, key[p])
  BY <1>2, <1>3, DoneQuiet
<1>4. CASE /\ master.is = "plain"
           /\ Go(p, "reuse") /\ UNCHANGED <<lock, used, seen, blob, key, hand>>
  <2>1. pc'[p] = "reuse" /\ UNCHANGED <<lock, used, seen, blob, key, hand>>
    BY <1>1, <1>4 DEF Go, LocalTypes
  <2>2. LocalType(p)' /\ Common(p)'
    BY <1>1, <1>2, <2>1 DEF LocalType, Common, Steps, Moving
  <2>3. (Several' <=> Several) /\ (Gone' <=> Gone)
    BY FaultsKept
  <2>4. PlainFolder => PlainLocal(p)'
    BY <1>2, <1>4, <2>1, <2>3
       DEF PlainFolder, PlainLocal, PlainReader, PlainMover, HasKey, Erasing, Moving, disk
  <2> QED
    BY <1>1, <1>2, <2>1, <2>2, <2>4, Quiet DEF Fits, DiskTypes
<1> QED
  BY <1>3, <1>4 DEF Recheck, StayPlain

\* The move goes on only with a sealed file that opens to the key.
LEMMA VerifyStep ==
    ASSUME IInv, NEW p \in Procs, Frame(p), Verify(p)
    PROVE  IInv'
<1>1. LocalTypes /\ LocalType(p) /\ Common(p) /\ DiskTypes
  BY DEF IInv, Typed, LocalTypes, LocalType
<1>2. /\ pc[p] = "verify" /\ UNCHANGED <<disk, made, around>> /\ made' \in Keys /\ key[p] \in Nat /\ p \in around
      /\ PlainFolder => key[p] = 1
      /\ ~NewFolder
  BY <1>1
     DEF Verify, DiskTypes, LocalType, Common, PlainFolder, PlainLocal, PlainReader, HasKey, Moving,
         NewFolder, NewLocal, Creating
<1>3. CASE Done(p, key[p])
  BY <1>2, <1>3, DoneQuiet
<1>4. CASE /\ OpensTo(key[p])
           /\ Go(p, "link") /\ UNCHANGED <<lock, used, seen, blob, key, hand, faults>>
  <2>1. pc'[p] = "link" /\ UNCHANGED <<lock, used, seen, blob, key, hand>>
    BY <1>1, <1>4 DEF Go, LocalTypes
  <2>2. LocalType(p)' /\ Common(p)'
    BY <1>1, <1>2, <2>1 DEF LocalType, Common, Steps, Moving
  <2>3. (Several' <=> Several) /\ (Gone' <=> Gone)
    BY FaultsKept
  <2>4. PlainFolder => PlainLocal(p)'
    BY <1>2, <1>4, <2>1, <2>3
       DEF PlainFolder, PlainLocal, PlainReader, PlainMover, HasKey, Erasing, Moving, disk, OpensTo
  <2> QED
    BY <1>1, <1>2, <2>1, <2>2, <2>4, Quiet DEF Fits, DiskTypes
<1> QED
  BY <1>3, <1>4 DEF Verify, StayPlain

\* The plain copy is erased only behind a marker through which the key was opened; the move is
\* undone only after a lost wrap or a failing check.
LEMMA ReverifyStep ==
    ASSUME IInv, NEW p \in Procs, Frame(p), Reverify(p)
    PROVE  IInv'
<1>1. LocalTypes /\ LocalType(p) /\ Common(p) /\ DiskTypes
  BY DEF IInv, Typed, LocalTypes, LocalType
<1>2. /\ pc[p] = "reverify" /\ UNCHANGED <<disk, made, around>> /\ made' \in Keys /\ key[p] \in Nat /\ p \in around
      /\ PlainFolder => key[p] = 1
      /\ ~NewFolder
  BY <1>1
     DEF Reverify, DiskTypes, LocalType, Common, PlainFolder, PlainLocal, PlainReader, HasKey, Moving,
         NewFolder, NewLocal, Creating
<1>3. UNCHANGED <<lock, used, seen, blob, key, hand>>
  BY DEF Reverify
<1>4. \/ pc'[p] = "erase" /\ Opens(p)
      \/ pc'[p] = "undo" /\ (Opens(p) => Fault("flaky"))
  BY <1>1 DEF Reverify, Go, LocalTypes
<1>5. LocalType(p)' /\ Common(p)'
  BY <1>1, <1>2, <1>3, <1>4 DEF LocalType, Common, Steps, Moving
<1>6. (Several' <=> Several) /\ (Gone' <=> Gone)
  BY FaultsKept
<1>7. CASE pc'[p] = "erase" /\ Opens(p)
  <2>1. master.is = "stub" /\ sealed.id = master.n /\ sealed.is = "good"
    BY <1>1, <1>7 DEF Opens, OpensTo, Stub
  <2>2. PlainFolder => PlainLocal(p)'
    BY <1>2, <1>3, <1>6, <1>7, <2>1
       DEF PlainFolder, PlainLocal, PlainReader, PlainMover, HasKey, Erasing, Moving, disk
  <2> QED
    BY <1>1, <1>2, <1>3, <1>5, <2>2, Quiet DEF Fits, DiskTypes
<1>8. CASE pc'[p] = "undo" /\ (Opens(p) => Fault("flaky"))
  <2>1. PlainFolder /\ ~Gone => Opens(p)
    BY <1>1, <1>2
       DEF PlainFolder, PlainShared, PlainLocal, PlainReader, PlainMover, Opens, OpensTo, HasKey,
           Moving, DiskTypes
  <2>2. PlainFolder => Gone' \/ Flaky'
    BY <1>6, <1>8, <2>1, FaultMet DEF Flaky
  <2>3. PlainFolder => PlainLocal(p)'
    BY <1>2, <1>3, <1>6, <1>8, <2>2
       DEF PlainFolder, PlainLocal, PlainReader, PlainMover, HasKey, Erasing, Moving, disk
  <2> QED
    BY <1>1, <1>2, <1>3, <1>5, <2>3, Quiet DEF Fits, DiskTypes
<1> QED
  BY <1>4, <1>7, <1>8

\* A process that ends or dies takes nothing with it.
LEMMA ExitStep ==
    ASSUME IInv, NEW p \in Procs, Frame(p), Exit(p) \/ Crash(p)
    PROVE  IInv'
<1>1. Fail(p) /\ UNCHANGED <<disk, made>> /\ pc[p] # "off"
  BY DEF Exit, Crash
<1>2. made' \in Keys
  BY <1>1 DEF IInv, Typed, DiskTypes
<1> QED
  BY <1>1, <1>2, FailQuiet

----------------------------------------------------------------------------
(* Steps that change the files.                                             *)

\* A step of p takes nothing from q that q relies on.
Spares(q) ==
    /\ master.is = "stub" => master'.is = "stub" \/ ~Several
    /\ pc[q] \in Erasing => UNCHANGED <<master, sealed>>
    /\ pc[q] \in Moving => UNCHANGED <<master, sealed>> /\ pc[q] \notin {"swap", "replace"}

\* Whoever else is at work makes it several processes, and what is said of one alone is void.
LEMMA Bystander ==
    ASSUME Typed, NEW p \in Procs, Frame(p), pc[p] # "off", NEW q \in Procs \ {p}, PlainLocal(q), Spares(q)
    PROVE  PlainLocal(q)'
<1>1. /\ pc'[q] = pc[q] /\ seen'[q] = seen[q] /\ blob'[q] = blob[q] /\ key'[q] = key[q]
      /\ hand'[q] = hand[q] /\ (Gone' <=> Gone) /\ (Flaky => Flaky') /\ (Several' <=> Several)
  BY FaultsKept DEF Frame
<1>2. Several \/ pc[q] = "off"
  BY TwoAround DEF Typed
<1>3. PlainReader(q)'
  BY <1>1, <1>2 DEF PlainLocal, PlainReader, Spares, HasKey, Moving, Erasing
<1>4. PlainMover(q)'
  BY <1>1, <1>2 DEF PlainLocal, PlainMover, Spares, Moving, Stub
<1> QED
  BY <1>3, <1>4 DEF PlainLocal

\* The same in a new folder.
LEMMA NewBystander ==
    ASSUME Typed, NEW p \in Procs, Frame(p), pc[p] # "off", NEW q \in Procs \ {p}, NewLocal(q),
           sealed' # sealed => pc[q] \notin Creating /\ ~(pc[q] \in {"open", "marker"} /\ blob[q].is = "good")
    PROVE  NewLocal(q)'
<1>1. /\ pc'[q] = pc[q] /\ seen'[q] = seen[q] /\ blob'[q] = blob[q] /\ key'[q] = key[q]
      /\ hand'[q] = hand[q] /\ (Several' <=> Several)
  BY FaultsKept DEF Frame
<1>2. Several \/ pc[q] = "off"
  BY TwoAround DEF Typed
<1> QED
  BY <1>1, <1>2 DEF NewLocal, Creating

\* A step of the move, from the facts about its own process and about the files.
LEMMA PlainStep ==
    ASSUME IInv, NEW p \in Procs, Frame(p), pc[p] # "off", DiskTypes', LocalType(p)', Common(p)', ~NewFolder,
           PlainFolder /\ ~Excused' => PlainShared' /\ PlainLocal(p)' /\ \A q \in Procs \ {p} : Spares(q)
    PROVE  IInv'
<1>1. ASSUME PlainFolder, ~Excused' PROVE PlainFolder'
  <2>1. \A q \in Procs \ {p} : PlainLocal(q)'
    BY <1>1, Bystander DEF IInv, PlainFolder
  <2> QED
    BY <1>1, <2>1 DEF PlainFolder
<1>2. Excused => Excused'
  BY FaultsKept
<1> QED
  BY <1>1, <1>2, Whole DEF IInv
\* Random bytes go over a plain file that master.key no longer is.
LEMMA OverwriteStep ==
    ASSUME IInv, NEW p \in Procs, Frame(p), Overwrite(p)
    PROVE  IInv'
<1>1. LocalTypes /\ LocalType(p) /\ Common(p) /\ DiskTypes
  BY DEF IInv, Typed, LocalTypes, LocalType
<1>2. /\ pc[p] = "overwrite" /\ pc'[p] = "unlink" /\ bytes' = [bytes EXCEPT ![hand[p]] = Junk]
      /\ UNCHANGED <<master, aside, sealed, lock, made, used, around, seen, blob, key, hand>>
      /\ ~NewFolder
  BY <1>1 DEF Overwrite, Go, LocalTypes, NewFolder, NewLocal, Creating
<1>3. LocalType(p)' /\ Common(p)'
  BY <1>1, <1>2 DEF LocalType, Common, Steps, Moving
<1>4. DiskTypes'
  BY <1>1, <1>2 DEF DiskTypes, Junk
<1>5. ASSUME PlainFolder, ~Excused'
      PROVE  PlainShared' /\ PlainLocal(p)' /\ \A q \in Procs \ {p} : Spares(q)
  <2>1. master.is = "stub" /\ sealed.id = master.n /\ sealed.is = "good" /\ key[p] = 1
    BY <1>2, <1>5 DEF PlainFolder, PlainLocal, PlainReader, Erasing, HasKey
  <2>2. PlainShared'
    BY <1>2, <1>5, <2>1 DEF PlainFolder, PlainShared
  <2>3. PlainLocal(p)'
    BY <1>2, <1>5, <2>1 DEF PlainFolder, PlainLocal, PlainReader, PlainMover, HasKey, Erasing, Moving
  <2>4. ASSUME NEW q \in Procs \ {p} PROVE Spares(q)
    <3>1. pc[q] # "off" => ~Gone
      BY <1>1, <1>2, <1>5, TwoAround, FaultsKept, ExcusedIs DEF IInv, Typed
    <3> QED
      BY <1>2, <1>5, <2>1, <3>1 DEF Spares, PlainFolder, PlainLocal, PlainMover
  <2> QED
    BY <2>2, <2>3, <2>4
<1> QED
  BY <1>2, <1>3, <1>4, <1>5, PlainStep

\* The second name goes; the sealed file opens.
LEMMA UnlinkAsideStep ==
    ASSUME IInv, NEW p \in Procs, Frame(p), UnlinkAside(p)
    PROVE  IInv'
<1>1. LocalTypes /\ LocalType(p) /\ Common(p) /\ DiskTypes
  BY DEF IInv, Typed, LocalTypes, LocalType
<1>2. /\ pc[p] = "unlink" /\ (aside' = 0 \/ aside' = aside) /\ Done(p, key[p]) /\ key[p] \in Nat
      /\ UNCHANGED <<master, bytes, sealed, made, around>>
      /\ ~NewFolder
  BY <1>1 DEF UnlinkAside, LocalType, NewFolder, NewLocal, Creating
<1>3. Back(p) /\ used' = used \cup {key[p]}
  BY <1>1, <1>2, Leaves
<1>4. LocalType(p)' /\ Common(p)' /\ lock' \in around' \cup {Nobody} /\ PlainLocal(p)'
  BY <1>2, <1>3, BackFits DEF IInv
<1>5. DiskTypes'
  BY <1>1, <1>2, <1>3, <1>4 DEF DiskTypes
<1>6. ASSUME PlainFolder, ~Excused'
      PROVE  PlainShared' /\ PlainLocal(p)' /\ \A q \in Procs \ {p} : Spares(q)
  <2>1. master.is = "stub" /\ sealed.id = master.n /\ sealed.is = "good" /\ key[p] = 1
    BY <1>2, <1>6 DEF PlainFolder, PlainLocal, PlainReader, Erasing, HasKey
  <2>2. PlainShared'
    BY <1>2, <1>3, <1>6, <2>1 DEF PlainFolder, PlainShared
  <2>3. ASSUME NEW q \in Procs \ {p} PROVE Spares(q)
    <3>1. pc[q] # "off" => ~Gone
      BY <1>1, <1>2, <1>6, TwoAround, FaultsKept, ExcusedIs DEF IInv, Typed
    <3> QED
      BY <1>2, <1>6, <2>1, <3>1 DEF Spares, PlainFolder, PlainLocal, PlainMover
  <2> QED
    BY <1>4, <2>2, <2>3
<1> QED
  BY <1>2, <1>4, <1>5, <1>6, PlainStep

\* A step of the holder of the lock: nobody else moves, and if the wrap is lost or a check was in
\* vain, nobody else is there.
LEMMA Alone ==
    ASSUME IInv, NEW p \in Procs, Frame(p), pc[p] \in Moving, ~Excused', NEW q \in Procs \ {p}
    PROVE  /\ pc[q] \notin Moving
           /\ Gone \/ Flaky => ~Several /\ pc[q] = "off"
<1>1. Common(p) /\ Common(q)
  BY DEF IInv, Typed
<1>2. pc[p] # "off"
  BY DEF Moving
<1>3. Gone \/ Flaky => ~Several
  BY FaultsKept, ExcusedIs
<1> QED
  BY <1>1, <1>2, <1>3, TwoAround DEF Common

\* The plain key goes back over the marker; a failing rename with a lost wrap is the excused case.
LEMMA RestorePlainStep ==
    ASSUME IInv, NEW p \in Procs, Frame(p), RestorePlain(p)
    PROVE  IInv'
<1>1. LocalTypes /\ LocalType(p) /\ Common(p) /\ DiskTypes
  BY DEF IInv, Typed, LocalTypes, LocalType
<1>2. /\ pc[p] = "replace" /\ pc[p] \in Moving
      /\ UNCHANGED <<bytes, sealed, made, around>>
      /\ ~NewFolder
      /\ PlainFolder => Gone /\ aside # 0 /\ bytes[aside] = 1 /\ key[p] = 1
  BY <1>1
     DEF RestorePlain, NewFolder, NewLocal, Creating, PlainFolder, PlainLocal, PlainReader, PlainMover,
         HasKey, Moving
<1>3. Gone' <=> Gone
  BY FaultsKept
<1>4. \A q \in Procs \ {p} : PlainFolder /\ ~Excused' => Spares(q)
  BY <1>2, Alone DEF Spares, Moving, Erasing
<1>5. CASE /\ PutBack /\ Go(p, "discard") /\ UNCHANGED <<lock, used, seen, blob, key, hand>>
  <2>1. /\ pc'[p] = "discard" /\ UNCHANGED <<lock, used, seen, blob, key, hand>>
        /\ aside # 0 /\ master' = Plain(aside) /\ aside' = 0
    BY <1>1, <1>5 DEF Go, LocalTypes, PutBack
  <2>2. master' \in Masters /\ master'.is = "plain" /\ master'.n = aside /\ aside \in Files
    BY <1>1, <2>1, Values DEF DiskTypes
  <2>3. LocalType(p)' /\ Common(p)'
    BY <1>1, <1>2, <2>1 DEF LocalType, Common, Steps, Moving
  <2>4. DiskTypes'
    BY <1>1, <1>2, <2>1, <2>2 DEF DiskTypes
  <2>5. PlainFolder => PlainShared'
    BY <1>2, <2>1, <2>2 DEF PlainFolder, PlainShared
  <2>6. PlainFolder => PlainLocal(p)'
    BY <1>2, <1>3, <2>1, <2>2
       DEF PlainFolder, PlainLocal, PlainReader, PlainMover, HasKey, Erasing, Moving
  <2> QED
    BY <1>2, <1>4, <2>3, <2>4, <2>5, <2>6, PlainStep
<1>6. CASE PutBackFails /\ Fail(p)
  <2>1. Back(p) /\ used' = used /\ aside' = 0 /\ master' = master
    BY <1>1, <1>6, Leaves DEF PutBackFails
  <2>2. LocalType(p)' /\ Common(p)' /\ lock' \in around' \cup {Nobody} /\ PlainLocal(p)'
    BY <1>2, <2>1, BackFits DEF IInv
  <2>3. DiskTypes'
    BY <1>1, <1>2, <2>1, <2>2 DEF DiskTypes
  <2>4. PlainFolder => Excused'
    <3>1. PlainFolder => Fault("rename")
      BY <1>2, <1>6 DEF PutBackFails
    <3> QED
      BY <1>2, <1>3, <3>1, FaultMet, ExcusedIs
  <2> QED
    BY <1>2, <2>2, <2>3, <2>4, PlainStep
<1> QED
  BY <1>5, <1>6 DEF RestorePlain

\* The sealed file that does not open gets another name; the plain key is back.
LEMMA DiscardStep ==
    ASSUME IInv, NEW p \in Procs, Frame(p), Discard(p)
    PROVE  IInv'
<1>1. LocalTypes /\ LocalType(p) /\ Common(p) /\ DiskTypes
  BY DEF IInv, Typed, LocalTypes, LocalType
<1>2. /\ pc[p] = "discard" /\ pc[p] \in Moving /\ key[p] \in Nat
      /\ UNCHANGED <<master, bytes, aside, made, around>>
      /\ ~NewFolder
      /\ PlainFolder => Gone /\ master.is = "plain" /\ key[p] = 1
  BY <1>1
     DEF Discard, LocalType, NewFolder, NewLocal, Creating, PlainFolder, PlainLocal, PlainReader,
         PlainMover, HasKey, Moving
<1>3. Gone' <=> Gone
  BY FaultsKept
<1>4. CASE sealed' = NoBlob /\ Done(p, key[p])
  <2>1. Back(p) /\ used' = used \cup {key[p]}
    BY <1>1, <1>2, <1>4, Leaves
  <2>2. LocalType(p)' /\ Common(p)' /\ lock' \in around' \cup {Nobody} /\ PlainLocal(p)'
    BY <1>2, <2>1, BackFits DEF IInv
  <2>3. DiskTypes'
    BY <1>1, <1>2, <1>4, <2>1, <2>2, Values DEF DiskTypes
  <2>4. PlainFolder => PlainShared'
    BY <1>2, <1>4, <2>1, Values DEF PlainFolder, PlainShared
  <2>5. \A q \in Procs \ {p} : PlainFolder /\ ~Excused' => Spares(q)
    BY <1>2, Alone DEF Spares, Moving, Erasing
  <2> QED
    BY <1>2, <2>2, <2>3, <2>4, <2>5, PlainStep
<1>5. CASE sealed' = sealed /\ Fail(p)
  BY <1>1, <1>2, <1>5, FailQuiet DEF disk, DiskTypes
<1> QED
  BY <1>4, <1>5 DEF Discard
\* The second name of an earlier move goes; the key is in master.key or in the sealed file.
LEMMA CleanStep ==
    ASSUME IInv, NEW p \in Procs, Frame(p), Clean(p)
    PROVE  IInv'
<1>1. LocalTypes /\ LocalType(p) /\ Common(p) /\ DiskTypes
  BY DEF IInv, Typed, LocalTypes, LocalType
<1>2. /\ pc[p] = "clean" /\ pc[p] \in Moving /\ key[p] \in Nat
      /\ UNCHANGED <<master, bytes, sealed, lock, made, used, around, seen, blob, key, hand>>
      /\ ~NewFolder
      /\ PlainFolder => key[p] = 1 /\ (Several \/ master.is = "plain")
  BY <1>1
     DEF Clean, LocalType, NewFolder, NewLocal, Creating, PlainFolder, PlainLocal, PlainReader,
         PlainMover, HasKey, Moving
<1>3. (Gone' <=> Gone) /\ (Several' <=> Several) /\ (Excused => Excused')
  BY FaultsKept
<1>4. pc'[p] = "recheck" /\ (aside' = 0 \/ aside' = aside)
  BY <1>1 DEF Clean, Go, LocalTypes
<1>5. LocalType(p)' /\ Common(p)'
  BY <1>1, <1>2, <1>4 DEF LocalType, Common, Steps, Moving
<1>6. DiskTypes'
  BY <1>1, <1>2, <1>4 DEF DiskTypes
<1>7. ASSUME PlainFolder, ~Excused'
      PROVE  PlainShared' /\ PlainLocal(p)' /\ \A q \in Procs \ {p} : Spares(q)
  <2>1. master.is = "stub" => sealed.id = master.n /\ sealed.is = "good"
    <3>1. Several => ~Gone
      BY <1>3, <1>7, ExcusedIs
    <3> QED
      BY <1>2, <1>7, <3>1 DEF PlainFolder, PlainShared
  <2>2. PlainShared'
    BY <1>2, <1>4, <1>7, <2>1 DEF PlainFolder, PlainShared
  <2>3. PlainLocal(p)'
    BY <1>2, <1>3, <1>4, <1>7
       DEF PlainFolder, PlainLocal, PlainReader, PlainMover, HasKey, Erasing, Moving
  <2>4. \A q \in Procs \ {p} : Spares(q)
    BY <1>2, <1>7, Alone DEF Spares
  <2> QED
    BY <2>2, <2>3, <2>4
<1> QED
  BY <1>2, <1>5, <1>6, <1>7, PlainStep DEF Moving

\* A sealed file of an earlier move is reused or set aside; the plain key is still there.
LEMMA ReuseStep ==
    ASSUME IInv, NEW p \in Procs, Frame(p), Reuse(p)
    PROVE  IInv'
<1>1. LocalTypes /\ LocalType(p) /\ Common(p) /\ DiskTypes
  BY DEF IInv, Typed, LocalTypes, LocalType
<1>2. /\ pc[p] = "reuse" /\ pc[p] \in Moving /\ key[p] \in Nat
      /\ UNCHANGED <<master, bytes, aside, made, around>>
      /\ ~NewFolder
      /\ PlainFolder => key[p] = 1 /\ master.is = "plain"
  BY <1>1
     DEF Reuse, LocalType, NewFolder, NewLocal, Creating, PlainFolder, PlainLocal, PlainReader,
         PlainMover, HasKey, Moving
<1>3. (Gone' <=> Gone) /\ (Several' <=> Several) /\ (Excused => Excused')
  BY FaultsKept
<1>4. CASE sealed' = sealed /\ Done(p, key[p])
  BY <1>1, <1>2, <1>4, DoneQuiet DEF disk, DiskTypes
<1>5. CASE /\ sealed = NoBlob
           /\ Go(p, "seal") /\ UNCHANGED <<sealed, lock, used, seen, blob, key, hand>>
  <2>1. pc'[p] = "seal" /\ UNCHANGED <<sealed, lock, used, seen, blob, key, hand>>
    BY <1>1, <1>5 DEF Go, LocalTypes
  <2>2. LocalType(p)' /\ Common(p)'
    BY <1>1, <1>2, <2>1 DEF LocalType, Common, Steps, Moving
  <2>3. PlainFolder => PlainLocal(p)'
    BY <1>2, <2>1 DEF PlainFolder, PlainLocal, PlainReader, PlainMover, HasKey, Erasing, Moving
  <2> QED
    BY <1>1, <1>2, <2>1, <2>2, <2>3, Quiet DEF Fits, DiskTypes, disk
<1>6. CASE /\ sealed # NoBlob /\ blob' = [blob EXCEPT ![p] = sealed]
           /\ Go(p, "verify") /\ UNCHANGED <<sealed, lock, used, seen, key, hand>>
  <2>1. pc'[p] = "verify" /\ blob'[p] = sealed /\ UNCHANGED <<sealed, lock, used, seen, key, hand>>
    BY <1>1, <1>6 DEF Go, LocalTypes
  <2>2. sealed \in Blobs /\ sealed.id # 0 /\ sealed.is # "none"
    BY <1>1, <1>6 DEF DiskTypes
  <2>3. LocalType(p)' /\ Common(p)'
    BY <1>1, <1>2, <2>1, <2>2 DEF LocalType, Common, Steps, Moving
  <2>4. PlainFolder => PlainLocal(p)'
    BY <1>2, <2>1, <2>2
       DEF PlainShared, PlainFolder, PlainLocal, PlainReader, PlainMover, HasKey, Erasing, Moving
  <2> QED
    BY <1>1, <1>2, <2>1, <2>3, <2>4, Quiet DEF Fits, DiskTypes, disk
<1>7. CASE /\ sealed' = NoBlob
           /\ Go(p, "seal") /\ UNCHANGED <<lock, used, seen, blob, key, hand>>
  <2>1. pc'[p] = "seal" /\ UNCHANGED <<lock, used, seen, blob, key, hand>>
    BY <1>1, <1>7 DEF Go, LocalTypes
  <2>2. LocalType(p)' /\ Common(p)'
    BY <1>1, <1>2, <2>1 DEF LocalType, Common, Steps, Moving
  <2>3. DiskTypes'
    BY <1>1, <1>2, <1>7, <2>1, Values DEF DiskTypes
  <2>4. PlainFolder => PlainShared'
    BY <1>2, <1>7, <2>1, Values DEF PlainFolder, PlainShared
  <2>5. PlainFolder => PlainLocal(p)'
    BY <1>2, <2>1 DEF PlainFolder, PlainLocal, PlainReader, PlainMover, HasKey, Erasing, Moving
  <2>6. \A q \in Procs \ {p} : PlainFolder /\ ~Excused' => Spares(q)
    BY <1>2, Alone DEF Spares, PlainFolder, PlainLocal, PlainReader
  <2> QED
    BY <1>2, <2>2, <2>3, <2>4, <2>5, <2>6, PlainStep DEF Moving
<1> QED
  BY <1>4, <1>5, <1>6, <1>7 DEF Reuse, StayPlain

\* The key is sealed beside the plain file.
LEMMA SealStep ==
    ASSUME IInv, NEW p \in Procs, Frame(p), Seal(p)
    PROVE  IInv'
<1>1. LocalTypes /\ LocalType(p) /\ Common(p) /\ DiskTypes
  BY DEF IInv, Typed, LocalTypes, LocalType
<1>2. /\ pc[p] = "seal" /\ pc[p] \in Moving /\ key[p] \in Nat
      /\ UNCHANGED <<master, bytes, aside, around>>
      /\ ~NewFolder
      /\ PlainFolder => key[p] = 1 /\ master.is = "plain"
  BY <1>1
     DEF Seal, LocalType, NewFolder, NewLocal, Creating, PlainFolder, PlainLocal, PlainReader,
         PlainMover, HasKey, Moving
<1>3. (Gone' <=> Gone) /\ (Several' <=> Several) /\ (Excused => Excused')
  BY FaultsKept
<1>4. made' \in Keys
  BY <1>1, Wrapped DEF Seal, DiskTypes
<1>5. CASE sealed' = sealed /\ Done(p, key[p])
  BY <1>1, <1>2, <1>4, <1>5, DoneQuiet DEF disk
<1>6. CASE \E is \in {"good", "bad"} :
             /\ Wrap(is) /\ sealed' = NewBlob(key[p], is)
             /\ blob' = [blob EXCEPT ![p] = NewBlob(key[p], is)]
             /\ Go(p, "verify") /\ UNCHANGED <<lock, used, seen, key, hand>>
  <2>1. /\ sealed' \in Blobs /\ sealed'.id # 0 /\ sealed'.key = key[p] /\ sealed'.is # "none"
        /\ blob'[p] = sealed' /\ pc'[p] = "verify" /\ UNCHANGED <<lock, used, seen, key, hand>>
    <3>1. PICK is \in {"good", "bad"} :
             /\ Wrap(is) /\ sealed' = NewBlob(key[p], is)
             /\ blob' = [blob EXCEPT ![p] = NewBlob(key[p], is)]
             /\ Go(p, "verify") /\ UNCHANGED <<lock, used, seen, key, hand>>
      BY <1>6
    <3>2. NewBlob(key[p], is) \in Blobs /\ NewBlob(key[p], is).id # 0
          /\ NewBlob(key[p], is).key = key[p] /\ NewBlob(key[p], is).is = is
      BY <1>1, <1>2, <3>1, Wrapped DEF DiskTypes
    <3> QED
      BY <1>1, <3>1, <3>2 DEF Go, LocalTypes
  <2>2. LocalType(p)' /\ Common(p)'
    BY <1>1, <1>2, <2>1 DEF LocalType, Common, Steps, Moving
  <2>3. DiskTypes'
    BY <1>1, <1>2, <1>4, <2>1 DEF DiskTypes
  <2>4. PlainFolder => PlainShared'
    BY <1>2, <2>1 DEF PlainFolder, PlainShared
  <2>5. PlainFolder => PlainLocal(p)'
    BY <1>2, <2>1 DEF PlainFolder, PlainLocal, PlainReader, PlainMover, HasKey, Erasing, Moving
  <2>6. \A q \in Procs \ {p} : PlainFolder /\ ~Excused' => Spares(q)
    BY <1>2, Alone DEF Spares, PlainFolder, PlainLocal, PlainReader
  <2> QED
    BY <1>2, <2>2, <2>3, <2>4, <2>5, <2>6, PlainStep DEF Moving
<1> QED
  BY <1>5, <1>6 DEF Seal, StayPlain

\* Both names hold the key.
LEMMA LinkAsideStep ==
    ASSUME IInv, NEW p \in Procs, Frame(p), LinkAside(p)
    PROVE  IInv'
<1>1. LocalTypes /\ LocalType(p) /\ Common(p) /\ DiskTypes
  BY DEF IInv, Typed, LocalTypes, LocalType
<1>2. /\ pc[p] = "link" /\ pc[p] \in Moving /\ key[p] \in Nat
      /\ UNCHANGED <<master, sealed, made, around>>
      /\ ~NewFolder
      /\ PlainFolder => key[p] = 1 /\ master.is = "plain"
  BY <1>1
     DEF LinkAside, LocalType, NewFolder, NewLocal, Creating, PlainFolder, PlainLocal, PlainReader,
         PlainMover, HasKey, Moving
<1>3. (Gone' <=> Gone) /\ (Several' <=> Several) /\ (Excused => Excused')
  BY FaultsKept
<1>4. CASE Done(p, key[p]) /\ UNCHANGED <<bytes, aside>>
  BY <1>1, <1>2, <1>4, DoneQuiet DEF disk, DiskTypes
<1>5. CASE /\ master.is = "plain"
           /\ \/ aside' = master.n /\ UNCHANGED bytes
              \/ \E f \in Files : CopyInto(f)
           /\ Go(p, "swap") /\ UNCHANGED <<lock, used, seen, blob, key, hand>>
  <2>1. pc'[p] = "swap" /\ UNCHANGED <<lock, used, seen, blob, key, hand>>
    BY <1>1, <1>5 DEF Go, LocalTypes
  <2>2. /\ master.n \in Files /\ aside' \in Files /\ bytes' \in [Files -> Keys \cup {Junk}]
        /\ bytes'[aside'] = bytes[master.n] /\ bytes'[master.n] = bytes[master.n]
    <3>1. master.n \in Files /\ bytes \in [Files -> Keys \cup {Junk}]
      BY <1>1, <1>5 DEF DiskTypes
    <3>2. CASE aside' = master.n /\ UNCHANGED bytes
      BY <3>1, <3>2
    <3>3. CASE \E f \in Files : CopyInto(f)
      BY <3>1, <3>3 DEF CopyInto
    <3> QED
      BY <1>5, <3>2, <3>3
  <2>3. aside' # 0
    BY <2>2, Values
  <2>4. LocalType(p)' /\ Common(p)'
    BY <1>1, <1>2, <2>1 DEF LocalType, Common, Steps, Moving
  <2>5. DiskTypes'
    BY <1>1, <1>2, <2>1, <2>2 DEF DiskTypes
  <2>6. PlainFolder => PlainShared'
    BY <1>2, <1>3, <2>1, <2>2 DEF PlainFolder, PlainShared
  <2>7. PlainFolder => PlainLocal(p)'
    BY <1>2, <1>3, <2>1, <2>2, <2>3
       DEF PlainShared, PlainFolder, PlainLocal, PlainReader, PlainMover, HasKey, Erasing, Moving
  <2>8. \A q \in Procs \ {p} : PlainFolder /\ ~Excused' => Spares(q)
    BY <1>2, Alone DEF Spares
  <2> QED
    BY <1>2, <2>4, <2>5, <2>6, <2>7, <2>8, PlainStep DEF Moving
<1> QED
  BY <1>1, <1>4, <1>5 DEF LinkAside, StayPlain, DiskTypes

\* The marker replaces the plain key, which keeps its second name.
LEMMA SwapMarkerStep ==
    ASSUME IInv, NEW p \in Procs, Frame(p), SwapMarker(p)
    PROVE  IInv'
<1>1. LocalTypes /\ LocalType(p) /\ Common(p) /\ DiskTypes
  BY DEF IInv, Typed, LocalTypes, LocalType
<1>2. /\ pc[p] = "swap" /\ pc[p] \in Moving /\ key[p] \in Nat
      /\ UNCHANGED <<bytes, aside, sealed, made, around>>
      /\ ~NewFolder
      /\ PlainFolder => /\ key[p] = 1 /\ master.is = "plain" /\ aside # 0 /\ bytes[aside] = 1
                        /\ blob[p].id # 0 /\ sealed.id = blob[p].id /\ (sealed.is = "good" \/ Gone)
  BY <1>1
     DEF SwapMarker, LocalType, NewFolder, NewLocal, Creating, PlainFolder, PlainLocal, PlainReader,
         PlainMover, HasKey, Moving
<1>3. (Gone' <=> Gone) /\ (Several' <=> Several) /\ (Excused => Excused')
  BY FaultsKept
<1>4. CASE master' = master /\ Done(p, key[p])
  BY <1>1, <1>2, <1>4, DoneQuiet DEF disk, DiskTypes
<1>5. CASE /\ master' = Stub(blob[p].id)
           /\ Go(p, "reverify") /\ UNCHANGED <<lock, used, seen, blob, key, hand>>
  <2>1. /\ pc'[p] = "reverify" /\ UNCHANGED <<lock, used, seen, blob, key, hand>>
        /\ master' = Stub(blob[p].id) /\ blob[p].id \in Nat
    <3>1. blob[p].id \in Nat
      BY <1>1, Values DEF LocalType
    <3> QED
      BY <1>1, <1>5, <3>1 DEF Go, LocalTypes
  <2>2. master' \in Masters /\ master'.is = "stub" /\ master'.n = blob[p].id
    BY <2>1, Values
  <2>3. LocalType(p)' /\ Common(p)'
    BY <1>1, <1>2, <2>1 DEF LocalType, Common, Steps, Moving
  <2>4. DiskTypes'
    BY <1>1, <1>2, <2>1, <2>2 DEF DiskTypes
  <2>5. PlainFolder => PlainShared'
    BY <1>2, <1>3, <2>1, <2>2 DEF PlainFolder, PlainShared
  <2>6. PlainFolder => PlainLocal(p)'
    BY <1>2, <1>3, <2>1, <2>2
       DEF PlainFolder, PlainLocal, PlainReader, PlainMover, HasKey, Erasing, Moving, Stub
  <2>7. \A q \in Procs \ {p} : PlainFolder /\ ~Excused' => Spares(q)
    BY <1>2, <2>2, Alone DEF Spares, PlainFolder, PlainLocal, PlainReader
  <2> QED
    BY <1>2, <2>3, <2>4, <2>5, <2>6, <2>7, PlainStep DEF Moving
<1> QED
  BY <1>4, <1>5 DEF SwapMarker, StayPlain

\* The plain key goes back over the marker; nobody else is there to erase it, or it is the excused
\* case.
LEMMA UndoStep ==
    ASSUME IInv, NEW p \in Procs, Frame(p), Undo(p)
    PROVE  IInv'
<1>1. LocalTypes /\ LocalType(p) /\ Common(p) /\ DiskTypes
  BY DEF IInv, Typed, LocalTypes, LocalType
<1>2. /\ pc[p] = "undo" /\ pc[p] \in Moving /\ key[p] \in Nat
      /\ UNCHANGED <<bytes, sealed, made, around>>
      /\ ~NewFolder
      /\ PlainFolder => key[p] = 1 /\ (Gone \/ Flaky) /\ (Several \/ (aside # 0 /\ bytes[aside] = 1))
  BY <1>1
     DEF Undo, LocalType, NewFolder, NewLocal, Creating, PlainFolder, PlainLocal, PlainReader,
         PlainMover, HasKey, Moving
<1>3. (Gone' <=> Gone) /\ (Several' <=> Several) /\ (Excused => Excused')
  BY FaultsKept
<1>4. Back(p) /\ used' = used \cup {key[p]}
  BY <1>1, <1>2, Leaves DEF Undo, StayPlain
<1>5. LocalType(p)' /\ Common(p)' /\ lock' \in around' \cup {Nobody} /\ PlainLocal(p)'
  BY <1>2, <1>4, BackFits DEF IInv, Moving
<1>6. \A q \in Procs \ {p} : PlainFolder /\ ~Excused' => Spares(q)
  BY <1>2, Alone DEF Spares, Moving, Erasing
<1>7. PlainFolder /\ ~Excused' => aside # 0 /\ bytes[aside] = 1
  <2>1. Gone \/ Flaky => Excused' \/ ~Several
    BY <1>3, FaultsKept, ExcusedIs
  <2> QED
    BY <1>2, <2>1
<1>8. CASE PutBack
  <2>1. aside # 0 /\ master' = Plain(aside) /\ aside' = 0 /\ aside \in Files
    BY <1>1, <1>8 DEF PutBack, DiskTypes
  <2>2. master' \in Masters /\ master'.is = "plain" /\ master'.n = aside
    BY <2>1, Values
  <2>3. DiskTypes'
    BY <1>1, <1>2, <1>4, <1>5, <2>1, <2>2 DEF DiskTypes
  <2>4. PlainFolder /\ ~Excused' => PlainShared'
    BY <1>2, <1>4, <1>7, <2>1, <2>2 DEF PlainFolder, PlainShared
  <2> QED
    BY <1>2, <1>5, <1>6, <2>3, <2>4, PlainStep DEF Moving
<1>9. CASE PutBackFails
  <2>1. aside' = 0 /\ master' = master /\ (aside # 0 => Fault("rename"))
    BY <1>9 DEF PutBackFails
  <2>2. DiskTypes'
    BY <1>1, <1>2, <1>4, <1>5, <2>1 DEF DiskTypes
  <2>3. PlainFolder /\ ~Excused' => ~Gone
    BY <1>3, <1>7, <2>1, FaultMet, ExcusedIs
  <2>4. PlainFolder /\ ~Excused' => PlainShared'
    BY <1>2, <1>4, <2>1, <2>3 DEF PlainFolder, PlainShared
  <2> QED
    BY <1>2, <1>5, <1>6, <2>2, <2>4, PlainStep DEF Moving
<1> QED
  BY <1>8, <1>9 DEF Undo
----------------------------------------------------------------------------
(* Making a new key.                                                        *)

\* A step in a new folder, from the facts about its own process and about the files.
LEMMA NewStep ==
    ASSUME IInv, NEW p \in Procs, Frame(p), pc[p] # "off", DiskTypes', LocalType(p)', Common(p)', ~PlainFolder,
           NewFolder /\ ~Excused' =>
             /\ NewShared' /\ NewLocal(p)'
             /\ \A q \in Procs \ {p} :
                  /\ sealed' # sealed => pc[q] \notin Creating /\ ~(pc[q] \in {"open", "marker"} /\ blob[q].is = "good")
                  /\ pc'[p] \in Creating => pc[q] \notin Creating
    PROVE  IInv'
<1>1. ASSUME NewFolder, ~Excused' PROVE NewFolder'
  <2>1. \A q \in Procs \ {p} : NewLocal(q)'
    BY <1>1, NewBystander DEF IInv, NewFolder
  <2>2. \A q, r \in Procs : pc'[q] \in Creating /\ pc'[r] \in Creating => q = r
    BY <1>1 DEF NewFolder, Frame
  <2> QED
    BY <1>1, <2>1, <2>2 DEF NewFolder
<1>2. Excused => Excused'
  BY FaultsKept
<1> QED
  BY <1>1, <1>2, Whole DEF IInv

\* The marker that is put back names the sealed file in use.
LEMMA PutMarkerStep ==
    ASSUME IInv, NEW p \in Procs, Frame(p), PutMarker(p)
    PROVE  IInv'
<1>1. LocalTypes /\ LocalType(p) /\ Common(p) /\ DiskTypes
  BY DEF IInv, Typed, LocalTypes, LocalType
<1>2. /\ pc[p] = "marker"
      /\ UNCHANGED <<bytes, aside, sealed, made, around>>
      /\ ~PlainFolder
      /\ NewFolder => /\ sealed = blob[p] /\ blob[p].is = "good" /\ key[p] = blob[p].key
  BY <1>1 DEF PutMarker, Common, PlainFolder, PlainLocal, PlainReader, NewFolder, NewLocal, Creating
<1>3. (Gone' <=> Gone) /\ (Several' <=> Several) /\ (Excused => Excused') /\ (Flaky => Flaky')
  BY FaultsKept
<1>4. master' = (IF master = Nothing THEN Stub(blob[p].id) ELSE master) \/ master' = master
  BY DEF PutMarker
<1>5. blob[p].id \in Nat /\ key[p] \in Nat
  BY <1>1, Values DEF LocalType
<1>6. Back(p) /\ used' = used \cup {key[p]}
  BY <1>1, <1>5, Leaves DEF PutMarker
<1>7. LocalType(p)' /\ Common(p)' /\ lock' \in around' \cup {Nobody} /\ NewLocal(p)' /\ pc'[p] \notin Creating
  BY <1>2, <1>6, BackFits DEF IInv
<1>8. master' = master \/ (master = Nothing /\ master' \in Masters /\ master'.is = "stub" /\ master'.n = blob[p].id)
  BY <1>4, <1>5, Values
<1>9. DiskTypes'
  BY <1>1, <1>2, <1>5, <1>6, <1>7, <1>8 DEF DiskTypes
<1>10. NewFolder => NewShared'
  <2>1. NewFolder => sealed.id # 0 /\ key[p] # 1
    BY <1>1, <1>2, Values DEF DiskTypes, NewFolder, NewShared
  <2> QED
    BY <1>2, <1>3, <1>6, <1>8, <2>1 DEF NewFolder, NewShared, OpensTo
<1> QED
  BY <1>2, <1>7, <1>9, <1>10, NewStep

\* Only the first sealed file gets the name, so no key is in use before it.
LEMMA CreateStep ==
    ASSUME IInv, NEW p \in Procs, Frame(p), Create(p)
    PROVE  IInv'
<1>1. LocalTypes /\ LocalType(p) /\ Common(p) /\ DiskTypes
  BY DEF IInv, Typed, LocalTypes, LocalType
<1>2. /\ pc[p] = "create"
      /\ UNCHANGED <<master, bytes, aside, around>>
      /\ ~PlainFolder
      /\ NewFolder => TRUE
  BY <1>1 DEF Create, Common, PlainFolder, PlainLocal, PlainReader, NewFolder, NewLocal, Creating
<1>3. (Gone' <=> Gone) /\ (Several' <=> Several) /\ (Excused => Excused') /\ (Flaky => Flaky')
  BY FaultsKept
<1>4. made' \in Keys
  <2>1. CASE made' = made
    BY <1>1, <2>1 DEF DiskTypes
  <2>2. CASE \E is \in {"good", "bad"} : Wrap(is)
    BY <1>1, <2>2, Wrapped DEF DiskTypes
  <2> QED
    BY <2>1, <2>2 DEF Create
<1>5. CASE Fail(p) /\ sealed' = sealed
  BY <1>2, <1>4, <1>5, FailQuiet DEF disk
<1>6. CASE Go(p, "again") /\ UNCHANGED <<sealed, blob, lock, used, seen, key, hand>>
  <2>1. pc'[p] = "again" /\ UNCHANGED <<sealed, blob, lock, used, seen, key, hand>>
    BY <1>1, <1>6 DEF Go, LocalTypes
  <2>2. LocalType(p)' /\ Common(p)'
    BY <1>1, <1>2, <2>1 DEF LocalType, Common, Steps, Moving
  <2>3. NewFolder => NewLocal(p)' /\ pc'[p] \notin Creating
    BY <1>2, <2>1 DEF NewFolder, NewLocal, Creating
  <2> QED
    BY <1>1, <1>2, <1>4, <2>1, <2>2, <2>3, Quiet DEF Fits, DiskTypes, disk
<1>7. CASE /\ sealed = NoBlob
           /\ \E is \in {"good", "bad"} :
                /\ Wrap(is)
                /\ sealed' = NewBlob(made + 1, is)
                /\ blob' = [blob EXCEPT ![p] = NewBlob(made + 1, is)]
                /\ Go(p, "read back") /\ UNCHANGED <<lock, used, seen, key, hand>>
  <2>1. /\ sealed' \in Blobs /\ sealed'.id # 0 /\ sealed'.key # 1 /\ sealed'.is # "none"
        /\ blob'[p] = sealed' /\ pc'[p] = "read back" /\ UNCHANGED <<lock, used, seen, key, hand>>
    <3>1. PICK is \in {"good", "bad"} :
                /\ Wrap(is)
                /\ sealed' = NewBlob(made + 1, is)
                /\ blob' = [blob EXCEPT ![p] = NewBlob(made + 1, is)]
                /\ Go(p, "read back") /\ UNCHANGED <<lock, used, seen, key, hand>>
      BY <1>7
    <3>2. made \in Keys
      BY <1>1 DEF DiskTypes
    <3>3. made + 1 \in Nat /\ made + 1 # 1
      BY <3>2, RootKeyAssumption DEF Keys
    <3>4. NewBlob(made + 1, is) \in Blobs /\ NewBlob(made + 1, is).id # 0
          /\ NewBlob(made + 1, is).key = made + 1 /\ NewBlob(made + 1, is).is = is
      BY <3>1, <3>2, <3>3, Wrapped
    <3> QED
      BY <1>1, <3>1, <3>3, <3>4 DEF Go, LocalTypes
  <2>2. LocalType(p)' /\ Common(p)'
    BY <1>1, <1>2, <2>1 DEF LocalType, Common, Steps, Moving
  <2>3. DiskTypes'
    BY <1>1, <1>2, <1>4, <2>1 DEF DiskTypes
  <2>4. NewFolder => used = {} /\ master = Nothing
    <3>1. sealed.is = "none"
      BY <1>7, Values
    <3>2. master.is \in {"none", "plain", "stub"}
      BY <1>1, Values DEF DiskTypes
    <3> QED
      BY <1>1, <3>1, <3>2 DEF NewFolder, NewShared, OpensTo, DiskTypes
  <2>5. NewFolder => NewShared' /\ NewLocal(p)'
    BY <1>2, <1>3, <2>1, <2>4, Values DEF NewFolder, NewShared, NewLocal, Creating, OpensTo
  <2>6. \A q \in Procs : NewFolder => pc[q] \notin Creating /\ ~(pc[q] \in {"open", "marker"} /\ blob[q].is = "good")
    <3>1. \A q \in Procs : pc[q] \in Creating => blob[q].id # 0
      BY DEF IInv, Typed, Common, Creating
    <3>2. sealed.id = 0 /\ sealed.is = "none"
      BY <1>7, Values
    <3> QED
      BY <3>1, <3>2 DEF NewFolder, NewLocal
  <2> QED
    BY <1>2, <2>2, <2>3, <2>5, <2>6, NewStep
<1> QED
  BY <1>5, <1>6, <1>7 DEF Create

\* A new sealed file is taken away only while nobody works with it.
LEMMA ReadBackStep ==
    ASSUME IInv, NEW p \in Procs, Frame(p), ReadBack(p)
    PROVE  IInv'
<1>1. LocalTypes /\ LocalType(p) /\ Common(p) /\ DiskTypes
  BY DEF IInv, Typed, LocalTypes, LocalType
<1>2. /\ pc[p] = "read back"
      /\ UNCHANGED <<master, bytes, aside, made, around>>
      /\ ~PlainFolder
      /\ NewFolder => sealed = blob[p] /\ (Several \/ (used = {} /\ master = Nothing))
  BY <1>1 DEF ReadBack, Common, PlainFolder, PlainLocal, PlainReader, NewFolder, NewLocal, Creating
<1>3. (Gone' <=> Gone) /\ (Several' <=> Several) /\ (Excused => Excused') /\ (Flaky => Flaky')
  BY FaultsKept
<1>4. CASE /\ OpensTo(blob[p].key)
           /\ Go(p, "new marker") /\ UNCHANGED <<sealed, lock, used, seen, blob, key, hand>>
  <2>1. pc'[p] = "new marker" /\ UNCHANGED <<sealed, lock, used, seen, blob, key, hand>>
    BY <1>1, <1>4 DEF Go, LocalTypes
  <2>2. LocalType(p)' /\ Common(p)'
    BY <1>1, <1>2, <2>1 DEF LocalType, Common, Steps, Moving
  <2>3. NewFolder => NewLocal(p)' /\ pc[p] \in Creating
    BY <1>2, <1>4, <2>1 DEF NewFolder, NewLocal, Creating, OpensTo
  <2> QED
    BY <1>1, <1>2, <2>1, <2>2, <2>3, Quiet DEF Fits, DiskTypes, disk
<1>5. CASE sealed' = NoBlob /\ Fail(p) /\ (OpensTo(blob[p].key) => Fault("flaky"))
  <2>1. Back(p) /\ used' = used
    BY <1>1, <1>5, Leaves
  <2>2. LocalType(p)' /\ Common(p)' /\ lock' \in around' \cup {Nobody} /\ NewLocal(p)' /\ pc'[p] \notin Creating
    BY <1>2, <2>1, BackFits DEF IInv
  <2>3. DiskTypes'
    BY <1>1, <1>2, <1>5, <2>1, <2>2, Values DEF DiskTypes
  <2>4. ASSUME NewFolder, ~Excused'
        PROVE  /\ used = {} /\ master.is # "stub"
               /\ \A q \in Procs \ {p} : pc[q] \notin Creating /\ ~(pc[q] \in {"open", "marker"} /\ blob[q].is = "good")
    <3>1. \A q \in Procs \ {p} : pc[q] \notin Creating
      BY <1>2, <2>4 DEF NewFolder, Creating
    <3>2. CASE OpensTo(blob[p].key)
      <4>1. Flaky'
        BY <1>5, <3>2, FaultMet DEF Flaky
      <4>2. ~Several
        BY <1>3, <2>4, <4>1, ExcusedIs
      <4>3. \A q \in Procs \ {p} : pc[q] = "off"
        BY <1>2, <4>2, TwoAround DEF IInv, Typed
      <4> QED
        BY <1>2, <2>4, <3>1, <4>2, <4>3, Values
    <3>3. CASE ~OpensTo(blob[p].key)
      <4>1. sealed.is # "good"
        BY <1>2, <2>4, <3>3 DEF OpensTo
      <4> QED
        BY <2>4, <3>1, <4>1 DEF NewFolder, NewShared, NewLocal, OpensTo
    <3> QED
      BY <3>2, <3>3
  <2>5. NewFolder /\ ~Excused' => NewShared'
    BY <1>2, <1>3, <1>5, <2>1, <2>4, Values DEF NewFolder, NewShared
  <2> QED
    BY <1>2, <2>2, <2>3, <2>4, <2>5, NewStep
<1> QED
  BY <1>4, <1>5 DEF ReadBack

\* The marker names the sealed file that was read back.
LEMMA NewMarkerStep ==
    ASSUME IInv, NEW p \in Procs, Frame(p), NewMarker(p)
    PROVE  IInv'
<1>1. LocalTypes /\ LocalType(p) /\ Common(p) /\ DiskTypes
  BY DEF IInv, Typed, LocalTypes, LocalType
<1>2. /\ pc[p] = "new marker"
      /\ UNCHANGED <<bytes, aside, sealed, made, around>>
      /\ ~PlainFolder
      /\ NewFolder => sealed = blob[p] /\ sealed.is = "good"
  BY <1>1 DEF NewMarker, Common, PlainFolder, PlainLocal, PlainReader, NewFolder, NewLocal, Creating
<1>3. (Gone' <=> Gone) /\ (Several' <=> Several) /\ (Excused => Excused') /\ (Flaky => Flaky')
  BY FaultsKept
<1>4. CASE Fail(p) /\ master' = master
  BY <1>1, <1>2, <1>4, FailQuiet DEF disk, DiskTypes
<1>5. CASE /\ master' = IF master = Nothing THEN Stub(blob[p].id) ELSE master
           /\ Go(p, "again") /\ UNCHANGED <<lock, used, seen, blob, key, hand>>
  <2>1. pc'[p] = "again" /\ UNCHANGED <<lock, used, seen, blob, key, hand>>
    BY <1>1, <1>5 DEF Go, LocalTypes
  <2>2. blob[p].id \in Nat
    BY <1>1, Values DEF LocalType
  <2>3. master' = master \/ (master = Nothing /\ master' \in Masters /\ master'.is = "stub" /\ master'.n = blob[p].id)
    BY <1>5, <2>2, Values
  <2>4. LocalType(p)' /\ Common(p)'
    BY <1>1, <1>2, <2>1 DEF LocalType, Common, Steps, Moving
  <2>5. DiskTypes'
    BY <1>1, <1>2, <2>1, <2>3 DEF DiskTypes
  <2>6. NewFolder => NewShared'
    BY <1>2, <1>3, <2>1, <2>3 DEF NewFolder, NewShared, OpensTo
  <2>7. NewFolder => NewLocal(p)' /\ pc'[p] \notin Creating
    BY <1>2, <2>1 DEF NewFolder, NewLocal, Creating
  <2> QED
    BY <1>2, <2>4, <2>5, <2>6, <2>7, NewStep
<1> QED
  BY <1>4, <1>5 DEF NewMarker
----------------------------------------------------------------------------
(* The wrap is lost.                                                        *)

\* Every sealed file keeps its name and its key, and no longer opens.
LEMMA SpoiledIs ==
    ASSUME NEW b \in Blobs, b.id = 0 => b = NoBlob
    PROVE  /\ Spoiled(b) \in Blobs /\ Spoiled(b).id = b.id /\ Spoiled(b).key = b.key
           /\ b.id = 0 => Spoiled(b) = NoBlob
           /\ b.id # 0 => Spoiled(b).is = "bad"
<1>1. CASE b = NoBlob
  BY <1>1 DEF Spoiled, NoBlob, Blobs, Junk
<1>2. CASE b # NoBlob
  <2>1. Spoiled(b) = [b EXCEPT !.is = "bad"]
    BY <1>2 DEF Spoiled
  <2> QED
    BY <1>2, <2>1 DEF Blobs
<1> QED
  BY <1>1, <1>2

\* The loss of the wrap leaves a plain copy, by the condition under which it is considered.
LEMMA WrapGoneStep ==
    ASSUME IInv, WrapGone
    PROVE  IInv'
<1>1. LocalTypes /\ DiskTypes /\ \A p \in Procs : Common(p)
  BY DEF IInv, Typed
<1>2. /\ UNCHANGED <<master, bytes, aside, lock, made, used, around, pc, seen, key, hand>>
      /\ sealed' = Spoiled(sealed) /\ blob' = [p \in Procs |-> Spoiled(blob[p])]
      /\ \A p \in Procs : pc[p] \notin Erasing
      /\ \E k \in used : Holds(k)
  BY DEF WrapGone, Erasing
<1>3. /\ sealed' \in Blobs /\ sealed'.id = sealed.id /\ sealed'.key = sealed.key
      /\ sealed'.id = 0 => sealed' = NoBlob
      /\ sealed'.id # 0 => sealed'.is = "bad"
  BY <1>1, <1>2, SpoiledIs DEF DiskTypes
<1>4. \A p \in Procs : /\ blob'[p] = Spoiled(blob[p])
                       /\ blob'[p] \in Blobs /\ blob'[p].id = blob[p].id /\ blob'[p].key = blob[p].key
                       /\ blob'[p].id = 0 => blob'[p] = NoBlob
                       /\ blob'[p].id # 0 => blob'[p].is = "bad"
  BY <1>1, <1>2, SpoiledIs DEF LocalTypes, Common
<1>5. DiskTypes'
  BY <1>1, <1>2, <1>3 DEF DiskTypes
<1>6. LocalTypes'
  BY <1>1, <1>2, <1>4 DEF LocalTypes
<1>7. \A p \in Procs : Common(p)'
  BY <1>1, <1>2, <1>4 DEF Common
<1>8. Gone' /\ (Flaky => Flaky') /\ (Several' <=> Several) /\ (Excused => Excused')
  <2>1. Fault("gone")
    BY DEF WrapGone
  <2>2. Gone' /\ \A kinds : Met(kinds) => Met(kinds)'
    BY <2>1, FaultMet DEF Gone
  <2>3. Several' <=> Several
    BY <1>2 DEF Several
  <2> QED
    BY <2>2, <2>3, ExcusedIs DEF Flaky
<1>9. ~NewFolder
  BY <1>2 DEF NewFolder, NewShared, Holds
<1>10. ASSUME PlainFolder, ~Excused' PROVE PlainFolder'
  <2>1. PlainShared'
    BY <1>2, <1>3, <1>8, <1>10 DEF PlainFolder, PlainShared, Holds
  <2>2. ASSUME NEW p \in Procs PROVE PlainLocal(p)'
    <3>1. PlainReader(p)'
      BY <1>2, <1>4, <1>8, <1>10 DEF PlainFolder, PlainLocal, PlainReader
    <3>2. PlainMover(p)'
      BY <1>2, <1>3, <1>4, <1>8, <1>10 DEF PlainFolder, PlainLocal, PlainMover
    <3> QED
      BY <3>1, <3>2 DEF PlainLocal
  <2> QED
    BY <2>1, <2>2 DEF PlainFolder
<1> QED
  BY <1>5, <1>6, <1>7, <1>8, <1>9, <1>10 DEF IInv, Typed

----------------------------------------------------------------------------
(* The theorems.                                                            *)

\* A folder with a plain key, and a new one, are as the invariant says.
LEMMA InitIInv == Init => IInv
<1> SUFFICES ASSUME Init PROVE IInv
  OBVIOUS
<1>1. around \subseteq Procs
  BY RootKeyAssumption DEF Init
<1>2. DiskTypes
  <2>1. master = Plain(1) \/ master = Nothing
    BY DEF Init
  <2>2. 1 \in Keys /\ 1 \in Files
    BY RootKeyAssumption DEF Keys
  <2>3. master \in Masters /\ (master.is = "plain" => master.n \in Files) /\ (master.is = "none" => master = Nothing)
    BY <2>1, <2>2, Values
  <2>4. bytes \in [Files -> Keys \cup {Junk}]
    BY <2>2 DEF Init
  <2>5. used \subseteq Nat
    BY DEF Init
  <2> QED
    BY <1>1, <2>2, <2>3, <2>4, <2>5, Values DEF Init, DiskTypes
<1>3. LocalTypes
  BY Values DEF Init, LocalTypes, Steps, Junk
<1>4. \A p \in Procs : Common(p)
  BY Values DEF Init, Common, Moving
<1>5. CASE master = Plain(1) /\ used = {1}
  <2>1. bytes[1] = 1
    BY RootKeyAssumption DEF Init
  <2>2. PlainShared
    BY <1>5, <2>1, Values DEF Init, PlainShared
  <2>3. \A p \in Procs : PlainLocal(p)
    BY Values DEF Init, PlainLocal, PlainReader, PlainMover, HasKey, Erasing, Moving
  <2> QED
    BY <1>2, <1>3, <1>4, <2>2, <2>3 DEF IInv, Typed, PlainFolder
<1>6. CASE master = Nothing /\ used = {}
  <2>1. ~Gone
    BY DEF Init, Gone, Met
  <2>2. NewShared
    BY <1>6, <2>1, Values DEF Init, NewShared
  <2>3. \A p \in Procs : NewLocal(p) /\ pc[p] \notin Creating
    BY Values DEF Init, NewLocal, Creating
  <2> QED
    BY <1>2, <1>3, <1>4, <2>2, <2>3 DEF IInv, Typed, NewFolder
<1> QED
  BY <1>5, <1>6 DEF Init

\* A step that changes nothing.
LEMMA StutterIInv ==
    ASSUME IInv, UNCHANGED vars
    PROVE  IInv'
<1>1. /\ UNCHANGED <<master, bytes, aside, sealed, lock, made, used, around>>
      /\ UNCHANGED <<pc, seen, blob, key, hand, faults>>
  BY DEF vars, disk, local
<1>2. Gone' = Gone /\ Flaky' = Flaky /\ Several' = Several /\ Excused' = Excused
  BY <1>1 DEF Gone, Flaky, Several, Excused, Met
<1>3. Typed'
  BY <1>1 DEF IInv, Typed, DiskTypes, LocalTypes, Common
<1>4. PlainFolder => PlainFolder'
  <2>1. PlainShared => PlainShared'
    BY <1>1, <1>2 DEF PlainShared
  <2>2. ASSUME NEW p \in Procs, PlainLocal(p) PROVE PlainLocal(p)'
    <3>1. PlainReader(p)'
      BY <1>1, <1>2, <2>2 DEF PlainLocal, PlainReader
    <3>2. PlainMover(p)'
      BY <1>1, <1>2, <2>2 DEF PlainLocal, PlainMover
    <3> QED
      BY <3>1, <3>2 DEF PlainLocal
  <2> QED
    BY <2>1, <2>2 DEF PlainFolder
<1>5. NewFolder => NewFolder'
  BY <1>1, <1>2 DEF NewFolder, NewShared, NewLocal, OpensTo
<1> QED
  BY <1>2, <1>3, <1>4, <1>5 DEF IInv

\* Every step of every process, and the loss of the wrap, preserve the invariant.
LEMMA NextIInv == IInv /\ [Next]_vars => IInv'
<1> SUFFICES ASSUME IInv, [Next]_vars PROVE IInv'
  OBVIOUS
<1>1. CASE UNCHANGED vars
  BY <1>1, StutterIInv
<1>2. CASE WrapGone
  BY <1>2, WrapGoneStep
<1>3. ASSUME NEW p \in Procs, Act(p) PROVE IInv'
  <2>1. Frame(p)
    BY <1>3, FrameHolds DEF IInv, Typed
  <2>2. CASE Get(p) \/ Exit(p) \/ Crash(p)
    BY <2>1, <2>2, GetStep, ExitStep
  <2>3. CASE ReadMaster(p) \/ ReadSealed(p) \/ OpenSealed(p) \/ PutMarker(p)
    BY <2>1, <2>3, ReadMasterStep, ReadSealedStep, OpenSealedStep, PutMarkerStep
  <2>4. CASE CompareAside(p) \/ OpenAside(p) \/ Overwrite(p) \/ UnlinkAside(p)
    BY <2>1, <2>4, CompareAsideStep, OpenAsideStep, OverwriteStep, UnlinkAsideStep
  <2>5. CASE RestoreBegin(p) \/ RestorePlain(p) \/ Discard(p)
    BY <2>1, <2>5, RestoreBeginStep, RestorePlainStep, DiscardStep
  <2>6. CASE Create(p) \/ ReadBack(p) \/ NewMarker(p)
    BY <2>1, <2>6, CreateStep, ReadBackStep, NewMarkerStep
  <2>7. CASE Lock(p) \/ Clean(p) \/ Recheck(p) \/ Reuse(p) \/ Seal(p) \/ Verify(p)
    BY <2>1, <2>7, LockStep, CleanStep, RecheckStep, ReuseStep, SealStep, VerifyStep
  <2>8. CASE LinkAside(p) \/ SwapMarker(p) \/ Reverify(p) \/ Undo(p)
    BY <2>1, <2>8, LinkAsideStep, SwapMarkerStep, ReverifyStep, UndoStep
  <2> QED
    BY <1>3, <2>2, <2>3, <2>4, <2>5, <2>6, <2>7, <2>8 DEF Act, Step
<1> QED
  BY <1>1, <1>2, <1>3 DEF Next, Act

\* The inductive invariant, for every number of processes, files and faults.
THEOREM RootKeyInvariant == Spec => []IInv
BY InitIInv, NextIInv, PTL DEF Spec

\* The lock of the key files excludes: of any number of processes only its holder moves them, and
\* only a process that erases has a plain file open.
THEOREM RootKeyTypes == Spec => []TypeOK
<1>1. IInv => TypeOK
  BY Values DEF IInv, Typed, DiskTypes, LocalTypes, Common, TypeOK, Masters, Blobs
<1> QED
  BY <1>1, RootKeyInvariant, PTL

\* No process ever works with a second key (get_with, open, create and migrate), however many
\* start, race and die.
THEOREM RootKeyOneKey == Spec => []OneKey
<1>1. IInv => OneKey
  <2>1. PlainFolder => OneKey
    BY DEF PlainFolder, PlainShared, OneKey
  <2>2. NewFolder => OneKey
    BY DEF NewFolder, NewShared, OpensTo, OneKey
  <2> QED
    BY <2>1, <2>2 DEF IInv, OneKey
<1> QED
  BY <1>1, RootKeyInvariant, PTL

\* The key in use is on disk at every instant: no step of migrate, restore_from_aside,
\* finish_aside or create, and no death between two of them, loses it.
THEOREM RootKeyOnDisk == Spec => []KeyOnDisk
<1>1. IInv => KeyOnDisk
  <2>1. ASSUME IInv, PlainFolder PROVE KeyOnDisk
    <3>1. master.is \in {"none", "plain", "stub"} /\ (sealed.is = "good" => sealed.id # 0)
      BY <2>1, Values DEF IInv, Typed, DiskTypes
    <3> QED
      BY <2>1, <3>1 DEF PlainFolder, PlainShared, KeyOnDisk, Holds, OpensTo
  <2>2. NewFolder => KeyOnDisk
    BY DEF NewFolder, NewShared, KeyOnDisk
  <2> QED
    BY <2>1, <2>2 DEF IInv, KeyOnDisk
<1> QED
  BY <1>1, RootKeyInvariant, PTL
=============================================================================
