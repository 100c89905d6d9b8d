--------------------------- MODULE UpdateSwapInv ----------------------------
(***************************************************************************)
(* The invariant behind the proofs about the swap of the programs, and     *)
(* what its parts say of the thread, the journal and a program's names.    *)
(*                                                                         *)
(* OldKept and NoMixKept say what some instants look like.  What makes     *)
(* them true is what the journal says of the folder at every instant:      *)
(* before the new version is accepted every program's good copy is under   *)
(* one of two names (Shape), a journal of a phase at rest says that it is  *)
(* in place (Unaccepted), and a journal of an accepted version that was    *)
(* not cleared says the same of the new one (Accepted).  The thread adds   *)
(* what it has done so far at its place in the loops (Working), and the    *)
(* window what it shows of it (Window).                                    *)
(***************************************************************************)
EXTENDS UpdateSwap, TLAPS

\* Phases in which every program is the old one, in place.
AtRest == {"Downloaded", "Staging", "RolledBack"}
InSwap == {"Swapping", "Verifying"}

\* What a program's files may be before version v is accepted.
Shape(u, v) ==
    /\ file[u].cur \in {Absent, base, v} /\ file[u].failed \in {Absent, base, v}
    /\ file[u].old \in {Absent, base}
    /\ file[u].cur = base \/ file[u].old = base

InPlace == \A u \in Units : file[u].cur = base

\* The journal on disk is of a version that was not accepted (yet).
Unaccepted ==
    /\ disk.phase # "none" /\ disk.names = Units
    /\ disk.ver \in Versions /\ disk.ver > base
    /\ \A u \in Units : Shape(u, disk.ver)
    /\ disk.phase \in AtRest => InPlace
    /\ disk.phase \in InSwap => \A u \in Units : file[u].new \in {Absent, disk.ver}

\* There is none, or it is of a version that passed its check and was not cleared.
Accepted ==
    /\ InPlace
    /\ \/ disk = NoJournal
       \/ disk.phase = "Verifying" /\ disk.names = Units /\ disk.ver = base

Closing == job.pc \in {"finalize", "done"} \/ (job.pc = "sweep" /\ job.then = "done")

\* What the thread knows at its place.
Working ==
    /\ disk.phase # "none" /\ job.j.ver = disk.ver /\ job.j.names = Units
    /\ job.pc \notin {"apply"} => job.u \in Units
    /\ job.pc \in {"apply", "staging", "stage", "unstaged", "swapping", "ensure", "ensured",
                   "pending", "cleared"} => disk.phase \in AtRest
    /\ job.pc = "sweep" /\ ~Closing => disk.phase \in AtRest
    /\ job.pc = "sweep" => job.then \in {"staging", "unstaged", "pending", "cleared", "done"}
    /\ job.pc \in {"ensure", "ensured"} => ~job.bad
    /\ job.pc = "stage" => \A w \in Units : w < job.u => file[w].new = disk.ver
    /\ job.pc = "swapping" => \A w \in Units : file[w].new = disk.ver
    /\ job.pc = "away" => /\ disk.phase = "Swapping"
                          /\ \A w \in Units : file[w].cur \in {Absent, base}
                          /\ \A w \in Units : w < job.u => file[w].old = base
    /\ job.pc = "in" => /\ disk.phase = "Swapping"
                        /\ \A w \in Units : file[w].old = base
    /\ job.pc \in {"in", "forward"} => \A w \in Units : w < job.u => file[w].cur = disk.ver
    /\ job.pc \in {"verifying", "health"} => \A w \in Units : file[w].cur = disk.ver
    /\ job.pc \in {"forward", "verifying"} => disk.phase \in InSwap
    /\ job.pc = "health" \/ Closing => disk.phase = "Verifying"
    /\ Closing => Accepted
    /\ job.pc \in {"undo", "restore", "putback", "scraps", "undone"} =>
         /\ Unaccepted /\ disk.phase \in InSwap \cup {"RestoreFailed"}
         /\ \A w \in Units : w < job.u => job.bad \/ file[w].cur = base
    /\ job.pc = "restore" => file[job.u].old = base
    /\ job.pc = "putback" => job.bad
    /\ job.pc \in {"scraps", "undone"} => job.bad \/ file[job.u].cur = base
    /\ job.pc = "undone" => job.u = N

\* What the window says.
Window ==
    /\ ~At("idle") \/ up = Absent => shown \in {"Idle", "Working"}
    /\ At("idle") /\ up # Absent =>
         disk.phase \in AtRest \cup {"none"} \/ shown \in {"Failed", "Installed"}
    /\ shown \in {"Installed", "RolledBack"} => InPlace
    /\ shown = "Ready" => held.ver = disk.ver /\ held.names = Units /\ disk.phase \in AtRest
    /\ up # Absent => up >= base \/ Closing \/ shown = "Installed"

Places == {"idle", "apply", "sweep", "staging", "stage", "unstaged", "swapping", "away", "in",
           "verifying", "health", "finalize", "done", "cleared", "undo", "restore", "putback",
           "scraps", "undone", "unhealthy", "ensure", "ensured", "pending", "forward"}
Journals == [phase : Phases \cup {"none"}, ver : Versions \cup {0}, names : SUBSET Units]
Jobs == [pc : Places, u : Units \cup {0}, j : Journals, by : {"apply", "resume", "nobody"},
         bad : BOOLEAN, then : Places]
Folders == [Units -> [Names -> Versions \cup {Absent}]]
Typed ==
    /\ file \in Folders
    /\ job \in Jobs /\ disk \in Journals /\ held \in Journals
    /\ up \in Versions \cup {Absent} /\ base \in Versions
    /\ up = Absent \/ At("idle") => job = Idle

Sound ==
    /\ Typed
    /\ base \notin Broken
    /\ Unaccepted \/ Accepted
    /\ ~At("idle") => Working
    /\ Window
    /\ Accepted /\ disk # NoJournal /\ ~Closing => Met({"crash", "remove"})

IInv == Excused \/ Sound

----------------------------------------------------------------------------
(* Faults.                                                                  *)

\* A fault that happens is remembered, and so are the ones before.
LEMMA FaultMet ==
    ASSUME NEW kind, Fault(kind)
    PROVE  /\ \A kinds : kind \in kinds => Met(kinds)'
           /\ \A kinds : Met(kinds) => Met(kinds)'
<1> DEFINE new == <<kind, Cardinality({f \in faults : f[1] = kind})>>
<1>1. faults' = faults \cup {new}
  BY DEF Fault
<1>2. new[1] = kind
  OBVIOUS
<1>3. \A kinds : kind \in kinds => Met(kinds)'
  BY <1>1, <1>2 DEF Met
<1>4. \A kinds : Met(kinds) => Met(kinds)'
  BY <1>1 DEF Met
<1> QED
  BY <1>3, <1>4

\* Outside the excused combinations no write of the journal fails.
LEMMA NoSaveFails ==
    ASSUME ~Excused'
    PROVE  /\ ~Fault("save")
           /\ Fault("slow") => ~Met({"crash", "remove"})
<1>1. Fault("save") => Met({"save"})'
  BY FaultMet
<1>2. Fault("slow") => Met({"slow"})' /\ (Met({"crash", "remove"}) => Met({"crash", "remove"})')
  BY FaultMet
<1> QED
  BY <1>1, <1>2 DEF Excused, Met

----------------------------------------------------------------------------
(* The loop over the programs, and the two ways to change a file.           *)

\* The first program of a journal that names them all is the first one.
LEMMA FirstIs ==
    ASSUME NEW j, j.names = Units
    PROVE  1 \in Units /\ FirstOf(j) = 1
<1>1. 1 \in Units /\ \A v \in Units : v \in Nat /\ 1 <= v
  BY UpdateAssumption DEF Units
<1> QED
  BY <1>1 DEF FirstOf

\* The next program is the one after this one.
LEMMA LaterIs ==
    ASSUME job.j.names = Units, job.u \in Units
    PROVE  /\ Later = {} <=> job.u = N
           /\ job.u # N => NextUnit = job.u + 1 /\ job.u + 1 \in Units
<1>1. \A v \in Units : v \in Nat /\ 1 <= v /\ v <= N
  BY UpdateAssumption DEF Units
<1>2. Later = {v \in Units : v > job.u}
  BY DEF Later
<1>3. Later = {} <=> job.u = N
  BY <1>1, <1>2, UpdateAssumption DEF Units
<1>4. ASSUME job.u # N  PROVE NextUnit = job.u + 1 /\ job.u + 1 \in Units
  <2>1. job.u + 1 \in Units
    BY <1>1, <1>4, UpdateAssumption DEF Units
  <2>2. job.u + 1 \in Later /\ \A w \in Later : w \in Nat /\ job.u + 1 <= w
    BY <1>1, <1>2, <2>1
  <2> QED
    BY <2>1, <2>2 DEF NextUnit
<1> QED
  BY <1>3, <1>4

\* The programs before the next one are those before this one, and this one.
LEMMA UpTo ==
    ASSUME NEW u \in Units, NEW v \in Units, v = u \/ v = u + 1
    PROVE  \A w \in Units : w < v => w < u \/ w = u
BY UpdateAssumption DEF Units

\* No program comes after the last one.
LEMMA AllUpTo ==
    \A w \in Units : w < N \/ w = N
BY UpdateAssumption DEF Units

\* What the journal says of the folder depends on nothing else.
LEMMA SameFolder ==
    ASSUME file' = file, disk' = disk, base' = base
    PROVE  (Unaccepted' <=> Unaccepted) /\ (Accepted' <=> Accepted)
<1>1. Unaccepted' <=> Unaccepted
  BY DEF Unaccepted, Shape, InPlace
<1>2. Accepted' <=> Accepted
  BY DEF Accepted, InPlace
<1> QED
  BY <1>1, <1>2

\* Going to another place of the thread.
LEMMA GoIs ==
    ASSUME job \in Jobs, job.j.names = Units, NEW s \in Places
    PROVE  /\ Go(s) \in Jobs /\ Go(s).pc = s /\ Go(s).u = 1 /\ Go(s).j = job.j
           /\ Go(s).bad = job.bad /\ Go(s).then = job.then /\ Go(s).by = job.by
<1>1. FirstOf(job.j) = 1 /\ 1 \in Units
  BY FirstIs
<1> QED
  BY <1>1 DEF Go, Jobs

\* Going to the sweep, with the place to go to after it.
LEMMA GoSweepIs ==
    ASSUME job \in Jobs, job.j.names = Units, NEW t \in Places
    PROVE  /\ GoSweep(t) \in Jobs /\ GoSweep(t).pc = "sweep" /\ GoSweep(t).u = 1
           /\ GoSweep(t).j = job.j /\ GoSweep(t).then = t
<1> DEFINE g == Go("sweep")
<1>0. "sweep" \in Places
  BY DEF Places
<1>1. g \in Jobs /\ g.pc = "sweep" /\ g.u = 1 /\ g.j = job.j
  BY <1>0, GoIs
<1>2. GoSweep(t) = [g EXCEPT !.then = t]
  BY DEF GoSweep
<1> HIDE DEF g
<1> QED
  BY <1>1, <1>2 DEF Jobs

\* ... or to the next program.
LEMMA NextOrIs ==
    ASSUME job \in Jobs, job.j.names = Units, job.u \in Units, NEW s \in Places
    PROVE  /\ NextOr(s) \in Jobs /\ NextOr(s).j = job.j /\ NextOr(s).bad = job.bad
           /\ NextOr(s).then = job.then /\ NextOr(s).by = job.by
           /\ \/ job.u = N /\ NextOr(s).pc = s /\ NextOr(s).u = 1
              \/ /\ job.u # N /\ job.u + 1 \in Units
                 /\ NextOr(s).pc = job.pc /\ NextOr(s).u = job.u + 1
<1>1. CASE job.u = N
  BY <1>1, GoIs, LaterIs DEF NextOr
<1>2. CASE job.u # N
  BY <1>2, LaterIs DEF NextOr, Jobs
<1> QED
  BY <1>1, <1>2

\* A rename and a removal touch the files of one program only.
Others(f) == f \in Folders /\ \A w \in Units : w # job.u => f[w] = file[w]

\* swap's first pass: the current program becomes the old one.
LEMMA CurToOld ==
    ASSUME file \in Folders, job.u \in Units
    PROVE  /\ Others(Renamed("cur", "old"))
           /\ Renamed("cur", "old")[job.u].cur = Absent
           /\ Renamed("cur", "old")[job.u].new = file[job.u].new
           /\ Renamed("cur", "old")[job.u].old = file[job.u].cur
           /\ Renamed("cur", "old")[job.u].failed = file[job.u].failed
           /\ Renamed("cur", "old")[job.u].prev = file[job.u].prev
BY DEF Renamed, File, Names, Others, Folders, Absent

\* swap's second pass: the staged program becomes the current one.
LEMMA NewToCur ==
    ASSUME file \in Folders, job.u \in Units
    PROVE  /\ Others(Renamed("new", "cur"))
           /\ Renamed("new", "cur")[job.u].cur = file[job.u].new
           /\ Renamed("new", "cur")[job.u].new = Absent
           /\ Renamed("new", "cur")[job.u].old = file[job.u].old
           /\ Renamed("new", "cur")[job.u].failed = file[job.u].failed
           /\ Renamed("new", "cur")[job.u].prev = file[job.u].prev
BY DEF Renamed, File, Names, Others, Folders, Absent

\* rollback: the current program is moved away.
LEMMA CurToFailed ==
    ASSUME file \in Folders, job.u \in Units
    PROVE  /\ Others(Renamed("cur", "failed"))
           /\ Renamed("cur", "failed")[job.u].cur = Absent
           /\ Renamed("cur", "failed")[job.u].new = file[job.u].new
           /\ Renamed("cur", "failed")[job.u].old = file[job.u].old
           /\ Renamed("cur", "failed")[job.u].failed = file[job.u].cur
           /\ Renamed("cur", "failed")[job.u].prev = file[job.u].prev
BY DEF Renamed, File, Names, Others, Folders, Absent

\* rollback: the old program goes back to its name.
LEMMA OldToCur ==
    ASSUME file \in Folders, job.u \in Units
    PROVE  /\ Others(Renamed("old", "cur"))
           /\ Renamed("old", "cur")[job.u].cur = file[job.u].old
           /\ Renamed("old", "cur")[job.u].new = file[job.u].new
           /\ Renamed("old", "cur")[job.u].old = Absent
           /\ Renamed("old", "cur")[job.u].failed = file[job.u].failed
           /\ Renamed("old", "cur")[job.u].prev = file[job.u].prev
BY DEF Renamed, File, Names, Others, Folders, Absent

\* rollback: what was moved away goes back.
LEMMA FailedToCur ==
    ASSUME file \in Folders, job.u \in Units
    PROVE  /\ Others(Renamed("failed", "cur"))
           /\ Renamed("failed", "cur")[job.u].cur = file[job.u].failed
           /\ Renamed("failed", "cur")[job.u].new = file[job.u].new
           /\ Renamed("failed", "cur")[job.u].old = file[job.u].old
           /\ Renamed("failed", "cur")[job.u].failed = Absent
           /\ Renamed("failed", "cur")[job.u].prev = file[job.u].prev
BY DEF Renamed, File, Names, Others, Folders, Absent

\* finalize: the old program becomes the backup.
LEMMA OldToPrev ==
    ASSUME file \in Folders, job.u \in Units
    PROVE  /\ Others(Renamed("old", "prev"))
           /\ Renamed("old", "prev")[job.u].cur = file[job.u].cur
           /\ Renamed("old", "prev")[job.u].new = file[job.u].new
           /\ Renamed("old", "prev")[job.u].old = Absent
           /\ Renamed("old", "prev")[job.u].failed = file[job.u].failed
           /\ Renamed("old", "prev")[job.u].prev = file[job.u].old
BY DEF Renamed, File, Names, Others, Folders, Absent

\* A removal leaves the other names of the program alone.
LEMMA RemovedIs ==
    ASSUME file \in Folders, job.u \in Units, NEW names
    PROVE  /\ Others(Removed(names))
           /\ Removed(names)[job.u].cur = IF "cur" \in names THEN Absent ELSE file[job.u].cur
           /\ Removed(names)[job.u].new = IF "new" \in names THEN Absent ELSE file[job.u].new
           /\ Removed(names)[job.u].old = IF "old" \in names THEN Absent ELSE file[job.u].old
           /\ Removed(names)[job.u].failed = IF "failed" \in names THEN Absent ELSE file[job.u].failed
BY DEF Removed, Absent, Names, Others, Folders

----------------------------------------------------------------------------
(* A step of the thread after which it goes on.                             *)

\* What holds of a thread that is at work.
LEMMA AtWork ==
    ASSUME Sound, job.pc # "idle"
    PROVE  /\ file \in Folders /\ job \in Jobs /\ disk \in Journals /\ held \in Journals
           /\ up \in Versions /\ base \in Versions /\ base # Absent /\ base \notin Broken
           /\ Working /\ job.j.names = Units /\ job.j.ver = disk.ver /\ disk.names = Units
           /\ disk.ver \in Versions /\ disk.ver # Absent
           /\ job.pc # "apply" => job.u \in Units
           /\ shown \in {"Idle", "Working"}
           /\ up >= base \/ Closing
           /\ \A v \in Versions : v \in Nat /\ v >= 1
           /\ \A v \in Units : v \in Nat /\ v >= 1 /\ v <= N
<1>1. Idle.pc = "idle"
  BY DEF Idle
<1>2. Typed /\ Working /\ Window /\ ~At("idle") /\ (Unaccepted \/ Accepted) /\ base \notin Broken
  BY DEF Sound, At
<1>3. /\ \A v \in Versions : v \in Nat /\ v >= 1
      /\ \A v \in Units : v \in Nat /\ v >= 1 /\ v <= N
      /\ Absent = 0
  BY UpdateAssumption DEF Versions, Units, Absent
<1>4. up # Absent /\ file \in Folders /\ job \in Jobs /\ disk \in Journals /\ held \in Journals
      /\ up \in Versions \cup {Absent} /\ base \in Versions
  BY <1>1, <1>2 DEF Typed, At
<1>5. disk.phase # "none" /\ job.j.names = Units /\ job.j.ver = disk.ver
      /\ (job.pc # "apply" => job.u \in Units)
  BY <1>2 DEF Working
<1>6. disk.names = Units /\ disk.ver \in Versions
  BY <1>2, <1>4, <1>5 DEF Unaccepted, Accepted, NoJournal
<1>7. shown \in {"Idle", "Working"} /\ (up >= base \/ Closing)
  BY <1>2, <1>4 DEF Window
<1> QED
  BY <1>2, <1>3, <1>4, <1>5, <1>6, <1>7

\* A step that leaves the thread at work, and the window as it was.
LEMMA Goes ==
    ASSUME Sound, job.pc # "idle", job'.pc # "idle", UNCHANGED <<window, quiet>>,
           Closing => Closing',
           file' \in Folders, job' \in Jobs, disk' \in Journals, Working',
           Unaccepted' \/ (Accepted' /\ (Closing' \/ disk' = NoJournal \/ Met({"crash", "remove"})'))
    PROVE  Sound'
<1>1. up' = up /\ base' = base /\ shown' = shown /\ held' = held
  BY DEF window, quiet
<1>2. Typed'
  BY <1>1, AtWork DEF Typed, At, Absent
<1>3. Window'
  BY <1>1, AtWork DEF Window, At
<1>4. Unaccepted' => ~Accepted' \/ disk' = NoJournal
  BY <1>1, <1>2, AtWork DEF Unaccepted, Accepted, NoJournal, Typed
<1> QED
  BY <1>1, <1>2, <1>3, <1>4, AtWork DEF Sound

\* ... and one after which it has ended.
LEMMA Returns ==
    ASSUME Sound, job.pc # "idle", NEW show, Return(show), UNCHANGED <<file, quiet>>,
           disk' \in Journals,
           Unaccepted' \/ (Accepted' /\ (disk' = NoJournal \/ Met({"crash", "remove"})')),
           \/ show \in {"Ready", "RolledBack"} /\ disk'.phase \in AtRest /\ ~Closing
           \/ show = "Idle" /\ disk'.phase \in AtRest \cup {"none"} /\ ~Closing
           \/ show = "Failed" /\ ~Closing
           \/ show = "Installed" /\ Accepted',
           show = "Ready" => disk'.ver = disk.ver
    PROVE  Sound'
<1>1. up' = up /\ base' = base /\ file' = file /\ shown' = show /\ job' = Idle
      /\ held' = IF show = "Ready" THEN job.j ELSE NoJournal
  BY DEF Return, quiet
<1>2. Idle \in Jobs /\ Idle.pc = "idle" /\ NoJournal \in Journals
  BY DEF Idle, NoJournal, Jobs, Journals, Places
<1>3. job.j \in Journals
  BY AtWork DEF Jobs
<1>4. Typed' /\ At("idle")'
  BY <1>1, <1>2, <1>3, AtWork DEF Typed, At
<1>5. disk'.phase \in AtRest => InPlace'
  BY DEF Unaccepted, Accepted
<1>6. ~Closing'
  BY <1>1, <1>2 DEF Closing
<1>7. Window'
  <2>1. up' # Absent /\ (up' >= base' \/ shown' = "Installed")
    BY <1>1, AtWork DEF Absent
  <2>2. shown' \in {"Installed", "RolledBack"} => InPlace'
    BY <1>1, <1>5 DEF Accepted
  <2>3. shown' = "Ready" => held'.ver = disk'.ver /\ held'.names = Units /\ disk'.phase \in AtRest
    BY <1>1, AtWork
  <2>4. disk'.phase \in AtRest \cup {"none"} \/ shown' \in {"Failed", "Installed"}
    BY <1>1
  <2> QED
    BY <1>4, <2>1, <2>2, <2>3, <2>4 DEF Window
<1>8. Unaccepted' => ~Accepted' \/ disk' = NoJournal
  BY <1>1, <1>4, AtWork DEF Unaccepted, Accepted, Typed
<1> QED
  BY <1>1, <1>4, <1>7, <1>8, AtWork DEF Sound

\* The journal as it is saved.
LEMMA SavedIs ==
    ASSUME job \in Jobs, NEW phase \in Phases
    PROVE  /\ Saved(phase) \in Journals /\ Saved(phase).phase = phase
           /\ Saved(phase).ver = job.j.ver /\ Saved(phase).names = job.j.names
BY DEF Saved, Jobs, Journals

\* A journal at rest is of a version that was not accepted.
LEMMA Rests ==
    ASSUME Sound, disk.phase \in AtRest \cup {"Swapping", "RestoreFailed"}
    PROVE  Unaccepted
BY DEF Sound, Accepted, NoJournal, AtRest

\* A step that changes nothing.
LEMMA StutterStep ==
    ASSUME Sound, UNCHANGED vars
    PROVE  Sound'
<1>1. /\ file' = file /\ disk' = disk /\ up' = up /\ job' = job /\ shown' = shown
      /\ held' = held /\ base' = base /\ faults' = faults
  BY DEF vars
<1>2. (Unaccepted' <=> Unaccepted) /\ (Accepted' <=> Accepted) /\ (Closing' <=> Closing)
  BY <1>1, SameFolder DEF Closing
<1>3. ASSUME Working PROVE Working'
  <2>1. CASE job.pc \in {"undo", "restore", "putback", "scraps", "undone"}
    <3>1. /\ disk.phase # "none" /\ job.j.ver = disk.ver /\ job.j.names = Units /\ job.u \in Units
          /\ Unaccepted /\ disk.phase \in InSwap \cup {"RestoreFailed"} /\ ~Closing
          /\ \A w \in Units : w < job.u => job.bad \/ file[w].cur = base
      BY <1>3, <2>1 DEF Working, Closing
    <3>2. /\ job.pc = "restore" => file[job.u].old = base
          /\ job.pc = "putback" => job.bad
          /\ job.pc \in {"scraps", "undone"} => job.bad \/ file[job.u].cur = base
          /\ job.pc = "undone" => job.u = N
      BY <1>3 DEF Working
    <3> QED
      BY <1>1, <1>2, <2>1, <3>1, <3>2, SMTT(30) DEF Working
  <2>2. CASE job.pc \in {"stage", "swapping", "away", "in", "forward", "verifying", "health"}
    BY <1>1, <1>2, <1>3, <2>2, SMTT(30) DEF Working
  <2>3. CASE job.pc \notin {"undo", "restore", "putback", "scraps", "undone", "stage", "swapping",
                            "away", "in", "forward", "verifying", "health"}
    BY <1>1, <1>2, <1>3, <2>3, SMTT(30) DEF Working
  <2> QED
    BY <2>1, <2>2, <2>3
<1>4. (Window => Window') /\ (Typed => Typed')
  BY <1>1, <1>2, <1>3 DEF Window, Typed, At, InPlace
<1> QED
  BY <1>1, <1>2, <1>3, <1>4 DEF Sound, At, Met
=============================================================================
