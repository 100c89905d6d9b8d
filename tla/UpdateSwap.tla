----------------------------- MODULE UpdateSwap -----------------------------
(***************************************************************************)
(* Replacing the installed programs by a new version (update/apply.rs),    *)
(* driven by the window (miasma-desktop/src/updates.rs) or by "miasma      *)
(* update apply", which does the same steps in the same order.             *)
(*                                                                         *)
(* A program is a file in the install folder; beside it may lie the staged *)
(* new one, the old one moved aside, one that failed, and the kept backup. *)
(* Every rename, every removal and every write of the journal is a step of *)
(* its own, any of them may fail, and the process may die between any two. *)
(* Files under the id of an earlier journal are not represented: nothing   *)
(* looks for them again but the sweep that removes them.                   *)
(***************************************************************************)
EXTENDS Naturals, FiniteSets

CONSTANTS N,           \* programs; 1 is the command line program, 2 the window
          MaxVer,      \* bound: versions that are ever released
          Broken,      \* versions whose command line program does not start
          MaxUpdates,  \* bound: updates prepared in one behaviour
          ByHand,      \* may a program that was moved aside be started by hand?
          Again,       \* after which endings an update may be asked for again at once
          Faults,      \* the kinds of fault this instance may meet
          MaxFaults    \* bound: faults in one behaviour

Units == 1 .. N
Starters == Units \cap {1, 2}
Absent == 0
Versions == 1 .. MaxVer
FaultKinds == {"crash", "rename", "remove", "save", "stage", "slow"}

ASSUME UpdateAssumption ==
    /\ N \in Nat \ {0} /\ MaxVer \in Nat \ {0} /\ MaxUpdates \in Nat
    /\ Broken \subseteq Versions \ {1}
    /\ ByHand \in BOOLEAN /\ Again \subseteq {"Installed", "Failed"}
    /\ Faults \subseteq FaultKinds /\ MaxFaults \in Nat

VARIABLES file,     \* per program: the version under each of its five names
          disk,     \* the journal on disk
          up,       \* is the program running, and which version is it?
          job,      \* the update thread: where it is, at which program, its journal
          shown,    \* what the window shows: Phase of updates.rs
          held,     \* the journal the window holds for the next try
          updates,  \* updates prepared so far
          base,     \* the last version that passed the start check
          faults    \* faults met so far

vars == <<file, disk, up, job, shown, held, updates, base, faults>>

Names == {"cur", "new", "old", "failed", "prev"}
Phases == {"Downloaded", "Staging", "Swapping", "Verifying", "RolledBack", "RestoreFailed"}
NoJournal == [phase |-> "none", ver |-> 0, names |-> {}]
Idle == [pc |-> "idle", u |-> 0, j |-> NoJournal, by |-> "nobody", bad |-> FALSE, then |-> "idle"]

Init ==
    /\ file = [u \in Units |-> [n \in Names |-> IF n = "cur" THEN 1 ELSE Absent]]
    /\ disk = NoJournal /\ held = NoJournal
    /\ up = 1 /\ job = Idle /\ shown = "Idle"
    /\ updates = 0 /\ base = 1 /\ faults = {}

\* The faults so far are a bag: a kind met again is paired with the next number.
Fault(kind) ==
    /\ kind \in Faults /\ Cardinality(faults) < MaxFaults
    /\ faults' = faults \cup {<<kind, Cardinality({f \in faults : f[1] = kind})>>}
Met(kinds) == \E f \in faults : f[1] \in kinds

----------------------------------------------------------------------------
(* The thread goes through the programs of its journal in their order.      *)
At(pc) == job.pc = pc
FirstOf(j) == CHOOSE u \in j.names : \A v \in j.names : u <= v
Later == {v \in job.j.names : v > job.u}
NextUnit == CHOOSE v \in Later : \A w \in Later : v <= w
File == file[job.u]

Go(pc) == [job EXCEPT !.pc = pc, !.u = FirstOf(job.j)]
GoSweep(then) == [Go("sweep") EXCEPT !.then = then]
\* Mutant of NextOr: one program past the last one.
NextPastEnd(pc) == IF job.u > N THEN Go(pc) ELSE [job EXCEPT !.u = @ + 1]
\* On to the next program, or to pc after the last one.
NextOr(pc) == IF Later = {} THEN Go(pc) ELSE [job EXCEPT !.u = NextUnit]

\* fs::rename(a, b), where a exists: it replaces b.
Renamed(a, b) == [file EXCEPT ![job.u] = [@ EXCEPT ![b] = File[a], ![a] = Absent]]
Removed(names) == [file EXCEPT ![job.u] = [n \in Names |-> IF n \in names THEN Absent ELSE @[n]]]

\* save_journal: a new file renamed over the old one.
Saved(phase) == [job.j EXCEPT !.phase = phase]
SaveOrNot(phase) ==
    \/ disk' = Saved(phase) /\ UNCHANGED faults
    \/ Fault("save") /\ UNCHANGED disk

\* The thread ends and the window takes its message (UpdatesUi::handle): a journal that may be
\* tried again is held, and a start that found nothing to do changes nothing.
Return(show) ==
    /\ job' = Idle
    /\ shown' = show
    /\ held' = IF show = "Ready" THEN job.j ELSE NoJournal

quiet == <<up, updates, base>>
window == <<shown, held>>

----------------------------------------------------------------------------
(* Getting an update and putting it in place.                               *)

\* Engine::prepare, asked for by update_now or by the automatic mode: the download is verified,
\* the programs that are there are named, and a new journal replaces whatever was on disk.
Prepare ==
    /\ up # Absent /\ At("idle") /\ shown \in {"Idle", "Ready", "RolledBack"} \cup Again
    /\ updates < MaxUpdates /\ updates' = updates + 1
    /\ file[1].cur # Absent
    /\ \E v \in {w \in Versions : w > up} :
         LET j == [phase |-> "Downloaded", ver |-> v,
                   names |-> {u \in Units : file[u].cur # Absent}] IN
         /\ disk' = j
         /\ job' = [Idle EXCEPT !.pc = "apply", !.by = "apply", !.j = j]
    /\ file' = [u \in Units |-> [file[u] EXCEPT !.old = Absent, !.failed = Absent]]
    /\ shown' = "Working" /\ held' = NoJournal
    /\ UNCHANGED <<up, base, faults>>

\* A journal the window holds is tried (again).
ApplyHeld ==
    /\ up # Absent /\ At("idle") /\ shown = "Ready"
    /\ job' = [Idle EXCEPT !.pc = "apply", !.by = "apply", !.j = held]
    /\ shown' = "Working" /\ held' = NoJournal
    /\ UNCHANGED <<file, disk, faults, quiet>>

\* apply: something is running or the folder is not writable, or the leftovers go first.
ApplyBegin ==
    /\ At("apply")
    /\ \/ Return("Ready")
       \/ job' = GoSweep("staging") /\ UNCHANGED window
    /\ UNCHANGED <<file, disk, faults, quiet>>

\* sweep_leftovers for one program; a file that cannot be removed stays.
Sweep ==
    /\ At("sweep")
    /\ \/ file' = Removed({"new", "old", "failed"}) /\ UNCHANGED faults
       \/ /\ Fault("remove")
          /\ \E n \in {"new", "old", "failed"} : file' = Removed({"new", "old", "failed"} \ {n})
    /\ job' = NextOr(job.then)
    /\ UNCHANGED <<disk, window, quiet>>

\* apply: a phase that must be on disk before the next step, or the attempt ends here.
SavePhase(pc, phase, next) ==
    /\ At(pc)
    /\ \/ disk' = Saved(phase) /\ job' = Go(next) /\ UNCHANGED <<faults, window>>
       \/ Fault("save") /\ Return("Ready") /\ UNCHANGED disk
    /\ UNCHANGED <<file, quiet>>

SaveStaging == SavePhase("staging", "Staging", "stage")
SaveSwapping == SavePhase("swapping", "Swapping", "away")

\* stage: the new program is written beside the old one; an error takes all of it back.
Stage ==
    /\ At("stage")
    /\ \/ /\ file' = [file EXCEPT ![job.u].new = job.j.ver]
          /\ job' = NextOr("swapping")
          /\ UNCHANGED faults
       \/ Fault("stage") /\ job' = GoSweep("unstaged") /\ UNCHANGED file
    /\ UNCHANGED <<disk, window, quiet>>

Unstaged ==
    /\ At("unstaged") /\ SaveOrNot("Downloaded") /\ Return("Ready")
    /\ UNCHANGED <<file, quiet>>

\* swap, first pass: the current programs are moved aside.
SwapAway ==
    /\ At("away")
    /\ \/ /\ file' = IF File.cur = Absent THEN file ELSE Renamed("cur", "old")
          /\ job' = NextOr("in")
          /\ UNCHANGED faults
       \/ File.cur # Absent /\ Fault("rename") /\ job' = Go("undo") /\ UNCHANGED file
    /\ UNCHANGED <<disk, window, quiet>>

\* swap, second pass: the staged programs are moved in.
SwapIn ==
    /\ At("in")
    /\ \/ /\ File.new # Absent
          /\ file' = Renamed("new", "cur")
          /\ job' = NextOr("verifying")
          /\ UNCHANGED faults
       \/ /\ IF File.new = Absent THEN UNCHANGED faults ELSE Fault("rename")
          /\ job' = Go("undo")
          /\ UNCHANGED file
    /\ UNCHANGED <<disk, window, quiet>>

\* The phase Verifying: apply stops when it cannot be saved, resume goes on.
SaveVerifying ==
    /\ At("verifying")
    /\ IF job.by = "apply"
       THEN \/ disk' = Saved("Verifying") /\ job' = Go("health") /\ UNCHANGED <<faults, window>>
            \/ Fault("save") /\ Return("Ready") /\ UNCHANGED disk
       ELSE SaveOrNot("Verifying") /\ job' = Go("health") /\ UNCHANGED window
    /\ UNCHANGED <<file, quiet>>

\* health: the command line program is started once; it may be broken, or too slow this time.
Health ==
    /\ At("health")
    /\ \/ /\ file[1].cur \notin Broken \cup {Absent}
          /\ base' = job.j.ver
          /\ job' = Go("finalize")
          /\ UNCHANGED faults
       \/ /\ IF file[1].cur \in Broken \cup {Absent} THEN UNCHANGED faults ELSE Fault("slow")
          /\ job' = [Go("undo") EXCEPT !.then = "unhealthy"]
          /\ UNCHANGED base
    /\ UNCHANGED <<file, disk, up, updates, window>>

\* finalize: the old program becomes the one backup; when it cannot, it is swept.
Finalize ==
    /\ At("finalize")
    /\ \/ /\ File.old # Absent /\ File.prev # Absent
          /\ file' = Removed({"prev"}) /\ UNCHANGED <<job, faults>>
       \/ /\ File.old = Absent \/ File.prev = Absent
          /\ \/ file' = (IF File.old = Absent THEN file ELSE Renamed("old", "prev"))
                /\ UNCHANGED faults
             \/ File.old # Absent /\ Fault("rename") /\ UNCHANGED file
          /\ job' = IF Later = {} THEN GoSweep("done") ELSE [job EXCEPT !.u = NextUnit]
    /\ UNCHANGED <<disk, window, quiet>>

\* clear_journal, clear_work; what the thread reports depends on how it got here.
Clear ==
    /\ job.pc \in {"done", "cleared"}
    /\ \/ disk' = NoJournal /\ UNCHANGED faults
       \/ Fault("remove") /\ UNCHANGED disk
    /\ Return(IF At("done") THEN "Installed" ELSE "Idle")
    /\ UNCHANGED <<file, quiet>>

----------------------------------------------------------------------------
(* Undoing.                                                                 *)

\* rollback: what stands in place of an old program is moved away (a failure is ignored), and so
\* is a new program that had no predecessor.
RollbackAway ==
    /\ At("undo")
    /\ LET moves == File.cur # Absent /\ (File.old # Absent \/ File.cur = job.j.ver) IN
       \/ file' = (IF moves THEN Renamed("cur", "failed") ELSE file) /\ UNCHANGED faults
       \/ moves /\ Fault("rename") /\ UNCHANGED file
    /\ job' = [job EXCEPT !.pc = IF File.old # Absent THEN "restore" ELSE "scraps"]
    /\ UNCHANGED <<disk, window, quiet>>

\* ... the old program goes back to its name ...
RollbackRestore ==
    /\ At("restore")
    /\ \/ file' = Renamed("old", "cur") /\ job' = [job EXCEPT !.pc = "scraps"] /\ UNCHANGED faults
       \/ Fault("rename") /\ job' = [job EXCEPT !.pc = "putback", !.bad = TRUE] /\ UNCHANGED file
    /\ UNCHANGED <<disk, window, quiet>>

AfterUndo == IF Later = {} THEN [job EXCEPT !.pc = "undone"]
                           ELSE [job EXCEPT !.pc = "undo", !.u = NextUnit]

\* ... or, when it cannot, something runnable does.
RollbackPutBack ==
    /\ At("putback")
    /\ \/ /\ LET f == IF File.cur = Absent /\ File.failed # Absent
                      THEN Renamed("failed", "cur") ELSE file
             IN  file' = [f EXCEPT ![job.u].new = Absent]
          /\ UNCHANGED faults
       \/ File.cur = Absent /\ File.failed # Absent /\ Fault("rename") /\ file' = Removed({"new"})
    /\ job' = AfterUndo
    /\ UNCHANGED <<disk, window, quiet>>

RollbackScraps ==
    /\ At("scraps")
    /\ \/ file' = Removed({"failed", "new"}) /\ UNCHANGED faults
       \/ Fault("remove") /\ \E n \in {"failed", "new"} : file' = Removed({"failed", "new"} \ {n})
    /\ job' = AfterUndo
    /\ UNCHANGED <<disk, window, quiet>>

\* Mutant of Undone: a failed restore is recorded as done.
UndoneAnyway ==
    /\ At("undone")
    /\ SaveOrNot("RolledBack")
    /\ Return(IF job.by = "apply" /\ job.then # "unhealthy" THEN "Ready" ELSE "RolledBack")
    /\ UNCHANGED <<file, quiet>>

\* Mutant of Undone: the thread ends without recording the outcome.
UndoneUnrecorded ==
    /\ At("undone")
    /\ Return(IF job.bad THEN "Failed" ELSE "RolledBack")
    /\ UNCHANGED <<file, disk, faults, quiet>>

\* undo: the outcome is recorded, or not; then the callers' ways part.
Undone ==
    /\ At("undone")
    /\ SaveOrNot(IF job.bad THEN "RestoreFailed" ELSE "RolledBack")
    /\ Return(CASE job.bad -> "Failed"
                [] ~job.bad /\ job.by = "apply" /\ job.then # "unhealthy" -> "Ready"
                [] OTHER -> "RolledBack")
    /\ UNCHANGED <<file, quiet>>

----------------------------------------------------------------------------
(* The next start.                                                          *)

\* Mutant of ResumeAt: a restore that failed is not tried again, only swept up after.
ResumesSwept ==
    CASE disk.phase \in {"RestoreFailed", "RolledBack", "Downloaded", "Staging"} -> "sweep"
      [] disk.phase \in {"Swapping", "Verifying"} -> "forward"
\* resume: where to begin depends on the phase of the journal.
ResumeAt ==
    CASE disk.phase = "RestoreFailed" -> "undo"
      [] disk.phase = "RolledBack" -> "ensure"
      [] disk.phase \in {"Downloaded", "Staging"} -> "sweep"
      [] disk.phase \in {"Swapping", "Verifying"} -> "forward"

\* A program is started, by its name or by hand where it was moved aside, and start_resume looks
\* for a journal. (The backup of an earlier version is not started by hand: see the README.)
Start ==
    /\ up = Absent
    /\ \E u \in Starters :
         \/ file[u].cur # Absent /\ up' = file[u].cur
         \/ /\ ByHand /\ \A v \in Starters : file[v].cur = Absent
            /\ file[u].old # Absent /\ up' = file[u].old
    /\ job' = IF disk = NoJournal THEN Idle
              ELSE [Idle EXCEPT !.pc = ResumeAt, !.by = "resume", !.j = disk, !.u = FirstOf(disk),
                                !.then = "pending"]
    /\ UNCHANGED <<file, disk, faults, updates, base, window>>

\* resume in phase RolledBack: ensure_present, from the old file, else from the backup.
EnsurePresent ==
    /\ At("ensure")
    /\ LET from == IF File.old # Absent THEN "old" ELSE "prev"
           moves == File.cur = Absent /\ File[from] # Absent IN
       \/ /\ file' = IF moves THEN Renamed(from, "cur") ELSE file
          /\ job' = NextOr("ensured")
          /\ UNCHANGED faults
       \/ /\ moves /\ Fault("rename")
          /\ job' = [NextOr("ensured") EXCEPT !.bad = TRUE]
          /\ UNCHANGED file
    /\ UNCHANGED <<disk, window, quiet>>

Ensured ==
    /\ At("ensured")
    /\ IF job.bad THEN SaveOrNot("RestoreFailed") /\ Return("Failed")
                  ELSE job' = GoSweep("cleared") /\ UNCHANGED <<disk, faults, window>>
    /\ UNCHANGED <<file, quiet>>

\* resume before the swap: the download is still good and waits, or everything is forgotten.
Pending ==
    /\ At("pending")
    /\ \/ disk' = Saved("Downloaded") /\ Return("Ready") /\ UNCHANGED faults
       \/ Fault("save") /\ Return("Idle") /\ UNCHANGED disk
       \/ job' = Go("cleared") /\ UNCHANGED <<disk, faults, window>>
    /\ UNCHANGED <<file, quiet>>

\* complete_forward: a program that is in place is passed over; one whose staged file is good is
\* moved in, its predecessor aside first; otherwise everything is undone.
CompleteForward ==
    /\ At("forward")
    /\ LET inPlace == File.cur = job.j.ver
           staged == File.new = job.j.ver
           aside == File.cur # Absent /\ File.old = Absent IN
       \/ inPlace /\ job' = NextOr("verifying") /\ UNCHANGED <<file, faults>>
       \/ ~inPlace /\ ~staged /\ job' = Go("undo") /\ UNCHANGED <<file, faults>>
       \/ /\ ~inPlace /\ staged
          /\ \/ aside /\ file' = Renamed("cur", "old") /\ UNCHANGED <<job, faults>>
             \/ ~aside /\ file' = Renamed("new", "cur") /\ job' = NextOr("verifying") /\ UNCHANGED faults
             \/ Fault("rename") /\ job' = Go("undo") /\ UNCHANGED file
    /\ UNCHANGED <<disk, window, quiet>>

\* The window is closed while nothing is going on, or the process dies.
Ended ==
    /\ up # Absent
    /\ up' = Absent /\ job' = Idle /\ shown' = "Idle" /\ held' = NoJournal
    /\ UNCHANGED <<file, disk, updates, base>>
Quit == At("idle") /\ Ended /\ UNCHANGED faults
Crash == ~At("idle") /\ Ended /\ Fault("crash")

Step ==
    \/ ApplyBegin \/ Sweep \/ SaveStaging \/ Stage \/ Unstaged \/ SaveSwapping
    \/ SwapAway \/ SwapIn \/ SaveVerifying \/ Health \/ Finalize \/ Clear
    \/ RollbackAway \/ RollbackRestore \/ RollbackPutBack \/ RollbackScraps \/ Undone
    \/ EnsurePresent \/ Ensured \/ Pending \/ CompleteForward

Next == Prepare \/ ApplyHeld \/ Step \/ Start \/ Quit \/ Crash

\* The thread goes on, a program that stopped is started again, and the window is closed some
\* time: resume runs at a start only.
FairSpec == Init /\ [][Next]_vars /\ WF_vars(Step) /\ WF_vars(Start) /\ SF_vars(Quit)

Spec == Init /\ [][Next]_vars

----------------------------------------------------------------------------
TypeOK ==
    /\ file \in [Units -> [Names -> Versions \cup {Absent}]]
    /\ disk.phase \in Phases \cup {"none"} /\ disk.names \subseteq Units
    /\ up \in Versions \cup {Absent} /\ base \in Versions
    /\ (up = Absent \/ At("idle")) => job = Idle
    /\ ~At("idle") /\ job.u # 0 => job.u \in job.j.names

\* Two combinations of faults lose programs: a failed write of the journal followed by another
\* try (the sweep of apply removes what the undo needs), and a start check that is too slow when
\* an update that was already settled is looked at again (see UndoneIsInPlace).
Excused == Met({"save"}) \/ (Met({"slow"}) /\ Met({"crash", "remove"}))

\* Until a new version has passed the start check, the version before it is in the folder for
\* every program, in place or moved aside where the undo finds it: no step of the swap, of the
\* undo or of resume, and no crash between two of them, destroys the only good copy.
OldKept == Excused \/ \A u \in Units : base \in {file[u].cur, file[u].old}

\* When the window says that an update is in, or was undone, every program is there and all are
\* of the one version that passed its start check last: the folder never keeps a mix.
NoMixKept ==
    shown \in {"Installed", "RolledBack"} => Excused \/ \A u \in Units : file[u].cur = base

\* An undo that is reported as done has put every program back (Resumed::RolledBack: "An
\* interrupted swap was undone; the old version is in place.").
UndoneIsInPlace == shown = "RolledBack" => \A u \in Units : file[u].cur # Absent

\* No update stays half done: whatever was interrupted, again and again the journal says that the
\* folder holds one version (Resumed: finished, undone or discarded).
EverySwapSettles == []<>(Excused \/ disk.phase \in {"none", "Downloaded", "Staging", "RolledBack"})
=============================================================================
