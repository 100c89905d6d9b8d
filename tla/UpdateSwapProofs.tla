-------------------------- MODULE UpdateSwapProofs --------------------------
(***************************************************************************)
(* Proofs about the swap of the programs, for any number of programs,      *)
(* versions, updates and faults: the old programs stay until the new ones  *)
(* have passed their start check, and what the window reports is one       *)
(* version.                                                                *)
(*                                                                         *)
(* UpdateSwapInv has the invariant and UpdateSwapThread the steps of an    *)
(* update; here are those of a start and of the window, and the theorems.  *)
(***************************************************************************)
EXTENDS UpdateSwapThread

----------------------------------------------------------------------------
(* resume.                                                                  *)

\* After an undo that was recorded every program is there.
LEMMA EnsurePresentStep ==
    ASSUME Sound, EnsurePresent
    PROVE  Sound'
<1>1. job.pc = "ensure" /\ disk' = disk /\ base' = base /\ UNCHANGED <<window, quiet>>
  BY DEF EnsurePresent, At, quiet
<1>2. /\ disk.phase \in AtRest /\ job \in Jobs /\ disk \in Journals /\ file \in Folders
      /\ job.u \in Units /\ job.j.names = Units /\ job.j.ver = disk.ver /\ ~job.bad
      /\ base # Absent
  BY <1>1, AtWork DEF Working
<1>3. Unaccepted /\ ~Closing /\ File.cur # Absent
  BY <1>1, <1>2, Rests DEF Closing, Unaccepted, InPlace, File
<1>4. file' = file /\ job' = NextOr("ensured")
  BY <1>3 DEF EnsurePresent
<1>5. /\ job' \in Jobs /\ job'.j = job.j /\ job'.u \in Units /\ ~job'.bad
      /\ job'.pc \in {"ensure", "ensured"}
  BY <1>1, <1>2, <1>4, NextOrIs, FirstIs DEF Places
<1>6. Unaccepted'
  BY <1>1, <1>3, <1>4 DEF Unaccepted, Shape, InPlace
<1>7. Working'
  BY <1>1, <1>2, <1>5, AtWork DEF Working, Closing
<1> QED
  BY <1>1, <1>2, <1>3, <1>4, <1>5, <1>6, <1>7, Goes

\* resume after an undo: the leftovers go next, since nothing was missing.
LEMMA EnsuredStep ==
    ASSUME Sound, Ensured
    PROVE  Sound'
<1>1. job.pc = "ensured" /\ file' = file /\ base' = base /\ UNCHANGED quiet
  BY DEF Ensured, At, quiet
<1>2. /\ disk.phase \in AtRest /\ job \in Jobs /\ disk \in Journals /\ file \in Folders
      /\ job.j.names = Units /\ job.j.ver = disk.ver /\ ~job.bad
  BY <1>1, AtWork DEF Working
<1>3. Unaccepted /\ ~Closing
  BY <1>1, <1>2, Rests DEF Closing
<1>4. job' = GoSweep("cleared") /\ disk' = disk /\ UNCHANGED window
  BY <1>2 DEF Ensured
<1>5. job' \in Jobs /\ job'.j = job.j /\ job'.u \in Units /\ job'.pc = "sweep"
      /\ job'.then = "cleared"
  BY <1>2, <1>4, GoSweepIs, FirstIs DEF Places
<1>6. Unaccepted'
  BY <1>1, <1>3, <1>4 DEF Unaccepted, Shape, InPlace
<1>7. Working'
  BY <1>1, <1>2, <1>4, <1>5, AtWork DEF Working, Closing
<1> QED
  BY <1>1, <1>2, <1>3, <1>4, <1>5, <1>6, <1>7, Goes

\* A download that is still good waits; another one is forgotten.
LEMMA PendingStep ==
    ASSUME Sound, Pending, ~Excused'
    PROVE  Sound'
<1>1. job.pc = "pending" /\ file' = file /\ base' = base /\ UNCHANGED quiet
  BY DEF Pending, At, quiet
<1>2. /\ disk.phase \in AtRest /\ job \in Jobs /\ disk \in Journals /\ file \in Folders
      /\ job.j.names = Units /\ job.j.ver = disk.ver
  BY <1>1, AtWork DEF Working
<1>3. Unaccepted /\ ~Closing
  BY <1>1, <1>2, Rests DEF Closing
<1>4. CASE disk' = Saved("Downloaded") /\ Return("Ready")
  <2>1. disk' \in Journals /\ disk'.phase = "Downloaded" /\ disk'.ver = disk.ver
        /\ disk'.names = Units
    BY <1>2, <1>4, SavedIs DEF Phases
  <2>2. Unaccepted' /\ disk'.phase \in AtRest
    BY <1>1, <1>2, <1>3, <2>1 DEF Unaccepted, Shape, InPlace, InSwap, AtRest
  <2> QED
    BY <1>1, <1>3, <1>4, <2>1, <2>2, Returns
<1>5. CASE job' = Go("cleared") /\ disk' = disk /\ UNCHANGED window
  <2>1. job' \in Jobs /\ job'.j = job.j /\ job'.u \in Units /\ job'.pc = "cleared"
    BY <1>2, <1>5, GoIs, FirstIs DEF Places
  <2>2. Unaccepted'
    BY <1>1, <1>3, <1>5 DEF Unaccepted, Shape, InPlace
  <2>3. Working'
    BY <1>1, <1>2, <1>5, <2>1, AtWork DEF Working, Closing
  <2> QED
    BY <1>1, <1>2, <1>3, <1>5, <2>1, <2>2, <2>3, Goes
<1> QED
  BY <1>4, <1>5, NoSaveFails DEF Pending

\* A swap that was interrupted goes on, program by program.
LEMMA CompleteForwardStep ==
    ASSUME Sound, CompleteForward
    PROVE  Sound'
<1>1. job.pc = "forward" /\ disk' = disk /\ base' = base /\ UNCHANGED <<disk, window, quiet>>
  BY DEF CompleteForward, At, quiet
<1>2. /\ disk.phase \in InSwap /\ job \in Jobs /\ disk \in Journals /\ file \in Folders
      /\ job.u \in Units /\ job.j.names = Units /\ job.j.ver = disk.ver /\ base # Absent
      /\ disk.phase # "none" /\ ~Closing
      /\ \A w \in Units : w < job.u => file[w].cur = disk.ver
  BY <1>1, AtWork DEF Working, InSwap, Closing
<1>3. file[job.u].cur # disk.ver => Unaccepted
  <2>1. Unaccepted \/ Accepted
    BY DEF Sound
  <2>2. Accepted => file[job.u].cur = disk.ver
    BY <1>2 DEF Accepted, InPlace, NoJournal
  <2> QED
    BY <2>1, <2>2
<1>4. CASE File.cur = job.j.ver /\ job' = NextOr("verifying") /\ file' = file /\ faults' = faults
  <2>1. /\ job' \in Jobs /\ job'.j = job.j /\ job'.u \in Units
        /\ \/ job.u = N /\ job'.pc = "verifying" /\ job'.u = 1
           \/ job.u # N /\ job'.pc = "forward" /\ job'.u = job.u + 1
    BY <1>1, <1>2, <1>4, NextOrIs, FirstIs DEF Places
  <2>2. Unaccepted => Unaccepted'
    BY <1>1, <1>4, SameFolder
  <2>3. Accepted => Accepted' /\ Met({"crash", "remove"})'
    <3>1. disk # NoJournal
      BY <1>2 DEF NoJournal
    <3>2. Accepted => Met({"crash", "remove"})
      BY <1>2, <3>1 DEF Sound
    <3> QED
      BY <1>1, <1>4, <3>2, SameFolder DEF Met
  <2>4. \A w \in Units : w < job'.u \/ job'.pc = "verifying" => w < job.u \/ w = job.u
    BY <1>1, <1>2, <2>1, UpTo, AllUpTo
  <2>5. \A w \in Units : w < job'.u \/ job'.pc = "verifying" => file'[w].cur = disk.ver
    BY <1>2, <1>4, <2>4 DEF File
  <2>6. Working'
    BY <1>1, <1>2, <2>1, <2>5, AtWork DEF Working, Closing
  <2> QED
    BY <1>1, <1>2, <1>4, <2>1, <2>2, <2>3, <2>6, Goes DEF Sound
<1>5. CASE File.cur # job.j.ver /\ job' = Go("undo") /\ file' = file
  <2>1. job' \in Jobs /\ job'.j = job.j /\ job'.u = 1 /\ job'.pc = "undo"
    BY <1>2, <1>5, GoIs DEF Places
  <2>2. Unaccepted
    BY <1>2, <1>3, <1>5 DEF File
  <2> QED
    BY <1>1, <1>2, <1>5, <2>1, <2>2, ToUndo
<1>6. CASE /\ File.cur # job.j.ver /\ File.cur # Absent /\ File.old = Absent
           /\ file' = Renamed("cur", "old") /\ job' = job
  <2>1. Unaccepted /\ Shape(job.u, disk.ver)
    BY <1>2, <1>3, <1>6 DEF File, Unaccepted
  <2>2. /\ Others(file') /\ file'[job.u].cur = Absent /\ file'[job.u].old = base
        /\ file'[job.u].new = file[job.u].new /\ file'[job.u].failed = file[job.u].failed
    BY <1>2, <1>6, <2>1, CurToOld DEF File, Shape
  <2>3. Unaccepted'
    BY <1>1, <1>2, <2>1, <2>2 DEF Unaccepted, Shape, Others, InSwap, AtRest
  <2>4. \A w \in Units : w < job.u => file'[w].cur = disk.ver
    BY <1>1, <1>2, <2>2, AtWork DEF Others
  <2>5. Working'
    BY <1>1, <1>2, <1>6, <2>4, AtWork DEF Working, Closing
  <2> QED
    BY <1>1, <1>2, <1>6, <2>2, <2>3, <2>5, Goes DEF Others
<1>7. CASE /\ File.cur # job.j.ver /\ File.new = job.j.ver /\ ~(File.cur # Absent /\ File.old = Absent)
           /\ file' = Renamed("new", "cur") /\ job' = NextOr("verifying")
  <2>1. Unaccepted /\ Shape(job.u, disk.ver)
    BY <1>2, <1>3, <1>7 DEF File, Unaccepted
  <2>2. /\ Others(file') /\ file'[job.u].cur = disk.ver /\ file'[job.u].old = base
        /\ file'[job.u].new = Absent /\ file'[job.u].failed = file[job.u].failed
    BY <1>2, <1>7, <2>1, NewToCur DEF File, Shape
  <2>3. Unaccepted'
    BY <1>1, <1>2, <2>1, <2>2 DEF Unaccepted, Shape, Others, InSwap, AtRest
  <2>4. /\ job' \in Jobs /\ job'.j = job.j /\ job'.u \in Units
        /\ \/ job.u = N /\ job'.pc = "verifying" /\ job'.u = 1
           \/ job.u # N /\ job'.pc = "forward" /\ job'.u = job.u + 1
    BY <1>1, <1>2, <1>7, NextOrIs, FirstIs DEF Places
  <2>5. \A w \in Units : w < job'.u \/ job'.pc = "verifying" => w < job.u \/ w = job.u
    BY <1>1, <1>2, <2>4, UpTo, AllUpTo
  <2>6. \A w \in Units : w < job'.u \/ job'.pc = "verifying" => file'[w].cur = disk.ver
    BY <1>2, <2>2, <2>5 DEF Others
  <2>7. Working'
    BY <1>1, <1>2, <2>4, <2>6, AtWork DEF Working, Closing
  <2> QED
    BY <1>1, <1>2, <2>2, <2>3, <2>4, <2>7, Goes DEF Others
<1> QED
  BY <1>4, <1>5, <1>6, <1>7 DEF CompleteForward

----------------------------------------------------------------------------
(* What happens while no update is going on.                                *)

\* What holds while the thread is not running.
LEMMA AtEase ==
    ASSUME Sound, job.pc = "idle"
    PROVE  /\ file \in Folders /\ disk \in Journals /\ held \in Journals
           /\ up \in Versions \cup {Absent} /\ base \in Versions /\ base # Absent
           /\ job = Idle /\ ~Closing /\ Window /\ (Unaccepted \/ Accepted)
           /\ disk.phase = "none" <=> disk = NoJournal
           /\ disk.phase \in AtRest \cup {"none"} => InPlace
           /\ Accepted /\ disk # NoJournal => Met({"crash", "remove"})
           /\ \A v \in Versions : v \in Nat /\ v >= 1
<1>1. Typed /\ Window /\ (Unaccepted \/ Accepted)
  BY DEF Sound
<1>2. ~Closing
  BY DEF Closing
<1>3. disk.phase = "none" <=> disk = NoJournal
  BY <1>1 DEF Unaccepted, Accepted, NoJournal
<1>4. disk.phase \in AtRest \cup {"none"} => InPlace
  BY <1>1 DEF Unaccepted, Accepted
<1>5. (\A v \in Versions : v \in Nat /\ v >= 1) /\ Absent = 0
  BY UpdateAssumption DEF Versions, Absent
<1> QED
  BY <1>1, <1>2, <1>3, <1>4, <1>5 DEF Sound, Typed, At

\* A new thread of apply.
LEMMA ApplyThread ==
    ASSUME NEW j \in Journals, NEW t, t = [Idle EXCEPT !.pc = "apply", !.by = "apply", !.j = j]
    PROVE  t \in Jobs /\ t.pc = "apply" /\ t.j = j
BY DEF Idle, Jobs, Places

\* An update is prepared only while one version is in place, and for a newer one.
LEMMA PrepareStep ==
    ASSUME Sound, Prepare, Again = {}
    PROVE  Sound'
<1>1. /\ job.pc = "idle" /\ up # Absent /\ shown \in {"Idle", "Ready", "RolledBack"}
      /\ up' = up /\ base' = base /\ faults' = faults /\ shown' = "Working" /\ held' = NoJournal
      /\ file' = [u \in Units |-> [file[u] EXCEPT !.old = Absent, !.failed = Absent]]
  BY DEF Prepare, At
<1>2. InPlace /\ up >= base /\ up \in Versions
  BY <1>1, AtEase DEF Window, At
<1>3. {u \in Units : file[u].cur # Absent} = Units
  BY <1>1, <1>2, AtEase DEF InPlace
<1>4. PICK v \in Versions :
        /\ v > up
        /\ disk' = [phase |-> "Downloaded", ver |-> v, names |-> Units]
        /\ job' = [Idle EXCEPT !.pc = "apply", !.by = "apply", !.j = disk']
  BY <1>3 DEF Prepare
<1>5. disk' \in Journals /\ disk'.phase = "Downloaded" /\ disk'.ver = v /\ disk'.names = Units
  BY <1>4 DEF Journals, Phases
<1>6. disk'.ver > base /\ NoJournal \in Journals
  <2>1. v \in Nat /\ up \in Nat /\ base \in Nat
    BY <1>1, <1>2, AtEase
  <2>2. v > base
    BY <1>2, <1>4, <2>1
  <2> QED
    BY <1>5, <2>2 DEF NoJournal, Journals
<1>7. job' \in Jobs /\ job'.pc = "apply" /\ job'.j = disk'
  BY <1>4, <1>5, ApplyThread
<1>8. file' \in Folders
  BY <1>1, AtEase DEF Folders, Names, Absent
<1>9. \A u \in Units : file'[u].cur = base /\ file'[u].old = Absent /\ file'[u].failed = Absent
  BY <1>1, <1>2, AtEase DEF Folders, Names, InPlace
<1>10. Unaccepted'
  BY <1>1, <1>5, <1>6, <1>9 DEF Unaccepted, Shape, InPlace, InSwap
<1>11. ~Closing'
  BY <1>7 DEF Closing
<1>12. Working'
  BY <1>5, <1>7, <1>11 DEF Working, AtRest
<1>13. Window'
  BY <1>1, <1>2, <1>7 DEF Window, At
<1>14. Typed'
  BY <1>1, <1>5, <1>6, <1>7, <1>8, AtEase DEF Typed, At
<1>15. ~Accepted'
  BY <1>5 DEF Accepted, NoJournal
<1> QED
  BY <1>1, <1>10, <1>12, <1>13, <1>14, <1>15 DEF Sound

\* The journal the window holds is the one on disk.
LEMMA ApplyHeldStep ==
    ASSUME Sound, ApplyHeld
    PROVE  Sound'
<1>1. /\ job.pc = "idle" /\ up # Absent /\ shown = "Ready"
      /\ job' = [Idle EXCEPT !.pc = "apply", !.by = "apply", !.j = held]
      /\ up' = up /\ base' = base /\ faults' = faults /\ shown' = "Working" /\ held' = NoJournal
      /\ file' = file /\ disk' = disk
  BY DEF ApplyHeld, At, quiet
<1>2. /\ held.ver = disk.ver /\ held.names = Units /\ disk.phase \in AtRest /\ Unaccepted
      /\ up >= base
  BY <1>1, AtEase, Rests DEF Window
<1>3. NoJournal \in Journals
  BY DEF NoJournal, Journals
<1>4. job' \in Jobs /\ job'.pc = "apply" /\ job'.j = held
  BY <1>1, AtEase, ApplyThread
<1>5. ~Closing'
  BY <1>4 DEF Closing
<1>6. Unaccepted' /\ ~Accepted'
  BY <1>1, <1>2 DEF Unaccepted, Shape, InPlace, Accepted, NoJournal, AtRest
<1>7. Working'
  BY <1>1, <1>2, <1>4, <1>5 DEF Working, AtRest
<1>8. Window'
  BY <1>1, <1>2, <1>4 DEF Window, At
<1>9. Typed'
  BY <1>1, <1>3, <1>4, AtEase DEF Typed, At
<1> QED
  BY <1>1, <1>6, <1>7, <1>8, <1>9 DEF Sound

\* What is started is the good version or the one that was being put in place, and resume begins
\* where the phase says.
LEMMA StartStep ==
    ASSUME Sound, Start
    PROVE  Sound'
<1>1. /\ up = Absent /\ file' = file /\ disk' = disk /\ faults' = faults /\ base' = base
      /\ shown' = shown /\ held' = held
  BY DEF Start, window
<1>2. job = Idle /\ job.pc = "idle"
  BY <1>1 DEF Sound, Typed, Idle
<1>3. shown \in {"Idle", "Working"}
  BY <1>1, <1>2, AtEase DEF Window
<1>4. PICK u \in Starters :
        \/ file[u].cur # Absent /\ up' = file[u].cur
        \/ file[u].cur = Absent /\ file[u].old # Absent /\ up' = file[u].old
  BY DEF Start
<1>5. u \in Units
  BY DEF Starters
<1>6. up' \in Versions /\ up' >= base
  <2>1. CASE Accepted
    BY <1>2, <1>4, <1>5, <2>1, AtEase DEF Accepted, InPlace
  <2>2. CASE Unaccepted
    BY <1>2, <1>4, <1>5, <2>2, AtEase, SMTT(30) DEF Unaccepted, Shape
  <2> QED
    BY <1>2, <2>1, <2>2, AtEase
<1>7. up' # Absent
  BY <1>2, <1>6, AtEase DEF Absent
<1>8. (Unaccepted => Unaccepted') /\ (Accepted => Accepted') /\ (Accepted' => Accepted)
  BY <1>1 DEF Unaccepted, Accepted, Shape, InPlace
<1>9. Met({"crash", "remove"}) => Met({"crash", "remove"})'
  BY <1>1 DEF Met
<1>10. CASE disk = NoJournal
  <2>1. job' = Idle
    BY <1>10 DEF Start
  <2>2. ~Closing' /\ At("idle")'
    BY <2>1 DEF Closing, Idle, At
  <2>3. Window'
    BY <1>1, <1>3, <1>6, <1>10, <2>2 DEF Window, NoJournal
  <2>4. Typed'
    BY <1>1, <1>2, <1>6, <2>1, AtEase DEF Typed, Sound
  <2> QED
    BY <1>1, <1>2, <1>8, <1>9, <2>2, <2>3, <2>4, AtEase DEF Sound
<1>11. CASE disk # NoJournal
  <2>1. /\ disk.phase \in Phases /\ disk.names = Units
        /\ disk.phase \in AtRest \cup InSwap \cup {"RestoreFailed"}
    BY <1>2, <1>11, AtEase DEF Journals, Phases, Unaccepted, Accepted, AtRest, InSwap
  <2>2. FirstOf(disk) = 1 /\ 1 \in Units
    BY <2>1, FirstIs
  <2>3. /\ ResumeAt \in {"undo", "ensure", "sweep", "forward"}
        /\ ResumeAt = "undo" => disk.phase = "RestoreFailed"
        /\ ResumeAt \in {"ensure", "sweep"} => disk.phase \in AtRest
        /\ ResumeAt = "forward" => disk.phase \in InSwap
    BY <2>1 DEF ResumeAt, Phases, AtRest, InSwap
  <2>4. ResumeAt \in Places
    BY <2>3 DEF Places
  <2>5. job' = [Idle EXCEPT !.pc = ResumeAt, !.by = "resume", !.j = disk, !.u = 1,
                            !.then = "pending"]
    BY <1>11, <2>2 DEF Start
  <2>6. /\ job' \in Jobs /\ job'.pc = ResumeAt /\ job'.j = disk /\ job'.u = 1 /\ ~job'.bad
        /\ job'.then = "pending"
    <3>1. disk \in Journals
      BY <1>2, AtEase
    <3> DEFINE at == ResumeAt
               thread == job'
    <3>2. thread = [Idle EXCEPT !.pc = at, !.by = "resume", !.j = disk, !.u = 1, !.then = "pending"]
      BY <2>5
    <3>3. at \in Places
      BY <2>4
    <3> HIDE DEF at, thread
    <3>4. /\ thread \in Jobs /\ thread.pc = at /\ thread.j = disk /\ thread.u = 1 /\ ~thread.bad
          /\ thread.then = "pending"
      BY <2>2, <3>1, <3>2, <3>3 DEF Idle, Jobs, Places
    <3> QED
      BY <3>4 DEF at, thread
  <2>7. ~Closing' /\ ~At("idle")'
    BY <2>3, <2>6 DEF Closing, At
  <2>8. ResumeAt = "undo" => Unaccepted'
    BY <1>8, <2>3, Rests
  <2>9. \A w \in Units : ~(w < 1)
    BY UpdateAssumption DEF Units
  <2>10. Working'
    <3>1. disk'.phase # "none" /\ job'.pc \in {"undo", "ensure", "sweep", "forward"}
      BY <1>1, <1>2, <1>11, <2>3, <2>6, AtEase
    <3> QED
      BY <1>1, <2>1, <2>2, <2>3, <2>6, <2>7, <2>8, <2>9, <3>1 DEF Working
  <2>11. Window'
    BY <1>1, <1>3, <1>6, <2>7 DEF Window
  <2>12. Typed'
    BY <1>1, <1>2, <1>6, <1>7, <2>6, <2>7, AtEase DEF Typed
  <2> QED
    BY <1>1, <1>2, <1>8, <1>9, <1>11, <2>10, <2>11, <2>12, AtEase DEF Sound
<1> QED
  BY <1>10, <1>11

\* The window is closed, or the process dies: the folder and the journal stay as they are.
LEMMA EndedStep ==
    ASSUME Sound, Quit \/ Crash
    PROVE  Sound'
<1>1. /\ up' = Absent /\ job' = Idle /\ shown' = "Idle" /\ held' = NoJournal
      /\ file' = file /\ disk' = disk /\ base' = base
  BY DEF Quit, Crash, Ended
<1>2. Idle.pc = "idle" /\ Idle \in Jobs /\ NoJournal \in Journals
  BY DEF Idle, NoJournal, Jobs, Journals, Places
<1>3. Typed'
  BY <1>1, <1>2 DEF Typed, Sound
<1>4. Window' /\ At("idle")'
  BY <1>1, <1>2 DEF Window, At
<1>5. (Unaccepted => Unaccepted') /\ (Accepted => Accepted') /\ (Accepted' => Accepted)
  BY <1>1 DEF Unaccepted, Accepted, Shape, InPlace
<1>6. Accepted' /\ disk' # NoJournal => Met({"crash", "remove"})'
  <2>1. CASE Crash
    BY <2>1, FaultMet DEF Crash
  <2>2. CASE Quit
    <3>1. job.pc = "idle" /\ faults' = faults
      BY <2>2 DEF Quit, At
    <3> QED
      BY <1>1, <1>5, <3>1, AtEase DEF Met
  <2> QED
    BY <2>1, <2>2
<1> QED
  BY <1>1, <1>3, <1>4, <1>5, <1>6 DEF Sound

----------------------------------------------------------------------------
(* The inductive invariant, and what it gives.                              *)

\* The folder as it was installed.
LEMMA InitIInv == Init => IInv
<1> SUFFICES ASSUME Init PROVE Sound
  BY DEF IInv
<1>1. /\ 1 \in Versions /\ 1 \notin Broken /\ Idle.pc = "idle" /\ Idle \in Jobs
      /\ NoJournal \in Journals /\ NoJournal.phase = "none"
  BY UpdateAssumption DEF Versions, Idle, NoJournal, Jobs, Journals, Places
<1>2. file \in Folders /\ \A u \in Units : file[u].cur = 1
  BY <1>1 DEF Init, Folders, Names, Absent
<1>3. Typed
  BY <1>1, <1>2 DEF Init, Typed, At
<1>4. Accepted
  BY <1>2 DEF Init, Accepted, InPlace
<1>5. Window
  BY <1>1 DEF Init, Window, At
<1> QED
  BY <1>1, <1>3, <1>4, <1>5 DEF Init, Sound, At

\* A fault, once met, stays met.
LEMMA ExcusedStays ==
    ASSUME faults \subseteq faults', Excused
    PROVE  Excused'
BY DEF Excused, Met

\* No step forgets a fault.
LEMMA FaultsGrow ==
    ASSUME [Next]_vars
    PROVE  faults \subseteq faults'
<1>1. \A kind : Fault(kind) => faults \subseteq faults'
  BY DEF Fault
<1>2. CASE UNCHANGED vars
  BY <1>2 DEF vars
<1>3. CASE Prepare \/ ApplyHeld \/ Start \/ Quit \/ Crash
  BY <1>1, <1>3 DEF Prepare, ApplyHeld, Start, Quit, Crash
<1>4. CASE ApplyBegin \/ Sweep \/ SaveStaging \/ Stage \/ Unstaged \/ SaveSwapping \/ SwapAway
  BY <1>1, <1>4 DEF ApplyBegin, Sweep, SaveStaging, Stage, Unstaged, SaveSwapping, SavePhase,
                    SaveOrNot, SwapAway
<1>5. CASE SwapIn \/ SaveVerifying \/ Health \/ Finalize \/ Clear
  BY <1>1, <1>5 DEF SwapIn, SaveVerifying, SaveOrNot, Health, Finalize, Clear
<1>6. CASE RollbackAway \/ RollbackRestore \/ RollbackPutBack \/ RollbackScraps \/ Undone
  BY <1>1, <1>6 DEF RollbackAway, RollbackRestore, RollbackPutBack, RollbackScraps, Undone, SaveOrNot
<1>7. CASE EnsurePresent \/ Ensured \/ Pending \/ CompleteForward
  BY <1>1, <1>7 DEF EnsurePresent, Ensured, Pending, CompleteForward, SaveOrNot
<1> QED
  BY <1>2, <1>3, <1>4, <1>5, <1>6, <1>7 DEF Next, Step

\* Every step keeps the invariant, when no update is asked for again in the same session.
LEMMA NextIInv ==
    ASSUME IInv, [Next]_vars, Again = {}
    PROVE  IInv'
<1> SUFFICES ASSUME ~Excused' PROVE Sound'
  BY DEF IInv
<1>1. Sound
  BY FaultsGrow, ExcusedStays DEF IInv
<1>2. CASE UNCHANGED vars
  BY <1>1, <1>2, StutterStep
<1>3. CASE Prepare \/ ApplyHeld \/ Start \/ Quit \/ Crash
  BY <1>1, <1>3, PrepareStep, ApplyHeldStep, StartStep, EndedStep
<1>4. CASE ApplyBegin \/ Sweep \/ SaveStaging \/ Stage \/ Unstaged \/ SaveSwapping \/ SwapAway
  BY <1>1, <1>4, ApplyBeginStep, SweepStep, SaveStagingStep, StageStep, UnstagedStep,
     SaveSwappingStep, SwapAwayStep
<1>5. CASE SwapIn \/ SaveVerifying \/ Health \/ Finalize \/ Clear
  BY <1>1, <1>5, SwapInStep, SaveVerifyingStep, HealthStep, FinalizeStep, ClearStep
<1>6. CASE RollbackAway \/ RollbackRestore \/ RollbackPutBack \/ RollbackScraps \/ Undone
  BY <1>1, <1>6, RollbackAwayStep, RollbackRestoreStep, RollbackPutBackStep, RollbackScrapsStep,
     UndoneStep
<1>7. CASE EnsurePresent \/ Ensured \/ Pending \/ CompleteForward
  BY <1>1, <1>7, EnsurePresentStep, EnsuredStep, PendingStep, CompleteForwardStep
<1> QED
  BY <1>2, <1>3, <1>4, <1>5, <1>6, <1>7 DEF Next, Step

\* The last accepted version stays in the folder for every program, in place or moved aside,
\* through every step of apply, of the undo and of resume, and every crash between two of them.
THEOREM UpdateOldKept ==
    ASSUME Again = {}
    PROVE  Spec => []OldKept
<1>1. IInv /\ [Next]_vars => IInv'
  BY NextIInv
<1>2. IInv => OldKept
  BY DEF IInv, Sound, Unaccepted, Accepted, Shape, InPlace, OldKept
<1> QED
  BY InitIInv, <1>1, <1>2, PTL DEF Spec

\* What the window reports as installed or undone is one version, in place for every program.
THEOREM UpdateNoMixKept ==
    ASSUME Again = {}
    PROVE  Spec => []NoMixKept
<1>1. IInv /\ [Next]_vars => IInv'
  BY NextIInv
<1>2. IInv => NoMixKept
  BY DEF IInv, Sound, Window, InPlace, NoMixKept
<1> QED
  BY InitIInv, <1>1, <1>2, PTL DEF Spec
=============================================================================
