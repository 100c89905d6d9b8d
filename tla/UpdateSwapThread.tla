-------------------------- MODULE UpdateSwapThread --------------------------
(***************************************************************************)
(* Every step of the thread of an update keeps the invariant of            *)
(* UpdateSwapInv: staging, the swap, the start check, the end, the undo.   *)
(***************************************************************************)
EXTENDS UpdateSwapInv

\* apply begins, or cannot.
LEMMA ApplyBeginStep ==
    ASSUME Sound, ApplyBegin
    PROVE  Sound'
<1>1. job.pc = "apply" /\ disk' = disk /\ file' = file /\ base' = base /\ UNCHANGED quiet
  BY DEF ApplyBegin, At, quiet
<1>2. disk.phase \in AtRest /\ job \in Jobs /\ disk \in Journals /\ file \in Folders
      /\ job.j.names = Units /\ job.j.ver = disk.ver
  BY <1>1, AtWork DEF Working
<1>3. Unaccepted /\ ~Closing
  BY <1>1, <1>2, Rests DEF Closing
<1>4. Unaccepted'
  BY <1>1, <1>3 DEF Unaccepted, Shape, InPlace
<1>5. CASE Return("Ready")
  BY <1>1, <1>2, <1>3, <1>4, <1>5, Returns
<1>6. CASE job' = GoSweep("staging") /\ UNCHANGED window
  <2>1. job' \in Jobs /\ job'.j = job.j /\ job'.u \in Units /\ job'.pc = "sweep"
        /\ job'.then = "staging"
    BY <1>2, <1>6, GoSweepIs, FirstIs DEF Places
  <2>2. Working'
    BY <1>1, <1>2, <2>1, AtWork DEF Working, Closing
  <2> QED
    BY <1>1, <1>2, <1>3, <1>4, <1>6, <2>1, <2>2, Goes
<1> QED
  BY <1>5, <1>6 DEF ApplyBegin

\* The leftovers of one program are swept: nothing that is in place.
LEMMA SweepStep ==
    ASSUME Sound, Sweep
    PROVE  Sound'
<1>1. job.pc = "sweep" /\ disk' = disk /\ base' = base /\ job' = NextOr(job.then)
      /\ UNCHANGED <<window, quiet>>
  BY DEF Sweep, At, quiet
<1>2. /\ job \in Jobs /\ disk \in Journals /\ file \in Folders /\ job.u \in Units
      /\ job.j.names = Units /\ job.j.ver = disk.ver
      /\ job.then \in {"staging", "unstaged", "pending", "cleared", "done"}
      /\ job.then # "done" => disk.phase \in AtRest
      /\ job.then = "done" => disk.phase = "Verifying" /\ Accepted
  BY <1>1, AtWork DEF Working, Closing
<1>3. PICK names \in SUBSET {"new", "old", "failed"} : file' = Removed(names)
  BY DEF Sweep
<1>4. /\ file' \in Folders
      /\ \A w \in Units : /\ file'[w].cur = file[w].cur /\ file'[w].old \in {Absent, file[w].old}
                          /\ file'[w].failed \in {Absent, file[w].failed}
  BY <1>2, <1>3, RemovedIs DEF Others
<1>5. /\ job' \in Jobs /\ job'.j = job.j /\ job'.u \in Units
      /\ \/ job'.pc = "sweep" /\ job'.then = job.then
         \/ job'.pc = job.then
  BY <1>1, <1>2, NextOrIs, FirstIs DEF Places
<1>6. CASE job.then = "done"
  <2>1. Accepted' /\ Closing /\ Closing'
    BY <1>1, <1>2, <1>4, <1>5, <1>6 DEF Accepted, InPlace, Closing
  <2>2. Working'
    BY <1>1, <1>2, <1>5, <1>6, <2>1, AtWork DEF Working, Closing
  <2> QED
    BY <1>1, <1>2, <1>4, <1>5, <2>1, <2>2, Goes
<1>7. CASE job.then # "done"
  <2>1. Unaccepted /\ ~Closing
    BY <1>1, <1>2, <1>7, Rests DEF Closing
  <2>2. Unaccepted'
    BY <1>1, <1>2, <1>4, <1>7, <2>1 DEF Unaccepted, Shape, InPlace, InSwap, AtRest
  <2>3. Working'
    BY <1>1, <1>2, <1>5, <1>7, AtWork DEF Working, Closing
  <2> QED
    BY <1>1, <1>2, <1>4, <1>5, <1>7, <2>1, <2>2, <2>3, Goes
<1> QED
  BY <1>6, <1>7

\* The phase Staging is saved.
LEMMA SaveStagingStep ==
    ASSUME Sound, SaveStaging, ~Excused'
    PROVE  Sound'
<1>1. job.pc = "staging" /\ disk' = Saved("Staging") /\ job' = Go("stage") /\ file' = file
      /\ base' = base /\ UNCHANGED <<window, quiet>>
  BY NoSaveFails DEF SaveStaging, SavePhase, At, quiet
<1>2. disk.phase \in AtRest /\ job \in Jobs /\ file \in Folders
      /\ job.j.names = Units /\ job.j.ver = disk.ver
  BY <1>1, AtWork DEF Working
<1>3. Unaccepted /\ ~Closing
  BY <1>1, <1>2, Rests DEF Closing
<1>4. disk' \in Journals /\ disk'.phase = "Staging" /\ disk'.ver = disk.ver /\ disk'.names = Units
  BY <1>1, <1>2, SavedIs DEF Phases
<1>5. Unaccepted'
  BY <1>1, <1>2, <1>3, <1>4 DEF Unaccepted, Shape, InPlace, InSwap, AtRest
<1>6. job' \in Jobs /\ job'.j = job.j /\ job'.u = 1 /\ 1 \in Units /\ job'.pc = "stage"
  BY <1>1, <1>2, GoIs, FirstIs DEF Places
<1>7. Working'
  BY <1>1, <1>2, <1>4, <1>6, AtWork DEF Working, Closing, AtRest
<1> QED
  BY <1>1, <1>2, <1>3, <1>4, <1>5, <1>6, <1>7, Goes

\* One program is staged, or staging fails.
LEMMA StageStep ==
    ASSUME Sound, Stage
    PROVE  Sound'
<1>1. job.pc = "stage" /\ disk' = disk /\ base' = base /\ UNCHANGED <<window, quiet>>
  BY DEF Stage, At, quiet
<1>2. /\ disk.phase \in AtRest /\ job \in Jobs /\ disk \in Journals /\ file \in Folders
      /\ job.u \in Units /\ job.j.names = Units /\ job.j.ver = disk.ver /\ disk.ver \in Versions
      /\ \A w \in Units : w < job.u => file[w].new = disk.ver
  BY <1>1, AtWork DEF Working
<1>3. Unaccepted /\ ~Closing
  BY <1>1, <1>2, Rests DEF Closing
<1>4. CASE file' = [file EXCEPT ![job.u].new = job.j.ver] /\ job' = NextOr("swapping")
  <2>1. /\ file' \in Folders
        /\ \A w \in Units : /\ file'[w].cur = file[w].cur /\ file'[w].old = file[w].old
                            /\ file'[w].failed = file[w].failed
                            /\ w = job.u => file'[w].new = disk.ver
                            /\ w # job.u => file'[w].new = file[w].new
    BY <1>2, <1>4 DEF Folders, Names
  <2>2. /\ job' \in Jobs /\ job'.j = job.j /\ job'.u \in Units
        /\ \/ job.u = N /\ job'.pc = "swapping" /\ job'.u = 1
           \/ job.u # N /\ job'.pc = "stage" /\ job'.u = job.u + 1
    BY <1>1, <1>2, <1>4, NextOrIs, FirstIs DEF Places
  <2>3. Unaccepted'
    BY <1>1, <1>2, <1>3, <2>1 DEF Unaccepted, Shape, InPlace, AtRest, InSwap
  <2>4. Working'
    <3>1. \A w \in Units : w < job'.u \/ job'.pc = "swapping" => w < job.u \/ w = job.u
      BY <1>1, <1>2, <2>2, UpTo, AllUpTo
    <3>2. \A w \in Units : w < job'.u \/ job'.pc = "swapping" => file'[w].new = disk.ver
      BY <1>2, <2>1, <3>1
    <3> QED
      BY <1>1, <1>2, <2>2, <3>2, AtWork DEF Working, Closing
  <2> QED
    BY <1>1, <1>2, <1>3, <2>1, <2>2, <2>3, <2>4, Goes
<1>5. CASE job' = GoSweep("unstaged") /\ UNCHANGED file
  <2>1. job' \in Jobs /\ job'.j = job.j /\ job'.u \in Units /\ job'.pc = "sweep"
        /\ job'.then = "unstaged"
    BY <1>2, <1>5, GoSweepIs, FirstIs DEF Places
  <2>2. Unaccepted'
    BY <1>1, <1>3, <1>5 DEF Unaccepted, Shape, InPlace
  <2>3. Working'
    BY <1>1, <1>2, <2>1, AtWork DEF Working, Closing
  <2> QED
    BY <1>1, <1>2, <1>3, <1>5, <2>1, <2>2, <2>3, Goes
<1> QED
  BY <1>4, <1>5 DEF Stage

\* What was staged is gone again.
LEMMA UnstagedStep ==
    ASSUME Sound, Unstaged, ~Excused'
    PROVE  Sound'
<1>1. job.pc = "unstaged" /\ disk' = Saved("Downloaded") /\ file' = file /\ base' = base
      /\ Return("Ready") /\ UNCHANGED quiet
  BY NoSaveFails DEF Unstaged, SaveOrNot, At, quiet
<1>2. disk.phase \in AtRest /\ job \in Jobs /\ job.j.names = Units /\ job.j.ver = disk.ver
  BY <1>1, AtWork DEF Working
<1>3. Unaccepted /\ ~Closing
  BY <1>1, <1>2, Rests DEF Closing
<1>4. disk' \in Journals /\ disk'.phase = "Downloaded" /\ disk'.ver = disk.ver
      /\ disk'.names = Units
  BY <1>1, <1>2, SavedIs DEF Phases
<1>5. Unaccepted' /\ disk'.phase \in AtRest
  BY <1>1, <1>2, <1>3, <1>4 DEF Unaccepted, Shape, InPlace, InSwap, AtRest
<1> QED
  BY <1>1, <1>3, <1>4, <1>5, Returns

\* The phase Swapping is saved: every program is staged by now.
LEMMA SaveSwappingStep ==
    ASSUME Sound, SaveSwapping, ~Excused'
    PROVE  Sound'
<1>1. job.pc = "swapping" /\ disk' = Saved("Swapping") /\ job' = Go("away") /\ file' = file
      /\ base' = base /\ UNCHANGED <<window, quiet>>
  BY NoSaveFails DEF SaveSwapping, SavePhase, At, quiet
<1>2. disk.phase \in AtRest /\ job \in Jobs /\ file \in Folders
      /\ job.j.names = Units /\ job.j.ver = disk.ver
      /\ \A w \in Units : file[w].new = disk.ver
  BY <1>1, AtWork DEF Working
<1>3. Unaccepted /\ ~Closing /\ InPlace
  BY <1>1, <1>2, Rests DEF Closing, Unaccepted
<1>4. disk' \in Journals /\ disk'.phase = "Swapping" /\ disk'.ver = disk.ver
      /\ disk'.names = Units
  BY <1>1, <1>2, SavedIs DEF Phases
<1>5. Unaccepted'
  BY <1>1, <1>2, <1>3, <1>4 DEF Unaccepted, Shape, AtRest
<1>6. job' \in Jobs /\ job'.j = job.j /\ job'.u = 1 /\ 1 \in Units /\ job'.pc = "away"
  BY <1>1, <1>2, GoIs, FirstIs DEF Places
<1>7. Working'
  BY <1>1, <1>2, <1>3, <1>4, <1>6, AtWork DEF Working, Closing, InPlace
<1> QED
  BY <1>1, <1>2, <1>3, <1>4, <1>5, <1>6, <1>7, Goes

\* A program moved aside.
LEMMA SwapAwayStep ==
    ASSUME Sound, SwapAway, ~Excused'
    PROVE  Sound'
<1>1. job.pc = "away" /\ UNCHANGED <<disk, window, quiet>> /\ disk' = disk /\ base' = base
  BY DEF SwapAway, At, quiet
<1>2. /\ file \in Folders /\ job \in Jobs /\ disk \in Journals /\ job.u \in Units
      /\ job.j.names = Units /\ job.j.ver = disk.ver /\ disk.phase = "Swapping"
      /\ \A w \in Units : file[w].cur \in {Absent, base}
      /\ \A w \in Units : w < job.u => file[w].old = base
  BY <1>1, AtWork DEF Working
<1>3. Unaccepted /\ ~Closing
  BY <1>1, <1>2 DEF Sound, Accepted, NoJournal, Closing
<1>4. CASE /\ file' = IF File.cur = Absent THEN file ELSE Renamed("cur", "old")
           /\ job' = NextOr("in")
  <2>1. /\ file' \in Folders
        /\ \A w \in Units : /\ file'[w].cur \in {Absent, base} /\ file'[w].old \in {Absent, base}
                            /\ file'[w].new = file[w].new /\ file'[w].failed = file[w].failed
                            /\ w <= job.u => file'[w].old = base
                            /\ file'[w].cur = base \/ file'[w].old = base
    <3>1. Others(file') /\ file'[job.u].cur = Absent /\ file'[job.u].old = base
          /\ file'[job.u].new = file[job.u].new /\ file'[job.u].failed = file[job.u].failed
      BY <1>1, <1>2, <1>3, <1>4, AtWork, CurToOld DEF Unaccepted, Shape, Others, File
    <3>2. \A w \in Units : w # job.u => file'[w] = file[w] /\ (w <= job.u => w < job.u)
      BY <1>1, <1>2, <3>1, AtWork DEF Others
    <3> QED
      BY <1>2, <1>3, <3>1, <3>2 DEF Unaccepted, Shape, Others
  <2>2. /\ job' \in Jobs /\ job'.j = job.j /\ job'.u \in Units
        /\ \/ job.u = N /\ job'.pc = "in" /\ job'.u = 1
           \/ job.u # N /\ job'.pc = "away" /\ job'.u = job.u + 1
    BY <1>1, <1>2, <1>4, NextOrIs, FirstIs DEF Places
  <2>3. Unaccepted'
    BY <1>1, <1>2, <1>3, <2>1 DEF Unaccepted, Shape, AtRest
  <2>4. Working'
    BY <1>1, <1>2, <2>1, <2>2, AtWork, SMTT(30) DEF Working, Closing, AtRest
  <2> QED
    BY <1>1, <1>2, <1>3, <2>1, <2>2, <2>3, <2>4, Goes
<1>5. CASE job' = Go("undo") /\ UNCHANGED file
  <2>1. job' \in Jobs /\ job'.j = job.j /\ job'.u = 1 /\ 1 \in Units /\ job'.pc = "undo"
    BY <1>2, <1>5, GoIs, FirstIs DEF Places
  <2>2. Unaccepted'
    BY <1>1, <1>3, <1>5 DEF Unaccepted, Shape, InPlace
  <2>3. Working'
    BY <1>1, <1>2, <2>1, <2>2, AtWork, SMTT(30) DEF Working, Closing, InSwap
  <2> QED
    BY <1>1, <1>2, <1>3, <1>5, <2>1, <2>2, <2>3, Goes
<1> QED
  BY <1>4, <1>5 DEF SwapAway

\* The undo begins.
LEMMA ToUndo ==
    ASSUME Sound, job.pc # "idle", ~Closing, Unaccepted,
           disk.phase \in InSwap \cup {"RestoreFailed"},
           job' \in Jobs, job'.pc = "undo", job'.u = 1, job'.j = job.j,
           file' \in Folders, \A w \in Units : file'[w] = file[w],
           UNCHANGED <<disk, window, quiet>>
    PROVE  Sound'
<1>1. disk' = disk /\ base' = base /\ 1 \in Units
  BY AtWork, FirstIs DEF quiet
<1>2. Unaccepted'
  BY <1>1 DEF Unaccepted, Shape, InPlace
<1>3. Working'
  BY <1>1, <1>2, AtWork, SMTT(30) DEF Working, Closing, InSwap
<1> QED
  BY <1>1, <1>2, <1>3, AtWork, Goes

\* A staged program moved in.
LEMMA SwapInStep ==
    ASSUME Sound, SwapIn
    PROVE  Sound'
<1>1. job.pc = "in" /\ disk' = disk /\ base' = base /\ UNCHANGED <<disk, window, quiet>>
  BY DEF SwapIn, At, quiet
<1>2. /\ disk.phase = "Swapping" /\ job \in Jobs /\ disk \in Journals /\ file \in Folders
      /\ job.u \in Units /\ job.j.names = Units /\ job.j.ver = disk.ver
      /\ \A w \in Units : file[w].old = base
      /\ \A w \in Units : w < job.u => file[w].cur = disk.ver
  BY <1>1, AtWork DEF Working
<1>3. Unaccepted /\ ~Closing
  BY <1>1, <1>2, Rests DEF Closing
<1>4. CASE File.new # Absent /\ file' = Renamed("new", "cur") /\ job' = NextOr("verifying")
  <2>1. /\ Others(file') /\ file'[job.u].cur = disk.ver /\ file'[job.u].old = base
        /\ file'[job.u].new = Absent /\ file'[job.u].failed = file[job.u].failed
    BY <1>2, <1>3, <1>4, NewToCur DEF Unaccepted, File, InSwap
  <2>2. /\ job' \in Jobs /\ job'.j = job.j /\ job'.u \in Units
        /\ \/ job.u = N /\ job'.pc = "verifying" /\ job'.u = 1
           \/ job.u # N /\ job'.pc = "in" /\ job'.u = job.u + 1
    BY <1>1, <1>2, <1>4, NextOrIs, FirstIs DEF Places
  <2>3. \A w \in Units : file'[w].old = base
    BY <1>2, <2>1 DEF Others
  <2>4. Unaccepted'
    BY <1>1, <1>2, <1>3, <2>1, <2>3 DEF Unaccepted, Shape, Others, AtRest
  <2>5. Working'
    <3>1. \A w \in Units : w < job'.u \/ job'.pc = "verifying" => w < job.u \/ w = job.u
      BY <1>1, <1>2, <2>2, UpTo, AllUpTo
    <3>2. \A w \in Units : w < job'.u \/ job'.pc = "verifying" => file'[w].cur = disk.ver
      BY <1>2, <2>1, <3>1 DEF Others
    <3> QED
      BY <1>1, <1>2, <2>2, <2>3, <3>2, AtWork DEF Working, Closing, InSwap
  <2> QED
    BY <1>1, <1>2, <1>3, <2>1, <2>2, <2>4, <2>5, Goes DEF Others
<1>5. CASE job' = Go("undo") /\ UNCHANGED file
  <2>1. job' \in Jobs /\ job'.j = job.j /\ job'.u = 1 /\ job'.pc = "undo"
    BY <1>2, <1>5, GoIs DEF Places
  <2> QED
    BY <1>1, <1>2, <1>3, <1>5, <2>1, ToUndo DEF InSwap
<1> QED
  BY <1>4, <1>5 DEF SwapIn

\* The phase Verifying is saved.
LEMMA SaveVerifyingStep ==
    ASSUME Sound, SaveVerifying, ~Excused'
    PROVE  Sound'
<1>1. job.pc = "verifying" /\ disk' = Saved("Verifying") /\ job' = Go("health") /\ file' = file
      /\ base' = base /\ UNCHANGED <<faults, window, quiet>>
  BY NoSaveFails DEF SaveVerifying, SaveOrNot, At, quiet
<1>2. /\ disk.phase \in InSwap /\ job \in Jobs /\ file \in Folders
      /\ job.j.names = Units /\ job.j.ver = disk.ver
      /\ \A w \in Units : file[w].cur = disk.ver
  BY <1>1, AtWork DEF Working
<1>3. ~Closing
  BY <1>1 DEF Closing
<1>4. disk' \in Journals /\ disk'.phase = "Verifying" /\ disk'.ver = disk.ver
      /\ disk'.names = Units
  BY <1>1, <1>2, SavedIs DEF Phases
<1>5. Unaccepted => Unaccepted'
  BY <1>1, <1>2, <1>4 DEF Unaccepted, Shape, AtRest, InSwap
<1>6. Accepted => Accepted' /\ Met({"crash", "remove"})'
  BY <1>1, <1>2, <1>3, <1>4 DEF Accepted, InPlace, Sound, NoJournal, InSwap, Met
<1>7. job' \in Jobs /\ job'.j = job.j /\ job'.u = 1 /\ 1 \in Units /\ job'.pc = "health"
  BY <1>1, <1>2, GoIs, FirstIs DEF Places
<1>8. Working'
  BY <1>1, <1>2, <1>4, <1>7, AtWork DEF Working, Closing
<1> QED
  BY <1>1, <1>2, <1>3, <1>4, <1>5, <1>6, <1>7, <1>8, Goes DEF Sound

\* The start check: what passes it is the new base, and what does not was not accepted before.
LEMMA HealthStep ==
    ASSUME Sound, Health, ~Excused'
    PROVE  Sound'
<1>1. job.pc = "health" /\ disk' = disk /\ file' = file /\ up' = up /\ UNCHANGED window
      /\ shown' = shown /\ held' = held
  BY DEF Health, At, window
<1>2. /\ disk.phase = "Verifying" /\ job \in Jobs /\ disk \in Journals /\ file \in Folders
      /\ job.j.names = Units /\ job.j.ver = disk.ver /\ disk.names = Units /\ 1 \in Units
      /\ \A w \in Units : file[w].cur = disk.ver
  BY <1>1, AtWork, FirstIs DEF Working
<1>3. ~Closing
  BY <1>1 DEF Closing
<1>4. CASE file[1].cur \notin Broken \cup {Absent} /\ base' = job.j.ver /\ job' = Go("finalize")
  <2>1. job' \in Jobs /\ job'.j = job.j /\ job'.u = 1 /\ job'.pc = "finalize"
    BY <1>2, <1>4, GoIs DEF Places
  <2>2. base' = disk.ver /\ base' \notin Broken
    BY <1>2, <1>4
  <2>3. Typed'
    BY <1>1, <1>2, <2>1, <2>2, AtWork DEF Typed, At, Absent
  <2>4. Accepted' /\ Closing'
    BY <1>1, <1>2, <2>1, <2>2 DEF Accepted, InPlace, Closing
  <2>5. Working'
    BY <1>1, <1>2, <2>1, <2>4, AtWork DEF Working, Closing
  <2>6. Window'
    BY <1>1, <2>1, <2>4, AtWork DEF Window, At
  <2> QED
    BY <2>2, <2>3, <2>4, <2>5, <2>6 DEF Sound
<1>5. CASE /\ IF file[1].cur \in Broken \cup {Absent} THEN UNCHANGED faults ELSE Fault("slow")
           /\ job' = [Go("undo") EXCEPT !.then = "unhealthy"]
           /\ UNCHANGED base
  <2>1. job' \in Jobs /\ job'.j = job.j /\ job'.u = 1 /\ job'.pc = "undo"
    <3> DEFINE g == Go("undo")
    <3>1. g \in Jobs /\ g.pc = "undo" /\ g.u = 1 /\ g.j = job.j
      BY <1>2, GoIs DEF Places
    <3>2. job' = [g EXCEPT !.then = "unhealthy"]
      BY <1>5
    <3> HIDE DEF g
    <3> QED
      BY <3>1, <3>2 DEF Jobs, Places
  <2>2. ~Accepted
    <3>1. CASE file[1].cur \in Broken \cup {Absent}
      BY <1>1, <1>2, <3>1, AtWork DEF Accepted, InPlace
    <3>2. CASE Fault("slow")
      BY <1>2, <1>3, <3>2, NoSaveFails DEF Sound, NoJournal
    <3> QED
      BY <1>5, <3>1, <3>2
  <2>3. Unaccepted
    BY <2>2 DEF Sound
  <2>4. UNCHANGED <<disk, window, quiet>>
    BY <1>1, <1>5 DEF Health, quiet
  <2> QED
    BY <1>1, <1>2, <1>3, <2>1, <2>3, <2>4, ToUndo DEF InSwap
<1> QED
  BY <1>4, <1>5 DEF Health

\* The old programs become the backup; nothing that is in place is touched.
LEMMA FinalizeStep ==
    ASSUME Sound, Finalize
    PROVE  Sound'
<1>1. job.pc = "finalize" /\ disk' = disk /\ base' = base /\ UNCHANGED <<window, quiet>>
  BY DEF Finalize, At, quiet
<1>2. /\ job \in Jobs /\ disk \in Journals /\ file \in Folders /\ job.u \in Units
      /\ job.j.names = Units /\ job.j.ver = disk.ver
      /\ Closing /\ Accepted /\ disk.phase = "Verifying"
  BY <1>1, AtWork DEF Working, Closing
<1>3. file' = file \/ file' = Removed({"prev"}) \/ file' = Renamed("old", "prev")
  BY DEF Finalize
<1>4. file' \in Folders /\ \A w \in Units : file'[w].cur = file[w].cur
  BY <1>2, <1>3, RemovedIs, OldToPrev DEF Others
<1>5. job' = job \/ job' = GoSweep("done") \/ (Later # {} /\ job' = [job EXCEPT !.u = NextUnit])
  BY DEF Finalize
<1>6. /\ job' \in Jobs /\ job'.j = job.j /\ job'.u \in Units
      /\ job'.pc = "finalize" \/ (job'.pc = "sweep" /\ job'.then = "done")
  <2>1. CASE job' = job
    BY <1>1, <1>2, <2>1
  <2>2. CASE job' = GoSweep("done")
    BY <1>2, <2>2, GoSweepIs, FirstIs DEF Places
  <2>3. CASE Later # {} /\ job' = [job EXCEPT !.u = NextUnit]
    BY <1>1, <1>2, <2>3, LaterIs DEF Jobs
  <2> QED
    BY <1>5, <2>1, <2>2, <2>3
<1>7. Accepted' /\ Closing'
  BY <1>1, <1>2, <1>4, <1>6 DEF Accepted, InPlace, Closing
<1>8. Working'
  BY <1>1, <1>2, <1>6, <1>7, AtWork DEF Working, Closing
<1> QED
  BY <1>1, <1>2, <1>4, <1>6, <1>7, <1>8, Goes

\* The journal is cleared, or stays: of an accepted version, or of one at rest.
LEMMA ClearStep ==
    ASSUME Sound, Clear
    PROVE  Sound'
<1>1. file' = file /\ base' = base /\ UNCHANGED quiet /\ NoJournal \in Journals
      /\ NoJournal.phase = "none"
  BY DEF Clear, quiet, NoJournal, Journals
<1>2. (disk' = NoJournal /\ faults' = faults) \/ (disk' = disk /\ Met({"crash", "remove"})')
  BY FaultMet DEF Clear
<1>3. CASE job.pc = "done"
  <2>1. Accepted /\ disk \in Journals /\ Return("Installed")
    BY <1>3, AtWork DEF Working, Closing, Clear, At
  <2>2. Accepted'
    BY <1>1, <1>2, <2>1 DEF Accepted, InPlace
  <2> QED
    BY <1>1, <1>2, <1>3, <2>1, <2>2, Returns
<1>4. CASE job.pc = "cleared"
  <2>1. disk.phase \in AtRest /\ disk \in Journals /\ Return("Idle") /\ ~Closing
    BY <1>4, AtWork DEF Working, Closing, Clear, At
  <2>2. Unaccepted
    BY <2>1, Rests
  <2>3. CASE disk' = NoJournal
    <3>1. Accepted'
      BY <1>1, <2>1, <2>2, <2>3 DEF Accepted, Unaccepted, InPlace
    <3> QED
      BY <1>1, <1>4, <2>1, <2>3, <3>1, Returns
  <2>4. CASE disk' = disk
    <3>1. Unaccepted'
      BY <1>1, <2>2, <2>4 DEF Unaccepted, Shape, InPlace
    <3> QED
      BY <1>1, <1>4, <2>1, <2>4, <3>1, Returns
  <2> QED
    BY <1>2, <2>3, <2>4
<1> QED
  BY <1>3, <1>4 DEF Clear

----------------------------------------------------------------------------
(* The undo.                                                                *)

\* What holds of it at each of its places, and the form of its steps.
LEMMA Undoing ==
    ASSUME Sound, job.pc \in {"undo", "restore", "putback", "scraps", "undone"}
    PROVE  /\ job \in Jobs /\ disk \in Journals /\ file \in Folders /\ job.u \in Units
           /\ job.j.names = Units /\ job.j.ver = disk.ver
           /\ Unaccepted /\ ~Closing /\ disk.phase \in InSwap \cup {"RestoreFailed"}
           /\ disk.phase \notin AtRest
           /\ Shape(job.u, disk.ver) /\ disk.ver # base /\ base # Absent
           /\ disk.phase \in InSwap => file[job.u].new \in {Absent, disk.ver}
           /\ \A w \in Units : w < job.u => job.bad \/ file[w].cur = base
           /\ job.pc = "restore" => file[job.u].old = base
           /\ job.pc = "putback" => job.bad
           /\ job.pc \in {"scraps", "undone"} => job.bad \/ file[job.u].cur = base
           /\ job.pc = "undone" => job.u = N
<1>1. job.pc # "idle" /\ Working
  BY AtWork
<1>2. Unaccepted /\ ~Closing /\ disk.phase \in InSwap \cup {"RestoreFailed"} /\ job.u \in Units
  BY <1>1 DEF Working, Closing
<1>3. disk.phase \notin AtRest
  BY <1>2 DEF AtRest, InSwap
<1>4. Shape(job.u, disk.ver) /\ disk.ver # base /\ base # Absent
      /\ (disk.phase \in InSwap => file[job.u].new \in {Absent, disk.ver})
  BY <1>1, <1>2, AtWork DEF Unaccepted
<1> QED
  BY <1>1, <1>2, <1>3, <1>4, AtWork DEF Working

\* A step of the undo after which the undo goes on.
LEMMA UndoGoes ==
    ASSUME Sound, job.pc \in {"undo", "restore", "putback", "scraps", "undone"},
           UNCHANGED <<disk, window, quiet>>,
           Others(file'), file'[job.u].cur \in {Absent, base, disk.ver},
           file'[job.u].failed \in {Absent, base, disk.ver},
           file'[job.u].old \in {Absent, base},
           file'[job.u].cur = base \/ file'[job.u].old = base,
           file'[job.u].new \in {Absent, file[job.u].new},
           job' \in Jobs, job'.j = job.j,
           \/ /\ job'.pc \in {"restore", "putback", "scraps"} /\ job'.u = job.u
              /\ job.bad => job'.bad
              /\ job'.pc = "restore" => file'[job.u].old = base
              /\ job'.pc = "putback" => job'.bad
              /\ job'.pc = "scraps" => job'.bad \/ file'[job.u].cur = base
           \/ /\ job.bad => job'.bad
              /\ job.bad \/ file'[job.u].cur = base
              /\ \/ job'.pc = "undo" /\ job'.u = job.u + 1 /\ job'.u \in Units
                 \/ job'.pc = "undone" /\ job'.u = job.u /\ job.u = N
    PROVE  Sound'
<1>1. disk' = disk /\ base' = base
  BY DEF quiet
<1>2. \A w \in Units : w # job.u => file'[w] = file[w]
  BY DEF Others
<1>3. Unaccepted'
  <2>1. \A u \in Units : Shape(u, disk.ver)'
    <3>1. ASSUME NEW u \in Units, u # job.u PROVE Shape(u, disk.ver)'
      <4>1. Shape(u, disk.ver) /\ file'[u] = file[u]
        BY <1>2, <3>1, Undoing DEF Unaccepted
      <4> QED
        BY <1>1, <4>1 DEF Shape
    <3>2. ASSUME NEW u \in Units, u = job.u PROVE Shape(u, disk.ver)'
      BY <1>1, <3>2 DEF Shape
    <3> QED
      BY <3>1, <3>2
  <2>2. disk.phase \in InSwap => \A u \in Units : file'[u].new \in {Absent, disk.ver}
    BY <1>2, Undoing DEF Unaccepted
  <2> QED
    BY <1>1, <2>1, <2>2, Undoing DEF Unaccepted
<1>4. job'.u \in Units /\ \A w \in Units : w < job'.u => w < job.u \/ w = job.u
  <2>1. job.u \in Units
    BY Undoing
  <2>2. job'.u \in Units /\ (job'.u = job.u \/ job'.u = job.u + 1)
    BY <2>1
  <2> QED
    BY <2>1, <2>2, UpTo
<1>5. \A w \in Units : w < job'.u => job'.bad \/ file'[w].cur = base
  <2>1. ASSUME NEW w \in Units, w < job'.u
        PROVE  job'.bad \/ file'[w].cur = base
    <3>1. CASE w = job.u
      <4>1. job'.u # job.u
        BY <1>4, <2>1, <3>1, AtWork
      <4> QED
        BY <3>1, <4>1
    <3>2. CASE w # job.u
      <4>1. w < job.u /\ file'[w] = file[w] /\ (job.bad \/ file[w].cur = base)
        BY <1>2, <1>4, <2>1, <3>2, Undoing
      <4>2. job.bad => job'.bad
        OBVIOUS
      <4> QED
        BY <4>1, <4>2
    <3> QED
      BY <3>1, <3>2
  <2> QED
    BY <2>1
<1>6. Working'
  BY <1>1, <1>3, <1>4, <1>5, Undoing DEF Working, Closing, InSwap
<1> QED
  BY <1>1, <1>3, <1>6, Undoing, Goes DEF Others

\* The undo goes on to the next program, or is over.
LEMMA AfterUndoIs ==
    ASSUME job \in Jobs, job.j.names = Units, job.u \in Units
    PROVE  /\ AfterUndo \in Jobs /\ AfterUndo.j = job.j /\ AfterUndo.bad = job.bad
           /\ \/ AfterUndo.pc = "undo" /\ AfterUndo.u = job.u + 1 /\ job.u + 1 \in Units
              \/ AfterUndo.pc = "undone" /\ AfterUndo.u = job.u /\ job.u = N
<1>1. CASE Later = {}
  <2>1. AfterUndo = [job EXCEPT !.pc = "undone"]
    BY <1>1 DEF AfterUndo
  <2> QED
    BY <1>1, <2>1, LaterIs DEF Jobs, Places
<1>2. CASE Later # {}
  <2>1. AfterUndo = [job EXCEPT !.pc = "undo", !.u = job.u + 1] /\ job.u + 1 \in Units
    BY <1>2, LaterIs DEF AfterUndo
  <2> QED
    BY <2>1 DEF Jobs, Places
<1> QED
  BY <1>1, <1>2

\* What stands in place of an old program is moved away.
LEMMA RollbackAwayStep ==
    ASSUME Sound, RollbackAway
    PROVE  Sound'
<1>1. job.pc = "undo" /\ UNCHANGED <<disk, window, quiet>>
  BY DEF RollbackAway, At
<1>2. job \in Jobs /\ file \in Folders /\ job.u \in Units /\ job.j.ver = disk.ver
      /\ Shape(job.u, disk.ver) /\ disk.ver # base /\ base # Absent
  BY <1>1, Undoing
<1>3. /\ Others(file') /\ file'[job.u].old = file[job.u].old
      /\ file'[job.u].new = file[job.u].new
      /\ file'[job.u].cur \in {Absent, base, disk.ver}
      /\ file'[job.u].failed \in {Absent, base, disk.ver}
      /\ file[job.u].old = Absent => file'[job.u].cur = base
  <2>1. CASE file' = file
    BY <1>2, <2>1 DEF Others, Shape
  <2>2. CASE /\ file' = Renamed("cur", "failed")
             /\ File.old # Absent \/ File.cur = job.j.ver
    BY <1>2, <2>2, CurToFailed DEF Shape, File
  <2> QED
    BY <2>1, <2>2 DEF RollbackAway
<1>4. job' = [job EXCEPT !.pc = IF file[job.u].old # Absent THEN "restore" ELSE "scraps"]
  BY DEF RollbackAway, File
<1>5. CASE file[job.u].old # Absent
  <2>1. job' \in Jobs /\ job'.pc = "restore" /\ job'.u = job.u /\ job'.j = job.j
        /\ job'.bad = job.bad
    BY <1>2, <1>4, <1>5 DEF Jobs, Places
  <2> QED
    BY <1>1, <1>2, <1>3, <1>5, <2>1, UndoGoes DEF Shape
<1>6. CASE file[job.u].old = Absent
  <2>1. job' \in Jobs /\ job'.pc = "scraps" /\ job'.u = job.u /\ job'.j = job.j
        /\ job'.bad = job.bad
    BY <1>2, <1>4, <1>6 DEF Jobs, Places
  <2> QED
    BY <1>1, <1>2, <1>3, <1>6, <2>1, UndoGoes DEF Shape
<1> QED
  BY <1>5, <1>6

\* The old program goes back, or that fails and is remembered.
LEMMA RollbackRestoreStep ==
    ASSUME Sound, RollbackRestore
    PROVE  Sound'
<1>1. job.pc = "restore" /\ UNCHANGED <<disk, window, quiet>>
  BY DEF RollbackRestore, At
<1>2. job \in Jobs /\ file \in Folders /\ job.u \in Units /\ Shape(job.u, disk.ver)
      /\ base # Absent /\ file[job.u].old = base
  BY <1>1, Undoing
<1>3. CASE file' = Renamed("old", "cur") /\ job' = [job EXCEPT !.pc = "scraps"]
  <2>1. job' \in Jobs /\ job'.pc = "scraps" /\ job'.u = job.u /\ job'.j = job.j
        /\ job'.bad = job.bad
    BY <1>2, <1>3 DEF Jobs, Places
  <2>2. Others(file') /\ file'[job.u].cur = base /\ file'[job.u].old = Absent
        /\ file'[job.u].new = file[job.u].new /\ file'[job.u].failed = file[job.u].failed
    BY <1>2, <1>3, OldToCur
  <2> QED
    BY <1>1, <1>2, <2>1, <2>2, UndoGoes DEF Shape
<1>4. CASE job' = [job EXCEPT !.pc = "putback", !.bad = TRUE] /\ UNCHANGED file
  <2>1. job' \in Jobs /\ job'.pc = "putback" /\ job'.u = job.u /\ job'.j = job.j
        /\ job'.bad = TRUE
    BY <1>2, <1>4 DEF Jobs, Places
  <2>2. Others(file')
    BY <1>2, <1>4 DEF Others
  <2> QED
    BY <1>1, <1>2, <1>4, <2>1, <2>2, UndoGoes DEF Shape
<1> QED
  BY <1>3, <1>4 DEF RollbackRestore

\* When the old program cannot go back, something runnable does; the old one stays where it is.
LEMMA RollbackPutBackStep ==
    ASSUME Sound, RollbackPutBack
    PROVE  Sound'
<1>1. job.pc = "putback" /\ UNCHANGED <<disk, window, quiet>> /\ job' = AfterUndo
  BY DEF RollbackPutBack, At
<1>2. job \in Jobs /\ file \in Folders /\ job.u \in Units /\ Shape(job.u, disk.ver)
      /\ job.j.names = Units /\ base # Absent /\ job.bad
  BY <1>1, Undoing
<1>3. /\ Others(file') /\ file'[job.u].old = file[job.u].old
      /\ file'[job.u].new = Absent
      /\ file'[job.u].failed \in {Absent, file[job.u].failed}
      /\ \/ file'[job.u].cur = file[job.u].cur
         \/ file[job.u].cur = Absent /\ file'[job.u].cur = file[job.u].failed
  <2>1. CASE file' = Removed({"new"})
    BY <1>2, <2>1, RemovedIs
  <2>2. CASE file' = [file EXCEPT ![job.u].new = Absent]
    BY <1>2, <2>2 DEF Others, Folders, Names, Absent
  <2>3. CASE /\ file[job.u].cur = Absent
             /\ file' = [Renamed("failed", "cur") EXCEPT ![job.u].new = Absent]
    <3> DEFINE f == Renamed("failed", "cur")
    <3>1. /\ Others(f) /\ f[job.u].old = file[job.u].old /\ f[job.u].failed = Absent
          /\ f[job.u].cur = file[job.u].failed
      BY <1>2, FailedToCur
    <3>2. file' = [f EXCEPT ![job.u].new = Absent]
      BY <2>3
    <3> HIDE DEF f
    <3>3. f \in Folders /\ \A w \in Units : w # job.u => f[w] = file[w]
      BY <3>1 DEF Others
    <3>4. /\ file' \in Folders /\ \A w \in Units : w # job.u => file'[w] = f[w]
          /\ file'[job.u].new = Absent /\ file'[job.u].cur = f[job.u].cur
          /\ file'[job.u].old = f[job.u].old /\ file'[job.u].failed = f[job.u].failed
      BY <1>2, <3>2, <3>3 DEF Folders, Names, Absent
    <3> QED
      BY <1>2, <2>3, <3>1, <3>3, <3>4 DEF Others
  <2> QED
    BY <2>1, <2>2, <2>3 DEF RollbackPutBack, File
<1>4. /\ job' \in Jobs /\ job'.j = job.j /\ job'.bad = job.bad
      /\ \/ job'.pc = "undo" /\ job'.u = job.u + 1 /\ job'.u \in Units
         \/ job'.pc = "undone" /\ job'.u = job.u /\ job.u = N
  BY <1>1, <1>2, AfterUndoIs
<1> QED
  BY <1>1, <1>2, <1>3, <1>4, UndoGoes DEF Shape

\* What the undo leaves behind is removed.
LEMMA RollbackScrapsStep ==
    ASSUME Sound, RollbackScraps
    PROVE  Sound'
<1>1. job.pc = "scraps" /\ UNCHANGED <<disk, window, quiet>> /\ job' = AfterUndo
  BY DEF RollbackScraps, At
<1>2. job \in Jobs /\ file \in Folders /\ job.u \in Units /\ Shape(job.u, disk.ver)
      /\ job.j.names = Units /\ base # Absent /\ (job.bad \/ file[job.u].cur = base)
  BY <1>1, Undoing
<1>3. PICK names \in SUBSET {"failed", "new"} : file' = Removed(names)
  BY DEF RollbackScraps
<1>4. /\ Others(file') /\ file'[job.u].old = file[job.u].old
      /\ file'[job.u].new \in {Absent, file[job.u].new}
      /\ file'[job.u].failed \in {Absent, file[job.u].failed}
      /\ file'[job.u].cur = file[job.u].cur
  BY <1>2, <1>3, RemovedIs
<1>5. /\ job' \in Jobs /\ job'.j = job.j /\ job'.bad = job.bad
      /\ \/ job'.pc = "undo" /\ job'.u = job.u + 1 /\ job'.u \in Units
         \/ job'.pc = "undone" /\ job'.u = job.u /\ job.u = N
  BY <1>1, <1>2, AfterUndoIs
<1> QED
  BY <1>1, <1>2, <1>4, <1>5, UndoGoes DEF Shape

\* The undo is over: every program is back, or the journal says that one is not.
LEMMA UndoneStep ==
    ASSUME Sound, Undone, ~Excused'
    PROVE  Sound'
<1>1. job.pc = "undone" /\ file' = file /\ base' = base /\ UNCHANGED quiet
      /\ disk' = Saved(IF job.bad THEN "RestoreFailed" ELSE "RolledBack")
  BY NoSaveFails DEF Undone, At, SaveOrNot, quiet
<1>2. job \in Jobs /\ job.j.names = Units /\ job.j.ver = disk.ver /\ Unaccepted /\ ~Closing
      /\ (job.bad \/ file[job.u].cur = base) /\ job.u = N
      /\ \A w \in Units : w < job.u => job.bad \/ file[w].cur = base
  BY <1>1, Undoing
<1>3. CASE job.bad
  <2>1. Return("Failed")
    BY <1>3 DEF Undone
  <2>2. disk' \in Journals /\ disk'.phase = "RestoreFailed" /\ disk'.ver = disk.ver
        /\ disk'.names = Units
    BY <1>1, <1>2, <1>3, SavedIs DEF Phases
  <2>3. Unaccepted'
    BY <1>1, <1>2, <2>2 DEF Unaccepted, Shape, AtRest, InSwap
  <2> QED
    BY <1>1, <1>2, <2>1, <2>2, <2>3, Returns
<1>4. CASE ~job.bad
  <2>1. Return("Ready") \/ Return("RolledBack")
    BY <1>4 DEF Undone
  <2>2. disk' \in Journals /\ disk'.phase = "RolledBack" /\ disk'.ver = disk.ver
        /\ disk'.names = Units
    BY <1>1, <1>2, <1>4, SavedIs DEF Phases
  <2>3. InPlace
    BY <1>1, <1>2, <1>4, AtWork DEF InPlace
  <2>4. Unaccepted' /\ disk'.phase \in AtRest
    BY <1>1, <1>2, <2>2, <2>3 DEF Unaccepted, Shape, InPlace, AtRest, InSwap
  <2> QED
    BY <1>1, <1>2, <2>1, <2>2, <2>4, Returns
<1> QED
  BY <1>3, <1>4
=============================================================================
