-------------------------- MODULE Installer_proofs --------------------------
(***************************************************************************)
(* Theorems about Installer for any number of jobs, contents and faults.   *)
(***************************************************************************)
EXTENDS Installer, TLAPS

\* What a job carries was confirmed; when its row says done, it says 100 percent.
JobOK(r, agreed) ==
  /\ r \in JobRow
  /\ r.art \in agreed \cup {None} /\ r.got \in agreed \cup {None}
  /\ r.status = "done" => r.progress = 100

\* Nothing comes to the disk or to the table that no job carries.
Inv ==
  /\ TypeOK /\ job \in [Jobs -> JobRow]
  /\ \A j \in Jobs : JobOK(job[j], confirmed)
  /\ OnlyConfirmed

\* The other conjuncts of TypeOK.
WorldOK ==
  /\ market \in Artifacts
  /\ dir \in [top : Contents \cup {Partial}, nested : Contents]
  /\ row \in Contents /\ removal \in {"none", "rows", "files"}
  /\ confirmed \subseteq Artifacts /\ history \subseteq Flags /\ faults \in 0..MaxFaults

\* A job at work carries a hash, and what it is about to move has it.
Carries ==
  \A j \in Jobs :
    /\ Busy(j) => job[j].art \in Artifacts
    /\ job[j].pc = "move" => job[j].got = job[j].art

\* No two operations have overlapped, and no removal was cut.
Orderly == {"overlap", "cut"} \cap history = {}

\* Operations then follow one another: a job moves only where nothing lies and records
\* what lies there, and a removal takes the row before the files.
OneAtWork ==
  /\ \A i, j \in Jobs : Busy(i) /\ Busy(j) => i = j
  /\ removal # "none" => \A j \in Jobs : ~Busy(j)

RecordFollowsFiles ==
  /\ dir.top \in Contents /\ (row # None => dir.top = row)
  /\ removal = "files" => row = None
  /\ \A j \in Jobs : /\ job[j].pc \in {"prepare", "move"} => dir.top = None
                     /\ job[j].pc = "record" => dir.top = job[j].art
  /\ history = {} => \/ dir.top \in {row, None} \/ removal = "files"
                     \/ \E j \in Jobs : job[j].pc = "record"

Tidy == Carries /\ (Orderly => OneAtWork /\ RecordFollowsFiles)

-----------------------------------------------------------------------------
(* Steps of one job *)

\* One job moves, others carry what they did.
LEMMA OneJobInv ==
  ASSUME Inv, NEW j \in Jobs, NEW new, JobOK(new, confirmed'),
         job' = [job EXCEPT ![j] = new], WorldOK', OnlyConfirmed', confirmed \subseteq confirmed'
  PROVE  Inv'
<1>1. job' \in [Jobs -> JobRow]
  BY DEF Inv, JobOK
<1>2. \A i \in Jobs : JobOK(job'[i], confirmed')
  BY DEF Inv, JobOK
<1> QED
  BY <1>1, <1>2 DEF Inv, TypeOK, WorldOK

LEMMA FreshJobOK ==
  ASSUME NEW act \in {"install", "upgrade"}, NEW upload \in BOOLEAN, NEW agreed,
         agreed \subseteq Artifacts, NEW a \in agreed
  PROVE  JobOK(NewJob("insert", act, upload, a), agreed)
BY DEF JobOK, NewJob, JobRow, Contents

\* A job that ends forgets what it carried.
LEMMA EndedOK ==
  ASSUME Inv, NEW j \in Jobs, NEW status \in {"none", "pending", "running", "done", "failed"},
         NEW progress \in {0, 50, 100}, status = "done" => progress = 100
  PROVE  JobOK(Ended(j, status, progress), confirmed)
<1>1. job[j].late \in BOOLEAN
  BY DEF Inv, JobRow
<1> QED
  BY <1>1 DEF JobOK, JobRow, Contents, Ended

\* A job goes on, to another point or with another status.
LEMMA MovedOK ==
  ASSUME Inv, NEW j \in Jobs, NEW new,
         new \in JobRow, new.art = job[j].art, new.got \in confirmed \cup {None},
         new.status = "done" => new.progress = 100
  PROVE  JobOK(new, confirmed)
BY DEF Inv, JobOK

\* The rows of jobs stay rows of jobs, one field at a time.
LEMMA RowFields ==
  ASSUME NEW r \in JobRow
  PROVE  /\ \A x \in {"mark", "begin", "move", "record"} : [r EXCEPT !.pc = x] \in JobRow
         /\ \A x \in {"none", "pending", "running"} : [r EXCEPT !.status = x] \in JobRow
         /\ [r EXCEPT !.progress = 50] \in JobRow
         /\ \A x \in Contents : [r EXCEPT !.got = x] \in JobRow
         /\ \A x \in BOOLEAN : [r EXCEPT !.late = x] \in JobRow
<1>1. \A x \in {"mark", "begin", "move", "record"} : [r EXCEPT !.pc = x] \in JobRow
  BY DEF JobRow
<1>2. \A x \in {"none", "pending", "running"} : [r EXCEPT !.status = x] \in JobRow
  BY DEF JobRow
<1>3. [r EXCEPT !.progress = 50] \in JobRow
  BY DEF JobRow
<1>4. \A x \in Contents : [r EXCEPT !.got = x] \in JobRow
  BY DEF JobRow
<1>5. \A x \in BOOLEAN : [r EXCEPT !.late = x] \in JobRow
  BY DEF JobRow
<1> QED
  BY <1>1, <1>2, <1>3, <1>4, <1>5

\* An update that is not late any more disturbs nothing.
LEMMA LateOK ==
  ASSUME NEW r, JobOK(r, confirmed)
  PROVE  JobOK([r EXCEPT !.late = FALSE], confirmed)
<1>1. r \in JobRow
  BY DEF JobOK
<1>2. [r EXCEPT !.late = FALSE] \in JobRow
  BY <1>1, RowFields
<1>3. /\ [r EXCEPT !.late = FALSE].art = r.art /\ [r EXCEPT !.late = FALSE].got = r.got
      /\ [r EXCEPT !.late = FALSE].status = r.status
      /\ [r EXCEPT !.late = FALSE].progress = r.progress
  BY <1>1 DEF JobRow
<1> QED
  BY <1>2, <1>3 DEF JobOK

LEMMA RequestInv ==
  ASSUME Inv, NEW j \in Jobs, NEW a \in Artifacts, NEW act \in {"install", "upgrade"},
         install(j, a, act) \/ install_offline(j, a)
  PROVE  Inv'
<1>1. /\ confirmed' = confirmed \cup {a} /\ UNCHANGED <<market, dir, row, removal, faults>>
      /\ history' = Overlapping
  BY DEF install, install_offline
<1>2. WorldOK' /\ OnlyConfirmed'
  BY <1>1 DEF Inv, TypeOK, WorldOK, OnlyConfirmed, Overlapping, Flags
<1>3. confirmed' \subseteq Artifacts /\ a \in confirmed'
  BY <1>1 DEF Inv, TypeOK
<1>4. CASE install(j, a, act)
  <2>1. job' = [job EXCEPT ![j] = NewJob("insert", act, FALSE, a)]
    BY <1>4 DEF install, Confirmed
  <2> QED
    BY <1>1, <1>2, <1>3, <2>1, FreshJobOK, OneJobInv
<1>5. CASE install_offline(j, a)
  <2>1. job' = [job EXCEPT ![j] = NewJob("insert", "install", TRUE, a)]
    BY <1>5 DEF install_offline
  <2> QED
    BY <1>1, <1>2, <1>3, <2>1, FreshJobOK, OneJobInv
<1> QED
  BY <1>4, <1>5

\* The steps of a job that change neither the disk nor the table.
LEMMA QuietJobInv ==
  ASSUME Inv, NEW j \in Jobs, NEW new, JobOK(new, confirmed), job' = [job EXCEPT ![j] = new],
         UNCHANGED <<market, dir, row, removal, confirmed>>,
         history' \subseteq Flags, faults' \in 0..MaxFaults
  PROVE  Inv'
<1>1. WorldOK' /\ OnlyConfirmed'
  BY DEF Inv, TypeOK, WorldOK, OnlyConfirmed
<1> QED
  BY <1>1, OneJobInv

LEMMA GotoInv ==
  ASSUME Inv, NEW j \in Jobs, Goto(j, "begin") \/ Goto(j, "prepare") \/ Goto(j, "record")
                              \/ Goto(j, "switch") \/ Goto(j, "finish") \/ Goto(j, "failing"),
         UNCHANGED <<market, dir, row, removal, confirmed>>,
         history' \subseteq Flags, faults' \in 0..MaxFaults
  PROVE  Inv'
<1>1. PICK pc \in {"begin", "prepare", "record", "switch", "finish", "failing"} :
        job' = [job EXCEPT ![j] = [job[j] EXCEPT !.pc = pc]]
  BY DEF Goto, Inv
<1>2. JobOK([job[j] EXCEPT !.pc = pc], confirmed)
  BY DEF Inv, JobOK, JobRow
<1> QED
  BY <1>1, <1>2, QuietJobInv

LEMMA EndInv ==
  ASSUME Inv, NEW j \in Jobs, NEW status \in {"none", "pending", "running", "done", "failed"},
         NEW progress \in {0, 50, 100}, status = "done" => progress = 100,
         End(j, status, progress), UNCHANGED <<market, dir, row, removal, confirmed>>,
         history' \subseteq Flags, faults' \in 0..MaxFaults
  PROVE  Inv'
<1>1. JobOK(Ended(j, status, progress), confirmed)
  BY EndedOK
<1>2. job' = [job EXCEPT ![j] = Ended(j, status, progress)]
  BY DEF End
<1> HIDE DEF Ended
<1> QED
  BY <1>1, <1>2, QuietJobInv

\* What lies on the disk, in the table and in the jobs has its type.
LEMMA JobsOK ==
  ASSUME Inv
  PROVE  /\ history \subseteq Flags /\ faults \in 0..MaxFaults
         /\ \A j \in Jobs : /\ job[j] \in JobRow /\ job[j].art \in confirmed \cup {None}
                            /\ job[j].got \in confirmed \cup {None}
                            /\ job[j].status = "done" => job[j].progress = 100
BY DEF Inv, JobOK, TypeOK

\* The steps that say something else about the job.
LEMMA StatusInv ==
  ASSUME Inv, NEW j \in Jobs, _insert_job(j) \/ MarkRunning(j) \/ _update_job_progress(j)
  PROVE  Inv'
<1>1. /\ UNCHANGED <<market, dir, row, removal, confirmed>>
      /\ history' \subseteq Flags /\ faults' \in 0..MaxFaults
  BY JobsOK DEF _insert_job, MarkRunning, _update_job_progress, jobFrame
<1>2. CASE _insert_job(j)
  <2>1. job' = [job EXCEPT ![j] = [job[j] EXCEPT !.pc = "mark", !.status = "pending"]]
    BY <1>2, JobsOK DEF _insert_job, Inv
  <2> DEFINE new == [job[j] EXCEPT !.pc = "mark", !.status = "pending"]
  <2>2. new = [[job[j] EXCEPT !.pc = "mark"] EXCEPT !.status = "pending"]
    OBVIOUS
  <2>3. new \in JobRow
    BY <2>2, JobsOK, RowFields
  <2>4. new.art = job[j].art /\ new.got = job[j].got /\ new.status = "pending"
    BY JobsOK DEF JobRow
  <2>5. JobOK(new, confirmed)
    BY <2>3, <2>4, JobsOK DEF JobOK
  <2> QED
    BY <1>1, <2>1, <2>5, QuietJobInv
<1>3. CASE MarkRunning(j)
  <2>1. job' = [job EXCEPT ![j] = [job[j] EXCEPT !.pc = "begin", !.status = "running"]]
    BY <1>3, JobsOK DEF MarkRunning, Inv
  <2> DEFINE new == [job[j] EXCEPT !.pc = "begin", !.status = "running"]
  <2>2. new = [[job[j] EXCEPT !.pc = "begin"] EXCEPT !.status = "running"]
    OBVIOUS
  <2>3. new \in JobRow
    BY <2>2, JobsOK, RowFields
  <2>4. new.art = job[j].art /\ new.got = job[j].got /\ new.status = "running"
    BY JobsOK DEF JobRow
  <2>5. JobOK(new, confirmed)
    BY <2>3, <2>4, JobsOK DEF JobOK
  <2> QED
    BY <1>1, <2>1, <2>5, QuietJobInv
<1>4. CASE _update_job_progress(j)
  <2>1. JobOK([job[j] EXCEPT !.late = FALSE], confirmed)
    BY LateOK, JobsOK DEF JobOK
  <2>2. CASE StillRunning(j)
    <3> DEFINE new == [[job[j] EXCEPT !.late = FALSE] EXCEPT !.progress = 50]
    <3>1. job' = [job EXCEPT ![j] = new]
      <4>1. job' = [job EXCEPT ![j] = [job[j] EXCEPT !.late = FALSE, !.progress = 50]]
        BY <1>4, <2>2, JobsOK DEF _update_job_progress, Inv
      <4>2. [job[j] EXCEPT !.late = FALSE, !.progress = 50] = new
        OBVIOUS
      <4> QED
        BY <4>1, <4>2
    <3>2. new \in JobRow
      BY <2>1, RowFields DEF JobOK
    <3>3. new.art = job[j].art /\ new.got = job[j].got /\ new.status = job[j].status
      BY JobsOK DEF JobRow
    <3>4. JobOK(new, confirmed)
      BY <2>2, <3>2, <3>3, JobsOK DEF JobOK, StillRunning
    <3> QED
      BY <1>1, <3>1, <3>4, QuietJobInv
  <2>3. CASE ~StillRunning(j)
    <3>1. job' = [job EXCEPT ![j] = [job[j] EXCEPT !.late = FALSE]]
      <4>1. job' = [job EXCEPT ![j] = [job[j] EXCEPT !.late = FALSE, !.progress = job[j].progress]]
        BY <1>4, <2>3, JobsOK DEF _update_job_progress, Inv
      <4>2. [job[j] EXCEPT !.late = FALSE, !.progress = job[j].progress]
              = [job[j] EXCEPT !.late = FALSE]
        BY JobsOK DEF JobRow
      <4> QED
        BY <4>1, <4>2
    <3> QED
      BY <1>1, <2>1, <3>1, QuietJobInv
  <2> QED
    BY <2>2, <2>3
<1> QED
  BY <1>2, <1>3, <1>4

LEMMA InstallInv ==
  ASSUME Inv, NEW j \in Jobs, NEW got \in Artifacts, _install(j, got)
  PROVE  Inv'
<1>1. /\ UNCHANGED <<market, dir, row, removal, confirmed>>
      /\ history' \subseteq Flags /\ faults' \in 0..MaxFaults
  BY JobsOK DEF _install, jobFrame
<1>2. CASE Goto(j, "failing")
  BY <1>1, <1>2, GotoInv
<1>3. CASE /\ HashMatches(j, got)
           /\ job' = [job EXCEPT ![j].pc = "move", ![j].got = got, ![j].late = TRUE]
  <2>1. job' = [job EXCEPT ![j] = [job[j] EXCEPT !.pc = "move", !.got = got, !.late = TRUE]]
    BY <1>3, JobsOK DEF Inv
  <2> DEFINE new == [job[j] EXCEPT !.pc = "move", !.got = got, !.late = TRUE]
  <2>2. new = [[[job[j] EXCEPT !.pc = "move"] EXCEPT !.got = got] EXCEPT !.late = TRUE]
    OBVIOUS
  <2>3. new \in JobRow
    BY <2>2, JobsOK, RowFields DEF Contents
  <2>4. /\ new.art = job[j].art /\ new.got = got
        /\ new.status = job[j].status /\ new.progress = job[j].progress
    BY JobsOK DEF JobRow
  <2>5. JobOK(new, confirmed)
    BY <1>3, <2>3, <2>4, JobsOK DEF JobOK, HashMatches
  <2> QED
    BY <1>1, <2>1, <2>5, QuietJobInv
<1> QED
  BY <1>2, <1>3 DEF _install

LEMMA MovedDir ==
  ASSUME Inv, NEW what \in confirmed \cup {None}
  PROVE  /\ Moved(what) \in [top : Contents \cup {Partial}, nested : Contents]
         /\ {Moved(what).top, Moved(what).nested} \subseteq confirmed \cup {None, Partial}
<1>1. what \in Contents
  BY DEF Inv, TypeOK, Contents
<1>2. dir \in [top : Contents \cup {Partial}, nested : Contents]
  BY DEF Inv, TypeOK
<1>3. CASE dir.top = None
  <2>1. Moved(what) = [dir EXCEPT !.top = what]
    BY <1>3 DEF Moved
  <2> QED
    BY <1>1, <1>2, <2>1 DEF Inv, OnlyConfirmed
<1>4. CASE dir.top # None
  <2>1. Moved(what) = [dir EXCEPT !.nested = what]
    BY <1>4 DEF Moved
  <2> QED
    BY <1>1, <1>2, <2>1 DEF Inv, OnlyConfirmed
<1> QED
  BY <1>3, <1>4

LEMMA MoveInv ==
  ASSUME Inv, NEW j \in Jobs, Move(j)
  PROVE  Inv'
<1>1. /\ UNCHANGED <<market, row, removal, confirmed>>
      /\ history' \subseteq Flags /\ faults' \in 0..MaxFaults
  BY JobsOK DEF Move, jobFrame
<1>2. CASE Free
  <2>1. dir' = Moved(job[j].got)
    BY <1>2 DEF Move
  <2>2. /\ dir' \in [top : Contents \cup {Partial}, nested : Contents]
        /\ {dir'.top, dir'.nested} \subseteq confirmed \cup {None, Partial}
    BY <2>1, JobsOK, MovedDir
  <2>3. WorldOK' /\ OnlyConfirmed'
    BY <1>1, <2>2 DEF Inv, TypeOK, WorldOK, OnlyConfirmed
  <2>4. job' = [job EXCEPT ![j] = [job[j] EXCEPT !.pc = "record"]]
    BY <1>2 DEF Move, Goto, Inv
  <2>5. JobOK([job[j] EXCEPT !.pc = "record"], confirmed')
    BY <1>1, JobsOK DEF JobOK, JobRow
  <2> QED
    BY <1>1, <2>3, <2>4, <2>5, OneJobInv
<1>3. CASE ~Free
  BY <1>1, <1>3, GotoInv DEF Move
<1> QED
  BY <1>2, <1>3

LEMMA RecordInv ==
  ASSUME Inv, NEW j \in Jobs, _record_installed(j)
  PROVE  Inv'
<1>1. /\ UNCHANGED <<market, dir, removal, confirmed>> /\ row' = job[j].art
      /\ history' \subseteq Flags /\ faults' \in 0..MaxFaults
  BY JobsOK DEF _record_installed, jobFrame
<1>2. WorldOK' /\ OnlyConfirmed'
  BY <1>1, JobsOK DEF Inv, TypeOK, WorldOK, OnlyConfirmed, Contents
<1>3. PICK pc \in {"switch", "finish"} : job' = [job EXCEPT ![j] = [job[j] EXCEPT !.pc = pc]]
  BY DEF _record_installed, Goto, Inv
<1>4. JobOK([job[j] EXCEPT !.pc = pc], confirmed')
  BY <1>1, JobsOK DEF JobOK, JobRow
<1> QED
  BY <1>1, <1>2, <1>3, <1>4, OneJobInv

-----------------------------------------------------------------------------
(* Removal and failures *)

\* Every job changes by itself, as a crash, a shutdown or a removal make it.
LEMMA AllJobsInv ==
  ASSUME Inv, job' = [j \in Jobs |-> job'[j]], \A j \in Jobs : JobOK(job'[j], confirmed),
         WorldOK', OnlyConfirmed', confirmed' = confirmed
  PROVE  Inv'
<1>1. \A j \in Jobs : job'[j] \in JobRow
  BY DEF JobOK
<1>2. job' \in [Jobs -> JobRow]
  BY <1>1
<1> QED
  BY <1>2 DEF Inv, TypeOK, WorldOK

LEMMA OverOK ==
  ASSUME Inv, NEW j \in Jobs, NEW status \in {job[j].status, "none", "failed"}
  PROVE  JobOK(Over(j, status), confirmed)
<1>1. CASE Busy(j)
  <2>1. JobOK(Ended(j, status, job[j].progress), confirmed)
    BY JobsOK, EndedOK DEF JobRow
  <2>2. Over(j, status) = [Ended(j, status, job[j].progress) EXCEPT !.late = FALSE]
    BY <1>1 DEF Over
  <2> HIDE DEF Ended
  <2> QED
    BY <2>1, <2>2, LateOK
<1>2. CASE ~Busy(j)
  <2>1. JobOK([job[j] EXCEPT !.late = FALSE], confirmed)
    BY LateOK, JobsOK DEF JobOK
  <2> QED
    BY <1>2, <2>1 DEF Over
<1> QED
  BY <1>1, <1>2

LEMMA RemovalInv ==
  ASSUME Inv, uninstall \/ _delete_plugin \/ RemoveFiles
  PROVE  Inv'
<1>1. CASE uninstall
  BY <1>1 DEF uninstall, Inv, TypeOK, OnlyConfirmed, Overlapping, Flags
<1>2. CASE RemoveFiles
  BY <1>2 DEF RemoveFiles, Inv, TypeOK, OnlyConfirmed, NoFiles, Contents
<1>3. CASE _delete_plugin
  <2> DEFINE new(j) == IF job[j].status \in {"done", "failed"}
                         THEN [job[j] EXCEPT !.status = "none"] ELSE job[j]
  <2>1. ASSUME NEW j \in Jobs
        PROVE  JobOK(new(j), confirmed)
    <3>1. JobOK([job[j] EXCEPT !.status = "none"], confirmed)
      BY JobsOK DEF JobOK, JobRow
    <3>2. JobOK(job[j], confirmed)
      BY JobsOK DEF JobOK
    <3> QED
      BY <3>1, <3>2
  <2>2. WorldOK' /\ OnlyConfirmed' /\ confirmed' = confirmed
    BY <1>3 DEF _delete_plugin, Inv, TypeOK, WorldOK, OnlyConfirmed, Contents
  <2>3. job' = [j \in Jobs |-> new(j)]
    BY <1>3 DEF _delete_plugin
  <2> HIDE DEF new
  <2> QED
    BY <2>1, <2>2, <2>3, AllJobsInv
<1> QED
  BY <1>1, <1>2, <1>3

LEMMA FaultCounted ==
  ASSUME InstallerAssumption, Inv, Fault
  PROVE  faults' \in 0..MaxFaults
BY DEF InstallerAssumption, Inv, TypeOK, Fault

LEMMA BrokenFlags ==
  ASSUME Inv
  PROVE  Broken \subseteq Flags
BY DEF Inv, TypeOK, Broken, Flags

LEMMA DbFailsInv ==
  ASSUME InstallerAssumption, Inv, NEW j \in Jobs, DbFails(j)
  PROVE  Inv'
<1>1. /\ UNCHANGED <<market, dir, row, removal, confirmed>>
      /\ history' \subseteq Flags /\ faults' \in 0..MaxFaults
  BY FaultCounted, JobsOK DEF DbFails, Flags
<1>2. CASE Goto(j, "failing")
  BY <1>1, <1>2, GotoInv
<1>3. CASE End(j, job[j].status, job[j].progress)
  BY <1>1, <1>3, EndInv, JobsOK DEF JobRow
<1> QED
  BY <1>2, <1>3 DEF DbFails

LEMMA CrashInv ==
  ASSUME InstallerAssumption, Inv, Crash
  PROVE  Inv'
<1>1. dir' \in [top : Contents \cup {Partial}, nested : Contents]
      /\ {dir'.top, dir'.nested} \subseteq {dir.top, dir.nested, None, Partial}
  BY DEF Crash, NoFiles, Inv, TypeOK, Contents
<1>2. WorldOK' /\ OnlyConfirmed' /\ confirmed' = confirmed
  BY <1>1, FaultCounted, BrokenFlags DEF Crash, Inv, TypeOK, WorldOK, OnlyConfirmed
<1>3. \A j \in Jobs : JobOK(Over(j, job[j].status), confirmed)
  BY OverOK
<1>4. job' = [j \in Jobs |-> Over(j, job[j].status)]
  BY DEF Crash
<1> HIDE DEF Over
<1> QED
  BY <1>2, <1>3, <1>4, AllJobsInv

LEMMA StopInv ==
  ASSUME InstallerAssumption, Inv, stop
  PROVE  Inv'
<1> DEFINE new(j) == IF job[j].status = "none" THEN Over(j, "none") ELSE Over(j, "failed")
<1>1. /\ dir' \in [top : Contents \cup {Partial}, nested : Contents]
      /\ {dir'.top, dir'.nested} \subseteq confirmed \cup {None, Partial}
  <2>1. CASE UNCHANGED dir
    BY <2>1 DEF Inv, TypeOK, OnlyConfirmed
  <2>2. CASE \E j \in Jobs : job[j].pc = "move" /\ Free /\ dir' = Moved(job[j].got)
    BY <2>2, JobsOK, MovedDir
  <2> QED
    BY <2>1, <2>2 DEF stop
<1>2. WorldOK' /\ OnlyConfirmed' /\ confirmed' = confirmed
  BY <1>1, FaultCounted, BrokenFlags DEF stop, Inv, TypeOK, WorldOK, OnlyConfirmed
<1>3. \A j \in Jobs : JobOK(new(j), confirmed)
  BY OverOK
<1>4. job' = [j \in Jobs |-> new(j)]
  BY DEF stop
<1> HIDE DEF new
<1> QED
  BY <1>2, <1>3, <1>4, AllJobsInv

-----------------------------------------------------------------------------
LEMMA Initially ==
  ASSUME InstallerAssumption, Init
  PROVE  Inv
<1>1. \A j \in Jobs : JobOK(NewJob("idle", "install", FALSE, None), {})
  BY DEF JobOK, NewJob, JobRow, Contents
<1>2. \A j \in Jobs : JobOK(job[j], confirmed) /\ job[j] \in JobRow
  BY <1>1 DEF Init, JobOK
<1>3. job \in [Jobs -> JobRow]
  BY <1>2 DEF Init
<1>4. dir = NoFiles /\ NoFiles \in [top : Contents \cup {Partial}, nested : Contents]
  BY DEF Init, NoFiles, Contents
<1>5. TypeOK
  <2>1. market \in Artifacts /\ removal \in {"none", "rows", "files"}
    BY DEF Init
  <2>2. row \in Contents /\ confirmed \subseteq Artifacts /\ history \subseteq Flags
    BY DEF Init, Contents
  <2>3. faults \in 0..MaxFaults
    BY DEF Init, InstallerAssumption
  <2> QED
    BY <1>3, <1>4, <2>1, <2>2, <2>3 DEF TypeOK
<1>6. OnlyConfirmed
  BY DEF Init, NoFiles, OnlyConfirmed
<1> QED
  BY <1>2, <1>3, <1>5, <1>6 DEF Inv

LEMMA JobStepInv ==
  ASSUME InstallerAssumption, Inv, NEW j \in Jobs, JobStep(j)
  PROVE  Inv'
<1>1. CASE _insert_job(j) \/ MarkRunning(j) \/ _update_job_progress(j)
  BY <1>1, StatusInv
<1>2. CASE run(j) \/ Switched(j)
  <2>1. /\ UNCHANGED <<market, dir, row, removal, confirmed>>
        /\ history' \subseteq Flags /\ faults' \in 0..MaxFaults
    BY <1>2, JobsOK DEF run, Switched, jobFrame
  <2>2. Goto(j, "prepare") \/ Goto(j, "record") \/ Goto(j, "finish") \/ Goto(j, "failing")
    BY <1>2 DEF run, Switched
  <2> QED
    BY <2>1, <2>2, GotoInv
<1>3. CASE MarkDone(j) \/ _fail_job(j)
  <2>1. /\ UNCHANGED <<market, dir, row, removal, confirmed>>
        /\ history' \subseteq Flags /\ faults' \in 0..MaxFaults
    BY <1>3, JobsOK DEF MarkDone, _fail_job, jobFrame
  <2>2. End(j, "done", 100) \/ End(j, "failed", job[j].progress)
    BY <1>3 DEF MarkDone, _fail_job
  <2> QED
    BY <2>1, <2>2, EndInv, JobsOK DEF JobRow
<1>4. CASE Move(j)
  BY <1>4, MoveInv
<1>5. CASE _record_installed(j)
  BY <1>5, RecordInv
<1>6. CASE DbFails(j)
  BY <1>6, DbFailsInv
<1>7. CASE \E got \in Artifacts : _install(j, got)
  BY <1>7, InstallInv
<1> QED
  BY <1>1, <1>2, <1>3, <1>4, <1>5, <1>6, <1>7 DEF JobStep

LEMMA StepInv ==
  ASSUME InstallerAssumption, Inv, [Next]_vars
  PROVE  Inv'
<1>1. CASE \E j \in Jobs, a \in Artifacts :
             install_offline(j, a) \/ \E act \in {"install", "upgrade"} : install(j, a, act)
  BY <1>1, RequestInv
<1>2. CASE \E j \in Jobs : JobStep(j)
  BY <1>2, JobStepInv
<1>3. CASE \E a \in Artifacts : Publish(a)
  BY <1>3 DEF Publish, Inv, TypeOK, OnlyConfirmed
<1>4. CASE uninstall \/ _delete_plugin \/ RemoveFiles
  BY <1>4, RemovalInv
<1>5. CASE Crash
  BY <1>5, CrashInv
<1>6. CASE stop
  BY <1>6, StopInv
<1>7. CASE UNCHANGED vars
  BY <1>7 DEF vars, Inv, TypeOK, OnlyConfirmed
<1> QED
  BY <1>1, <1>2, <1>3, <1>4, <1>5, <1>6, <1>7 DEF Next

LEMMA Always ==
  ASSUME InstallerAssumption
  PROVE  Spec => []Inv
<1>1. Init => Inv
  BY Initially
<1>2. Inv /\ [Next]_vars => Inv'
  BY StepInv
<1> QED
  BY <1>1, <1>2, PTL DEF Spec

\* Nothing but what an administrator agreed to comes to the version directory or to its
\* row, however many jobs overlap, whatever fails, and whatever index or bytes the market
\* serves: a job carries only the hash it was started for (Installer._install).
THEOREM ConfirmedOnly == Spec => []OnlyConfirmed
<1>1. Inv => OnlyConfirmed
  BY DEF Inv
<1> QED
  BY <1>1, InstallerAssumption, Always, PTL

\* A job whose row says done says 100 percent, although updates of its progress are
\* written late (PluginService._update_job_progress).
THEOREM DoneJobsAreComplete == Spec => []DoneIsComplete
<1>1. Inv => DoneIsComplete
  BY JobsOK DEF DoneIsComplete
<1> QED
  BY <1>1, InstallerAssumption, Always, PTL

-----------------------------------------------------------------------------
(* The row and the files *)

\* What a step of the job at work has to show.
LEMMA JobTidy ==
  ASSUME Tidy, NEW j \in Jobs, Busy(j), \A i \in Jobs : i # j => job'[i] = job[i],
         UNCHANGED removal, history \subseteq history',
         job'[j].pc \notin {"idle", "done"} => job'[j].art = job[j].art,
         job'[j].pc = "move" => job'[j].got = job[j].art,
         Orderly /\ RecordFollowsFiles =>
           /\ dir'.top \in Contents /\ (row' # None => dir'.top = row')
           /\ job'[j].pc \in {"prepare", "move"} => dir'.top = None
           /\ job'[j].pc = "record" => dir'.top = job'[j].art
           /\ history' = {} => dir'.top \in {row', None} \/ job'[j].pc = "record"
  PROVE  Tidy'
<1>1. Carries'
  BY DEF Tidy, Carries, Busy
<1>2. ASSUME Orderly' PROVE OneAtWork' /\ RecordFollowsFiles'
  <2>1. Orderly /\ OneAtWork /\ RecordFollowsFiles
    BY <1>2 DEF Tidy, Orderly
  <2>2. removal = "none" /\ \A i \in Jobs : i # j => ~Busy(i)
    <3>1. removal = "none"
      BY <2>1 DEF OneAtWork
    <3> QED
      BY <2>1, <3>1 DEF OneAtWork
  <2>3. \A i \in Jobs : i # j => job'[i].pc \in {"idle", "done"}
    BY <2>2 DEF Busy
  <2>4. OneAtWork'
    BY <2>2, <2>3 DEF OneAtWork, Busy
  <2>5. /\ dir'.top \in Contents /\ (row' # None => dir'.top = row')
        /\ job'[j].pc \in {"prepare", "move"} => dir'.top = None
        /\ job'[j].pc = "record" => dir'.top = job'[j].art
        /\ history' = {} => dir'.top \in {row', None} \/ job'[j].pc = "record"
    BY <2>1
  <2>6. \A i \in Jobs : /\ job'[i].pc \in {"prepare", "move"} => dir'.top = None
                        /\ job'[i].pc = "record" => dir'.top = job'[i].art
    <3> SUFFICES ASSUME NEW i \in Jobs
                 PROVE  /\ job'[i].pc \in {"prepare", "move"} => dir'.top = None
                        /\ job'[i].pc = "record" => dir'.top = job'[i].art
      OBVIOUS
    <3> QED
      BY <2>3, <2>5
  <2>7. removal' # "files"
    BY <2>2
  <2>8. history' = {} => dir'.top \in {row', None} \/ \E i \in Jobs : job'[i].pc = "record"
    BY <2>5
  <2>9. RecordFollowsFiles'
    BY <2>5, <2>6, <2>7, <2>8 DEF RecordFollowsFiles, Contents
  <2> QED
    BY <2>4, <2>9
<1> QED
  BY <1>1, <1>2 DEF Tidy

\* A step after which all jobs stand where they stood, or have ended.
LEMMA RestTidy ==
  ASSUME Tidy,
         \A j \in Jobs : \/ job'[j].pc = job[j].pc /\ job'[j].art = job[j].art /\ job'[j].got = job[j].got
                         \/ job'[j].pc = "done" /\ (job[j].pc = "record" => history' # {}),
         UNCHANGED <<dir, row>>, removal' \in {removal, "none"}, history \subseteq history',
         removal = "files" /\ removal' # "files" /\ Orderly' => history' # {} /\ row = None
  PROVE  Tidy'
<1>1. Carries'
  BY DEF Tidy, Carries, Busy
<1>2. ASSUME Orderly' PROVE OneAtWork' /\ RecordFollowsFiles'
  <2>1. Orderly /\ OneAtWork /\ RecordFollowsFiles
    BY <1>2 DEF Tidy, Orderly
  <2>2. OneAtWork'
    BY <2>1 DEF OneAtWork, Busy
  <2>3. dir' = dir /\ row' = row /\ (removal' = "files" => row = None)
    BY <2>1 DEF RecordFollowsFiles
  <2>4. \A j \in Jobs : /\ job'[j].pc \in {"prepare", "move"} => dir.top = None
                        /\ job'[j].pc = "record" => dir.top = job'[j].art
    BY <2>1 DEF RecordFollowsFiles
  <2>5. ASSUME history' = {}
        PROVE  \/ dir.top \in {row, None} \/ removal' = "files"
               \/ \E j \in Jobs : job'[j].pc = "record"
    <3>1. history = {} /\ ~(removal = "files" /\ removal' # "files")
      BY <1>2, <2>5
    <3>2. \A j \in Jobs : job[j].pc = "record" => job'[j].pc = "record"
      BY <2>5
    <3> QED
      BY <2>1, <3>1, <3>2 DEF RecordFollowsFiles
  <2>6. dir.top \in Contents /\ (row # None => dir.top = row)
    BY <2>1 DEF RecordFollowsFiles
  <2>7. RecordFollowsFiles'
    BY <2>3, <2>4, <2>5, <2>6 DEF RecordFollowsFiles, Contents
  <2> QED
    BY <2>2, <2>7
<1> QED
  BY <1>1, <1>2 DEF Tidy

LEMMA RequestTidy ==
  ASSUME Tidy, NEW j \in Jobs, NEW a \in Artifacts, NEW act \in {"install", "upgrade"},
         job \in [Jobs -> JobRow], market \in Artifacts,
         install(j, a, act) \/ install_offline(j, a)
  PROVE  Tidy'
<1>1. /\ UNCHANGED <<dir, row, removal>> /\ history' = Overlapping
      /\ job'[j].pc = "insert" /\ job'[j].art \in Artifacts
      /\ \A i \in Jobs : i # j => job'[i] = job[i]
  BY DEF install, install_offline, NewJob
<1>2. Carries'
  BY <1>1 DEF Tidy, Carries, Busy
<1>3. ASSUME Orderly' PROVE OneAtWork' /\ RecordFollowsFiles'
  <2>1. AtRest /\ history' = history /\ Orderly /\ RecordFollowsFiles
    BY <1>1, <1>3 DEF Orderly, Overlapping, Tidy
  <2>2. OneAtWork'
    BY <1>1, <2>1 DEF OneAtWork, AtRest, Busy
  <2>3. \A i \in Jobs : job[i].pc # "record" /\ (i # j => job'[i].pc \in {"idle", "done"})
    BY <1>1, <2>1 DEF AtRest, Busy
  <2> QED
    BY <1>1, <2>1, <2>2, <2>3 DEF RecordFollowsFiles, Contents
<1> QED
  BY <1>2, <1>3 DEF Tidy

\* The steps of a job that leave the files and their row alone.
LEMMA QuietTidy ==
  ASSUME Tidy, NEW j \in Jobs, Busy(j), \A i \in Jobs : i # j => job'[i] = job[i],
         UNCHANGED <<dir, row, removal>>, history \subseteq history',
         job'[j].pc \notin {"idle", "done"} => job'[j].art = job[j].art,
         job'[j].pc \notin {"prepare", "move", "record"},
         job[j].pc = "record" => history' # {}
  PROVE  Tidy'
<1>1. ASSUME Orderly, RecordFollowsFiles
      PROVE  history' = {} => dir.top \in {row, None}
  <2> SUFFICES ASSUME history' = {} PROVE dir.top \in {row, None}
    OBVIOUS
  <2>1. history = {} /\ OneAtWork /\ removal # "files" /\ \A i \in Jobs : job[i].pc # "record"
    BY <1>1 DEF Tidy, OneAtWork, Busy
  <2> QED
    BY <1>1, <2>1 DEF RecordFollowsFiles
<1>2. Orderly /\ RecordFollowsFiles => dir.top \in Contents /\ (row # None => dir.top = row)
  BY DEF RecordFollowsFiles
<1> QED
  BY <1>1, <1>2, JobTidy DEF Contents

LEMMA JobStepTidy ==
  ASSUME InstallerAssumption, Inv, Tidy, NEW j \in Jobs, JobStep(j)
  PROVE  Tidy'
<1>1. /\ job \in [Jobs -> JobRow] /\ row \in Contents
      /\ dir \in [top : Contents \cup {Partial}, nested : Contents]
  BY DEF Inv, TypeOK
<1>2. CASE _insert_job(j) \/ MarkRunning(j)
  <2>1. PICK k \in {"mark", "begin"}, s \in {"pending", "running"} :
          job' = [job EXCEPT ![j] = [[job[j] EXCEPT !.pc = k] EXCEPT !.status = s]]
    BY <1>1, <1>2 DEF _insert_job, MarkRunning
  <2> DEFINE r1 == [job[j] EXCEPT !.pc = k]
             r2 == [r1 EXCEPT !.status = s]
  <2>2. r1 \in JobRow /\ r1.pc = k /\ r1.art = job[j].art
    BY <1>1 DEF JobRow
  <2> HIDE DEF r1
  <2>3. r2.pc = k /\ r2.art = job[j].art
    BY <2>2 DEF JobRow
  <2> HIDE DEF r2
  <2>4. job'[j] = r2 /\ \A i \in Jobs : i # j => job'[i] = job[i]
    BY <1>1, <2>1 DEF r1, r2
  <2>5. UNCHANGED <<dir, row, removal, history>> /\ job[j].pc \in {"insert", "mark"}
    BY <1>2 DEF _insert_job, MarkRunning, jobFrame
  <2> QED
    BY <2>3, <2>4, <2>5, QuietTidy DEF Busy
<1>3. ASSUME NEW pc \in {"prepare", "record", "switch", "finish", "failing"}, Goto(j, pc)
      PROVE  /\ job'[j].pc = pc /\ job'[j].art = job[j].art /\ job'[j].got = job[j].got
             /\ \A i \in Jobs : i # j => job'[i] = job[i]
  BY <1>1, <1>3 DEF Goto, JobRow
<1>4. ASSUME NEW status, NEW progress, End(j, status, progress)
      PROVE  job'[j].pc = "done" /\ \A i \in Jobs : i # j => job'[i] = job[i]
  BY <1>1, <1>4 DEF End, Ended
<1>5. CASE run(j)
  <2>1. UNCHANGED <<dir, row, removal, history>> /\ job[j].pc = "begin" /\ Busy(j)
    BY <1>5 DEF run, jobFrame, Busy
  <2>2. Orderly /\ RecordFollowsFiles => dir.top \in Contents /\ (row # None => dir.top = row)
    BY DEF RecordFollowsFiles
  <2>3. CASE Goto(j, "failing")
    BY <1>3, <2>1, <2>3, QuietTidy
  <2>4. CASE Goto(j, "record") /\ dir.top \in Artifacts /\ row = job[j].art
    <3>1. job[j].art # None
      BY <2>1 DEF Tidy, Carries, InstallerAssumption
    <3>2. job'[j].pc = "record" /\ job'[j].art = job[j].art /\ \A i \in Jobs : i # j => job'[i] = job[i]
      BY <1>3, <2>4
    <3> QED
      BY <2>1, <2>2, <2>4, <3>1, <3>2, JobTidy
  <2>5. CASE Goto(j, "prepare") /\ dir.top \notin Artifacts
    <3>1. Orderly /\ RecordFollowsFiles => dir.top = None
      BY <2>2, <2>5 DEF Contents
    <3>2. job'[j].pc = "prepare" /\ job'[j].art = job[j].art /\ \A i \in Jobs : i # j => job'[i] = job[i]
      BY <1>3, <2>5
    <3> QED
      BY <2>1, <2>2, <3>1, <3>2, JobTidy
  <2> QED
    BY <1>5, <2>3, <2>4, <2>5 DEF run, _installed_hash
<1>6. CASE \E got \in Artifacts : _install(j, got)
  <2>1. PICK got \in Artifacts : _install(j, got)
    BY <1>6
  <2>2. UNCHANGED <<dir, row, removal, history>> /\ job[j].pc = "prepare" /\ Busy(j)
    BY <2>1 DEF _install, jobFrame, Busy
  <2>3. CASE Goto(j, "failing")
    BY <1>3, <2>2, <2>3, QuietTidy
  <2>4. CASE /\ got = job[j].art
             /\ job' = [job EXCEPT ![j].pc = "move", ![j].got = got, ![j].late = TRUE]
    <3> DEFINE r1 == [job[j] EXCEPT !.pc = "move"]
               r2 == [r1 EXCEPT !.got = got]
               r3 == [r2 EXCEPT !.late = TRUE]
    <3>1. job' = [job EXCEPT ![j] = r3]
      BY <1>1, <2>4
    <3>2. r1 \in JobRow /\ r1.pc = "move" /\ r1.art = job[j].art
      BY <1>1 DEF JobRow
    <3> HIDE DEF r1
    <3>3. r2 \in JobRow /\ r2.pc = "move" /\ r2.art = job[j].art /\ r2.got = got
      BY <3>2 DEF JobRow, Contents
    <3> HIDE DEF r2
    <3>4. r3.pc = "move" /\ r3.art = job[j].art /\ r3.got = got
      BY <3>3 DEF JobRow
    <3> HIDE DEF r3
    <3>5. job'[j] = r3 /\ \A i \in Jobs : i # j => job'[i] = job[i]
      BY <1>1, <3>1
    <3>6. Orderly /\ RecordFollowsFiles => dir.top = None /\ dir.top \in Contents /\ (row # None => dir.top = row)
      BY <2>2 DEF RecordFollowsFiles
    <3> QED
      BY <2>2, <2>4, <3>4, <3>5, <3>6, JobTidy
  <2> QED
    BY <2>1, <2>3, <2>4 DEF _install, HashMatches
<1>7. CASE Move(j)
  <2>1. UNCHANGED <<row, removal, history>> /\ job[j].pc = "move" /\ Busy(j)
    BY <1>7 DEF Move, jobFrame, Busy
  <2>2. CASE Free
    <3>1. dir' = Moved(job[j].got) /\ Goto(j, "record")
      BY <1>7, <2>2 DEF Move
    <3>2. job'[j].pc = "record" /\ job'[j].art = job[j].art /\ \A i \in Jobs : i # j => job'[i] = job[i]
      BY <1>3, <3>1
    <3>3. job[j].got = job[j].art /\ job[j].art \in Artifacts
      BY <2>1 DEF Tidy, Carries
    <3>4. ASSUME Orderly, RecordFollowsFiles
          PROVE  row = None /\ dir'.top = job[j].art /\ dir'.top \in Contents
      <4>1. dir.top = None /\ row = None
        BY <2>1, <3>4 DEF RecordFollowsFiles
      <4> QED
        BY <1>1, <3>1, <3>3, <4>1 DEF Moved, Contents
    <3> QED
      BY <2>1, <3>2, <3>4, JobTidy
  <2>3. CASE ~Free
    <3>1. UNCHANGED dir /\ Goto(j, "failing")
      BY <1>7, <2>3 DEF Move
    <3> QED
      BY <1>3, <2>1, <3>1, QuietTidy
  <2> QED
    BY <2>2, <2>3
<1>8. CASE _record_installed(j)
  <2>1. /\ UNCHANGED <<dir, removal, history>> /\ job[j].pc = "record" /\ row' = job[j].art /\ Busy(j)
        /\ Goto(j, "switch") \/ Goto(j, "finish")
    BY <1>8 DEF _record_installed, jobFrame, Busy
  <2>2. /\ job'[j].pc \in {"switch", "finish"} /\ job'[j].art = job[j].art
        /\ \A i \in Jobs : i # j => job'[i] = job[i]
    BY <1>3, <2>1
  <2>3. Orderly /\ RecordFollowsFiles => dir.top = job[j].art /\ dir.top \in Contents
    BY <2>1 DEF RecordFollowsFiles
  <2> QED
    BY <2>1, <2>2, <2>3, JobTidy
<1>9. CASE Switched(j)
  <2>1. /\ UNCHANGED <<dir, row, removal, history>> /\ job[j].pc = "switch" /\ Busy(j)
        /\ Goto(j, "finish") \/ Goto(j, "failing")
    BY <1>9 DEF Switched, jobFrame, Busy
  <2> QED
    BY <1>3, <2>1, QuietTidy
<1>10. CASE MarkDone(j) \/ _fail_job(j)
  <2>1. /\ UNCHANGED <<dir, row, removal, history>> /\ job[j].pc \in {"finish", "failing"} /\ Busy(j)
        /\ End(j, "done", 100) \/ End(j, "failed", job[j].progress)
    BY <1>10 DEF MarkDone, _fail_job, jobFrame, Busy
  <2> QED
    BY <1>4, <2>1, QuietTidy
<1>11. CASE DbFails(j)
  <2>1. /\ UNCHANGED <<dir, row, removal>> /\ Busy(j) /\ history \subseteq history' /\ history' # {}
        /\ Goto(j, "failing") \/ End(j, job[j].status, job[j].progress)
    BY <1>11 DEF DbFails, Busy
  <2> QED
    BY <1>3, <1>4, <2>1, QuietTidy
<1>12. CASE _update_job_progress(j)
  <2> DEFINE p  == IF StillRunning(j) THEN 50 ELSE job[j].progress
             r1 == [job[j] EXCEPT !.late = FALSE]
             r2 == [r1 EXCEPT !.progress = p]
  <2>1. job' = [job EXCEPT ![j] = r2] /\ UNCHANGED <<dir, row, removal, history>>
    BY <1>1, <1>12 DEF _update_job_progress, jobFrame
  <2>2. r1 \in JobRow /\ r1.pc = job[j].pc /\ r1.art = job[j].art /\ r1.got = job[j].got
    <3>1. job[j] \in JobRow /\ r1 \in JobRow
      BY <1>1, RowFields
    <3> HIDE DEF p
    <3> QED
      BY <3>1 DEF JobRow
  <2> HIDE DEF r1, p
  <2>3. r2.pc = job[j].pc /\ r2.art = job[j].art /\ r2.got = job[j].got
    BY <2>2 DEF JobRow
  <2> HIDE DEF r2
  <2>4. \A i \in Jobs : job'[i].pc = job[i].pc /\ job'[i].art = job[i].art /\ job'[i].got = job[i].got
    BY <1>1, <2>1, <2>3
  <2> QED
    BY <2>1, <2>4, RestTidy
<1> QED
  BY <1>2, <1>5, <1>6, <1>7, <1>8, <1>9, <1>10, <1>11, <1>12 DEF JobStep

\* Jobs that a crash or a shutdown ends.
LEMMA OverTidy ==
  ASSUME job \in [Jobs -> JobRow], NEW j \in Jobs, NEW status, NEW new, new = Over(j, status)
  PROVE  \/ new.pc = job[j].pc /\ new.art = job[j].art /\ new.got = job[j].got /\ ~Busy(j)
         \/ new.pc = "done" /\ Busy(j)
<1>1. CASE Busy(j)
  BY <1>1 DEF Over, Ended
<1>2. CASE ~Busy(j)
  BY <1>2 DEF Over, JobRow
<1> QED
  BY <1>1, <1>2

LEMMA WorldTidy ==
  ASSUME InstallerAssumption, Inv, Tidy,
         \/ \E a \in Artifacts : Publish(a)
         \/ uninstall \/ _delete_plugin \/ RemoveFiles \/ Crash \/ stop
  PROVE  Tidy'
<1>1. /\ job \in [Jobs -> JobRow] /\ row \in Contents /\ removal \in {"none", "rows", "files"}
      /\ dir \in [top : Contents \cup {Partial}, nested : Contents]
  BY DEF Inv, TypeOK
<1>2. CASE \E a \in Artifacts : Publish(a)
  BY <1>2, RestTidy DEF Publish
<1>3. CASE uninstall
  <2>1. UNCHANGED <<dir, row, job>> /\ removal = "none" /\ removal' = "rows" /\ history' = Overlapping
    BY <1>3 DEF uninstall
  <2>2. Carries'
    BY <2>1 DEF Tidy, Carries, Busy
  <2>3. ASSUME Orderly' PROVE OneAtWork' /\ RecordFollowsFiles'
    <3>1. AtRest /\ history' = history /\ Orderly /\ RecordFollowsFiles
      BY <2>1, <2>3 DEF Orderly, Overlapping, Tidy
    <3> QED
      BY <2>1, <3>1 DEF OneAtWork, RecordFollowsFiles, AtRest, Busy, Contents
  <2> QED
    BY <2>2, <2>3 DEF Tidy
<1>4. CASE _delete_plugin
  <2>1. /\ UNCHANGED <<dir, history>> /\ removal = "rows" /\ removal' = "files" /\ row' = None
    BY <1>4 DEF _delete_plugin
  <2>2. \A i \in Jobs : job'[i].pc = job[i].pc /\ job'[i].art = job[i].art /\ job'[i].got = job[i].got
    BY <1>1, <1>4 DEF _delete_plugin, JobRow
  <2>3. Carries'
    BY <2>2 DEF Tidy, Carries, Busy
  <2>4. ASSUME Orderly' PROVE OneAtWork' /\ RecordFollowsFiles'
    <3>1. Orderly /\ OneAtWork /\ RecordFollowsFiles
      BY <2>1, <2>4 DEF Orderly, Tidy
    <3> QED
      BY <2>1, <2>2, <3>1 DEF OneAtWork, RecordFollowsFiles, Busy, Contents
  <2> QED
    BY <2>3, <2>4 DEF Tidy
<1>5. CASE RemoveFiles
  <2>1. /\ UNCHANGED <<row, job, history>> /\ removal = "files" /\ removal' = "none"
        /\ dir'.top = None
    BY <1>5 DEF RemoveFiles, NoFiles
  <2>2. Carries'
    BY <2>1 DEF Tidy, Carries, Busy
  <2>3. ASSUME Orderly' PROVE OneAtWork' /\ RecordFollowsFiles'
    <3>1. Orderly /\ OneAtWork /\ RecordFollowsFiles
      BY <2>1, <2>3 DEF Orderly, Tidy
    <3> QED
      BY <2>1, <3>1 DEF OneAtWork, RecordFollowsFiles, Busy, Contents
  <2> QED
    BY <2>2, <2>3 DEF Tidy
<1>6. \A j \in Jobs : job[j].pc = "record" => ~AtRest
  BY DEF AtRest, Busy
<1>7. /\ history \subseteq Broken /\ (~AtRest => "broken" \in Broken)
      /\ removal = "files" => "cut" \in Broken
  BY DEF Broken
<1>8. CASE Crash
  <2>1. /\ job' = [j \in Jobs |-> Over(j, job[j].status)] /\ removal' = "none"
        /\ UNCHANGED row /\ history' = Broken /\ (removal # "files" => UNCHANGED dir)
    BY <1>8 DEF Crash
  <2>2. \A j \in Jobs :
          \/ job'[j].pc = job[j].pc /\ job'[j].art = job[j].art /\ job'[j].got = job[j].got
          \/ job'[j].pc = "done" /\ (job[j].pc = "record" => history' # {})
    BY <1>1, <1>6, <1>7, <2>1, OverTidy
  <2>3. CASE removal # "files"
    BY <1>7, <2>1, <2>2, <2>3, RestTidy
  <2>4. CASE removal = "files"
    <3>1. Carries'
      BY <2>2 DEF Tidy, Carries, Busy
    <3>2. ~Orderly'
      BY <1>7, <2>1, <2>4 DEF Orderly
    <3> QED
      BY <3>1, <3>2 DEF Tidy
  <2> QED
    BY <2>3, <2>4
<1>9. CASE stop
  <2>1. /\ removal = "none" /\ UNCHANGED <<row, removal>> /\ history' = Broken
        /\ \/ UNCHANGED dir
           \/ \E j \in Jobs : job[j].pc = "move" /\ dir' = Moved(job[j].got)
    BY <1>9 DEF stop
  <2>2. \A j \in Jobs : \E status : job'[j] = Over(j, status)
    BY <1>9 DEF stop
  <2>3. \A j \in Jobs :
          \/ job'[j].pc = job[j].pc /\ job'[j].art = job[j].art /\ job'[j].got = job[j].got /\ ~Busy(j)
          \/ job'[j].pc = "done" /\ Busy(j)
    BY <1>1, <2>2, OverTidy
  <2>4. CASE UNCHANGED dir
    BY <1>6, <1>7, <2>1, <2>3, <2>4, RestTidy
  <2>5. CASE \E j \in Jobs : job[j].pc = "move" /\ dir' = Moved(job[j].got)
    <3>1. PICK j \in Jobs : job[j].pc = "move" /\ dir' = Moved(job[j].got)
      BY <2>5
    <3>2. job[j].got \in Artifacts /\ ~AtRest
      BY <3>1 DEF Tidy, Carries, AtRest, Busy
    <3>3. Carries'
      BY <2>3 DEF Tidy, Carries, Busy
    <3>4. ASSUME Orderly' PROVE OneAtWork' /\ RecordFollowsFiles'
      <4>1. Orderly /\ RecordFollowsFiles
        BY <1>7, <2>1, <3>4 DEF Orderly, Tidy
      <4>2. dir.top = None /\ row = None
        BY <3>1, <4>1 DEF RecordFollowsFiles
      <4>3. dir'.top \in Contents
        BY <1>1, <3>1, <3>2, <4>2 DEF Moved, Contents
      <4>4. \A i \in Jobs : job'[i].pc \in {"idle", "done"}
        BY <2>3 DEF Busy
      <4>5. history' # {}
        BY <1>7, <2>1, <3>2
      <4> QED
        BY <2>1, <4>2, <4>3, <4>4, <4>5 DEF OneAtWork, RecordFollowsFiles, Busy, Contents
    <3> QED
      BY <3>3, <3>4 DEF Tidy
  <2> QED
    BY <2>1, <2>4, <2>5
<1> QED
  BY <1>2, <1>3, <1>4, <1>5, <1>8, <1>9

LEMMA TidyKept ==
  ASSUME InstallerAssumption, Inv, Tidy, [Next]_vars
  PROVE  Tidy'
<1>1. job \in [Jobs -> JobRow] /\ market \in Artifacts
  BY DEF Inv, TypeOK
<1>2. CASE \E j \in Jobs, a \in Artifacts :
             install_offline(j, a) \/ \E act \in {"install", "upgrade"} : install(j, a, act)
  <2>1. PICK j \in Jobs, a \in Artifacts, act \in {"install", "upgrade"} :
          install(j, a, act) \/ install_offline(j, a)
    BY <1>2
  <2> QED
    BY <1>1, <2>1, RequestTidy
<1>3. CASE \E j \in Jobs : JobStep(j)
  BY <1>3, JobStepTidy
<1>4. CASE UNCHANGED vars
  BY <1>4, RestTidy DEF vars
<1> QED
  BY <1>2, <1>3, <1>4, WorldTidy DEF Next

LEMMA TidyBegins ==
  ASSUME Init
  PROVE  Tidy
<1>1. \A j \in Jobs : job[j].pc = "idle"
  BY DEF Init, NewJob
<1> QED
  BY <1>1 DEF Init, Tidy, Carries, OneAtWork, RecordFollowsFiles, Busy, NoFiles, Contents

LEMMA TidyIsRecorded ==
  ASSUME Tidy
  PROVE  InstalledIsRecorded
<1> SUFFICES ASSUME AtRest, {"overlap", "cut"} \cap history = {}
             PROVE  /\ row # None => dir.top = row
                    /\ history = {} => dir.top \in {row, None}
  BY DEF InstalledIsRecorded
<1>1. RecordFollowsFiles
  BY DEF Tidy, Orderly
<1>2. removal = "none" /\ \A j \in Jobs : job[j].pc # "record"
  BY DEF AtRest, Busy
<1> QED
  BY <1>1, <1>2 DEF RecordFollowsFiles

\* Operations that follow one another leave a row that names what is on disk, also if
\* the gateway died between the move and the row: a job that finds a manifest without its
\* row fails (Installer.run), and a removal takes the row first (PluginService.uninstall).
THEOREM InstallationsAreRecorded == Spec => []InstalledIsRecorded
<1>1. Init => Inv /\ Tidy
  BY InstallerAssumption, Initially, TidyBegins
<1>2. Inv /\ Tidy /\ [Next]_vars => (Inv /\ Tidy)'
  BY InstallerAssumption, StepInv, TidyKept
<1> QED
  BY <1>1, <1>2, TidyIsRecorded, PTL DEF Spec

=============================================================================
