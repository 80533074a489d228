----------------------------- MODULE Installer -----------------------------
(***************************************************************************)
(* Installation of one version of a plugin (app/plugins/installer.py,      *)
(* app/plugins/market.py and the jobs of app/plugins/service.py): an       *)
(* artifact from the market or from an upload is unpacked aside, moved to  *)
(* its place and then recorded. Jobs and an uninstallation may overlap;    *)
(* the gateway may die, or stop, anywhere.                                 *)
(***************************************************************************)
EXTENDS Integers, FiniteSets

CONSTANTS
  Jobs,
  Artifacts,   \* contents of the version, named by their sha256
  None,
  Partial,     \* a version directory without its manifest.json
  MaxFaults    \* bound on crashes, shutdowns and failing transactions

ASSUME InstallerAssumption ==
  /\ None \notin Artifacts \cup {Partial} /\ Partial \notin Artifacts
  /\ MaxFaults \in Nat

VARIABLES
  market,      \* the hash in the signed index
  dir,         \* the version directory, and what was moved into it as "unpacked"
  row,         \* plugin_versions.artifact_hash, None without a row
  job,         \* the jobs: PluginService.jobs and the table plugin_jobs
  removal,     \* where uninstall stands
  confirmed,   \* history: the hashes administrators agreed to
  history,     \* history: what happened so far, see Flags
  faults

vars == <<market, dir, row, job, removal, confirmed, history, faults>>

Contents == Artifacts \cup {None}

\* got: what lies in the staging directory; late: an update of the progress is not yet
\* written. 0 stands for 1, too, 50 for all between; the update to 100 shows nothing new.
JobRow == [pc : {"idle", "insert", "mark", "begin", "prepare", "move", "record", "switch",
                 "finish", "failing", "done"},
           act : {"install", "upgrade"}, upload : BOOLEAN, art : Contents, got : Contents,
           status : {"none", "pending", "running", "done", "failed"},
           progress : {0, 50, 100}, late : BOOLEAN]

\* overlap: two operations at once; broken: one was stopped or failed in a
\* transaction; cut: the removal of the files was.
Flags == {"overlap", "broken", "cut"}

TypeOK ==
  /\ market \in Artifacts
  /\ dir \in [top : Contents \cup {Partial}, nested : Contents]
  /\ row \in Contents
  /\ job \in [Jobs -> JobRow]
  /\ removal \in {"none", "rows", "files"}
  /\ confirmed \subseteq Artifacts /\ history \subseteq Flags
  /\ faults \in 0..MaxFaults

-----------------------------------------------------------------------------
Busy(j)  == job[j].pc \notin {"idle", "done"}
AtRest   == removal = "none" /\ \A j \in Jobs : ~Busy(j)
NoFiles  == [top |-> None, nested |-> None]

NewJob(pc, act, upload, art) ==
  [pc |-> pc, act |-> act, upload |-> upload, art |-> art, got |-> None,
   status |-> "none", progress |-> 0, late |-> FALSE]

Overlapping == IF AtRest THEN history ELSE history \cup {"overlap"}

\* shutil.move puts the directory into a target that exists, unless it is there too.
Free        == dir.top = None \/ dir.nested = None
Moved(what) == IF dir.top = None THEN [dir EXCEPT !.top = what] ELSE [dir EXCEPT !.nested = what]

\* With the end of a job only its row and the updates under way are left.
Ended(j, status, progress) ==
  [pc |-> "done", act |-> "install", upload |-> FALSE, art |-> None, got |-> None,
   status |-> status, progress |-> progress, late |-> job[j].late]

End(j, status, progress) == job' = [job EXCEPT ![j] = Ended(j, status, progress)]

Goto(j, pc) == job' = [job EXCEPT ![j].pc = pc]

-----------------------------------------------------------------------------
(* Faulty forms of definitions below: the mistakes the properties exclude. *)

AnyBytes(j, got)  == TRUE                \* no check of the download
AlwaysKnown(j)    == TRUE                \* a manifest on disk is enough
AnyStatus(j)      == TRUE                \* progress of a job that is over

-----------------------------------------------------------------------------
(* Requests *)

\* uuid4 gives a new name.
Unused(j) == job[j].pc = "idle" /\ j = CHOOSE i \in Jobs : job[i].pc = "idle"

\* The administrator confirms the hash he was shown; one who sends none agrees to what the
\* index names.
Confirmed(shown) == shown = market

install(j, shown, act) ==
  /\ Unused(j) /\ Confirmed(shown)
  /\ job' = [job EXCEPT ![j] = NewJob("insert", act, FALSE, market)]
  /\ confirmed' = confirmed \cup {shown}
  /\ history' = Overlapping
  /\ UNCHANGED <<market, dir, row, removal, faults>>

\* The upload is confirmed as it is; a version with a row is refused.
install_offline(j, a) ==
  /\ Unused(j) /\ row = None
  /\ job' = [job EXCEPT ![j] = NewJob("insert", "install", TRUE, a)]
  /\ confirmed' = confirmed \cup {a}
  /\ history' = Overlapping
  /\ UNCHANGED <<market, dir, row, removal, faults>>

uninstall ==
  /\ removal = "none" /\ row # None
  /\ removal' = "rows" /\ history' = Overlapping
  /\ UNCHANGED <<market, dir, row, job, confirmed, faults>>

\* The publisher signs another index.
Publish(a) ==
  /\ market' = a
  /\ UNCHANGED <<dir, row, job, removal, confirmed, history, faults>>

-----------------------------------------------------------------------------
(* PluginService._run_install_job with Installer.run and _install *)

jobFrame == UNCHANGED <<market, removal, confirmed, history, faults>>

_insert_job(j) ==
  /\ job[j].pc = "insert"
  /\ job' = [job EXCEPT ![j].pc = "mark", ![j].status = "pending"]
  /\ UNCHANGED <<dir, row>> /\ jobFrame

MarkRunning(j) ==
  /\ job[j].pc = "mark"
  /\ job' = [job EXCEPT ![j].pc = "begin", ![j].status = "running"]
  /\ UNCHANGED <<dir, row>> /\ jobFrame

_installed_hash(j) == row = job[j].art

\* A manifest on disk ends the job: nothing to do, or VERSION_CONFLICT.
run(j) ==
  /\ job[j].pc = "begin"
  /\ IF dir.top \in Artifacts
       THEN IF _installed_hash(j) THEN Goto(j, "record") ELSE Goto(j, "failing")
       ELSE Goto(j, "prepare")
  /\ UNCHANGED <<dir, row>> /\ jobFrame

HashMatches(j, got) == got = job[j].art

\* Download or upload, hash, unpacking, manifest, environment, handshake.
_install(j, got) ==
  /\ job[j].pc = "prepare"
  /\ job[j].upload => got = job[j].art
  /\ \/ /\ HashMatches(j, got)
        /\ job' = [job EXCEPT ![j].pc = "move", ![j].got = got, ![j].late = TRUE]
     \/ Goto(j, "failing")
  /\ UNCHANGED <<dir, row>> /\ jobFrame

Move(j) ==
  /\ job[j].pc = "move"
  /\ IF Free THEN dir' = Moved(job[j].got) /\ Goto(j, "record")
             ELSE UNCHANGED dir /\ Goto(j, "failing")
  /\ UNCHANGED row /\ jobFrame

\* The row gets the hash of the entry, whether it is new or not.
_record_installed(j) ==
  /\ job[j].pc = "record"
  /\ row' = job[j].art
  /\ Goto(j, IF job[j].act = "upgrade" THEN "switch" ELSE "finish")
  /\ UNCHANGED dir /\ jobFrame

\* The switch of an upgrade, see PluginLifecycle, may fail and ends the job then.
Switched(j) ==
  /\ job[j].pc = "switch"
  /\ Goto(j, "finish") \/ Goto(j, "failing")
  /\ UNCHANGED <<dir, row>> /\ jobFrame

MarkDone(j) ==
  /\ job[j].pc = "finish"
  /\ End(j, "done", 100)
  /\ UNCHANGED <<dir, row>> /\ jobFrame

_fail_job(j) ==
  /\ job[j].pc = "failing"
  /\ End(j, "failed", job[j].progress)
  /\ UNCHANGED <<dir, row>> /\ jobFrame

StillRunning(j) == job[j].status = "running"

\* A task of its own, in one of four database threads.
_update_job_progress(j) ==
  /\ job[j].late
  /\ job' = [job EXCEPT ![j].late = FALSE, ![j].progress = IF StillRunning(j) THEN 50 ELSE @]
  /\ UNCHANGED <<dir, row>> /\ jobFrame

-----------------------------------------------------------------------------
(* PluginService.uninstall *)

\* The rows of jobs that are over go as well.
_delete_plugin ==
  /\ removal = "rows"
  /\ row' = None /\ removal' = "files"
  /\ job' = [j \in Jobs |-> IF job[j].status \in {"done", "failed"}
                              THEN [job[j] EXCEPT !.status = "none"] ELSE job[j]]
  /\ UNCHANGED <<market, dir, confirmed, history, faults>>

RemoveFiles ==
  /\ removal = "files"
  /\ removal' = "none" /\ dir' = NoFiles
  /\ UNCHANGED <<market, row, job, confirmed, history, faults>>

-----------------------------------------------------------------------------
(* Failures *)

Fault == faults < MaxFaults /\ faults' = faults + 1

\* What fails in _fail_job or _insert_job leaves the row of the job as it is.
DbFails(j) ==
  /\ Fault
  /\ \/ job[j].pc \in {"mark", "record", "switch", "finish"} /\ Goto(j, "failing")
     \/ job[j].pc \in {"insert", "failing"} /\ End(j, job[j].status, job[j].progress)
  /\ history' = history \cup {"broken"}
  /\ UNCHANGED <<market, dir, row, removal, confirmed>>

Broken == history \cup (IF AtRest THEN {} ELSE {"broken"})
                  \cup (IF removal = "files" THEN {"cut"} ELSE {})

Over(j, status) ==
  IF Busy(j) THEN [Ended(j, status, job[j].progress) EXCEPT !.late = FALSE] ELSE [job[j] EXCEPT !.late = FALSE]

\* rmtree is cut anywhere; the rows of jobs stay as they are.
Crash ==
  /\ Fault
  /\ job' = [j \in Jobs |-> Over(j, job[j].status)]
  /\ \/ UNCHANGED dir
     \/ /\ removal = "files" /\ dir.top # None
        /\ dir' \in {NoFiles, [top |-> Partial, nested |-> None]}
  /\ removal' = "none" /\ history' = Broken
  /\ UNCHANGED <<market, row, confirmed>>

\* PluginService.stop cancels the jobs; a move goes on in its thread.
stop ==
  /\ Fault /\ removal = "none"
  /\ job' = [j \in Jobs |-> IF job[j].status = "none" THEN Over(j, "none") ELSE Over(j, "failed")]
  /\ \/ UNCHANGED dir
     \/ \E j \in Jobs : job[j].pc = "move" /\ Free /\ dir' = Moved(job[j].got)
  /\ history' = Broken
  /\ UNCHANGED <<market, row, removal, confirmed>>

-----------------------------------------------------------------------------
Init ==
  /\ market \in Artifacts
  /\ dir = NoFiles /\ row = None /\ removal = "none"
  /\ job = [j \in Jobs |-> NewJob("idle", "install", FALSE, None)]
  /\ confirmed = {} /\ history = {} /\ faults = 0

JobStep(j) ==
  \/ _insert_job(j) \/ MarkRunning(j) \/ run(j) \/ Move(j) \/ _record_installed(j)
  \/ Switched(j) \/ MarkDone(j) \/ _fail_job(j) \/ DbFails(j)
  \/ _update_job_progress(j)
  \/ \E got \in Artifacts : _install(j, got)

Next ==
  \/ \E j \in Jobs, a \in Artifacts :
       install_offline(j, a) \/ \E act \in {"install", "upgrade"} : install(j, a, act)
  \/ \E j \in Jobs : JobStep(j)
  \/ \E a \in Artifacts : Publish(a)
  \/ uninstall \/ _delete_plugin \/ RemoveFiles \/ Crash \/ stop

Spec == Init /\ [][Next]_vars

-----------------------------------------------------------------------------
(* Properties *)

\* Whatever overlaps or breaks, and whatever the market signs or serves meanwhile, only
\* contents an administrator has agreed to come to the version directory or its row.
OnlyConfirmed == {dir.top, dir.nested, row} \subseteq confirmed \cup {None, Partial}

\* At rest the row names what is on disk, if no two operations overlapped and no removal
\* was cut: also after crashes between the move and the row. Without any failure,
\* files without a row do not stay behind either.
InstalledIsRecorded ==
  AtRest /\ {"overlap", "cut"} \cap history = {} =>
    /\ row # None => dir.top = row
    /\ history = {} => dir.top \in {row, None}

\* A job reported as done reads 100 percent and stays so, although its updates are
\* written by tasks that nobody waits for, in any order.
DoneIsComplete == \A j \in Jobs : job[j].status = "done" => job[j].progress = 100

=============================================================================
