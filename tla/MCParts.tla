------------------------------ MODULE MCParts ------------------------------
(***************************************************************************)
(* The parts that share no state with each other, in one state space: its  *)
(* initial states choose a part, and only that part moves.                 *)
(***************************************************************************)
EXTENDS Installer, Sequences

CONSTANTS
  Readers, Syncs, Urls, FirstUrl, Unfinished, MaxEvents,        \* GitMirror
  r1,
  Requests, Lifetime, Idle, MaxHash, MaxSessions, MaxTime,      \* Sessions
  MaxBuild, MaxLines, MaxSize, Limits, ScanBudget, PageBudget,  \* JenkinsLog
  Maximum, MaxOutput, MaxWire,                                  \* PodExec
  MaxPerformed, MaxDocs,                                        \* JenkinsCall, Manifest
  k1, k2, k3, Limit, KeyBudget, Rounds, Batch,                  \* KeyScan
  root, folder, ja, jb, JobBudget,                              \* JobSearch
  MaxRows, MaxMeta, RowBudget, MaxTotal                         \* SqlCall

VARIABLES
  part,                                          \* the part chosen
  url, head, repo, staging, state, due, sync, reader, \* GitMirror, with history and faults
  x1, x2, x3, x4, x5                             \* another part's variables

installer == <<market, dir, row, job, removal, confirmed>>
mirror    == <<url, head, repo, staging, state, due, sync, reader>>
marks     == <<history, faults>>
others    == <<x1, x2, x3, x4, x5>>
all       == <<part, installer, mirror, marks, others>>

Keys     == {k1, k2, k3}
Patterns == <<{k1, k2}, {k2, k3}>>

\* Any two folders with at most two entries each.
Lists == UNION {[1..n -> {folder, ja, jb}] : n \in 0..2}
Trees == [{root, folder} -> Lists]

\* Two readers of one address, whose threads may race, with one event; and one reader of
\* two addresses, with more.
Git  == INSTANCE GitMirror WITH Urls <- {FirstUrl}, events <- faults, MaxEvents <- MaxFaults
Git1 == INSTANCE GitMirror WITH Readers <- {r1}, events <- faults
Adm  == INSTANCE Sessions WITH password_hash <- x1, sessions <- x2, requests <- x3, time <- x4
Log  == INSTANCE JenkinsLog
          WITH last <- x1, log <- x2, cursor <- x3, base <- x4, seen <- x5, OutputBudget <- PageBudget
Pod  == INSTANCE PodExec WITH command <- x1, wire <- x2, link <- x3, call <- x4, answer <- x5
Jen  == INSTANCE JenkinsCall WITH call <- x1, post <- x2, performed <- x3
Man  == INSTANCE Manifest WITH call <- x1, patch <- x2, applied <- x3
Scan == INSTANCE KeyScan
          WITH server <- x1, conn <- x2, scan <- x3, gave_up <- x4, Budget <- KeyBudget
Find == INSTANCE JobSearch
          WITH tree <- x1, search <- x2, reported <- x3, before <- x4, Budget <- JobBudget,
               Root <- root, Folders <- {root, folder}, Jobs <- {ja, jb}
Sql  == INSTANCE SqlCall WITH server <- x1, conn <- x2, call <- x3, OutputBudget <- RowBudget

\* None is neither a code nor a number; the bounds are what their modules say.
ASSUME PartsAssumption ==
  /\ None \notin Jen!Definite \cup {"submitted"}
  /\ FirstUrl \in Urls /\ MaxEvents \in Nat
  /\ None \notin 0..3 /\ {Maximum, MaxOutput, MaxWire} \subseteq Nat
  /\ MaxPerformed \in Nat /\ MaxDocs \in Nat
  /\ MaxHash \in Nat \ {0} /\ {MaxSessions, MaxTime, Lifetime} \subseteq Nat
  /\ None \notin 1..MaxHash
  /\ {MaxBuild, MaxLines, MaxSize} \subseteq Nat \ {0} /\ Limits \subseteq Nat
  /\ {Limit, KeyBudget, Rounds, Batch} \subseteq Nat /\ JobBudget \in Nat
  /\ {MaxRows, MaxMeta, RowBudget, MaxTotal} \subseteq Nat

-----------------------------------------------------------------------------
Parts == {"installer", "git", "git1", "sessions", "log", "exec", "jenkins", "manifest",
          "scan", "find", "sql"}

Unused3 == x4 = None /\ x5 = None

PartsInit ==
  /\ part \in Parts
  /\ Init /\ (part # "installer" => market = CHOOSE a \in Artifacts : TRUE)
  /\ IF part = "git1" THEN Git1!Init ELSE Git!Init
  /\ part \notin {"git", "git1"} => due = "never"
  /\ CASE part = "sessions" -> Adm!Init /\ x5 = None
       [] part = "log"      -> Log!Init
       [] part = "exec"     -> Pod!Init
       [] part = "jenkins"  -> Jen!Init /\ Unused3
       [] part = "manifest" -> Man!Init /\ Unused3
       [] part = "scan"     -> Scan!Init /\ x5 = None
       [] part = "find"     -> Find!Init /\ x5 = None
       [] part = "sql"      -> Sql!Init /\ Unused3
       [] part \in {"installer", "git", "git1"} ->
            x1 = None /\ x2 = None /\ x3 = None /\ Unused3

Chosen(p, rest) == part = p /\ UNCHANGED part /\ UNCHANGED rest

still == <<installer, mirror, marks>>

PartsNext ==
  \/ Chosen("installer", <<mirror, others>>) /\ Next
  \/ Chosen("git", <<installer, others>>) /\ Git!Next
  \/ Chosen("git1", <<installer, others>>) /\ Git1!Next
  \/ Chosen("sessions", <<still, x5>>) /\ Adm!Next
  \/ Chosen("log", still) /\ Log!Next
  \/ Chosen("exec", still) /\ Pod!Next
  \/ Chosen("jenkins", <<still, x4, x5>>) /\ Jen!Next
  \/ Chosen("manifest", <<still, x4, x5>>) /\ Man!Next
  \/ Chosen("scan", <<still, x5>>) /\ Scan!Next
  \/ Chosen("find", <<still, x5>>) /\ Find!Next
  \/ Chosen("sql", <<still, x4, x5>>) /\ Sql!Next

GitStep(A) == part = "git" /\ A /\ UNCHANGED <<part, installer, others>>

\* The fairness of GitMirror, for the part with two readers.
PartsSpec ==
  /\ PartsInit /\ [][PartsNext]_all
  /\ \A s \in Syncs : WF_all(GitStep(Git!SyncStep(s)))
  /\ WF_all(GitStep(Git!FailureAges)) /\ WF_all(GitStep(Git!CopyAges))

-----------------------------------------------------------------------------
(* Properties: each module's own, of the part chosen *)

\* Type correctness of every part.
PartsTypeOK ==
  CASE part = "installer" -> TypeOK
    [] part = "git"       -> Git!TypeOK
    [] part = "git1"      -> Git1!TypeOK
    [] part = "sessions"  -> Adm!TypeOK
    [] part = "log"       -> Log!TypeOK
    [] part = "exec"      -> Pod!TypeOK
    [] part = "jenkins"   -> Jen!TypeOK
    [] part = "manifest"  -> Man!TypeOK
    [] part = "scan"      -> Scan!TypeOK
    [] part = "find"      -> Find!TypeOK
    [] part = "sql"       -> Sql!TypeOK

\* Without two threads at once, a working copy holds commits of its remote only.
TreeOfOrigin ==
  /\ part = "git" => Git!TreeOfOrigin
  /\ part = "git1" => Git1!TreeOfOrigin

\* Where no thread is at work and no reset was killed, a tool reads one whole commit.
WholeWhenQuiet ==
  /\ part = "git" => Git!WholeWhenQuiet
  /\ part = "git1" => Git1!WholeWhenQuiet

\* Two tools that keep asking end up reading the newest commit, whatever their threads do
\* to each other.
CatchesUp == part = "git" => Git!CatchesUp

\* Every line of a log that a cursor has passed was returned as it finally reads.
NothingSkipped == part = "log" => Log!NothingSkipped

\* An exit code is returned only of a command that has ended, with all its output.
ExitIsReal == part = "exec" => Pod!ExitIsReal

\* Every session still open was opened with the password now in force.
SessionsFollowPassword == part = "sessions" => Adm!SessionsFollowPassword

\* What a writing call says that it did, or did not do, is so.
DefiniteAnswer ==
  /\ part = "jenkins" => Jen!DefiniteAnswer
  /\ part = "manifest" => Man!CountIsTrue

\* What a bounded read returns without a mark is complete.
CutIsMarked ==
  /\ part = "scan" => Scan!CutIsMarked
  /\ part = "find" => Find!CutIsMarked
  /\ part = "sql" => Sql!CutIsMarked

=============================================================================
