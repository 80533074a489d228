----------------------------- MODULE GitMirror -----------------------------
(***************************************************************************)
(* The working copy of one account of a Git repository                     *)
(* (app/asset_types/gitrepo.py): tool calls look at it from their worker   *)
(* threads without a lock, and start threads that clone or refresh it. The *)
(* remote moves on, the administrator may change the address, the network  *)
(* fails, a child process is killed at its deadline, the gateway dies. The *)
(* refresh interval of the account is chosen at the start and stays.       *)
(***************************************************************************)
EXTENDS Integers, FiniteSets

CONSTANTS
  Readers, Syncs, \* tool calls and synchronisation threads under way
  Urls, FirstUrl, \* addresses of the remote, the one the asset begins with
  None,
  Unfinished,     \* a staging directory that git still writes to
  MaxEvents       \* bound on pushes, failures, crashes and changes of the address together

VARIABLES
  url,     \* asset.connection.repo_url
  head,    \* the newest commit of each remote
  repo,    \* the directory repos/<account>
  staging, \* the staging directory of each clone under way
  state,   \* GitRepoAssetType._states of the account: its thread while that is alive, a failure
  due,     \* last_sync_at of the state file against the interval, see Ages
  sync,    \* the threads
  reader,  \* the tool calls
  history, \* what happened so far, see Flags
  events

vars == <<url, head, repo, staging, state, due, sync, reader, history, events>>

Commits == Urls \X Nat

\* tree: the commits whose files are in the directory, one but for a reset under way;
\* fetched: the branch of the remote as known here; git: .git/HEAD is there;
\* lock: .git/index.lock is there; torn: files were removed, not all of them.
Repo == [origin : Urls \cup {None}, tree : SUBSET Commits, fetched : Commits \cup {None},
         git : BOOLEAN, lock : BOOLEAN, torn : BOOLEAN]
SyncRow   == [pc : {"idle", "glob", "clone", "remove", "removing", "replace", "validate", "fetch",
                    "reset", "resetting", "size", "clearing"},
              url : Urls \cup {None}]
ReaderRow == [pc : {"idle", "check", "refresh", "clone", "fetch", "join"},
              url : Urls \cup {None}]

\* overlap: two threads at work at once; killed: a reset or a removal was cut off; moved:
\* the address of the asset was changed.
Flags == {"overlap", "killed", "moved"}

\* never: refresh_interval_seconds is 0.
Ages == {"never", "fresh", "old"}

TypeOK ==
  /\ url \in Urls /\ head \in [Urls -> Nat]
  /\ repo \in Repo
  /\ staging \in [Syncs -> Commits \cup {None, Unfinished}]
  /\ state \in [thread : Syncs \cup {None}, failed : BOOLEAN]
  /\ due \in Ages
  /\ sync \in [Syncs -> SyncRow] /\ reader \in [Readers -> ReaderRow]
  /\ history \subseteq Flags /\ events \in 0..MaxEvents

-----------------------------------------------------------------------------
NoRepo  == [origin |-> None, tree |-> {}, fetched |-> None, git |-> FALSE, lock |-> FALSE,
            torn |-> FALSE]
NoSync  == [pc |-> "idle", url |-> None]
Resting == [pc |-> "idle", url |-> None]
Joining == [pc |-> "join", url |-> None]

Newest(u) == <<u, head[u]>>
Cloned(c) == [origin |-> c[1], tree |-> {c}, fetched |-> c, git |-> TRUE, lock |-> FALSE,
              torn |-> FALSE]

is_repo  == repo.git
Working  == {s \in Syncs : sync[s].pc # "idle"}
Removing == {s \in Syncs : sync[s].pc \in {"removing", "clearing"}}
Alive    == state.thread # None

Event == events < MaxEvents /\ events' = events + 1

-----------------------------------------------------------------------------
(* Faulty forms of definitions below: the mistakes the properties exclude. *)

AnyRemote(s) == is_repo          \* the remote of the copy is not checked
Leftover     == repo.tree        \* files that are gone upstream stay
NeverRetried == UNCHANGED state  \* a failure is not forgotten

-----------------------------------------------------------------------------
(* ensure_repo, in the worker thread of a tool call *)

readerFrame == UNCHANGED <<url, head, repo, staging, due, history, events>>

Step(r, pc) == reader' = [reader EXCEPT ![r].pc = pc]
Join(r)     == reader' = [reader EXCEPT ![r] = Joining]
Leave(r)    == reader' = [reader EXCEPT ![r] = Resting]

\* execute_sync with the address the call has read; the first look at the thread.
Ask(r) ==
  /\ reader[r].pc = "idle"
  /\ IF Alive THEN Join(r) ELSE reader' = [reader EXCEPT ![r] = [pc |-> "check", url |-> url]]
  /\ UNCHANGED <<state, sync>> /\ readerFrame

\* A clone that failed within the last minute is not tried again.
Check(r) ==
  /\ reader[r].pc = "check"
  /\ IF is_repo THEN Step(r, "refresh")
     ELSE IF state.failed THEN Leave(r) ELSE Step(r, "clone")
  /\ UNCHANGED <<state, sync>> /\ readerFrame

_maybe_refresh(r) ==
  /\ reader[r].pc = "refresh"
  /\ IF due = "old" /\ ~state.failed /\ ~Alive THEN Step(r, "fetch") ELSE Leave(r)
  /\ UNCHANGED <<state, sync>> /\ readerFrame

\* Nothing is checked again: whoever came this far starts a thread. With a refresh under
\* way the tool reads at once.
_start(r) ==
  /\ reader[r].pc \in {"clone", "fetch"} /\ Working # Syncs
  /\ LET s == CHOOSE t \in Syncs : t \notin Working IN
       /\ sync' = [sync EXCEPT ![s] = [pc |-> IF reader[r].pc = "clone" THEN "glob" ELSE "validate",
                                       url |-> reader[r].url]]
       /\ state' = [state EXCEPT !.thread = s]
       /\ IF reader[r].pc = "clone" THEN Join(r) ELSE Leave(r)
  /\ history' = IF Working = {} THEN history ELSE history \cup {"overlap"}
  /\ UNCHANGED <<url, head, repo, staging, due, events>>

\* The thread has ended, or the eight seconds have: the tool reads, or is refused.
_await_preparing(r) ==
  /\ reader[r].pc = "join" /\ Leave(r)
  /\ UNCHANGED <<state, sync>> /\ readerFrame

-----------------------------------------------------------------------------
(* _run_sync and sync *)

syncFrame == UNCHANGED <<url, head, reader, history, events>>

Goto(s, pc) == sync' = [sync EXCEPT ![s].pc = pc]

\* The end of _run_sync, after an exception or not.
Ended(s, failed) ==
  [thread |-> IF state.thread = s THEN None ELSE state.thread, failed |-> failed]

Leaves(s) == sync' = [sync EXCEPT ![s] = NoSync]
GiveUp(s) == Leaves(s) /\ state' = Ended(s, TRUE)

\* The staging directories of earlier clones go, and those of other threads.
RemoveStale(s) ==
  /\ sync[s].pc = "glob"
  /\ staging' = [t \in Syncs |-> IF t = s THEN Unfinished ELSE None]
  /\ Goto(s, "clone")
  /\ UNCHANGED <<repo, state, due>> /\ syncFrame

GitClone(s) ==
  /\ sync[s].pc = "clone"
  /\ IF staging[s] = Unfinished
       THEN staging' = [staging EXCEPT ![s] = Newest(sync[s].url)] /\ Goto(s, "remove") /\ UNCHANGED state
       ELSE UNCHANGED staging /\ GiveUp(s)
  /\ UNCHANGED <<repo, due>> /\ syncFrame

\* shutil.rmtree removes file after file: .git/HEAD and the lock go early or late.
Tear == \E git, lock \in BOOLEAN :
  /\ git => is_repo
  /\ lock => repo.lock /\ git
  /\ repo' = [repo EXCEPT !.torn = TRUE, !.git = git, !.lock = lock]

\* Errors are ignored: what a reset writes meanwhile stays.
Gone ==
  \/ repo' = IF repo.torn THEN NoRepo ELSE repo
  \/ /\ repo.torn /\ \E s \in Syncs : sync[s].pc = "resetting"
     /\ repo' = [repo EXCEPT !.git = FALSE, !.lock = FALSE]

RemoveOld(s) ==
  /\ sync[s].pc = "remove"
  /\ IF repo.tree = {} THEN Goto(s, "replace") /\ UNCHANGED repo
                       ELSE Goto(s, "removing") /\ Tear
  /\ UNCHANGED <<staging, state, due>> /\ syncFrame

\* The removal has come to its end: the copy is replaced, or was too large.
RemoveEnds(s) ==
  /\ \/ sync[s].pc = "removing" /\ Goto(s, "replace") /\ UNCHANGED state
     \/ sync[s].pc = "clearing" /\ GiveUp(s)
  /\ Gone
  /\ UNCHANGED <<staging, due>> /\ syncFrame

\* os.replace needs its source, and a target that is not there; a staging directory that is
\* left behind is never used again.
Complete(s) == staging[s] \in Commits
Vacant      == repo.tree = {}

Replace(s) ==
  /\ sync[s].pc = "replace"
  /\ IF Complete(s) /\ Vacant
       THEN /\ repo' = Cloned(staging[s])
            /\ staging' = [staging EXCEPT ![s] = None]
            /\ Goto(s, "size") /\ UNCHANGED state
       ELSE staging' = [staging EXCEPT ![s] = None] /\ UNCHANGED repo /\ GiveUp(s)
  /\ UNCHANGED due /\ syncFrame

SameRemote(s) == repo.origin = sync[s].url

\* git finds no repository, or one with objects missing.
GitFails(s) == (~is_repo \/ repo.torn) /\ UNCHANGED repo /\ GiveUp(s)

validate_cached_remote(s) ==
  /\ sync[s].pc = "validate"
  /\ \/ is_repo /\ SameRemote(s) /\ Goto(s, "fetch") /\ UNCHANGED <<repo, state>>
     \/ is_repo /\ ~SameRemote(s) /\ UNCHANGED repo /\ GiveUp(s)
     \/ GitFails(s)
  /\ UNCHANGED <<staging, due>> /\ syncFrame

GitFetch(s) ==
  /\ sync[s].pc = "fetch"
  /\ \/ /\ is_repo /\ repo' = [repo EXCEPT !.fetched = Newest(sync[s].url)]
        /\ Goto(s, "reset") /\ UNCHANGED state
     \/ GitFails(s)
  /\ UNCHANGED <<staging, due>> /\ syncFrame

Unlocked(s) == ~repo.lock

\* git reset --hard takes the lock, writes file after file, and gives it back.
ResetStarts(s) ==
  /\ sync[s].pc = "reset"
  /\ \/ /\ is_repo /\ Unlocked(s)
        /\ repo' = [repo EXCEPT !.lock = TRUE, !.tree = @ \cup {repo.fetched}]
        /\ Goto(s, "resetting") /\ UNCHANGED state
     \/ is_repo /\ ~Unlocked(s) /\ UNCHANGED repo /\ GiveUp(s)
     \/ GitFails(s)
  /\ UNCHANGED <<staging, due>> /\ syncFrame

Settled == {repo.fetched}

\* A reset brings back what is missing, unless it is being removed.
ResetEnds(s) ==
  /\ sync[s].pc = "resetting"
  /\ \/ /\ is_repo
        /\ repo' = [repo EXCEPT !.lock = FALSE, !.tree = Settled, !.torn = @ /\ Removing # {}]
        /\ Goto(s, "size") /\ UNCHANGED state
     \/ (~is_repo \/ repo.torn) /\ repo' = [repo EXCEPT !.lock = FALSE] /\ GiveUp(s)
  /\ UNCHANGED <<staging, due>> /\ syncFrame

\* The size fits, write_state, and the end of _run_sync.
Succeed(s) ==
  /\ sync[s].pc = "size"
  /\ due' = (IF due = "never" THEN due ELSE "fresh") /\ Leaves(s) /\ state' = Ended(s, FALSE)
  /\ UNCHANGED <<repo, staging>> /\ syncFrame

TooLarge(s) ==
  /\ sync[s].pc = "size" /\ Event
  /\ Goto(s, "clearing")
  /\ IF repo.tree = {} THEN UNCHANGED repo ELSE Tear
  /\ UNCHANGED <<url, head, staging, state, due, reader, history>>

\* The address is refused or does not resolve, its host key is another, git is too old.
prepare_git(s) ==
  /\ sync[s].pc \in {"glob", "validate"} /\ Event /\ GiveUp(s)
  /\ UNCHANGED <<url, head, repo, staging, due, reader, history>>

\* The remote fails, or a child is killed at its deadline: a reset then leaves its lock and
\* a mixed tree behind.
SyncFails(s) ==
  /\ sync[s].pc \in {"clone", "validate", "fetch", "resetting"} /\ Event
  /\ staging' = IF sync[s].pc = "clone" THEN [staging EXCEPT ![s] = None] ELSE staging
  /\ history' = IF sync[s].pc = "resetting" THEN history \cup {"killed"} ELSE history
  /\ GiveUp(s)
  /\ UNCHANGED <<url, head, repo, due, reader>>

-----------------------------------------------------------------------------
(* Time, the remote, the administrator, the end of the process *)

worldFrame == UNCHANGED <<repo, staging, sync, reader>>

RetryTime == state' = [state EXCEPT !.failed = FALSE]

\* A minute after a failure.
FailureAges ==
  /\ state.failed /\ RetryTime
  /\ UNCHANGED <<url, head, due, history, events>> /\ worldFrame

CopyAges ==
  /\ due = "fresh" /\ due' = "old"
  /\ UNCHANGED <<url, head, state, history, events>> /\ worldFrame

Push(u) ==
  /\ u = url /\ Event /\ head' = [head EXCEPT ![u] = @ + 1]
  /\ UNCHANGED <<url, state, due, history>> /\ worldFrame

ChangeUrl(u) ==
  /\ u # url /\ Event /\ url' = u /\ history' = history \cup {"moved"}
  /\ UNCHANGED <<head, state, due>> /\ worldFrame

\* The copy survives, and the child of a reset dies with the container: what a
\* removal has left, with .git/HEAD, passes for a copy.
Crash ==
  /\ Event
  /\ sync' = [s \in Syncs |-> NoSync] /\ reader' = [r \in Readers |-> Resting]
  /\ state' = [thread |-> None, failed |-> FALSE]
  /\ history' = history \cup (IF repo.lock \/ (is_repo /\ repo.torn) THEN {"killed"} ELSE {})
  /\ staging' = [s \in Syncs |-> None]
  /\ UNCHANGED <<url, head, repo, due>>

-----------------------------------------------------------------------------
Init ==
  /\ url = FirstUrl /\ head = [u \in Urls |-> 0]
  /\ repo = NoRepo /\ staging = [s \in Syncs |-> None]
  /\ state = [thread |-> None, failed |-> FALSE] /\ due \in {"never", "old"}
  /\ sync = [s \in Syncs |-> NoSync] /\ reader = [r \in Readers |-> Resting]
  /\ history = {} /\ events = 0

ReaderStep(r) ==
  Check(r) \/ _maybe_refresh(r) \/ _start(r) \/ _await_preparing(r)

SyncStep(s) ==
  \/ RemoveStale(s) \/ GitClone(s) \/ RemoveOld(s) \/ RemoveEnds(s) \/ Replace(s)
  \/ validate_cached_remote(s) \/ GitFetch(s) \/ ResetStarts(s) \/ ResetEnds(s)
  \/ Succeed(s)

Next ==
  \/ \E r \in Readers : Ask(r) \/ ReaderStep(r)
  \/ \E s \in Syncs : SyncStep(s) \/ TooLarge(s) \/ prepare_git(s) \/ SyncFails(s)
  \/ \E u \in Urls : Push(u) \/ ChangeUrl(u)
  \/ FailureAges \/ CopyAges \/ Crash

\* Threads run and time passes; that a tool call asks, or goes on, is not assumed.
Fairness ==
  /\ \A s \in Syncs : WF_vars(SyncStep(s))
  /\ WF_vars(FailureAges) /\ WF_vars(CopyAges)

Spec == Init /\ [][Next]_vars /\ Fairness

-----------------------------------------------------------------------------
(* Properties *)

\* As long as no two threads were at work at once, the copy holds nothing but commits of
\* the remote it was cloned from, although its directory is named by the account only
\* and the address of the asset changes.
TreeOfOrigin ==
  "overlap" \notin history => \A c \in repo.tree : c[1] = repo.origin

\* Where no thread is at work and no reset or removal was cut off, a tool reads one whole
\* commit, also after two threads raced for the directory, or one removed what another
\* was resetting.
WholeWhenQuiet ==
  Working = {} /\ "killed" \notin history /\ is_repo =>
    Cardinality(repo.tree) = 1 /\ ~repo.lock /\ ~repo.torn

Calm == history \cap {"killed", "moved"} = {} /\ Cardinality(Working) <= 1

\* If tools keep asking, the address stays, nothing is cut off and threads stop racing,
\* then a copy is there again and again, whatever failed or collided before; unless
\* refreshing is disabled, tools end up reading the newest commit or nothing.
CatchesUp ==
  []<><<\E r \in DOMAIN reader : Ask(r)>>_vars /\ <>[]Calm
  => []<>is_repo /\ <>[](due = "never" \/ repo.tree \subseteq {Newest(url)})

=============================================================================
