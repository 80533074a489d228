-------------------------- MODULE GitMirror_proofs --------------------------
(***************************************************************************)
(* Theorems about GitMirror for any number of tool calls, threads,         *)
(* addresses and commits.                                                  *)
(***************************************************************************)
EXTENDS GitMirror, FiniteSetTheorems, TLAPS

MirrorAssumption ==
  FirstUrl \in Urls /\ MaxEvents \in Nat

\* TypeOK; whoever works has an address, a copy has files and a branch, a lock has a copy.
Shape ==
  /\ TypeOK
  /\ \A s \in Syncs : sync[s].pc # "idle" => sync[s].url \in Urls
  /\ \A r \in Readers : reader[r].pc \in {"check", "refresh", "clone", "fetch"} => reader[r].url \in Urls
  /\ is_repo => repo.fetched \in Commits /\ repo.tree # {}
  /\ repo.lock => is_repo

\* Unless a reset or a removal was cut off, a copy is mixed only while its lock is held or
\* it is being removed, the lock is held only while some thread resets, and what is torn and
\* still passes for a copy some thread is removing.
LockedWhole ==
  "killed" \notin history =>
    /\ is_repo /\ ~repo.lock /\ ~repo.torn => \A c, d \in repo.tree : c = d
    /\ repo.lock => \E s \in Syncs : sync[s].pc = "resetting"
    /\ is_repo /\ repo.torn => Removing # {}

\* As long as threads follow one another, the one at work has made sure that it refreshes a
\* copy of its own remote, and what it has fetched is of that remote.
OneRemote ==
  "overlap" \notin history =>
    /\ \A s, t \in Working : s = t
    /\ \A c \in repo.tree : c[1] = repo.origin
    /\ \A s \in Syncs :
         /\ sync[s].pc \in {"fetch", "reset", "resetting"} /\ is_repo => sync[s].url = repo.origin
         /\ sync[s].pc \in {"reset", "resetting"} /\ is_repo => repo.fetched[1] = repo.origin

Inv == Shape /\ LockedWhole /\ OneRemote

-----------------------------------------------------------------------------
(* Tool calls *)

\* What a call does on its way changes nothing but itself.
LEMMA ReaderKeeps ==
  ASSUME Inv, NEW r \in Readers, Ask(r) \/ Check(r) \/ _maybe_refresh(r) \/ _await_preparing(r)
  PROVE  Inv'
<1>1. UNCHANGED <<url, head, repo, staging, state, due, sync, history, events>>
  BY DEF Ask, Check, _maybe_refresh, _await_preparing, readerFrame
<1>2. /\ reader \in [Readers -> ReaderRow] /\ url \in Urls
      /\ \A q \in Readers : reader[q].pc \in {"check", "refresh", "clone", "fetch"} => reader[q].url \in Urls
  BY DEF Inv, Shape, TypeOK
<1>3. \/ reader' = [reader EXCEPT ![r] = Joining]
      \/ reader' = [reader EXCEPT ![r] = Resting]
      \/ reader' = [reader EXCEPT ![r] = [pc |-> "check", url |-> url]]
      \/ /\ reader[r].pc \in {"check", "refresh"}
         /\ \E pc \in {"refresh", "clone", "fetch"} : reader' = [reader EXCEPT ![r].pc = pc]
  BY DEF Ask, Check, _maybe_refresh, _await_preparing, Join, Leave, Step
<1>4. /\ reader' \in [Readers -> ReaderRow]
      /\ \A q \in Readers : reader'[q].pc \in {"check", "refresh", "clone", "fetch"} => reader'[q].url \in Urls
  BY <1>2, <1>3 DEF ReaderRow, Joining, Resting
<1>5. Shape'
  BY <1>1, <1>4 DEF Inv, Shape, TypeOK, Commits, is_repo
<1> QED
  BY <1>1, <1>5 DEF Inv, LockedWhole, OneRemote, is_repo, Working, Removing

\* A thread that is started begins at its beginning, and next to another it is recorded.
LEMMA StartKeeps ==
  ASSUME Inv, NEW r \in Readers, _start(r)
  PROVE  Inv'
<1> DEFINE s    == CHOOSE t \in Syncs : t \notin Working
           pc   == IF reader[r].pc = "clone" THEN "glob" ELSE "validate"
           new  == [pc |-> pc, url |-> reader[r].url]
<1>1. s \in Syncs /\ s \notin Working
  <2>1. \E t \in Syncs : t \notin Working
    BY DEF _start, Working
  <2> QED
    BY <2>1
<1>2. /\ sync' = [sync EXCEPT ![s] = new] /\ state' = [state EXCEPT !.thread = s]
      /\ reader' \in {[reader EXCEPT ![r] = Joining], [reader EXCEPT ![r] = Resting]}
      /\ history' = IF Working = {} THEN history ELSE history \cup {"overlap"}
      /\ UNCHANGED <<url, head, repo, staging, due, events>>
  BY DEF _start, Join, Leave
<1>3. reader[r].url \in Urls
  BY DEF _start, Inv, Shape
<1>4. new \in SyncRow /\ new.pc \in {"glob", "validate"} /\ new.url \in Urls
  BY <1>3 DEF SyncRow
<1> HIDE DEF s, pc, new
<1>5. /\ sync' \in [Syncs -> SyncRow] /\ sync'[s] = new
      /\ \A t \in Syncs : t # s => sync'[t] = sync[t]
  BY <1>1, <1>2, <1>4 DEF Inv, Shape, TypeOK
<1>6. /\ reader' \in [Readers -> ReaderRow]
      /\ \A q \in Readers : reader'[q].pc \in {"check", "refresh", "clone", "fetch"} => reader'[q].url \in Urls
  <2>1. Joining \in ReaderRow /\ Resting \in ReaderRow
    BY DEF ReaderRow, Joining, Resting
  <2>2. /\ reader \in [Readers -> ReaderRow]
        /\ \A q \in Readers : reader[q].pc \in {"check", "refresh", "clone", "fetch"} => reader[q].url \in Urls
    BY DEF Inv, Shape, TypeOK
  <2>3. ASSUME NEW row \in {Joining, Resting}, reader' = [reader EXCEPT ![r] = row]
        PROVE  /\ reader' \in [Readers -> ReaderRow]
               /\ \A q \in Readers : reader'[q].pc \in {"check", "refresh", "clone", "fetch"} =>
                     reader'[q].url \in Urls
    <3>1. reader' \in [Readers -> ReaderRow]
      BY <2>1, <2>2, <2>3
    <3>2. ASSUME NEW q \in Readers
          PROVE  reader'[q] = IF q = r THEN row ELSE reader[q]
      BY <2>2, <2>3
    <3>3. row.pc \notin {"check", "refresh", "clone", "fetch"}
      BY DEF Joining, Resting
    <3> QED
      BY <2>2, <3>1, <3>2, <3>3
  <2>4. reader' = [reader EXCEPT ![r] = Joining] \/ reader' = [reader EXCEPT ![r] = Resting]
    BY <1>2
  <2> QED
    BY <2>3, <2>4
<1>7. state' \in [thread : Syncs \cup {None}, failed : BOOLEAN] /\ history' \subseteq Flags
  BY <1>1, <1>2 DEF Inv, Shape, TypeOK, Flags
<1>8. Shape'
  BY <1>2, <1>4, <1>5, <1>6, <1>7 DEF Inv, Shape, TypeOK, Commits, is_repo
<1>9. LockedWhole'
  <2>1. \A t \in Syncs : sync[t].pc \in {"resetting", "removing", "clearing"} => sync'[t] = sync[t]
    BY <1>1, <1>5 DEF Working
  <2>2. Removing \subseteq Removing'
    BY <2>1 DEF Removing
  <2> QED
    BY <1>2, <2>1, <2>2 DEF Inv, LockedWhole, is_repo
<1>10. OneRemote'
  <2> SUFFICES ASSUME "overlap" \notin history' PROVE OneRemote'
    BY DEF OneRemote
  <2>1. Working = {} /\ "overlap" \notin history
    BY <1>2
  <2>2. \A t \in Syncs : t # s => sync'[t].pc = "idle"
    BY <1>5, <2>1 DEF Working
  <2>3. Working' \subseteq {s}
    BY <2>2 DEF Working
  <2> QED
    BY <1>1, <1>2, <1>4, <1>5, <2>1, <2>2, <2>3 DEF Inv, OneRemote, is_repo
<1> QED
  BY <1>8, <1>9, <1>10 DEF Inv

-----------------------------------------------------------------------------
(* Threads *)

\* Of the threads only s has moved.
Moved(s) ==
  /\ sync' \in [Syncs -> SyncRow]
  /\ \A t \in Syncs : t # s => sync'[t] = sync[t]
  /\ sync'[s].pc # "idle" => sync'[s].url = sync[s].url

LEMMA Goes ==
  ASSUME Inv, NEW s \in Syncs,
         NEW pc \in {"clone", "remove", "removing", "replace", "fetch", "reset", "resetting",
                     "size", "clearing"}, Goto(s, pc)
  PROVE  Moved(s) /\ sync'[s].pc = pc
BY DEF Inv, Shape, TypeOK, Goto, Moved, SyncRow

LEMMA LeavesMoves ==
  ASSUME Inv, NEW s \in Syncs, Leaves(s)
  PROVE  Moved(s) /\ sync'[s].pc = "idle"
BY DEF Inv, Shape, TypeOK, Leaves, NoSync, Moved, SyncRow

LEMMA GiveUpMoves ==
  ASSUME Inv, NEW s \in Syncs, GiveUp(s)
  PROVE  /\ Moved(s) /\ sync'[s].pc = "idle"
         /\ state' \in [thread : Syncs \cup {None}, failed : BOOLEAN]
BY LeavesMoves DEF Inv, Shape, TypeOK, GiveUp, Ended

\* What a step of a thread has to show: of the copy, and of itself.
LEMMA ThreadKeeps ==
  ASSUME Inv, NEW s \in Syncs, sync[s].pc # "idle", Moved(s), UNCHANGED <<url, head, reader>>,
         repo' \in Repo, staging' \in [Syncs -> Commits \cup {None, Unfinished}],
         state' \in [thread : Syncs \cup {None}, failed : BOOLEAN], due' \in Ages,
         events' \in 0..MaxEvents, history \subseteq history', history' \subseteq Flags,
         repo'.git => repo'.fetched \in Commits /\ repo'.tree # {},
         repo'.lock => repo'.git,
         "killed" \notin history' /\ repo'.git /\ ~repo'.lock /\ ~repo'.torn =>
           \A c, d \in repo'.tree : c = d,
         "killed" \notin history' /\ repo'.lock =>
           sync'[s].pc = "resetting" \/ (repo.lock /\ sync[s].pc # "resetting"),
         "killed" \notin history' /\ repo'.git /\ repo'.torn =>
           \/ sync'[s].pc \in {"removing", "clearing"}
           \/ repo.git /\ repo.torn /\ sync[s].pc \notin {"removing", "clearing"},
         "overlap" \notin history =>
           /\ \A c \in repo'.tree : c[1] = repo'.origin
           /\ sync'[s].pc \in {"fetch", "reset", "resetting"} /\ repo'.git =>
                sync[s].url = repo'.origin
           /\ sync'[s].pc \in {"reset", "resetting"} /\ repo'.git =>
                repo'.fetched[1] = repo'.origin
  PROVE  Inv'
<1>1. Shape'
  <2>1. TypeOK'
    BY DEF Moved, Inv, Shape, TypeOK, Commits
  <2>2. \A t \in Syncs : sync'[t].pc # "idle" => sync'[t].url \in Urls
    BY DEF Moved, Inv, Shape
  <2> QED
    BY <2>1, <2>2 DEF Inv, Shape, is_repo, Commits
<1>2. LockedWhole'
  <2> SUFFICES ASSUME "killed" \notin history'
               PROVE  /\ repo'.git /\ ~repo'.lock /\ ~repo'.torn => \A c, d \in repo'.tree : c = d
                      /\ repo'.lock => \E t \in Syncs : sync'[t].pc = "resetting"
                      /\ repo'.git /\ repo'.torn => Removing' # {}
    BY DEF LockedWhole, is_repo
  <2>1. ASSUME repo'.lock, sync'[s].pc # "resetting"
        PROVE  \E t \in Syncs : sync'[t].pc = "resetting"
    <3>1. repo.lock /\ sync[s].pc # "resetting" /\ "killed" \notin history
      BY <2>1
    <3>2. PICK t \in Syncs : sync[t].pc = "resetting"
      BY <3>1 DEF Inv, LockedWhole
    <3>3. sync'[t] = sync[t]
      BY <3>1, <3>2 DEF Moved
    <3> QED
      BY <3>2, <3>3
  <2>2. ASSUME repo'.git, repo'.torn
        PROVE  Removing' # {}
    <3>1. CASE sync'[s].pc \in {"removing", "clearing"}
      BY <3>1 DEF Removing
    <3>2. CASE sync'[s].pc \notin {"removing", "clearing"}
      <4>1. repo.git /\ repo.torn /\ sync[s].pc \notin {"removing", "clearing"}
        BY <2>2, <3>2
      <4>2. PICK t \in Syncs : sync[t].pc \in {"removing", "clearing"}
        BY <4>1 DEF Inv, LockedWhole, is_repo, Removing
      <4>3. sync'[t] = sync[t]
        BY <4>1, <4>2 DEF Moved
      <4> QED
        BY <4>2, <4>3 DEF Removing
    <3> QED
      BY <3>1, <3>2
  <2> QED
    BY <2>1, <2>2
<1>3. OneRemote'
  <2> SUFFICES ASSUME "overlap" \notin history' PROVE OneRemote'
    BY DEF OneRemote
  <2>1. "overlap" \notin history /\ s \in Working
    BY DEF Working
  <2>2. \A t \in Syncs : t # s => sync'[t].pc = "idle"
    BY <2>1 DEF Inv, OneRemote, Moved, Working
  <2>3. Working' \subseteq {s}
    BY <2>2 DEF Working
  <2>4. sync'[s].pc # "idle" => sync'[s].url = sync[s].url
    BY DEF Moved
  <2> QED
    BY <2>1, <2>2, <2>3, <2>4 DEF OneRemote, is_repo
<1> QED
  BY <1>1, <1>2, <1>3 DEF Inv

\* What is known before such a step.
LEMMA ThreadKnows ==
  ASSUME Inv, NEW s \in Syncs, sync[s].pc # "idle"
  PROVE  /\ url \in Urls /\ head \in [Urls -> Nat] /\ repo \in Repo
         /\ staging \in [Syncs -> Commits \cup {None, Unfinished}]
         /\ state \in [thread : Syncs \cup {None}, failed : BOOLEAN] /\ due \in Ages
         /\ events \in 0..MaxEvents /\ history \subseteq Flags /\ sync[s].url \in Urls
         /\ repo.git => repo.fetched \in Commits /\ repo.tree # {}
         /\ repo.lock => repo.git
         /\ "killed" \notin history /\ repo.git /\ ~repo.lock /\ ~repo.torn =>
              \A c, d \in repo.tree : c = d
         /\ "overlap" \notin history =>
              /\ \A c \in repo.tree : c[1] = repo.origin
              /\ sync[s].pc \in {"fetch", "reset", "resetting"} /\ repo.git =>
                   sync[s].url = repo.origin
              /\ sync[s].pc \in {"reset", "resetting"} /\ repo.git =>
                   repo.fetched[1] = repo.origin
BY DEF Inv, Shape, TypeOK, LockedWhole, OneRemote, is_repo

\* A thread that gives up, or goes on, and leaves the copy alone.
LEMMA CopyKept ==
  ASSUME Inv, NEW s \in Syncs, sync[s].pc # "idle", Moved(s), UNCHANGED <<url, head, reader, repo>>,
         sync[s].pc = "resetting" => "killed" \in history',
         sync[s].pc \in {"removing", "clearing"} => ~repo.torn,
         staging' \in [Syncs -> Commits \cup {None, Unfinished}],
         state' \in [thread : Syncs \cup {None}, failed : BOOLEAN], due' \in Ages,
         events' \in 0..MaxEvents, history \subseteq history', history' \subseteq Flags,
         sync'[s].pc \in {"idle", "clone", "remove", "replace", "clearing"}
  PROVE  Inv'
<1>1. sync'[s].pc \notin {"fetch", "reset", "resetting"}
  OBVIOUS
<1> QED
  BY <1>1, ThreadKnows, ThreadKeeps

\* A removal has begun: it goes on.
LEMMA Tears ==
  ASSUME Inv, NEW s \in Syncs, sync[s].pc \in {"remove", "size"}, Moved(s),
         UNCHANGED <<url, head, reader, history>>, Tear, sync'[s].pc \in {"removing", "clearing"}, UNCHANGED <<staging, state, due>>,
         events' \in 0..MaxEvents
  PROVE  Inv'
<1>1. PICK git, lock \in BOOLEAN :
        /\ git => repo.git
        /\ lock => repo.lock /\ git
        /\ repo' = [repo EXCEPT !.torn = TRUE, !.git = git, !.lock = lock]
  BY DEF Tear, is_repo
<1>2. /\ repo' \in Repo /\ repo'.tree = repo.tree /\ repo'.fetched = repo.fetched
      /\ repo'.origin = repo.origin /\ repo'.torn /\ repo'.git = git /\ repo'.lock = lock
  BY <1>1, ThreadKnows DEF Repo
<1>3. sync'[s].pc \notin {"fetch", "reset", "resetting"}
  OBVIOUS
<1> QED
  BY <1>1, <1>2, <1>3, ThreadKnows, ThreadKeeps

LEMMA CloneKeeps ==
  ASSUME Inv, NEW s \in Syncs, RemoveStale(s) \/ GitClone(s) \/ RemoveOld(s) \/ Replace(s)
  PROVE  Inv'
<1>1. sync[s].pc \in {"glob", "clone", "remove", "replace"} /\ UNCHANGED <<url, head, reader, history, events, due>>
  BY DEF RemoveStale, GitClone, RemoveOld, Replace, syncFrame
<1>2. CASE RemoveStale(s)
  <2>1. Moved(s) /\ sync'[s].pc = "clone"
    BY <1>2, Goes DEF RemoveStale
  <2>2. staging' \in [Syncs -> Commits \cup {None, Unfinished}] /\ UNCHANGED <<repo, state>>
    BY <1>2 DEF RemoveStale
  <2> QED
    BY <1>1, <2>1, <2>2, ThreadKnows, CopyKept
<1>3. CASE GitClone(s)
  <2>1. CASE staging[s] = Unfinished
    <3>1. Moved(s) /\ sync'[s].pc = "remove"
      BY <1>3, <2>1, Goes DEF GitClone
    <3>2. Newest(sync[s].url) \in Commits
      BY <1>1, ThreadKnows DEF Newest, Commits
    <3>3. staging' \in [Syncs -> Commits \cup {None, Unfinished}] /\ UNCHANGED <<repo, state>>
      BY <1>1, <1>3, <2>1, <3>2, ThreadKnows DEF GitClone
    <3> QED
      BY <1>1, <3>1, <3>3, ThreadKnows, CopyKept
  <2>2. CASE staging[s] # Unfinished
    <3>1. GiveUp(s) /\ UNCHANGED <<repo, staging>>
      BY <1>3, <2>2 DEF GitClone
    <3> QED
      BY <1>1, <3>1, GiveUpMoves, ThreadKnows, CopyKept
  <2> QED
    BY <2>1, <2>2
<1>4. CASE RemoveOld(s)
  <2>1. CASE repo.tree = {}
    <3>1. Moved(s) /\ sync'[s].pc = "replace"
      BY <1>4, <2>1, Goes DEF RemoveOld
    <3> QED
      BY <1>1, <1>4, <2>1, <3>1, ThreadKnows, CopyKept DEF RemoveOld
  <2>2. CASE repo.tree # {}
    <3>1. Moved(s) /\ sync'[s].pc = "removing"
      BY <1>4, <2>2, Goes DEF RemoveOld
    <3> QED
      BY <1>1, <1>4, <2>2, <3>1, ThreadKnows, Tears DEF RemoveOld
  <2> QED
    BY <2>1, <2>2
<1>5. CASE Replace(s)
  <2>1. CASE Complete(s) /\ Vacant
    <3>1. Moved(s) /\ sync'[s].pc = "size"
      BY <1>5, <2>1, Goes DEF Replace
    <3>2. /\ repo' = Cloned(staging[s]) /\ staging[s] \in Commits /\ UNCHANGED state
          /\ staging' = [staging EXCEPT ![s] = None]
      BY <1>5, <2>1 DEF Replace, Complete
    <3>3. /\ Cloned(staging[s]) \in Repo /\ Cloned(staging[s]).tree = {staging[s]}
          /\ ~Cloned(staging[s]).lock /\ ~Cloned(staging[s]).torn
          /\ Cloned(staging[s]).fetched = staging[s]
          /\ Cloned(staging[s]).origin = staging[s][1]
      BY <3>2 DEF Cloned, Repo, Commits
    <3>4. staging' \in [Syncs -> Commits \cup {None, Unfinished}]
      BY <1>1, <3>2, ThreadKnows
    <3> QED
      BY <1>1, <3>1, <3>2, <3>3, <3>4, ThreadKnows, ThreadKeeps
  <2>2. CASE ~(Complete(s) /\ Vacant)
    <3>1. GiveUp(s) /\ UNCHANGED repo /\ staging' = [staging EXCEPT ![s] = None]
      BY <1>5, <2>2 DEF Replace
    <3>2. staging' \in [Syncs -> Commits \cup {None, Unfinished}]
      BY <1>1, <3>1, ThreadKnows
    <3> QED
      BY <1>1, <3>1, <3>2, GiveUpMoves, ThreadKnows, CopyKept
  <2> QED
    BY <2>1, <2>2
<1> QED
  BY <1>2, <1>3, <1>4, <1>5

\* The end of a removal: nothing is left, or only what another thread wrote meanwhile.
LEMMA RemovalKeeps ==
  ASSUME Inv, NEW s \in Syncs, RemoveEnds(s)
  PROVE  Inv'
<1>1. /\ sync[s].pc \in {"removing", "clearing"} /\ Gone
      /\ UNCHANGED <<url, head, reader, history, events, due, staging>>
  BY DEF RemoveEnds, syncFrame
<1>2. /\ Moved(s) /\ sync'[s].pc \in {"idle", "replace"}
      /\ state' \in [thread : Syncs \cup {None}, failed : BOOLEAN]
  BY <1>1, Goes, GiveUpMoves, ThreadKnows DEF RemoveEnds
<1>3. CASE UNCHANGED repo /\ ~repo.torn
  BY <1>1, <1>2, <1>3, ThreadKnows, CopyKept
<1>4. CASE repo' = NoRepo
  <2>1. NoRepo \in Repo /\ NoRepo.tree = {} /\ ~NoRepo.lock /\ ~NoRepo.git
    BY DEF NoRepo, Repo
  <2> QED
    BY <1>1, <1>2, <1>4, <2>1, ThreadKnows, ThreadKeeps
<1>5. CASE repo' = [repo EXCEPT !.git = FALSE, !.lock = FALSE]
  <2>1. /\ repo' \in Repo /\ repo'.tree = repo.tree /\ repo'.origin = repo.origin
        /\ ~repo'.git /\ ~repo'.lock
    BY <1>1, <1>5, ThreadKnows DEF Repo
  <2> QED
    BY <1>1, <1>2, <2>1, ThreadKnows, ThreadKeeps
<1> QED
  BY <1>1, <1>3, <1>4, <1>5 DEF Gone

LEMMA RefreshKeeps ==
  ASSUME Inv, NEW s \in Syncs,
         validate_cached_remote(s) \/ GitFetch(s) \/ ResetStarts(s) \/ ResetEnds(s)
  PROVE  Inv'
<1>1. /\ sync[s].pc \in {"validate", "fetch", "reset", "resetting"}
      /\ UNCHANGED <<url, head, reader, history, events, due, staging>>
  BY DEF validate_cached_remote, GitFetch, ResetStarts, ResetEnds, syncFrame
<1>2. CASE GiveUp(s) /\ UNCHANGED repo /\ sync[s].pc # "resetting"
  BY <1>1, <1>2, GiveUpMoves, ThreadKnows, CopyKept
<1>3. CASE sync[s].pc = "validate" /\ is_repo /\ SameRemote(s) /\ Goto(s, "fetch") /\ UNCHANGED <<repo, state>>
  <2>1. Moved(s) /\ sync'[s].pc = "fetch"
    BY <1>3, Goes
  <2>2. repo.origin = sync[s].url
    BY <1>3 DEF SameRemote
  <2> QED
    BY <1>1, <1>3, <2>1, <2>2, ThreadKnows, ThreadKeeps
<1>4. CASE /\ sync[s].pc = "fetch" /\ is_repo /\ repo' = [repo EXCEPT !.fetched = Newest(sync[s].url)]
           /\ Goto(s, "reset") /\ UNCHANGED state
  <2>1. Moved(s) /\ sync'[s].pc = "reset"
    BY <1>4, Goes
  <2>2. Newest(sync[s].url) \in Commits /\ Newest(sync[s].url)[1] = sync[s].url
    BY <1>1, ThreadKnows DEF Newest, Commits
  <2>3. /\ repo' \in Repo /\ repo'.fetched = Newest(sync[s].url)
        /\ repo'.tree = repo.tree /\ repo'.lock = repo.lock /\ repo'.origin = repo.origin
        /\ repo'.git = repo.git /\ repo'.torn = repo.torn
    BY <1>1, <1>4, <2>2, ThreadKnows DEF Repo
  <2> QED
    BY <1>1, <1>4, <2>1, <2>2, <2>3, ThreadKnows, ThreadKeeps
<1>5. CASE /\ sync[s].pc = "reset" /\ is_repo
           /\ repo' = [repo EXCEPT !.lock = TRUE, !.tree = @ \cup {repo.fetched}]
           /\ Goto(s, "resetting") /\ UNCHANGED state
  <2>1. Moved(s) /\ sync'[s].pc = "resetting"
    BY <1>5, Goes
  <2>2. repo.fetched \in Commits /\ repo \in Repo /\ repo.git
    BY <1>1, <1>5, ThreadKnows DEF is_repo
  <2>3. /\ repo' \in Repo /\ repo'.fetched = repo.fetched /\ repo'.lock
        /\ repo'.tree = repo.tree \cup {repo.fetched} /\ repo'.origin = repo.origin
        /\ repo'.git = repo.git /\ repo'.torn = repo.torn
    <3> DEFINE k1 == [repo EXCEPT !.lock = TRUE]
               k2 == [k1 EXCEPT !.tree = repo.tree \cup {repo.fetched}]
    <3>1. repo' = k2
      BY <1>5
    <3>2. /\ k1 \in Repo /\ k1.fetched = repo.fetched /\ k1.lock /\ k1.origin = repo.origin
          /\ k1.git = repo.git /\ k1.torn = repo.torn
      BY <2>2 DEF Repo
    <3>3. repo.tree \cup {repo.fetched} \in SUBSET Commits
      BY <2>2 DEF Repo
    <3> HIDE DEF k1
    <3> QED
      BY <3>1, <3>2, <3>3 DEF Repo
  <2> QED
    BY <1>1, <1>5, <2>1, <2>2, <2>3, ThreadKnows, ThreadKeeps
<1>6. CASE /\ sync[s].pc = "resetting" /\ is_repo
           /\ repo' = [repo EXCEPT !.lock = FALSE, !.tree = Settled, !.torn = @ /\ Removing # {}]
           /\ Goto(s, "size") /\ UNCHANGED state
  <2>1. Moved(s) /\ sync'[s].pc = "size"
    BY <1>6, Goes
  <2>2. repo.fetched \in Commits /\ repo \in Repo /\ repo.git
    BY <1>1, <1>6, ThreadKnows DEF is_repo
  <2>3. /\ repo' \in Repo /\ repo'.fetched = repo.fetched /\ ~repo'.lock
        /\ repo'.tree = {repo.fetched} /\ repo'.origin = repo.origin
        /\ repo'.git = repo.git /\ (repo'.torn => repo.torn)
    <3> DEFINE t  == repo.torn /\ Removing # {}
               k1 == [repo EXCEPT !.lock = FALSE]
               k2 == [k1 EXCEPT !.tree = {repo.fetched}]
               k3 == [k2 EXCEPT !.torn = t]
    <3>1. repo' = k3
      BY <1>6 DEF Settled
    <3>2. t \in BOOLEAN /\ (t => repo.torn)
      OBVIOUS
    <3>3. /\ k1 \in Repo /\ k1.fetched = repo.fetched /\ ~k1.lock /\ k1.origin = repo.origin
          /\ k1.git = repo.git
      BY <2>2 DEF Repo
    <3> HIDE DEF k1, t
    <3>4. /\ k2 \in Repo /\ k2.fetched = repo.fetched /\ ~k2.lock /\ k2.origin = repo.origin
          /\ k2.git = repo.git /\ k2.tree = {repo.fetched}
      BY <2>2, <3>3 DEF Repo
    <3> HIDE DEF k2
    <3> QED
      BY <3>1, <3>2, <3>4 DEF Repo
  <2> QED
    BY <1>1, <1>6, <2>1, <2>2, <2>3, ThreadKnows, ThreadKeeps
<1>7. CASE /\ sync[s].pc = "resetting" /\ (~is_repo \/ repo.torn)
           /\ repo' = [repo EXCEPT !.lock = FALSE] /\ GiveUp(s)
  <2>1. /\ repo' \in Repo /\ repo'.tree = repo.tree /\ repo'.origin = repo.origin /\ ~repo'.lock
        /\ repo'.fetched = repo.fetched /\ repo'.git = repo.git /\ repo'.torn = repo.torn
    BY <1>1, <1>7, ThreadKnows DEF Repo
  <2>2. repo.git => repo.torn
    BY <1>7 DEF is_repo
  <2> QED
    BY <1>1, <1>7, <2>1, <2>2, GiveUpMoves, ThreadKnows, ThreadKeeps
<1> QED
  BY <1>2, <1>3, <1>4, <1>5, <1>6, <1>7
  DEF validate_cached_remote, GitFetch, ResetStarts, ResetEnds, GitFails

LEMMA EndKeeps ==
  ASSUME Inv, MirrorAssumption, NEW s \in Syncs, Succeed(s) \/ TooLarge(s) \/ prepare_git(s) \/ SyncFails(s)
  PROVE  Inv'
<1>1. CASE Succeed(s)
  <2>1. sync[s].pc = "size" /\ Leaves(s) /\ UNCHANGED <<repo, staging, url, head, reader, history, events>>
    BY <1>1 DEF Succeed, syncFrame
  <2>2. due' \in Ages /\ state' \in [thread : Syncs \cup {None}, failed : BOOLEAN]
    BY <1>1, <2>1, ThreadKnows DEF Succeed, Ended, Ages
  <2> QED
    BY <2>1, <2>2, LeavesMoves, ThreadKnows, CopyKept
<1>2. ASSUME Event, sync[s].pc # "idle" PROVE events' \in 0..MaxEvents
  BY <1>2, ThreadKnows DEF Event, MirrorAssumption
<1>3. CASE TooLarge(s)
  <2>1. /\ sync[s].pc = "size" /\ Goto(s, "clearing") /\ Event
        /\ UNCHANGED <<url, head, staging, state, due, reader, history>>
    BY <1>3 DEF TooLarge
  <2>2. Moved(s) /\ sync'[s].pc = "clearing"
    BY <2>1, Goes
  <2>3. CASE repo.tree = {}
    <3>1. UNCHANGED repo
      BY <1>3, <2>3 DEF TooLarge
    <3> QED
      BY <1>2, <2>1, <2>2, <3>1, ThreadKnows, CopyKept
  <2>4. CASE repo.tree # {}
    <3>1. Tear
      BY <1>3, <2>4 DEF TooLarge
    <3> QED
      BY <1>2, <2>1, <2>2, <3>1, Tears
  <2> QED
    BY <2>3, <2>4
<1>4. CASE prepare_git(s)
  <2>1. /\ sync[s].pc \in {"glob", "validate"} /\ GiveUp(s) /\ Event
        /\ UNCHANGED <<url, head, repo, staging, due, reader, history>>
    BY <1>4 DEF prepare_git
  <2> QED
    BY <1>2, <2>1, GiveUpMoves, ThreadKnows, CopyKept
<1>5. CASE SyncFails(s)
  <2>1. /\ sync[s].pc \in {"clone", "validate", "fetch", "resetting"} /\ GiveUp(s) /\ Event
        /\ UNCHANGED <<url, head, repo, due, reader>>
    BY <1>5 DEF SyncFails
  <2>2. staging' \in [Syncs -> Commits \cup {None, Unfinished}]
    BY <1>5, <2>1, ThreadKnows DEF SyncFails
  <2>3. /\ history \subseteq history' /\ history' \subseteq Flags
        /\ sync[s].pc = "resetting" => "killed" \in history'
    BY <1>5, <2>1, ThreadKnows DEF SyncFails, Flags
  <2> QED
    BY <1>2, <2>1, <2>2, <2>3, GiveUpMoves, ThreadKnows, CopyKept
<1> QED
  BY <1>1, <1>3, <1>4, <1>5

-----------------------------------------------------------------------------
(* Time, the remote, the administrator, the end of the process *)

LEMMA WorldKeeps ==
  ASSUME Inv, MirrorAssumption, NEW u \in Urls, Push(u) \/ ChangeUrl(u) \/ FailureAges \/ CopyAges
  PROVE  Inv'
<1>1. /\ UNCHANGED <<repo, staging, sync, reader>> /\ history \subseteq history'
      /\ "killed" \in history' <=> "killed" \in history
      /\ "overlap" \in history' <=> "overlap" \in history
  BY DEF Push, ChangeUrl, FailureAges, CopyAges, worldFrame
<1>2. TypeOK /\ MaxEvents \in Nat
  BY DEF Inv, Shape, MirrorAssumption
<1>3. url' \in Urls /\ due' \in Ages /\ history' \subseteq Flags
  BY <1>2 DEF Push, ChangeUrl, FailureAges, CopyAges, TypeOK, Flags, Ages
<1>4. head' \in [Urls -> Nat]
  <2>1. head' = head \/ head' = [head EXCEPT ![u] = head[u] + 1]
    BY DEF Push, ChangeUrl, FailureAges, CopyAges
  <2>2. head \in [Urls -> Nat]
    BY <1>2 DEF TypeOK
  <2> QED
    BY <2>1, <2>2
<1>5. state' \in [thread : Syncs \cup {None}, failed : BOOLEAN]
  <2>1. state' = state \/ state' = [state EXCEPT !.failed = FALSE]
    BY DEF Push, ChangeUrl, FailureAges, CopyAges, RetryTime
  <2> QED
    BY <1>2, <2>1 DEF TypeOK
<1>6. events' \in 0..MaxEvents
  <2>1. events' = events \/ (events < MaxEvents /\ events' = events + 1)
    BY DEF Push, ChangeUrl, FailureAges, CopyAges, Event
  <2> QED
    BY <1>2, <2>1 DEF TypeOK
<1>7. TypeOK'
  BY <1>1, <1>2, <1>3, <1>4, <1>5, <1>6 DEF TypeOK, Commits
<1> QED
  BY <1>1, <1>7 DEF Inv, Shape, LockedWhole, OneRemote, is_repo, Working, Removing, Commits

\* A crash while a lock is held cuts off a reset, one amid a removal leaves a torn copy;
\* otherwise the tree is whole.
LEMMA CrashKeeps ==
  ASSUME Inv, MirrorAssumption, Crash
  PROVE  Inv'
<1>1. /\ UNCHANGED <<url, head, repo, due>> /\ history \subseteq history'
      /\ repo.lock \/ (is_repo /\ repo.torn) => "killed" \in history'
      /\ staging' = [s \in Syncs |-> None]
      /\ sync' = [s \in Syncs |-> NoSync] /\ reader' = [r \in Readers |-> Resting]
  BY DEF Crash
<1>2. TypeOK'
  <2>1. TypeOK /\ MaxEvents \in Nat
    BY DEF Inv, Shape, MirrorAssumption
  <2>2. events' \in 0..MaxEvents
    BY <2>1 DEF Crash, Event, TypeOK
  <2>3. history' \subseteq Flags
    BY <2>1 DEF Crash, Flags, TypeOK
  <2>4. state' \in [thread : Syncs \cup {None}, failed : BOOLEAN]
    BY DEF Crash
  <2>5. sync' \in [Syncs -> SyncRow] /\ reader' \in [Readers -> ReaderRow]
    BY <1>1 DEF NoSync, Resting, SyncRow, ReaderRow
  <2> QED
    BY <1>1, <2>1, <2>2, <2>3, <2>4, <2>5 DEF TypeOK, Commits
<1>3. Shape'
  BY <1>1, <1>2 DEF Inv, Shape, is_repo, Commits, NoSync, Resting
<1>4. LockedWhole' /\ OneRemote'
  BY <1>1 DEF Inv, LockedWhole, OneRemote, is_repo, Working, Removing, NoSync
<1> QED
  BY <1>3, <1>4 DEF Inv

LEMMA InvKept ==
  ASSUME Inv, MirrorAssumption, [Next]_vars
  PROVE  Inv'
<1>1. CASE UNCHANGED vars
  BY <1>1 DEF vars, Inv, Shape, TypeOK, LockedWhole, OneRemote, is_repo, Working, Removing, Commits
<1>2. CASE \E r \in Readers : Ask(r) \/ ReaderStep(r)
  BY <1>2, ReaderKeeps, StartKeeps DEF ReaderStep
<1>3. CASE \E s \in Syncs : SyncStep(s) \/ TooLarge(s) \/ prepare_git(s) \/ SyncFails(s)
  BY <1>3, CloneKeeps, RemovalKeeps, RefreshKeeps, EndKeeps DEF SyncStep
<1>4. CASE FailureAges \/ CopyAges
  <2>1. url \in Urls
    BY DEF Inv, Shape, TypeOK
  <2> QED
    BY <1>4, <2>1, WorldKeeps
<1> QED
  BY <1>1, <1>2, <1>3, <1>4, WorldKeeps, CrashKeeps DEF Next

LEMMA InvBegins ==
  ASSUME MirrorAssumption, Init
  PROVE  Inv
<1>1. TypeOK
  BY DEF MirrorAssumption, Init, TypeOK, NoRepo, Repo, NoSync, SyncRow, Resting, ReaderRow, Flags, Ages, Commits
<1> QED
  BY <1>1 DEF Init, Inv, Shape, LockedWhole, OneRemote, is_repo, Working, NoRepo, NoSync, Resting

\* Without two threads at once, a working copy holds commits of its remote only: a thread
\* that refreshes compares the remote of the copy with its own address first.
THEOREM CopyOfOrigin ==
  ASSUME MirrorAssumption
  PROVE  Spec => []TreeOfOrigin
<1>1. Inv => TreeOfOrigin
  BY DEF Inv, OneRemote, TreeOfOrigin
<1> QED
  BY <1>1, InvBegins, InvKept, PTL DEF Spec

LEMMA QuietIsWhole ==
  ASSUME Inv
  PROVE  WholeWhenQuiet
<1> SUFFICES ASSUME Working = {}, "killed" \notin history, is_repo
             PROVE  Cardinality(repo.tree) = 1 /\ ~repo.lock /\ ~repo.torn
  BY DEF WholeWhenQuiet
<1>1. Removing = {} /\ \A s \in Syncs : sync[s].pc # "resetting"
  BY DEF Working, Removing
<1>2. ~repo.lock /\ ~repo.torn
  BY <1>1 DEF Inv, LockedWhole
<1>3. PICK c \in repo.tree : repo.tree = {c}
  BY <1>2 DEF Inv, LockedWhole, Shape
<1> QED
  BY <1>2, <1>3, FS_Singleton

\* Where no thread is at work and no reset or removal was cut off, a tool reads one whole
\* commit, also after threads raced for the directory: whoever resets holds the lock until
\* the tree is whole again, what is being removed is gone or no copy any more once the
\* removal has ended, and a clone takes the place of a directory that is gone.
THEOREM QuietCopyIsWhole ==
  ASSUME MirrorAssumption
  PROVE  Spec => []WholeWhenQuiet
BY InvBegins, InvKept, QuietIsWhole, PTL DEF Spec

=============================================================================
