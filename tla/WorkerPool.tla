----------------------------- MODULE WorkerPool -----------------------------
(***************************************************************************)
(* The worker processes of one plugin version: app/plugins/process.py      *)
(* (WorkerProcess, PluginProcessPool) on the gateway's event loop and the  *)
(* loop of app/plugins/worker.py in each process, talking over two pipes.  *)
(*                                                                         *)
(* A worker is the object, not the process: its process is started lazily  *)
(* by the first call that holds its lock, and again after each death. The  *)
(* object _pick creates for a request is named after that request, the one *)
(* of PluginProcessPool.start is First. The handshake is the call Hello.   *)
(***************************************************************************)
EXTENDS Integers, SequencesExt

CONSTANTS
  Requests,    \* PluginProcessPool.request, each used once: its id is a uuid4
  Large,       \* those whose line is longer than the pipe and the buffer before it hold
  First,       \* the worker of start
  Hello,       \* the initialize call of _handshake
  Exit,        \* the id of the shutdown message
  None,
  MaxWorkers,  \* max_workers, 1 to 4 in the code
  Answers,     \* the kinds of line a plugin answers with
  MaxCrashes   \* bound on processes that die by themselves

Calls   == Requests \cup {Hello}
Workers == Requests \cup {First}

ASSUME PoolAssumption ==
  /\ MaxWorkers \in 1..4
  /\ MaxCrashes \in Nat
  /\ Large \subseteq Requests
  /\ Answers \subseteq {"result", "error", "long"}
  /\ {Hello, Exit, None} \cap Workers = {}
  /\ First \notin Requests
  /\ Hello # Exit /\ Hello # None /\ Exit # None

VARIABLES
  workers,  \* self.workers
  closed,   \* self.closed
  phase,    \* where the owner of the pool stands in start, drain and stop
  rest,     \* the workers stop has still to shut down
  lock,     \* WorkerProcess.lock: who holds it, who waits for it in which order
  proc,     \* WorkerProcess.proc, its pipes and the state of its loop
  call,     \* the state of each call
  ran,      \* history: the calls a process has taken up
  crashes

ownerVars == <<workers, closed, phase, rest>>
vars == <<ownerVars, lock, proc, call, ran, crashes>>

Phases == {"spawning", "starting", "serving", "draining", "asking", "flushing",
           "waiting", "stopped"}

\* down: no process, or its returncode is known; dead: it has exited and was not
\* reaped yet, so that alive still holds; loading: it imports the plugin.
Lives == {"down", "dead", "loading", "up"}

\* An error may carry no id; tail is what is left of a line that was too long.
Messages == [id : Calls \cup {Exit, None}, kind : {"result", "error", "long", "tail"}]

\* starting: in create_subprocess_exec; talking: in drain or readline; killing:
\* waiting for the killed process.
Points == {"idle", "waiting", "starting", "talking", "killing", "done"}

Outcomes == {"none", "result", "error", "cancelled", "TIMEOUT", "PLUGIN_CRASHED",
             "PLUGIN_PROTOCOL", "PLUGIN_START_FAILED", "PLUGIN_DISABLED", "ValueError"}

Locks == [holder : Calls \cup {None}, waiters : Seq(Calls)]

\* stdin, stdout: the lines not yet read; guard: worker.py's guard is set; asked:
\* shutdown was sent to this process.
Processes == [life : Lives, guard : BOOLEAN, asked : BOOLEAN, stdin : Seq(Calls \cup {Exit}),
              doing : Calls \cup {None}, stdout : Seq(Messages)]

CallRows == [pc : Points, at : Workers \cup {None}, outcome : Outcomes,
             got : Calls \cup {None}]

TypeOK ==
  /\ workers \in Seq(Workers) /\ rest \in Seq(Workers)
  /\ closed \in BOOLEAN
  /\ phase \in Phases
  /\ lock \in [Workers -> Locks]
  /\ proc \in [Workers -> Processes]
  /\ call \in [Calls -> CallRows]
  /\ ran \subseteq Calls
  /\ crashes \in 0..MaxCrashes

-----------------------------------------------------------------------------
(* Faulty forms of the definitions below: the mistakes the properties exclude. *)

AnyResult(c, m)  == m.kind = "result"                  \* the id is not compared
LeftRunning(p)   == p                                  \* give up without a kill
OneTooMany(kept) == Len(kept) <= MaxWorkers
NoDeadline(c)    == call[c].pc = "talking" /\ proc[call[c].at].life = "dead"
NoExitDeadline   == FALSE                              \* wait for the exit for good
RunAgain(c) ==                                         \* retry after a crash
  /\ call[c].pc = "talking" /\ proc[call[c].at].life \in {"dead", "down"}
  /\ call' = [call EXCEPT ![c].pc = "starting"]
  /\ UNCHANGED <<ownerVars, lock, proc, ran, crashes>>

-----------------------------------------------------------------------------
(* Processes and locks *)

Live(w)   == proc[w].life \in {"loading", "up"}
Alive(w)  == proc[w].life # "down"
Locked(w) == lock[w].holder # None

NoProcess == [life |-> "down", guard |-> FALSE, asked |-> FALSE, stdin |-> <<>>,
              doing |-> None, stdout |-> <<>>]

\* A process of its own accord or by SIGKILL ends: what it has read is lost, what
\* it has written is still in the pipe.
Ended(p) == [p EXCEPT !.life = IF @ = "down" THEN "down" ELSE "dead",
                      !.stdin = <<>>, !.doing = None]

Killed(p) == Ended(p)

\* A call gives up its place in the queue of a lock; it has one at most.
Without(queue, c) ==
  IF Contains(queue, c) THEN RemoveAt(queue, CHOOSE i \in DOMAIN queue : queue[i] = c)
                        ELSE queue

Send(w, line) ==
  IF Live(w) THEN proc' = [proc EXCEPT ![w].stdin = Append(@, line)] ELSE UNCHANGED proc

\* The body of call up to its first await: an idle process gets the line at once.
Enter(w, c) ==
  /\ lock' = [lock EXCEPT ![w] = [holder |-> c, waiters |-> Without(@.waiters, c)]]
  /\ call' = [call EXCEPT ![c].at = w, ![c].pc = IF Alive(w) THEN "talking" ELSE "starting"]
  /\ Send(w, c)

\* The line of a large request that was not read yet leaves no room in the pipe.
Full(w) == \E c \in Large : Contains(proc[w].stdin, c)

Release(w) == lock' = [lock EXCEPT ![w].holder = None]

\* The call of c ends and p is what it leaves of its process.
Finish(c, outcome, p) ==
  /\ Release(call[c].at)
  /\ proc' = [proc EXCEPT ![call[c].at] = p]
  /\ call' = [call EXCEPT ![c].pc = "done", ![c].outcome = outcome, ![c].at = None]

\* WorkerProcess.kill in call, up to the wait for a process not yet reaped.
Kill(c, outcome) ==
  LET w == call[c].at IN
    IF Alive(w)
      THEN /\ proc' = [proc EXCEPT ![w] = Killed(@)]
           /\ call' = [call EXCEPT ![c].pc = "killing", ![c].outcome = outcome]
           /\ UNCHANGED lock
      ELSE Finish(c, outcome, proc[w])

-----------------------------------------------------------------------------
(* WorkerProcess.call *)

callFrame == UNCHANGED <<ownerVars, ran, crashes>>

Talks(c) == call[c].pc = "talking"
Inbox(c) == proc[call[c].at].stdout

\* A released lock goes to the first waiter when the event loop wakes it.
Acquire(w) ==
  /\ ~Locked(w) /\ lock[w].waiters # <<>>
  /\ Enter(w, Head(lock[w].waiters))
  /\ callFrame

Started(c) ==
  /\ call[c].pc = "starting"
  /\ proc' = [proc EXCEPT ![call[c].at] =
                [NoProcess EXCEPT !.life = "loading", !.stdin = <<c>>]]
  /\ call' = [call EXCEPT ![c].pc = "talking"]
  /\ UNCHANGED lock /\ callFrame

StartFails(c) ==
  /\ call[c].pc = "starting"
  /\ Finish(c, "PLUGIN_START_FAILED", proc[call[c].at])
  /\ callFrame

\* The message ends the call of c with a result, or with the plugin's error.
IsResult(c, m) == m.kind = "result" /\ m.id = c
IsError(c, m)  == m.kind = "error" /\ m.id \in {None, c}

ReadMessage(c, m, p) ==
  \/ /\ IsResult(c, m)
     /\ Release(call[c].at)
     /\ proc' = [proc EXCEPT ![call[c].at] = p]
     /\ call' = [call EXCEPT ![c].pc = "done", ![c].outcome = "result",
                              ![c].got = m.id, ![c].at = None]
  \/ IsError(c, m) /\ Finish(c, "error", p)
  \/ \* not JSON, or the answer of another call
     /\ m.kind # "long" /\ ~IsResult(c, m) /\ ~IsError(c, m)
     /\ Kill(c, "PLUGIN_PROTOCOL")
  \/ \* Above the 64 KiB of the stream reader readline raises ValueError, which
     \* call does not catch, and drops the line or the part it has received.
     /\ m.kind \in {"long", "tail"}
     /\ \/ Finish(c, "ValueError", p)
        \/ Finish(c, "ValueError",
                  [p EXCEPT !.stdout = <<[id |-> None, kind |-> "tail"]>> \o @])

Read(c) ==
  /\ Talks(c) /\ Inbox(c) # <<>>
  /\ ReadMessage(c, Head(Inbox(c)), [proc[call[c].at] EXCEPT !.stdout = Tail(@)])
  /\ callFrame

\* Broken pipe in drain, or end of file.
Disconnected(c) ==
  /\ Talks(c) /\ ~Live(call[c].at)
  /\ Kill(c, "PLUGIN_CRASHED")
  /\ callFrame

Expires(c) == Talks(c)

Timeout(c) ==
  /\ Expires(c)
  /\ Kill(c, "TIMEOUT")
  /\ callFrame

\* The process was reaped, or the five seconds of kill are over.
KillEnds(c) ==
  /\ call[c].pc = "killing"
  /\ Finish(c, call[c].outcome, proc[call[c].at])
  /\ callFrame

Cancel(c) ==
  /\ call[c].pc \in {"waiting", "starting", "talking", "killing"}
  /\ LET w == call[c].at IN
       lock' = [lock EXCEPT ![w] = [holder  |-> IF @.holder = c THEN None ELSE @.holder,
                                    waiters |-> Without(@.waiters, c)]]
  /\ call' = [call EXCEPT ![c].pc = "done", ![c].outcome = "cancelled", ![c].at = None]
  /\ UNCHANGED proc /\ callFrame

-----------------------------------------------------------------------------
(* The process: app/plugins/worker.py, main *)

processFrame == UNCHANGED <<ownerVars, lock, call>>

Load(w) ==
  /\ proc[w].life = "loading"
  /\ proc' = [proc EXCEPT ![w].life = "up"]
  /\ UNCHANGED <<ran, crashes>> /\ processFrame

LoadFails(w) ==
  /\ proc[w].life = "loading"
  /\ proc' = [proc EXCEPT ![w] = [Ended(@) EXCEPT !.stdout = <<[id |-> None, kind |-> "error"]>>]]
  /\ UNCHANGED <<ran, crashes>> /\ processFrame

\* The next line of stdin: a call, executed from now on, or shutdown.
Reads(w) == proc[w].life = "up" /\ proc[w].doing = None /\ proc[w].stdin # <<>>

Take(w) ==
  /\ Reads(w) /\ Head(proc[w].stdin) # Exit
  /\ proc' = [proc EXCEPT ![w].stdin = Tail(@), ![w].doing = Head(proc[w].stdin)]
  /\ ran' = ran \cup {Head(proc[w].stdin)}
  /\ UNCHANGED crashes /\ processFrame

Leave(w) ==
  /\ Reads(w) /\ Head(proc[w].stdin) = Exit
  /\ proc' = [proc EXCEPT ![w] = [Ended(proc[w]) EXCEPT !.stdout =
                Append(proc[w].stdout, [id |-> Exit, kind |-> "result"])]]
  /\ UNCHANGED <<ran, crashes>> /\ processFrame

Reply(w, kind) ==
  LET c == proc[w].doing IN
    /\ c # None
    /\ c = Hello => kind # "error"
    /\ proc' = [proc EXCEPT ![w].doing = None, ![w].guard = @ \/ c = Hello,
                            ![w].stdout = Append(@, [id |-> c, kind |-> kind])]
    /\ UNCHANGED <<ran, crashes>> /\ processFrame

\* os._exit, a signal, an exception outside call_guarded.
Crash(w) ==
  /\ Live(w) /\ crashes < MaxCrashes
  /\ proc' = [proc EXCEPT ![w] = Ended(@)]
  /\ crashes' = crashes + 1
  /\ UNCHANGED ran /\ processFrame

\* The event loop learns of the exit: returncode is set.
Reap(w) ==
  /\ proc[w].life = "dead"
  /\ proc' = [proc EXCEPT ![w].life = "down"]
  /\ UNCHANGED <<ran, crashes>> /\ processFrame

-----------------------------------------------------------------------------
(* PluginProcessPool.request *)

Kept == {i \in DOMAIN workers : Alive(workers[i]) \/ Locked(workers[i])}

\* The one list of the workers that are kept, in the order they have.
_prune ==
  {[i \in DOMAIN f |-> workers[f[i]]] :
     f \in {f \in [1..Cardinality(Kept) -> Kept] : \A i, j \in DOMAIN f : i < j => f[i] < f[j]}}

Room(kept) == Len(kept) < MaxWorkers

Idle(kept) == {i \in DOMAIN kept : Alive(kept[i]) /\ ~Locked(kept[i])}

\* The first idle worker, a new one, or the queue of the oldest.
_pick(kept, r) ==
  IF Idle(kept) # {} THEN kept[Min(Idle(kept))]
  ELSE IF Room(kept) THEN r
  ELSE kept[1]

Refuse(r) ==
  /\ call[r].pc = "idle" /\ phase # "spawning" /\ closed
  /\ call' = [call EXCEPT ![r].pc = "done", ![r].outcome = "PLUGIN_DISABLED"]
  /\ UNCHANGED <<ownerVars, lock, proc, ran, crashes>>

\* A lock that is free and that nobody waits for is taken at once.
Ask(w, r) ==
  IF ~Locked(w) /\ lock[w].waiters = <<>>
    THEN Enter(w, r)
    ELSE /\ lock' = [lock EXCEPT ![w].waiters = Append(@, r)]
         /\ call' = [call EXCEPT ![r].pc = "waiting", ![r].at = w]
         /\ UNCHANGED proc

Request(r) ==
  /\ call[r].pc = "idle" /\ phase = "serving"
  /\ \E kept \in _prune :
       /\ workers' = IF _pick(kept, r) = r THEN Append(kept, r) ELSE kept
       /\ Ask(_pick(kept, r), r)
  /\ UNCHANGED <<closed, phase, rest, ran, crashes>>

-----------------------------------------------------------------------------
(* The owner of the pool: start, then drain or stop *)

ownerFrame == UNCHANGED <<ran, crashes>>

_spawn ==
  /\ phase = "spawning"
  /\ phase' = "starting"
  /\ workers' = <<First>>
  /\ proc' = [proc EXCEPT ![First] = [NoProcess EXCEPT !.life = "loading", !.stdin = <<Hello>>]]
  /\ lock' = [lock EXCEPT ![First].holder = Hello]
  /\ call' = [call EXCEPT ![Hello].pc = "talking", ![Hello].at = First]
  /\ UNCHANGED <<closed, rest>> /\ ownerFrame

\* The first process cannot be started: whoever made the pool stops it.
SpawnFails ==
  /\ phase = "spawning"
  /\ phase' = "asking" /\ closed' = TRUE
  /\ UNCHANGED <<workers, rest, lock, proc, call>> /\ ownerFrame

HandshakeEnded == phase = "starting" /\ call[Hello].pc = "done"

Accept ==
  /\ HandshakeEnded /\ call[Hello].outcome = "result"
  /\ phase' = "serving"
  /\ UNCHANGED <<workers, closed, rest, lock, proc, call>> /\ ownerFrame

\* Another protocol, another plugin or a GatewayError: the worker is killed and
\* dropped. A cancellation and ValueError leave it to stop.
Reject ==
  /\ HandshakeEnded
  /\ IF call[Hello].outcome \in {"cancelled", "ValueError"}
       THEN rest' = workers /\ UNCHANGED <<workers, proc>>
       ELSE /\ proc' = [proc EXCEPT ![First] = Killed(@)]
            /\ workers' = <<>> /\ rest' = <<>>
  /\ phase' = "asking" /\ closed' = TRUE
  /\ UNCHANGED <<lock, call>> /\ ownerFrame

Close ==
  /\ phase = "serving"
  /\ phase' = "draining" /\ closed' = TRUE
  /\ UNCHANGED <<workers, rest, lock, proc, call>> /\ ownerFrame

\* No worker is locked or the grace period is over; stop called directly has none.
Drained ==
  /\ phase = "draining"
  /\ phase' = "asking" /\ rest' = workers
  /\ UNCHANGED <<workers, closed, lock, proc, call>> /\ ownerFrame

\* WorkerProcess.shutdown does not take the lock of the worker. stdin.drain returns at once
\* where there is room.
shutdown ==
  /\ phase = "asking" /\ rest # <<>>
  /\ IF Alive(Head(rest))
       THEN /\ proc' = [proc EXCEPT ![Head(rest)].asked = TRUE,
                          ![Head(rest)].stdin = IF Live(Head(rest)) THEN Append(@, Exit) ELSE @]
            /\ phase' = (IF Full(Head(rest)) THEN "flushing" ELSE "waiting") /\ UNCHANGED rest
       ELSE rest' = Tail(rest) /\ UNCHANGED <<phase, proc>>
  /\ UNCHANGED <<workers, closed, lock, call>> /\ ownerFrame

Stuck == phase = "flushing" /\ proc[Head(rest)].asked /\ Full(Head(rest))

\* stdin.drain has no deadline: it returns when there is room, or raises because the
\* process is gone, and then the process the worker has by now is killed.
Flushed ==
  /\ phase = "flushing" /\ ~Stuck
  /\ IF proc[Head(rest)].asked
       THEN phase' = "waiting" /\ UNCHANGED <<rest, proc>>
       ELSE /\ proc' = [proc EXCEPT ![Head(rest)] = Killed(@)]
            /\ phase' = "asking" /\ rest' = Tail(rest)
  /\ UNCHANGED <<workers, closed, lock, call>> /\ ownerFrame

\* The process it waits for was reaped; the worker may have another one by now.
Exited ==
  /\ phase = "waiting"
  /\ ~Alive(Head(rest)) \/ ~proc[Head(rest)].asked
  /\ phase' = "asking" /\ rest' = Tail(rest)
  /\ UNCHANGED <<workers, closed, lock, proc, call>> /\ ownerFrame

ExitExpires == phase = "waiting"

\* Ten seconds without an exit after the drain, or a broken pipe.
ExitTimeout ==
  /\ ExitExpires
  /\ proc' = [proc EXCEPT ![Head(rest)] = Killed(@)]
  /\ phase' = "asking" /\ rest' = Tail(rest)
  /\ UNCHANGED <<workers, closed, lock, call>> /\ ownerFrame

Stopped ==
  /\ phase = "asking" /\ rest = <<>>
  /\ phase' = "stopped" /\ workers' = <<>>
  /\ UNCHANGED <<closed, rest, lock, proc, call>> /\ ownerFrame

-----------------------------------------------------------------------------
Init ==
  /\ workers = <<>> /\ closed = FALSE /\ phase = "spawning" /\ rest = <<>>
  /\ lock = [w \in Workers |-> [holder |-> None, waiters |-> <<>>]]
  /\ proc = [w \in Workers |-> NoProcess]
  /\ call = [c \in Calls |-> [pc |-> "idle", at |-> None, outcome |-> "none", got |-> None]]
  /\ ran = {} /\ crashes = 0

CallStep(c) ==
  \/ Started(c) \/ StartFails(c) \/ Read(c) \/ Disconnected(c) \/ Timeout(c)
  \/ KillEnds(c) \/ Cancel(c)

ProcessStep(w) ==
  \/ Load(w) \/ LoadFails(w) \/ Take(w) \/ Leave(w) \/ Crash(w) \/ Reap(w)
  \/ \E kind \in Answers : Reply(w, kind)

OwnerStep ==
  \/ _spawn \/ SpawnFails \/ Accept \/ Reject \/ Close \/ Drained \/ shutdown
  \/ Flushed \/ Exited \/ ExitTimeout \/ Stopped

Next ==
  \/ \E r \in Requests : Request(r) \/ Refuse(r)
  \/ \E c \in Calls : CallStep(c)
  \/ \E w \in Workers : Acquire(w) \/ ProcessStep(w)
  \/ OwnerStep

\* The event loop wakes waiters, fires deadlines and resumes coroutines, among them a
\* drain whose pipe has room again; a plugin may hang and leave its pipe full, and whether
\* a process is started, stopped or cancelled is open.
Fairness ==
  /\ \A w \in Workers : WF_vars(Acquire(w))
  /\ \A c \in Calls :
       /\ WF_vars(Started(c) \/ StartFails(c))
       /\ WF_vars(Disconnected(c)) /\ WF_vars(Timeout(c)) /\ WF_vars(KillEnds(c))
  /\ WF_vars(Drained) /\ WF_vars(shutdown) /\ WF_vars(Flushed)
  /\ WF_vars(ExitTimeout) /\ WF_vars(Stopped)

Spec == Init /\ [][Next]_vars /\ Fairness

-----------------------------------------------------------------------------
(* Properties *)

\* A result is handed to the call it was computed for, whatever answers cancelled
\* calls and unread lines have left in the pipe (process.py:112).
OwnReply ==
  \A c \in Calls : call[c].outcome = "result" => call[c].got = c /\ c \in ran

\* A killed call is not retried: no process takes up a request a second time
\* (process.py:4, the remote state of a write is unknown).
RunOnce ==
  [][\A w \in Workers :
       proc[w].doing = None /\ proc'[w].doing # None => proc'[w].doing \notin ran]_vars

\* A call that was told of a timeout, a crash or a broken protocol is not executed
\* any more, nor later, by a process that lives on.
FailedCallStopped ==
  \A w \in Workers, c \in Calls :
    /\ call[c].pc = "done"
    /\ call[c].outcome \in {"TIMEOUT", "PLUGIN_CRASHED", "PLUGIN_PROTOCOL"}
    => proc[w].doing # c /\ ~Contains(proc[w].stdin, c)

\* The pool never holds more workers than max_workers, nor one of them twice.
PoolBounded ==
  Len(workers) <= MaxWorkers /\ IsInjective(workers)

\* Once stop is past a worker, the process it has asked to leave has ended.
StopReaps ==
  \A w \in Workers :
    proc[w].asked /\ Live(w) => phase \in {"flushing", "waiting"} /\ w = Head(rest)

\* Every request ends, also behind a process that never answers.
CallEnds == \A r \in Requests : call[r].pc # "idle" ~> call[r].pc = "done"

\* A pool that was closed is stopped, although its processes may ignore shutdown, unless
\* one that hangs keeps its pipe full: shutdown waits for room without a deadline.
StopEnds == []<>~Stuck => (closed ~> phase = "stopped")

\* docs/plugins.md and app/plugins/sdk/net.py: plugin code has ctx.net, whose rules
\* the handshake brings. Only the first process of First is shaken hands with.
GuardBeforeUse ==
  \A w \in Workers : proc[w].doing \in Requests => proc[w].guard

=============================================================================
