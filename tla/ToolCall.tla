------------------------------ MODULE ToolCall ------------------------------
(***************************************************************************)
(* The execution core of the gateway (app/core/gateway.py, Gateway.call,   *)
(* Gateway.account_operation and the maintenance loop): one coroutine per  *)
(* request on the event loop, a pool of database threads running shielded  *)
(* jobs, a pool of worker threads running blocking adapters, three layers  *)
(* of permits (per client, global, runner), the audit row of the request,  *)
(* and the latch audit_failed that stops execution when the audit trail    *)
(* cannot be written.                                                      *)
(*                                                                         *)
(* A request is used once: its id is a fresh uuid4 in the code.            *)
(***************************************************************************)
EXTENDS Integers, FiniteSets

CONSTANTS
  Calls,        \* tool calls (Gateway.call)
  Ops,          \* connection tests and catalog refreshes (account_operation)
  Clients,      \* client identities
  ClientOf,     \* the client a call is made by
  GlobalSlots,  \* Gateway.slots, 16 in the code
  LocalSlots,   \* Gateway.client_slots, 4 per client in the code
  RunnerSlots,  \* BlockingRunner.slots, 16 in the code
  DbSlots,      \* Gateway.db_slots, 64 in the code
  MaxRestarts   \* bound on crashes of the process

Requests == Calls \cup Ops

ASSUME RequestsAssumption ==
  /\ IsFiniteSet(Requests)
  /\ Calls \cap Ops = {}
  /\ ClientOf \in [Calls -> Clients]

ASSUME SlotsAssumption ==
  /\ GlobalSlots \in Nat \ {0}
  /\ LocalSlots \in Nat \ {0}
  /\ RunnerSlots \in Nat
  /\ DbSlots \in Nat \ {0}
  /\ MaxRestarts \in Nat

\* Both limits are 16 in the code: the runner is not the narrower one.
ASSUME RunnerAssumption == RunnerSlots >= GlobalSlots

VARIABLES
  audit,        \* status of the request's audit_log row, "none" before INSERT
  pc,           \* where the request's coroutine stands
  db,           \* its wait inside Gateway.db, see DbWait
  begun,        \* started_audit (call) or begun (account_operation)
  out,          \* the status the coroutine wants its audit row to end with
  reply,        \* what the caller is told
  worker,       \* the thread of BlockingRunner.run: ctx.worker_future
  ran,          \* history: the adapter was entered for this request
  slots,        \* Gateway.slots._value
  clientSlots,  \* Gateway.client_slots[c]._value
  runnerSlots,  \* BlockingRunner.slots._value
  jobs,         \* database jobs submitted to the executor, not yet run
  auditFailed,  \* Gateway.audit_failed
  maint,        \* where Gateway.maintenance stands
  snap,         \* tuple(active_requests) handed to maintain_db
  restarts      \* number of process crashes so far

dbVars     == <<audit, jobs>>
permitVars == <<slots, clientSlots, runnerSlots>>
maintVars  == <<maint, snap, restarts>>
vars == <<audit, pc, db, begun, out, reply, worker, ran, slots, clientSlots,
          runnerSlots, jobs, auditFailed, maint, snap, restarts>>

Outcomes == {"ok", "error", "timeout"}
Closed   == Outcomes \cup {"denied", "interrupted"}
Rows     == {"none", "started"} \cup Closed

\* admit: before the client permit; global: waiting for Gateway.slots;
\* prepare: in db(prepare) or db(begin); dispatch: audited, about to execute;
\* async: awaiting an asynchronous adapter; thread: awaiting a worker thread;
\* record: in db(finish) or db(denied).
Points == {"idle", "admit", "global", "prepare", "dispatch", "async", "thread",
           "record", "done"}

\* slot: waiting for a permit of db_slots; job: the job is in the executor;
\* the others are the result of the job, not yet seen by the coroutine.
DbWait == {"idle", "slot", "job", "ok", "refused", "error"}

\* busy, unavailable and denied all say that nothing was executed: they are
\* raised as transport errors or returned before the audit row was started.
Replies == {"none", "value", "failed", "busy", "unavailable", "denied",
            "unconfirmed", "cancelled", "lost"}

\* insert: the INSERT of prepare, begin and denied; update: the UPDATE of finish.
Job == [req : Requests, kind : {"insert", "update"}, status : Rows \ {"none"}]

-----------------------------------------------------------------------------
(* Faulty forms of the definitions below: the mistakes the properties exclude. *)

AnyPermit(n)        == TRUE                      \* go on after a timed out acquire
ReleaseAtOnce(r)    == TRUE                      \* forget the worker thread
ReleaseOnce(r)      == pc[r] = "done"            \* callback attached too late
StartUnconfirmed(r) == db[r] \in {"job", "ok"}   \* execute before the commit
InsertsFreely(j)    == TRUE                      \* INSERT OR REPLACE
OnlyStarted(r)      == audit[r] = "started"      \* UPDATE ... AND status='started'
LatchForgotten      == UNCHANGED auditFailed     \* swallow the failed recording
NoDeadline(r)       == pc[r] = "thread" /\ worker[r] = "done"
AlwaysRetryable(r)  == IF reply[r] = "cancelled" THEN "cancelled" ELSE "unavailable"

-----------------------------------------------------------------------------
(* Permits *)

HasClientPermit(r) ==
  r \in Calls /\ pc[r] \in {"global", "prepare", "dispatch", "async", "thread"}

\* account_operation gives its permit back in its outermost finally, after the
\* audit row was written; call gives it back before.
HasGlobalPermit(r) ==
  \/ pc[r] \in {"prepare", "dispatch", "async", "thread"}
  \/ r \in Ops /\ pc[r] = "record"

\* The coroutine has gone through its call of release_capacity.
HandedOver(r) == pc[r] = "done" \/ (r \in Calls /\ pc[r] = "record")

One(b) == IF b THEN 1 ELSE 0

GiveBack(r, global, client) ==
  /\ slots' = slots + One(global)
  /\ clientSlots' = IF client THEN [clientSlots EXCEPT ![ClientOf[r]] = @ + 1]
                              ELSE clientSlots

WorkerIdle(r) == worker[r] # "run"

\* A worker thread that is still running keeps the permits of its request.
release_capacity(r) ==
  IF WorkerIdle(r) THEN GiveBack(r, HasGlobalPermit(r), HasClientPermit(r))
                   ELSE UNCHANGED <<slots, clientSlots>>

-----------------------------------------------------------------------------
(* Leaving the try block *)

\* The coroutine of r leaves its try block with this status for the audit row
\* and this answer for the caller. A call releases its permits and records its
\* end (finish or denied). An account operation records it only when its row was
\* begun, still holding its permit.
Conclude(r, status, answer) ==
  /\ out' = [out EXCEPT ![r] = status]
  /\ reply' = [reply EXCEPT ![r] = answer]
  /\ IF r \in Ops /\ begun[r]
     THEN /\ pc' = [pc EXCEPT ![r] = "record"]
          /\ db' = [db EXCEPT ![r] = "slot"]
          /\ UNCHANGED <<slots, clientSlots>>
     ELSE /\ pc' = [pc EXCEPT ![r] = IF r \in Calls THEN "record" ELSE "done"]
          /\ db' = [db EXCEPT ![r] = IF r \in Calls THEN "slot" ELSE "idle"]
          /\ release_capacity(r)

\* The coroutine returns or raises; active_requests.discard(request_id).
Return(r, answer) ==
  /\ pc' = [pc EXCEPT ![r] = "done"]
  /\ db' = [db EXCEPT ![r] = "idle"]
  /\ reply' = [reply EXCEPT ![r] = answer]
  /\ IF r \in Ops THEN release_capacity(r) ELSE UNCHANGED <<slots, clientSlots>>

-----------------------------------------------------------------------------
(* Gateway.db: a permit, a job in the executor, a shielded await *)

DbFull == Cardinality(jobs) + One(maint # "sleep") >= DbSlots

\* The job the coroutine of r submits at its current point.
JobOf(r) ==
  [req |-> r,
   kind |-> IF pc[r] = "record" /\ begun[r] THEN "update" ELSE "insert",
   status |-> IF pc[r] = "prepare" THEN "started"
              ELSE IF begun[r] THEN out[r] ELSE "denied"]

Awaited(j) == db[j.req] = "job" /\ j = JobOf(j.req)

Submit(r) ==
  /\ db[r] = "slot"
  /\ ~DbFull
  /\ jobs' = jobs \cup {JobOf(r)}
  /\ db' = [db EXCEPT ![r] = "job"]
  /\ UNCHANGED <<audit, pc, begun, out, reply, worker, ran, auditFailed>>
  /\ UNCHANGED permitVars /\ UNCHANGED maintVars

\* The thread finished job j with this result and its permit is returned; the
\* coroutine learns of it only if it still awaits j.
Answer(j, result) ==
  /\ jobs' = jobs \ {j}
  /\ db' = IF Awaited(j) THEN [db EXCEPT ![j.req] = result] ELSE db
  /\ UNCHANGED <<pc, begun, out, reply, worker, ran, auditFailed>>
  /\ UNCHANGED permitVars /\ UNCHANGED maintVars

\* prepare runs entries, validate and enforce_rules and refuses while the latch
\* is set; begin compares revisions and does not look at the latch.
Refuses(j) == j.req \in Calls /\ j.status = "started" /\ auditFailed

\* request_id is UNIQUE in audit_log.
Inserts(j) == audit[j.req] = "none"

RunInsert(j) ==
  /\ j \in jobs /\ j.kind = "insert"
  /\ \/ /\ Refuses(j)
        /\ Answer(j, "refused")
        /\ UNCHANGED audit
     \/ /\ ~Refuses(j)
        /\ Inserts(j)
        /\ Answer(j, "ok")
        /\ audit' = [audit EXCEPT ![j.req] = j.status]
     \/ /\ ~Refuses(j)
        /\ ~Inserts(j)
        /\ Answer(j, "error")
        /\ UNCHANGED audit
     \/ /\ j.status = "started"   \* denied, invalid, or a changed revision
        /\ Answer(j, "refused")
        /\ UNCHANGED audit

\* UPDATE ... WHERE request_id=?, whatever the status of the row.
Updates(r) == audit[r] # "none"

RunUpdate(j) ==
  /\ j \in jobs /\ j.kind = "update"
  /\ audit' = IF Updates(j.req) THEN [audit EXCEPT ![j.req] = j.status] ELSE audit
  /\ Answer(j, "ok")

\* sqlite3.Error: the transaction is rolled back.
JobFails(j) ==
  /\ j \in jobs
  /\ Answer(j, "error")
  /\ UNCHANGED audit

-----------------------------------------------------------------------------
(* Admission *)

Enter(r) ==
  /\ pc[r] = "idle"
  /\ IF auditFailed
     THEN /\ pc' = [pc EXCEPT ![r] = "done"]
          /\ reply' = [reply EXCEPT ![r] = "unavailable"]
     ELSE /\ pc' = [pc EXCEPT ![r] = "admit"]
          /\ UNCHANGED reply
  /\ UNCHANGED <<db, begun, out, worker, ran, auditFailed>>
  /\ UNCHANGED dbVars /\ UNCHANGED permitVars /\ UNCHANGED maintVars

\* rate.check or ensure_catalogs refuses the call; account_snapshot or context
\* refuses the operation. A storage error of these reads sets the latch, in the
\* call itself or in handle_storage.
AdmissionFails(r) ==
  /\ pc[r] = "admit"
  /\ \/ Conclude(r, "error", "denied") /\ UNCHANGED auditFailed
     \/ Conclude(r, "error", "unavailable") /\ auditFailed' = TRUE
  /\ UNCHANGED <<begun, worker, ran, runnerSlots>>
  /\ UNCHANGED dbVars /\ UNCHANGED maintVars

Free(n) == n > 0

\* account_operation takes no client permit.
AcquireLocal(r) ==
  /\ pc[r] = "admit"
  /\ r \in Calls => Free(clientSlots[ClientOf[r]])
  /\ clientSlots' = IF r \in Calls
                    THEN [clientSlots EXCEPT ![ClientOf[r]] = @ - 1]
                    ELSE clientSlots
  /\ pc' = [pc EXCEPT ![r] = "global"]
  /\ UNCHANGED <<db, begun, out, reply, worker, ran, slots, runnerSlots, auditFailed>>
  /\ UNCHANGED dbVars /\ UNCHANGED maintVars

AcquireGlobal(r) ==
  /\ pc[r] = "global"
  /\ Free(slots)
  /\ slots' = slots - 1
  /\ pc' = [pc EXCEPT ![r] = "prepare"]
  /\ db' = [db EXCEPT ![r] = "slot"]
  /\ UNCHANGED <<begun, out, reply, worker, ran, clientSlots, runnerSlots, auditFailed>>
  /\ UNCHANGED dbVars /\ UNCHANGED maintVars

\* wait_for(acquire(), 2) expires: nothing was executed.
AcquireTimeout(r) ==
  /\ \/ pc[r] = "admit" /\ r \in Calls /\ ~Free(clientSlots[ClientOf[r]])
     \/ pc[r] = "global" /\ ~Free(slots)
  /\ Conclude(r, "timeout", "busy")
  /\ UNCHANGED <<begun, worker, ran, runnerSlots, auditFailed>>
  /\ UNCHANGED dbVars /\ UNCHANGED maintVars

-----------------------------------------------------------------------------
(* The audited start *)

\* The coroutine resumes from db(prepare) or db(begin). DB_BUSY (no permit within
\* two seconds) is a retryable refusal of a call and sets the latch for an
\* operation; a storage error sets the latch for both.
StartCommitted(r) == db[r] = "ok"

Prepared(r) ==
  /\ pc[r] = "prepare" /\ StartCommitted(r)
  /\ begun' = [begun EXCEPT ![r] = TRUE]
  /\ pc' = [pc EXCEPT ![r] = "dispatch"]
  /\ db' = [db EXCEPT ![r] = "idle"]
  /\ UNCHANGED <<out, reply, worker, ran, auditFailed>>
  /\ UNCHANGED dbVars /\ UNCHANGED permitVars /\ UNCHANGED maintVars

NotPrepared(r) ==
  /\ pc[r] = "prepare"
  /\ \/ /\ db[r] = "refused"
        /\ Conclude(r, "error", "denied")
        /\ UNCHANGED auditFailed
     \/ /\ db[r] = "slot" /\ DbFull
        /\ Conclude(r, "error", IF r \in Calls THEN "busy" ELSE "unavailable")
        /\ auditFailed' = (auditFailed \/ r \in Ops)
     \/ /\ db[r] = "error"
        /\ Conclude(r, "error", "unavailable")
        /\ auditFailed' = TRUE
  /\ UNCHANGED <<begun, worker, ran, runnerSlots>>
  /\ UNCHANGED dbVars /\ UNCHANGED maintVars

-----------------------------------------------------------------------------
(* Execution *)

\* Gateway.context cannot decrypt the credential.
ContextFails(r) ==
  /\ pc[r] = "dispatch" /\ r \in Calls
  /\ Conclude(r, "error", "failed")
  /\ UNCHANGED <<begun, worker, ran, runnerSlots, auditFailed>>
  /\ UNCHANGED dbVars /\ UNCHANGED maintVars

StartAsync(r) ==
  /\ pc[r] = "dispatch"
  /\ pc' = [pc EXCEPT ![r] = "async"]
  /\ ran' = [ran EXCEPT ![r] = TRUE]
  /\ UNCHANGED <<db, begun, out, reply, worker, auditFailed>>
  /\ UNCHANGED dbVars /\ UNCHANGED permitVars /\ UNCHANGED maintVars

StartThread(r) ==
  /\ pc[r] = "dispatch"
  /\ Free(runnerSlots)
  /\ runnerSlots' = runnerSlots - 1
  /\ pc' = [pc EXCEPT ![r] = "thread"]
  /\ worker' = [worker EXCEPT ![r] = "run"]
  /\ ran' = [ran EXCEPT ![r] = TRUE]
  /\ UNCHANGED <<db, begun, out, reply, slots, clientSlots, auditFailed>>
  /\ UNCHANGED dbVars /\ UNCHANGED maintVars

\* The adapter's function ends in its thread: BlockingRunner's callback returns
\* the runner permit and, when the coroutine left first, release_capacity's
\* callback returns the others.
ThreadEnds(r) ==
  /\ worker[r] = "run"
  /\ worker' = [worker EXCEPT ![r] = "done"]
  /\ runnerSlots' = runnerSlots + 1
  /\ IF HandedOver(r) THEN GiveBack(r, TRUE, r \in Calls)
                      ELSE UNCHANGED <<slots, clientSlots>>
  /\ UNCHANGED <<pc, db, begun, out, reply, ran, auditFailed>>
  /\ UNCHANGED dbVars /\ UNCHANGED maintVars

\* account_operation knows no status but ok and error.
Ending(r, status) == IF r \in Ops /\ status = "timeout" THEN "error" ELSE status

\* The awaited adapter answers or raises.
Executed(r) ==
  /\ \/ pc[r] = "async"
     \/ pc[r] = "thread" /\ worker[r] = "done"
  /\ \E status \in Outcomes :
       Conclude(r, Ending(r, status), IF status = "ok" THEN "value" ELSE "failed")
  /\ UNCHANGED <<begun, worker, ran, runnerSlots, auditFailed>>
  /\ UNCHANGED dbVars /\ UNCHANGED maintVars

\* The deadline of the context passes; the thread is told and goes on.
Expired(r) == pc[r] = "thread"

Deadline(r) ==
  /\ Expired(r)
  /\ Conclude(r, Ending(r, "timeout"), "failed")
  /\ UNCHANGED <<begun, worker, ran, runnerSlots, auditFailed>>
  /\ UNCHANGED dbVars /\ UNCHANGED maintVars

\* The task is cancelled at an await, again if the cancelling scope repeats it.
\* The database job it may be waiting for is shielded and still runs. An operation
\* cancelled while it records its success records an error as well.
CanBeCancelled(r) ==
  \/ pc[r] \in {"admit", "global", "prepare", "async", "thread", "record"}
  \/ pc[r] = "dispatch" /\ ~Free(runnerSlots)

Cancel(r) ==
  /\ CanBeCancelled(r)
  /\ IF pc[r] = "record" /\ (r \in Calls \/ out[r] # "ok")
     THEN Return(r, "cancelled") /\ UNCHANGED out
     ELSE Conclude(r, Ending(r, "timeout"), "cancelled")
  /\ UNCHANGED <<begun, worker, ran, runnerSlots, auditFailed>>
  /\ UNCHANGED dbVars /\ UNCHANGED maintVars

-----------------------------------------------------------------------------
(* The end of the audit row *)

Recorded(r) ==
  /\ pc[r] = "record" /\ db[r] = "ok"
  /\ Return(r, reply[r])
  /\ UNCHANGED <<begun, out, worker, ran, runnerSlots, auditFailed>>
  /\ UNCHANGED dbVars /\ UNCHANGED maintVars

\* What the caller is told when the row could not be written.
Unrecorded(r) ==
  IF reply[r] = "cancelled" THEN "cancelled"
  ELSE IF ~begun[r] THEN "unavailable"
  ELSE IF r \in Calls \/ out[r] = "ok" THEN "unconfirmed"
  ELSE reply[r]

LatchOnLoss == auditFailed' = TRUE

NotRecorded(r) ==
  /\ pc[r] = "record"
  /\ \/ db[r] = "error"
     \/ db[r] = "slot" /\ DbFull
  /\ Return(r, Unrecorded(r))
  /\ LatchOnLoss
  /\ UNCHANGED <<begun, out, worker, ran, runnerSlots>>
  /\ UNCHANGED dbVars /\ UNCHANGED maintVars

-----------------------------------------------------------------------------
(* Maintenance, other storage errors, crashes *)

active_requests ==
  {r \in Calls : pc[r] \notin {"idle", "done"}}
    \cup {r \in Ops : pc[r] \in {"prepare", "dispatch", "async", "thread", "record"}}

\* The minute timer: the set of active requests is copied on the event loop, the
\* transaction runs later in a database thread. DB_BUSY only skips the turn.
MaintenanceTick ==
  /\ maint = "sleep"
  /\ ~DbFull
  /\ maint' = "queued"
  /\ snap' = active_requests
  /\ UNCHANGED <<audit, pc, db, begun, out, reply, worker, ran, jobs, auditFailed,
                 restarts>>
  /\ UNCHANGED permitVars

Orphans == {r \in Requests : audit[r] = "started" /\ r \notin snap}

\* The transaction of maintain_db commits, or fails and leaves the latch.
MaintenanceRuns ==
  /\ maint = "queued"
  /\ \/ /\ maint' = "reset"
        /\ audit' = IF auditFailed
                    THEN [r \in Requests |-> IF r \in Orphans THEN "interrupted"
                                                             ELSE audit[r]]
                    ELSE audit
     \/ maint' = "sleep" /\ UNCHANGED audit
  /\ snap' = {}
  /\ UNCHANGED <<pc, db, begun, out, reply, worker, ran, jobs, auditFailed, restarts>>
  /\ UNCHANGED permitVars

\* The last statement of maintain_db, after the transaction.
LatchCleared ==
  /\ maint = "reset"
  /\ maint' = "sleep"
  /\ auditFailed' = FALSE
  /\ UNCHANGED <<audit, pc, db, begun, out, reply, worker, ran, jobs, snap, restarts>>
  /\ UNCHANGED permitVars

\* handle_storage: sqlite3.Error in any other endpoint.
StorageError ==
  /\ ~auditFailed
  /\ auditFailed' = TRUE
  /\ UNCHANGED <<audit, pc, db, begun, out, reply, worker, ran, jobs>>
  /\ UNCHANGED permitVars /\ UNCHANGED maintVars

\* The process dies and starts again: memory is lost, migrate closes the rows.
Restart ==
  /\ restarts < MaxRestarts
  /\ restarts' = restarts + 1
  /\ audit' = [r \in Requests |-> IF audit[r] = "started" THEN "interrupted"
                                                        ELSE audit[r]]
  /\ pc' = [r \in Requests |-> IF pc[r] = "idle" THEN "idle" ELSE "done"]
  /\ reply' = [r \in Requests |-> IF pc[r] \in {"idle", "done"} THEN reply[r] ELSE "lost"]
  /\ db' = [r \in Requests |-> "idle"]
  /\ worker' = [r \in Requests |-> "none"]
  /\ slots' = GlobalSlots
  /\ clientSlots' = [c \in Clients |-> LocalSlots]
  /\ runnerSlots' = RunnerSlots
  /\ jobs' = {}
  /\ auditFailed' = FALSE
  /\ maint' = "sleep"
  /\ snap' = {}
  /\ UNCHANGED <<begun, out, ran>>

-----------------------------------------------------------------------------

Init ==
  /\ audit = [r \in Requests |-> "none"]
  /\ pc = [r \in Requests |-> "idle"]
  /\ db = [r \in Requests |-> "idle"]
  /\ begun = [r \in Requests |-> FALSE]
  /\ out = [r \in Requests |-> "error"]
  /\ reply = [r \in Requests |-> "none"]
  /\ worker = [r \in Requests |-> "none"]
  /\ ran = [r \in Requests |-> FALSE]
  /\ slots = GlobalSlots
  /\ clientSlots = [c \in Clients |-> LocalSlots]
  /\ runnerSlots = RunnerSlots
  /\ jobs = {}
  /\ auditFailed = FALSE
  /\ maint = "sleep"
  /\ snap = {}
  /\ restarts = 0

\* What the event loop and its timers do for r once it was entered.
Step(r) ==
  \/ AdmissionFails(r) \/ AcquireLocal(r) \/ AcquireGlobal(r) \/ AcquireTimeout(r)
  \/ Submit(r) \/ Prepared(r) \/ NotPrepared(r)
  \/ ContextFails(r) \/ StartAsync(r) \/ StartThread(r)
  \/ Executed(r) \/ Deadline(r)
  \/ Recorded(r) \/ NotRecorded(r)

\* What a database thread does with a job.
RunJob(j) == RunInsert(j) \/ RunUpdate(j) \/ JobFails(j)

Next ==
  \/ \E r \in Requests : Enter(r) \/ Step(r) \/ ThreadEnds(r) \/ Cancel(r)
  \/ \E j \in jobs : RunJob(j)
  \/ MaintenanceTick \/ MaintenanceRuns \/ LatchCleared
  \/ StorageError \/ Restart

Spec == Init /\ [][Next]_vars

\* The event loop serves every coroutine and timer, and the four database
\* threads every job; sqlite3's timeouts bound each transaction.
LoopFairness ==
  /\ \A r \in Requests : WF_vars(Step(r))
  /\ \A r \in Requests : WF_vars(\E j \in jobs : j.req = r /\ RunJob(j))

\* A blocking adapter ends: its sockets have timeouts and ctx.cancel closes them.
ThreadFairness == \A r \in Requests : WF_vars(ThreadEnds(r))

FairSpec == Spec /\ LoopFairness

-----------------------------------------------------------------------------
(* Properties *)

\* Every variable keeps its type; no semaphore goes below zero.
TypeOK ==
  /\ audit \in [Requests -> Rows]
  /\ pc \in [Requests -> Points]
  /\ db \in [Requests -> DbWait]
  /\ begun \in [Requests -> BOOLEAN]
  /\ out \in [Requests -> Outcomes]
  /\ reply \in [Requests -> Replies]
  /\ worker \in [Requests -> {"none", "run", "done"}]
  /\ ran \in [Requests -> BOOLEAN]
  /\ slots \in Nat
  /\ clientSlots \in [Clients -> Nat]
  /\ runnerSlots \in Nat
  /\ jobs \subseteq Job
  /\ auditFailed \in BOOLEAN
  /\ maint \in {"sleep", "queued", "reset"}
  /\ snap \subseteq Requests
  /\ restarts \in 0..MaxRestarts

\* An adapter is entered only for a request whose audit row was committed as
\* started, and that row is never a denial afterwards, whatever jobs an abandoned
\* coroutine left behind (docs/plugins.md: audit before the call).
AuditBeforeExecution ==
  \A r \in Requests : ran[r] => audit[r] \notin {"none", "denied"}

\* Every permit is either free or accounted for by a coroutine between its
\* acquire and its release or by a worker thread that is still running, however
\* timeouts, cancellations and late threads interleave.
OccupiesGlobal(r) == HasGlobalPermit(r) \/ worker[r] = "run"
OccupiesClient(r) == HasClientPermit(r) \/ (r \in Calls /\ worker[r] = "run")

GlobalHolders    == {r \in Requests : OccupiesGlobal(r)}
RunnerHolders    == {r \in Requests : worker[r] = "run"}
ClientHolders(c) == {r \in Calls : ClientOf[r] = c /\ OccupiesClient(r)}

CapacityConserved ==
  /\ slots = GlobalSlots - Cardinality(GlobalHolders)
  /\ runnerSlots = RunnerSlots - Cardinality(RunnerHolders)
  /\ \A c \in Clients : clientSlots[c] = LocalSlots - Cardinality(ClientHolders(c))

\* A request whose row was started always finds a runner permit: the BUSY branch
\* of BlockingRunner.run is dead, so no started row ends for lack of a thread.
RunnerNeverRefuses ==
  \A r \in Requests : pc[r] = "dispatch" => runnerSlots > 0

\* An answer that says nothing was executed (BUSY, AUDIT_UNAVAILABLE, a denial)
\* is true: the client may retry it.
NotExecutedIsTrue ==
  \A r \in Requests :
    pc[r] = "done" /\ reply[r] \in {"busy", "unavailable", "denied"} => ~ran[r]

\* The audit row of a call that was answered says what the caller was told.
AnswerIsAudited ==
  \A r \in Calls :
    pc[r] = "done" /\ reply[r] \in {"value", "failed"} =>
      audit[r] = out[r] /\ (reply[r] = "value" <=> out[r] = "ok")

\* A call that ends leaves a closed audit row, a job that is about to close it, or
\* the latch (call returns AUDIT_UNCONFIRMED and stops the gateway). The one hole is
\* a cancellation while finish or denied waits for a permit of db_slots, or in the
\* moment between its failure and the coroutine's turn.
EndedCallAccounted ==
  [][\A r \in Calls :
       pc[r] # "done" /\ pc'[r] = "done" =>
         \/ audit'[r] \in Closed
         \/ \E j \in jobs' : j.req = r /\ j.status # "started"
         \/ auditFailed'
         \/ restarts' # restarts
         \/ db[r] \in {"slot", "error"} /\ reply'[r] = "cancelled"]_vars

\* What is visible of a call from outside: its row, whether it was executed, its answer.
Told(r) == IF pc[r] = "done" THEN reply[r] ELSE "none"

Trail == INSTANCE AuditTrail
           WITH row  <- [r \in Calls |-> audit[r]],
                ran  <- [r \in Calls |-> ran[r]],
                told <- [r \in Calls |-> Told(r)]

\* Coroutines, shielded jobs, late commits, recovery and crashes together keep the promises
\* of the audit trail: a row is opened before the execution and closed once, whoever is
\* cancelled, and every answer agrees with it (docs/plugins.md: audit before the call).
ImplementsTrail == Trail!Spec

\* When maintain_db recovers the latch it interrupts exactly the started rows whose
\* request is no longer active (tests/test_storage.py: the active row stays started,
\* the orphan is interrupted).
RecoveryIsExact ==
  [][maint = "queued" /\ maint' = "reset" /\ auditFailed =>
       \A r \in Requests : audit[r] = "started" =>
         (audit'[r] = "interrupted" <=> r \notin active_requests)]_vars

\* Every request that was entered ends, although its thread may never end.
RequestEnds == \A r \in Requests : pc[r] # "idle" ~> pc[r] = "done"

\* Whatever was cancelled, timed out or recorded late, the semaphores are full again
\* and again, provided worker threads end.
PermitsReturn ==
  ThreadFairness =>
    []<>(/\ slots = GlobalSlots /\ runnerSlots = RunnerSlots
         /\ \A c \in Clients : clientSlots[c] = LocalSlots)

=============================================================================
