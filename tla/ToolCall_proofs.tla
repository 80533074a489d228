--------------------------- MODULE ToolCall_proofs ---------------------------
(***************************************************************************)
(* Theorems about ToolCall for every number of requests, clients, permits  *)
(* and restarts.                                                           *)
(***************************************************************************)
EXTENDS ToolCall, FiniteSetTheorems, TLAPS

-----------------------------------------------------------------------------
(* Type correctness *)

LEMMA JobOfType ==
  ASSUME TypeOK, NEW r \in Requests
  PROVE  JobOf(r) \in Job
BY DEF JobOf, Job, TypeOK, Rows, Closed, Outcomes

\* The permits a coroutine gives back leave the semaphores natural numbers.
LEMMA GiveBackType ==
  ASSUME TypeOK, NEW r \in Requests, NEW g \in BOOLEAN, NEW c \in BOOLEAN,
         c => r \in Calls, GiveBack(r, g, c)
  PROVE  slots' \in Nat /\ clientSlots' \in [Clients -> Nat]
<1>1. slots' \in Nat
  BY DEF GiveBack, One, TypeOK
<1>2. CASE c
  <2>1. r \in Calls /\ ClientOf[r] \in Clients
    BY <1>2, RequestsAssumption
  <2> QED
    BY <1>1, <1>2, <2>1 DEF GiveBack, TypeOK
<1>3. CASE ~c
  BY <1>1, <1>3 DEF GiveBack, TypeOK
<1> QED
  BY <1>2, <1>3

LEMMA ReleaseType ==
  ASSUME TypeOK, NEW r \in Requests, release_capacity(r)
  PROVE  slots' \in Nat /\ clientSlots' \in [Clients -> Nat]
<1>1. HasGlobalPermit(r) \in BOOLEAN /\ HasClientPermit(r) \in BOOLEAN
  BY DEF HasGlobalPermit, HasClientPermit
<1>2. HasClientPermit(r) => r \in Calls
  BY DEF HasClientPermit
<1>3. CASE WorkerIdle(r)
  BY <1>1, <1>2, <1>3, GiveBackType DEF release_capacity
<1>4. CASE ~WorkerIdle(r)
  BY <1>4 DEF release_capacity, TypeOK
<1> QED
  BY <1>3, <1>4

\* What Conclude and Return may write.
ControlType ==
  /\ pc' \in [Requests -> Points]
  /\ db' \in [Requests -> DbWait]
  /\ out' \in [Requests -> Outcomes]
  /\ reply' \in [Requests -> Replies]
  /\ slots' \in Nat
  /\ clientSlots' \in [Clients -> Nat]

LEMMA ConcludeType ==
  ASSUME TypeOK, NEW r \in Requests, NEW s \in Outcomes, NEW a \in Replies,
         Conclude(r, s, a)
  PROVE  ControlType
<1>1. out' \in [Requests -> Outcomes] /\ reply' \in [Requests -> Replies]
  BY DEF Conclude, TypeOK
<1>2. pc' \in [Requests -> Points] /\ db' \in [Requests -> DbWait]
  BY DEF Conclude, TypeOK, Points, DbWait
<1>3. slots' \in Nat /\ clientSlots' \in [Clients -> Nat]
  <2>1. CASE r \in Ops /\ begun[r]
    BY <2>1 DEF Conclude, TypeOK
  <2>2. CASE ~(r \in Ops /\ begun[r])
    BY <2>2, ReleaseType DEF Conclude
  <2> QED
    BY <2>1, <2>2
<1> QED
  BY <1>1, <1>2, <1>3 DEF ControlType

LEMMA ReturnType ==
  ASSUME TypeOK, NEW r \in Requests, NEW a \in Replies, Return(r, a), UNCHANGED out
  PROVE  ControlType
<1>1. out' \in [Requests -> Outcomes] /\ reply' \in [Requests -> Replies]
  BY DEF Return, TypeOK
<1>2. pc' \in [Requests -> Points] /\ db' \in [Requests -> DbWait]
  BY DEF Return, TypeOK, Points, DbWait
<1>3. slots' \in Nat /\ clientSlots' \in [Clients -> Nat]
  <2>1. CASE r \in Ops
    BY <2>1, ReleaseType DEF Return
  <2>2. CASE r \notin Ops
    BY <2>2 DEF Return, TypeOK
  <2> QED
    BY <2>1, <2>2
<1> QED
  BY <1>1, <1>2, <1>3 DEF ControlType

LEMMA AnswerType ==
  ASSUME TypeOK, NEW j \in jobs, NEW w \in DbWait, Answer(j, w),
         audit' \in [Requests -> Rows]
  PROVE  TypeOK'
<1>1. jobs' \subseteq Job
  BY DEF Answer, TypeOK
<1>2. db' \in [Requests -> DbWait]
  BY DEF Answer, TypeOK
<1> QED
  BY <1>1, <1>2 DEF Answer, TypeOK, permitVars, maintVars

\* Every reachable state of the execution core is well typed; in particular no
\* semaphore of Gateway or BlockingRunner drops below zero.
THEOREM TypeCorrect == Spec => []TypeOK
<1>1. Init => TypeOK
  <2> SUFFICES ASSUME Init PROVE TypeOK
    OBVIOUS
  <2>1. slots \in Nat /\ runnerSlots \in Nat /\ restarts \in 0..MaxRestarts
    BY SlotsAssumption DEF Init
  <2>2. clientSlots \in [Clients -> Nat]
    BY SlotsAssumption DEF Init
  <2>3. /\ audit \in [Requests -> Rows]
        /\ pc \in [Requests -> Points]
        /\ db \in [Requests -> DbWait]
        /\ out \in [Requests -> Outcomes]
        /\ reply \in [Requests -> Replies]
    BY DEF Init, Rows, Points, DbWait, Outcomes, Replies
  <2> QED
    BY <2>1, <2>2, <2>3 DEF Init, TypeOK
<1>2. TypeOK /\ [Next]_vars => TypeOK'
  <2> SUFFICES ASSUME TypeOK, [Next]_vars PROVE TypeOK'
    OBVIOUS
  <2> USE DEF permitVars, maintVars, dbVars
  <2>1. ASSUME NEW r \in Requests, Enter(r) PROVE TypeOK'
    BY <2>1 DEF Enter, TypeOK, Points, Replies
  <2>2. ASSUME NEW r \in Requests, Step(r) PROVE TypeOK'
    <3>1. CASE AdmissionFails(r)
      <4>1. ControlType
        BY <3>1, ConcludeType DEF AdmissionFails, Outcomes, Replies
      <4> QED
        BY <3>1, <4>1 DEF AdmissionFails, TypeOK, ControlType
    <3>2. CASE AcquireLocal(r)
      <4>1. clientSlots' \in [Clients -> Nat]
        <5>1. CASE r \in Calls
          <6>1. ClientOf[r] \in Clients
            BY <5>1, RequestsAssumption
          <6> QED
            BY <3>2, <5>1, <6>1 DEF AcquireLocal, TypeOK, Free
        <5>2. CASE r \notin Calls
          BY <3>2, <5>2 DEF AcquireLocal, TypeOK
        <5> QED
          BY <5>1, <5>2
      <4> QED
        BY <3>2, <4>1 DEF AcquireLocal, TypeOK, Points
    <3>3. CASE AcquireGlobal(r)
      BY <3>3 DEF AcquireGlobal, TypeOK, Points, DbWait, Free
    <3>4. CASE AcquireTimeout(r)
      <4>1. ControlType
        BY <3>4, ConcludeType DEF AcquireTimeout, Outcomes, Replies
      <4> QED
        BY <3>4, <4>1 DEF AcquireTimeout, TypeOK, ControlType
    <3>5. CASE Submit(r)
      BY <3>5, JobOfType DEF Submit, TypeOK, DbWait
    <3>6. CASE Prepared(r)
      BY <3>6 DEF Prepared, TypeOK, Points, DbWait
    <3>7. CASE NotPrepared(r)
      <4>1. ControlType
        BY <3>7, ConcludeType DEF NotPrepared, Outcomes, Replies
      <4>2. auditFailed' \in BOOLEAN
        BY <3>7 DEF NotPrepared, TypeOK
      <4> QED
        BY <3>7, <4>1, <4>2 DEF NotPrepared, TypeOK, ControlType
    <3>8. CASE ContextFails(r)
      <4>1. ControlType
        BY <3>8, ConcludeType DEF ContextFails, Outcomes, Replies
      <4> QED
        BY <3>8, <4>1 DEF ContextFails, TypeOK, ControlType
    <3>9. CASE StartAsync(r)
      BY <3>9 DEF StartAsync, TypeOK, Points
    <3>10. CASE StartThread(r)
      BY <3>10 DEF StartThread, TypeOK, Points, Free
    <3>11. CASE Executed(r)
      <4>1. ControlType
        BY <3>11, ConcludeType DEF Executed, Outcomes, Replies, Ending
      <4> QED
        BY <3>11, <4>1 DEF Executed, TypeOK, ControlType
    <3>12. CASE Deadline(r)
      <4>1. ControlType
        BY <3>12, ConcludeType DEF Deadline, Outcomes, Replies, Ending
      <4> QED
        BY <3>12, <4>1 DEF Deadline, TypeOK, ControlType
    <3>13. CASE Recorded(r)
      <4>1. ControlType
        BY <3>13, ReturnType DEF Recorded, TypeOK
      <4> QED
        BY <3>13, <4>1 DEF Recorded, TypeOK, ControlType
    <3>14. CASE NotRecorded(r)
      <4>1. Unrecorded(r) \in Replies
        BY DEF Unrecorded, Replies, TypeOK
      <4>2. ControlType
        BY <3>14, <4>1, ReturnType DEF NotRecorded
      <4> QED
        BY <3>14, <4>2 DEF NotRecorded, LatchOnLoss, TypeOK, ControlType
    <3> QED
      BY <2>2, <3>1, <3>2, <3>3, <3>4, <3>5, <3>6, <3>7, <3>8, <3>9, <3>10,
         <3>11, <3>12, <3>13, <3>14 DEF Step
  <2>3. ASSUME NEW r \in Requests, ThreadEnds(r) PROVE TypeOK'
    <3>1. slots' \in Nat /\ clientSlots' \in [Clients -> Nat]
      <4>1. CASE HandedOver(r)
        <5>1. slots' \in Nat
          BY <2>3, <4>1 DEF ThreadEnds, GiveBack, One, TypeOK
        <5>2. clientSlots' \in [Clients -> Nat]
          <6>1. CASE r \in Calls
            BY <2>3, <4>1, <6>1, RequestsAssumption DEF ThreadEnds, GiveBack, TypeOK
          <6>2. CASE r \notin Calls
            BY <2>3, <4>1, <6>2 DEF ThreadEnds, GiveBack, TypeOK
          <6> QED
            BY <6>1, <6>2
        <5> QED
          BY <5>1, <5>2
      <4>2. CASE ~HandedOver(r)
        BY <2>3, <4>2 DEF ThreadEnds, TypeOK
      <4> QED
        BY <4>1, <4>2
    <3> QED
      BY <2>3, <3>1 DEF ThreadEnds, TypeOK
  <2>4. ASSUME NEW r \in Requests, Cancel(r) PROVE TypeOK'
    <3>1. ControlType
      BY <2>4, ReturnType, ConcludeType DEF Cancel, Outcomes, Replies, Ending
    <3> QED
      BY <2>4, <3>1 DEF Cancel, TypeOK, ControlType
  <2>5. ASSUME NEW j \in jobs, RunJob(j) PROVE TypeOK'
    <3>1. j.req \in Requests /\ j.status \in Rows
      BY DEF TypeOK, Job
    <3>2. audit' \in [Requests -> Rows]
      BY <2>5, <3>1 DEF RunJob, RunInsert, RunUpdate, JobFails, TypeOK
    <3>3. \E w \in DbWait : Answer(j, w)
      BY <2>5 DEF RunJob, RunInsert, RunUpdate, JobFails, DbWait
    <3> QED
      BY <3>2, <3>3, AnswerType
  <2>6. CASE MaintenanceTick
    BY <2>6 DEF MaintenanceTick, active_requests, TypeOK, Requests
  <2>7. CASE MaintenanceRuns
    BY <2>7 DEF MaintenanceRuns, TypeOK, Rows, Closed
  <2>8. CASE LatchCleared
    BY <2>8 DEF LatchCleared, TypeOK
  <2>9. CASE StorageError
    BY <2>9 DEF StorageError, TypeOK
  <2>10. CASE Restart
    <3>1. /\ slots' \in Nat /\ runnerSlots' \in Nat /\ restarts' \in 0..MaxRestarts
          /\ clientSlots' \in [Clients -> Nat]
      BY <2>10, SlotsAssumption DEF Restart, TypeOK
    <3>2. audit' \in [Requests -> Rows]
      BY <2>10 DEF Restart, TypeOK, Rows, Closed
    <3>3. pc' \in [Requests -> Points] /\ reply' \in [Requests -> Replies]
      BY <2>10 DEF Restart, TypeOK, Points, Replies
    <3>4. db' \in [Requests -> DbWait]
      BY <2>10 DEF Restart, DbWait
    <3> QED
      BY <2>10, <3>1, <3>2, <3>3, <3>4 DEF Restart, TypeOK
  <2>11. CASE UNCHANGED vars
    BY <2>11 DEF vars, TypeOK
  <2> QED
    BY <2>1, <2>2, <2>3, <2>4, <2>5, <2>6, <2>7, <2>8, <2>9, <2>10, <2>11 DEF Next
<1> QED
  BY <1>1, <1>2, PTL DEF Spec

-----------------------------------------------------------------------------
(* The audited start: what was executed was committed as started before *)

NothingDone == {"busy", "unavailable", "denied"}

\* The inductive strengthening of AuditBeforeExecution and NotExecutedIsTrue. The
\* jobs a cancelled coroutine left behind are why the queue appears in it: a late
\* insert must not turn a started row into a denial, a late update must not reopen
\* a row.
StartInv ==
  /\ \A r \in Requests : ran[r] => begun[r]
  /\ \A r \in Requests : pc[r] \in {"dispatch", "async", "thread"} => begun[r]
  /\ \A r \in Requests : pc[r] \in {"idle", "admit", "global", "prepare"} =>
                         ~begun[r] /\ reply[r] = "none"
  /\ \A r \in Requests : reply[r] \in NothingDone => ~begun[r]
  /\ \A r \in Requests : db[r] = "slot" => pc[r] \in {"prepare", "record"}
  /\ \A r \in Requests : begun[r] \/ (pc[r] = "prepare" /\ db[r] = "ok") =>
                         audit[r] \notin {"none", "denied"}
  /\ \A j \in jobs : \/ j.kind = "update" /\ j.status \in Outcomes
                     \/ j.kind = "insert" /\ j.status \in {"started", "denied"}

\* Leaving the try block keeps StartInv when the answer fits what was begun.
LEMMA ConcludeStartInv ==
  ASSUME TypeOK, StartInv, NEW r \in Requests, NEW s \in Outcomes, NEW a \in Replies,
         pc[r] # "idle", a \in NothingDone => ~begun[r], Conclude(r, s, a),
         UNCHANGED <<audit, begun, ran, jobs>>
  PROVE  StartInv'
<1>1. \A q \in Requests : q # r => pc'[q] = pc[q] /\ db'[q] = db[q] /\ reply'[q] = reply[q]
  BY DEF Conclude, TypeOK
<1>2. /\ pc'[r] \in {"record", "done"} /\ reply'[r] = a
      /\ db'[r] = "slot" => pc'[r] = "record"
  BY DEF Conclude, TypeOK
<1> QED
  BY <1>1, <1>2 DEF StartInv

LEMMA ReturnStartInv ==
  ASSUME TypeOK, StartInv, NEW r \in Requests, NEW a \in Replies,
         a \in NothingDone => ~begun[r], Return(r, a),
         UNCHANGED <<audit, begun, ran, jobs>>
  PROVE  StartInv'
<1>1. \A q \in Requests : q # r => pc'[q] = pc[q] /\ db'[q] = db[q] /\ reply'[q] = reply[q]
  BY DEF Return, TypeOK
<1>2. pc'[r] = "done" /\ reply'[r] = a /\ db'[r] = "idle"
  BY DEF Return, TypeOK
<1> QED
  BY <1>1, <1>2 DEF StartInv

\* A database job that ran, whether or not its coroutine still awaits it.
LEMMA JobStartInv ==
  ASSUME TypeOK, StartInv, NEW j \in jobs, RunJob(j)
  PROVE  StartInv'
<1>1. j.req \in Requests /\ jobs' \subseteq jobs
  BY DEF RunJob, RunInsert, RunUpdate, JobFails, Answer, TypeOK, Job
<1>2. UNCHANGED <<pc, begun, reply, ran>>
  BY DEF RunJob, RunInsert, RunUpdate, JobFails, Answer
<1>3. ASSUME NEW q \in Requests, audit[q] \notin {"none", "denied"}
      PROVE  audit'[q] \notin {"none", "denied"}
  BY <1>1, <1>3 DEF RunJob, RunInsert, RunUpdate, JobFails, Inserts, TypeOK, StartInv, Outcomes
<1>4. ASSUME NEW q \in Requests, pc[q] = "prepare", db'[q] = "ok"
      PROVE  audit'[q] \notin {"none", "denied"}
  <2>1. CASE db[q] = "ok"
    BY <1>3, <1>4, <2>1 DEF StartInv
  <2>2. CASE db[q] # "ok"
    <3>1. q = j.req /\ Awaited(j)
      BY <1>1, <1>4, <2>2 DEF RunJob, RunInsert, RunUpdate, JobFails, Answer, TypeOK
    <3>2. j.kind = "insert" /\ j.status = "started"
      BY <1>4, <3>1 DEF Awaited, JobOf
    <3>3. RunInsert(j) /\ audit' = [audit EXCEPT ![j.req] = j.status]
      BY <1>1, <1>4, <2>2, <3>1, <3>2
      DEF RunJob, RunInsert, RunUpdate, JobFails, Answer, TypeOK
    <3> QED
      BY <1>1, <3>1, <3>2, <3>3 DEF TypeOK
  <2> QED
    BY <2>1, <2>2
<1>5. ASSUME NEW q \in Requests, db'[q] = "slot"
      PROVE  db[q] = "slot"
  BY <1>1, <1>5 DEF RunJob, RunInsert, RunUpdate, JobFails, Answer, TypeOK
<1> QED
  BY <1>1, <1>2, <1>3, <1>4, <1>5 DEF StartInv

LEMMA StartInvariant == Spec => []StartInv
<1>1. Init => StartInv
  BY DEF Init, StartInv, NothingDone
<1>2. TypeOK /\ StartInv /\ [Next]_vars => StartInv'
  <2> SUFFICES ASSUME TypeOK, StartInv, [Next]_vars PROVE StartInv'
    OBVIOUS
  <2> USE DEF permitVars, maintVars, dbVars
  <2>1. ASSUME NEW r \in Requests, Enter(r) PROVE StartInv'
    BY <2>1 DEF Enter, TypeOK, StartInv, NothingDone
  <2>2. ASSUME NEW r \in Requests, Step(r) PROVE StartInv'
    <3>1. CASE AdmissionFails(r)
      BY <3>1, ConcludeStartInv DEF AdmissionFails, StartInv, Outcomes, Replies
    <3>2. CASE AcquireLocal(r)
      BY <3>2 DEF AcquireLocal, TypeOK, StartInv
    <3>3. CASE AcquireGlobal(r)
      BY <3>3 DEF AcquireGlobal, TypeOK, StartInv
    <3>4. CASE AcquireTimeout(r)
      BY <3>4, ConcludeStartInv DEF AcquireTimeout, StartInv, Outcomes, Replies
    <3>5. CASE Submit(r)
      <4>1. \/ JobOf(r).kind = "update" /\ JobOf(r).status \in Outcomes
            \/ JobOf(r).kind = "insert" /\ JobOf(r).status \in {"started", "denied"}
        BY <3>5 DEF JobOf, TypeOK, StartInv, Submit
      <4> QED
        BY <3>5, <4>1 DEF Submit, TypeOK, StartInv
    <3>6. CASE Prepared(r)
      BY <3>6 DEF Prepared, StartCommitted, TypeOK, StartInv, NothingDone
    <3>7. CASE NotPrepared(r)
      BY <3>7, ConcludeStartInv DEF NotPrepared, StartInv, Outcomes, Replies
    <3>8. CASE ContextFails(r)
      BY <3>8, ConcludeStartInv DEF ContextFails, Outcomes, Replies, NothingDone
    <3>9. CASE StartAsync(r)
      BY <3>9 DEF StartAsync, TypeOK, StartInv
    <3>10. CASE StartThread(r)
      BY <3>10 DEF StartThread, TypeOK, StartInv
    <3>11. CASE Executed(r)
      BY <3>11, ConcludeStartInv DEF Executed, Ending, Outcomes, Replies, NothingDone
    <3>12. CASE Deadline(r)
      BY <3>12, ConcludeStartInv DEF Deadline, Expired, Ending, Outcomes, Replies, NothingDone
    <3>13. CASE Recorded(r)
      BY <3>13, ReturnStartInv DEF Recorded, TypeOK, StartInv
    <3>14. CASE NotRecorded(r)
      <4>1. Unrecorded(r) \in Replies /\ (Unrecorded(r) \in NothingDone => ~begun[r])
        BY DEF Unrecorded, Replies, NothingDone, TypeOK, StartInv
      <4> QED
        BY <3>14, <4>1, ReturnStartInv DEF NotRecorded
    <3> QED
      BY <2>2, <3>1, <3>2, <3>3, <3>4, <3>5, <3>6, <3>7, <3>8, <3>9, <3>10,
         <3>11, <3>12, <3>13, <3>14 DEF Step
  <2>3. ASSUME NEW r \in Requests, ThreadEnds(r) PROVE StartInv'
    BY <2>3 DEF ThreadEnds, StartInv
  <2>4. ASSUME NEW r \in Requests, Cancel(r) PROVE StartInv'
    BY <2>4, ConcludeStartInv, ReturnStartInv
    DEF Cancel, CanBeCancelled, Ending, Outcomes, Replies, NothingDone
  <2>5. ASSUME NEW j \in jobs, RunJob(j) PROVE StartInv'
    BY <2>5, JobStartInv
  <2>6. CASE MaintenanceTick
    BY <2>6 DEF MaintenanceTick, StartInv
  <2>7. CASE MaintenanceRuns
    BY <2>7 DEF MaintenanceRuns, TypeOK, StartInv
  <2>8. CASE LatchCleared
    BY <2>8 DEF LatchCleared, StartInv
  <2>9. CASE StorageError
    BY <2>9 DEF StorageError, StartInv
  <2>10. CASE Restart
    BY <2>10 DEF Restart, TypeOK, StartInv, NothingDone
  <2>11. CASE UNCHANGED vars
    BY <2>11 DEF vars, StartInv
  <2> QED
    BY <2>1, <2>2, <2>3, <2>4, <2>5, <2>6, <2>7, <2>8, <2>9, <2>10, <2>11 DEF Next
<1> QED
  BY <1>1, <1>2, TypeCorrect, PTL DEF Spec

\* Gateway.call and account_operation enter an adapter only after the transaction
\* of prepare or begin committed the started row, and no later job denies it.
THEOREM ExecutionIsAudited == Spec => []AuditBeforeExecution
<1>1. StartInv => AuditBeforeExecution
  BY DEF StartInv, AuditBeforeExecution
<1> QED
  BY <1>1, StartInvariant, PTL

\* A caller that is told BUSY, AUDIT_UNAVAILABLE or that it was denied can rely on
\* nothing having been executed for this request.
THEOREM RefusalIsTrue == Spec => []NotExecutedIsTrue
<1>1. StartInv => NotExecutedIsTrue
  BY DEF StartInv, NotExecutedIsTrue, NothingDone
<1> QED
  BY <1>1, StartInvariant, PTL

-----------------------------------------------------------------------------
(* Conservation of the permits *)

\* Where a running or finished thread leaves its coroutine.
WorkerInv ==
  \A r \in Requests :
    /\ worker[r] = "run" => pc[r] \in {"thread", "record", "done"}
    /\ begun[r] => pc[r] \in {"dispatch", "async", "thread", "record", "done"}
    /\ r \in Ops /\ pc[r] = "record" => begun[r]

PermitInv == WorkerInv /\ CapacityConserved

LEMMA CardinalityMoves ==
  ASSUME NEW S, IsFiniteSet(S), NEW T, NEW r,
         T = (S \ {r}) \cup (T \cap {r})
  PROVE  /\ IsFiniteSet(T)
         /\ Cardinality(T) = Cardinality(S) + One(r \in T) - One(r \in S)
<1>1. IsFiniteSet(S \ {r}) /\ Cardinality(S \ {r}) = Cardinality(S) - One(r \in S)
  BY FS_RemoveElement, FS_CardinalityType DEF One
<1>2. Cardinality(S) \in Nat /\ Cardinality(S \ {r}) \in Nat
  BY <1>1, FS_CardinalityType
<1>3. CASE r \in T
  <2>1. T = (S \ {r}) \cup {r} /\ r \notin S \ {r}
    BY <1>3
  <2> QED
    BY <1>1, <1>2, <1>3, <2>1, FS_AddElement DEF One
<1>4. CASE r \notin T
  <2>1. T = S \ {r}
    BY <1>4
  <2> QED
    BY <1>1, <1>2, <1>4, <2>1 DEF One
<1> QED
  BY <1>3, <1>4

LEMMA HoldersFinite ==
  /\ IsFiniteSet(GlobalHolders)
  /\ IsFiniteSet(RunnerHolders)
  /\ \A c \in Clients : IsFiniteSet(ClientHolders(c))
BY RequestsAssumption, FS_Subset
DEF GlobalHolders, RunnerHolders, ClientHolders, Requests

\* A step that moves the coroutine or the thread of r only, and moves each
\* semaphore by what r took or gave back, conserves the permits.
LEMMA OneRequestMoves ==
  ASSUME TypeOK, CapacityConserved, NEW r \in Requests,
         \A q \in Requests : q # r => pc'[q] = pc[q] /\ worker'[q] = worker[q],
         slots' = slots + One(OccupiesGlobal(r)) - One(OccupiesGlobal(r)'),
         runnerSlots' = runnerSlots + One(worker[r] = "run") - One(worker'[r] = "run"),
         \A c \in Clients :
           clientSlots'[c] = clientSlots[c]
             + One(r \in Calls /\ ClientOf[r] = c /\ OccupiesClient(r))
             - One(r \in Calls /\ ClientOf[r] = c /\ OccupiesClient(r)')
  PROVE  CapacityConserved'
<1>1. \A q \in Requests : q # r =>
        (OccupiesGlobal(q)' <=> OccupiesGlobal(q)) /\ (OccupiesClient(q)' <=> OccupiesClient(q))
  BY DEF OccupiesGlobal, OccupiesClient, HasGlobalPermit, HasClientPermit
<1>2. slots' = GlobalSlots - Cardinality(GlobalHolders')
  <2>1. GlobalHolders' = (GlobalHolders \ {r}) \cup (GlobalHolders' \cap {r})
    BY <1>1 DEF GlobalHolders
  <2>2. (r \in GlobalHolders <=> OccupiesGlobal(r)) /\ (r \in GlobalHolders' <=> OccupiesGlobal(r)')
    BY DEF GlobalHolders
  <2>3. Cardinality(GlobalHolders')
          = Cardinality(GlobalHolders) + One(r \in GlobalHolders') - One(r \in GlobalHolders)
    BY <2>1, HoldersFinite, CardinalityMoves
  <2> QED
    BY <2>2, <2>3, HoldersFinite, FS_CardinalityType, SlotsAssumption
    DEF CapacityConserved, One
<1>3. runnerSlots' = RunnerSlots - Cardinality(RunnerHolders')
  <2>1. RunnerHolders' = (RunnerHolders \ {r}) \cup (RunnerHolders' \cap {r})
    BY DEF RunnerHolders
  <2>2. (r \in RunnerHolders <=> worker[r] = "run") /\ (r \in RunnerHolders' <=> worker'[r] = "run")
    BY DEF RunnerHolders
  <2>3. Cardinality(RunnerHolders')
          = Cardinality(RunnerHolders) + One(r \in RunnerHolders') - One(r \in RunnerHolders)
    BY <2>1, HoldersFinite, CardinalityMoves
  <2> QED
    BY <2>2, <2>3, HoldersFinite, FS_CardinalityType, SlotsAssumption
    DEF CapacityConserved, One
<1>4. ASSUME NEW c \in Clients
      PROVE  clientSlots'[c] = LocalSlots - Cardinality(ClientHolders(c)')
  <2> DEFINE Was == r \in Calls /\ ClientOf[r] = c /\ OccupiesClient(r)
  <2>1. ClientHolders(c)' = (ClientHolders(c) \ {r}) \cup (ClientHolders(c)' \cap {r})
    BY <1>1 DEF ClientHolders, Requests
  <2>2. (r \in ClientHolders(c) <=> Was) /\ (r \in ClientHolders(c)' <=> Was')
    BY DEF ClientHolders
  <2>3. /\ IsFiniteSet(ClientHolders(c)')
        /\ Cardinality(ClientHolders(c)')
             = Cardinality(ClientHolders(c)) + One(r \in ClientHolders(c)') - One(r \in ClientHolders(c))
    BY <2>1, HoldersFinite, CardinalityMoves
  <2>4. Cardinality(ClientHolders(c)) \in Nat /\ Cardinality(ClientHolders(c)') \in Nat
    BY <2>3, HoldersFinite, FS_CardinalityType
  <2>5. clientSlots'[c] = clientSlots[c] + One(Was) - One(Was')
    OBVIOUS
  <2>6. One(Was) = One(r \in ClientHolders(c)) /\ One(Was') = One(r \in ClientHolders(c)')
    BY <2>2 DEF One
  <2>7. clientSlots[c] = LocalSlots - Cardinality(ClientHolders(c)) /\ LocalSlots \in Nat
    BY SlotsAssumption DEF CapacityConserved
  <2> HIDE DEF Was
  <2> QED
    BY <2>3, <2>4, <2>5, <2>6, <2>7 DEF One
<1> QED
  BY <1>2, <1>3, <1>4 DEF CapacityConserved

\* What release_capacity does to the semaphores once the coroutine of r has left
\* the points at which it holds permits.
LEMMA ReleasePermits ==
  ASSUME TypeOK, PermitInv, NEW r \in Requests, release_capacity(r),
         UNCHANGED <<worker, runnerSlots>>,
         \A q \in Requests : q # r => pc'[q] = pc[q],
         ~HasGlobalPermit(r)', ~HasClientPermit(r)'
  PROVE  CapacityConserved'
<1>1. CASE WorkerIdle(r)
  <2>1. /\ OccupiesGlobal(r) = HasGlobalPermit(r) /\ ~OccupiesGlobal(r)'
        /\ (r \in Calls /\ OccupiesClient(r)) = HasClientPermit(r) /\ ~OccupiesClient(r)'
    BY <1>1 DEF OccupiesGlobal, OccupiesClient, WorkerIdle, HasGlobalPermit, HasClientPermit
  <2>2. slots' = slots + One(OccupiesGlobal(r)) - One(OccupiesGlobal(r)')
    BY <1>1, <2>1 DEF release_capacity, GiveBack, One, TypeOK
  <2>3. ASSUME NEW c \in Clients
        PROVE  clientSlots'[c] = clientSlots[c]
                 + One(r \in Calls /\ ClientOf[r] = c /\ OccupiesClient(r))
                 - One(r \in Calls /\ ClientOf[r] = c /\ OccupiesClient(r)')
    <3>1. One(r \in Calls /\ ClientOf[r] = c /\ OccupiesClient(r)') = 0
      BY <2>1 DEF One
    <3>2. CASE HasClientPermit(r) /\ ClientOf[r] = c
      <4>1. clientSlots'[c] = clientSlots[c] + 1
        BY <1>1, <3>2 DEF release_capacity, GiveBack, TypeOK
      <4>2. One(r \in Calls /\ ClientOf[r] = c /\ OccupiesClient(r)) = 1
        BY <2>1, <3>2 DEF One
      <4> QED
        BY <3>1, <4>1, <4>2 DEF TypeOK
    <3>3. CASE ~(HasClientPermit(r) /\ ClientOf[r] = c)
      <4>1. clientSlots'[c] = clientSlots[c]
        BY <1>1, <3>3 DEF release_capacity, GiveBack, TypeOK
      <4>2. One(r \in Calls /\ ClientOf[r] = c /\ OccupiesClient(r)) = 0
        BY <2>1, <3>3 DEF One
      <4> QED
        BY <3>1, <4>1, <4>2 DEF TypeOK
    <3> QED
      BY <3>2, <3>3
  <2> QED
    BY <2>2, <2>3, OneRequestMoves DEF PermitInv, TypeOK, One
<1>2. CASE ~WorkerIdle(r)
  <2>1. OccupiesGlobal(r) /\ OccupiesGlobal(r)'
    BY <1>2 DEF OccupiesGlobal, WorkerIdle
  <2>2. r \in Calls => OccupiesClient(r) /\ OccupiesClient(r)'
    BY <1>2 DEF OccupiesClient, WorkerIdle
  <2>3. UNCHANGED <<slots, clientSlots>>
    BY <1>2 DEF release_capacity
  <2> QED
    BY <2>1, <2>2, <2>3, OneRequestMoves DEF PermitInv, TypeOK, One
<1> QED
  BY <1>1, <1>2

LEMMA ConcludePermits ==
  ASSUME TypeOK, PermitInv, NEW r \in Requests, NEW s, NEW a, Conclude(r, s, a),
         pc[r] \notin {"idle", "done"}, UNCHANGED <<begun, worker, runnerSlots>>
  PROVE  PermitInv'
<1>1. \A q \in Requests : q # r => pc'[q] = pc[q]
  BY DEF Conclude, TypeOK
<1>2. CASE r \in Ops /\ begun[r]
  <2>1. pc'[r] = "record" /\ UNCHANGED <<slots, clientSlots>>
    BY <1>2 DEF Conclude, TypeOK
  <2>2. r \notin Calls
    BY <1>2, RequestsAssumption
  <2>3. OccupiesGlobal(r) /\ OccupiesGlobal(r)'
    BY <1>2, <2>1 DEF PermitInv, WorkerInv, OccupiesGlobal, HasGlobalPermit
  <2>4. CapacityConserved'
    BY <1>1, <2>1, <2>2, <2>3, OneRequestMoves DEF PermitInv, TypeOK, One
  <2> QED
    BY <1>1, <1>2, <2>1, <2>4 DEF PermitInv, WorkerInv
<1>3. CASE ~(r \in Ops /\ begun[r])
  <2>1. pc'[r] = (IF r \in Calls THEN "record" ELSE "done") /\ release_capacity(r)
    BY <1>3 DEF Conclude, TypeOK
  <2>2. ~HasGlobalPermit(r)' /\ ~HasClientPermit(r)'
    BY <2>1, RequestsAssumption DEF HasGlobalPermit, HasClientPermit
  <2>3. CapacityConserved'
    BY <1>1, <2>1, <2>2, ReleasePermits
  <2> QED
    BY <1>1, <2>1, <2>3, RequestsAssumption DEF PermitInv, WorkerInv
<1> QED
  BY <1>2, <1>3

LEMMA ReturnPermits ==
  ASSUME TypeOK, PermitInv, NEW r \in Requests, NEW a, Return(r, a),
         pc[r] = "record", UNCHANGED <<begun, worker, runnerSlots>>
  PROVE  PermitInv'
<1>1. /\ \A q \in Requests : q # r => pc'[q] = pc[q]
      /\ pc'[r] = "done"
  BY DEF Return, TypeOK
<1>2. CapacityConserved'
  <2>1. CASE r \in Ops
    BY <1>1, <2>1, ReleasePermits DEF Return, HasGlobalPermit, HasClientPermit
  <2>2. CASE r \notin Ops
    <3>1. /\ OccupiesGlobal(r) <=> OccupiesGlobal(r)'
          /\ OccupiesClient(r) <=> OccupiesClient(r)'
      BY <1>1, <2>2 DEF OccupiesGlobal, OccupiesClient, HasGlobalPermit, HasClientPermit
    <3> QED
      BY <1>1, <2>2, <3>1, OneRequestMoves DEF Return, PermitInv, TypeOK, One
  <2> QED
    BY <2>1, <2>2
<1> QED
  BY <1>1, <1>2 DEF PermitInv, WorkerInv

\* A step that keeps every coroutine and thread where it is conserves the permits.
LEMMA NothingMoves ==
  ASSUME PermitInv, UNCHANGED <<pc, begun, worker, slots, clientSlots, runnerSlots>>
  PROVE  PermitInv'
<1>1. /\ GlobalHolders' = GlobalHolders /\ RunnerHolders' = RunnerHolders
      /\ \A c \in Clients : ClientHolders(c)' = ClientHolders(c)
  BY DEF GlobalHolders, RunnerHolders, ClientHolders, OccupiesGlobal, OccupiesClient,
         HasGlobalPermit, HasClientPermit
<1> QED
  BY <1>1 DEF PermitInv, WorkerInv, CapacityConserved

LEMMA ThreadEndsPermits ==
  ASSUME TypeOK, PermitInv, NEW r \in Requests, ThreadEnds(r)
  PROVE  PermitInv'
<1> USE DEF permitVars, maintVars, dbVars
<1>1. /\ \A q \in Requests : q # r => worker'[q] = worker[q]
      /\ worker[r] = "run" /\ worker'[r] = "done"
      /\ UNCHANGED <<pc, begun>> /\ runnerSlots' = runnerSlots + 1
  BY DEF ThreadEnds, TypeOK
<1>2. OccupiesGlobal(r) /\ (r \in Calls => OccupiesClient(r))
  BY <1>1 DEF OccupiesGlobal, OccupiesClient
<1>3. CASE HandedOver(r)
  <2>1. ~OccupiesGlobal(r)' /\ ~OccupiesClient(r)'
    BY <1>1, <1>3, RequestsAssumption
    DEF HandedOver, OccupiesGlobal, OccupiesClient, HasGlobalPermit, HasClientPermit
  <2>2. slots' = slots + 1
    BY <1>3 DEF ThreadEnds, GiveBack, One
  <2>3. ASSUME NEW c \in Clients
        PROVE  clientSlots'[c] = clientSlots[c]
                 + One(r \in Calls /\ ClientOf[r] = c /\ OccupiesClient(r))
                 - One(r \in Calls /\ ClientOf[r] = c /\ OccupiesClient(r)')
    <3>1. One(r \in Calls /\ ClientOf[r] = c /\ OccupiesClient(r)') = 0
      BY <2>1 DEF One
    <3>2. CASE r \in Calls /\ ClientOf[r] = c
      <4>1. clientSlots'[c] = clientSlots[c] + 1
        BY <1>3, <3>2 DEF ThreadEnds, GiveBack, TypeOK
      <4>2. One(r \in Calls /\ ClientOf[r] = c /\ OccupiesClient(r)) = 1
        BY <1>2, <3>2 DEF One
      <4> QED
        BY <3>1, <4>1, <4>2 DEF TypeOK
    <3>3. CASE ~(r \in Calls /\ ClientOf[r] = c)
      <4>1. clientSlots'[c] = clientSlots[c]
        BY <1>3, <3>3 DEF ThreadEnds, GiveBack, TypeOK
      <4>2. One(r \in Calls /\ ClientOf[r] = c /\ OccupiesClient(r)) = 0
        BY <3>3 DEF One
      <4> QED
        BY <3>1, <4>1, <4>2 DEF TypeOK
    <3> QED
      BY <3>2, <3>3
  <2>4. CapacityConserved'
    BY <1>1, <1>2, <2>1, <2>2, <2>3, OneRequestMoves DEF PermitInv, TypeOK, One
  <2> QED
    BY <1>1, <2>4 DEF PermitInv, WorkerInv
<1>4. CASE ~HandedOver(r)
  <2>1. pc[r] = "thread" \/ (r \in Ops /\ pc[r] = "record")
    BY <1>1, <1>4 DEF HandedOver, PermitInv, WorkerInv, Requests
  <2>2. OccupiesGlobal(r)' /\ (r \in Calls => OccupiesClient(r)')
    BY <1>1, <2>1, RequestsAssumption
    DEF OccupiesGlobal, OccupiesClient, HasGlobalPermit, HasClientPermit
  <2>3. UNCHANGED <<slots, clientSlots>>
    BY <1>4 DEF ThreadEnds
  <2>4. CapacityConserved'
    BY <1>1, <1>2, <2>2, <2>3, OneRequestMoves DEF PermitInv, TypeOK, One
  <2> QED
    BY <1>1, <2>4 DEF PermitInv, WorkerInv
<1> QED
  BY <1>3, <1>4

\* A step of the coroutine of r that moves no semaphore and keeps what r occupies.
LEMMA PermitsKept ==
  ASSUME TypeOK, PermitInv, NEW r \in Requests,
         \A q \in Requests : q # r => pc'[q] = pc[q],
         UNCHANGED <<worker, slots, clientSlots, runnerSlots>>,
         HasGlobalPermit(r)' <=> HasGlobalPermit(r),
         HasClientPermit(r)' <=> HasClientPermit(r)
  PROVE  CapacityConserved'
<1>1. /\ OccupiesGlobal(r)' <=> OccupiesGlobal(r)
      /\ OccupiesClient(r)' <=> OccupiesClient(r)
  BY DEF OccupiesGlobal, OccupiesClient
<1> QED
  BY <1>1, OneRequestMoves DEF PermitInv, TypeOK, One

LEMMA AcquireLocalPermits ==
  ASSUME TypeOK, PermitInv, NEW r \in Requests, AcquireLocal(r)
  PROVE  PermitInv'
<1> USE DEF dbVars, permitVars, maintVars
<1>1. /\ \A q \in Requests : q # r => pc'[q] = pc[q]
      /\ pc[r] = "admit" /\ pc'[r] = "global"
      /\ UNCHANGED <<begun, worker, slots, runnerSlots>>
  BY DEF AcquireLocal, TypeOK
<1>2. worker[r] # "run"
  BY <1>1 DEF PermitInv, WorkerInv
<1>3. ~OccupiesGlobal(r) /\ ~OccupiesGlobal(r)' /\ ~OccupiesClient(r)
  BY <1>1, <1>2 DEF OccupiesGlobal, OccupiesClient, HasGlobalPermit, HasClientPermit
<1>4. OccupiesClient(r)' <=> r \in Calls
  BY <1>1, <1>2 DEF OccupiesClient, HasClientPermit
<1>5. ASSUME NEW c \in Clients
      PROVE  clientSlots'[c] = clientSlots[c]
               + One(r \in Calls /\ ClientOf[r] = c /\ OccupiesClient(r))
               - One(r \in Calls /\ ClientOf[r] = c /\ OccupiesClient(r)')
  <2>1. One(r \in Calls /\ ClientOf[r] = c /\ OccupiesClient(r)) = 0
    BY <1>3 DEF One
  <2>2. CASE r \in Calls /\ ClientOf[r] = c
    <3>1. clientSlots'[c] = clientSlots[c] - 1
      BY <2>2 DEF AcquireLocal, TypeOK
    <3>2. One(r \in Calls /\ ClientOf[r] = c /\ OccupiesClient(r)') = 1
      BY <1>4, <2>2 DEF One
    <3> QED
      BY <2>1, <3>1, <3>2 DEF TypeOK
  <2>3. CASE ~(r \in Calls /\ ClientOf[r] = c)
    <3>1. clientSlots'[c] = clientSlots[c]
      BY <2>3 DEF AcquireLocal, TypeOK
    <3>2. One(r \in Calls /\ ClientOf[r] = c /\ OccupiesClient(r)') = 0
      BY <2>3 DEF One
    <3> QED
      BY <2>1, <3>1, <3>2 DEF TypeOK
  <2> QED
    BY <2>2, <2>3
<1>6. CapacityConserved'
  BY <1>1, <1>3, <1>5, OneRequestMoves DEF PermitInv, TypeOK, One
<1> QED
  BY <1>1, <1>6 DEF PermitInv, WorkerInv

LEMMA AcquireGlobalPermits ==
  ASSUME TypeOK, PermitInv, NEW r \in Requests, AcquireGlobal(r)
  PROVE  PermitInv'
<1> USE DEF dbVars, permitVars, maintVars
<1>1. /\ \A q \in Requests : q # r => pc'[q] = pc[q]
      /\ pc[r] = "global" /\ pc'[r] = "prepare" /\ slots' = slots - 1
      /\ UNCHANGED <<begun, worker, clientSlots, runnerSlots>>
  BY DEF AcquireGlobal, TypeOK
<1>2. worker[r] # "run"
  BY <1>1 DEF PermitInv, WorkerInv
<1>3. ~OccupiesGlobal(r) /\ OccupiesGlobal(r)' /\ (OccupiesClient(r) <=> OccupiesClient(r)')
  BY <1>1, <1>2 DEF OccupiesGlobal, OccupiesClient, HasGlobalPermit, HasClientPermit
<1>4. CapacityConserved'
  BY <1>1, <1>3, OneRequestMoves DEF PermitInv, TypeOK, One
<1> QED
  BY <1>1, <1>4 DEF PermitInv, WorkerInv

LEMMA StartThreadPermits ==
  ASSUME TypeOK, PermitInv, NEW r \in Requests, StartThread(r)
  PROVE  PermitInv'
<1> USE DEF dbVars, permitVars, maintVars
<1>1. /\ \A q \in Requests : q # r => pc'[q] = pc[q] /\ worker'[q] = worker[q]
      /\ pc[r] = "dispatch" /\ pc'[r] = "thread" /\ worker'[r] = "run"
      /\ runnerSlots' = runnerSlots - 1
      /\ UNCHANGED <<begun, slots, clientSlots>>
  BY DEF StartThread, TypeOK
<1>2. worker[r] # "run"
  BY <1>1 DEF PermitInv, WorkerInv
<1>3. /\ OccupiesGlobal(r) /\ OccupiesGlobal(r)'
      /\ OccupiesClient(r) <=> OccupiesClient(r)'
  BY <1>1, <1>2 DEF OccupiesGlobal, OccupiesClient, HasGlobalPermit, HasClientPermit
<1>4. CapacityConserved'
  BY <1>1, <1>2, <1>3, OneRequestMoves DEF PermitInv, TypeOK, One
<1> QED
  BY <1>1, <1>4 DEF PermitInv, WorkerInv

\* After a crash nobody holds a permit and every semaphore is new.
LEMMA RestartPermits ==
  ASSUME TypeOK, PermitInv, Restart
  PROVE  PermitInv'
<1>1. \A r \in Requests : pc'[r] \in {"idle", "done"} /\ worker'[r] = "none"
  BY DEF Restart
<1>2. /\ GlobalHolders' = {} /\ RunnerHolders' = {}
      /\ \A c \in Clients : ClientHolders(c)' = {}
  BY <1>1 DEF GlobalHolders, RunnerHolders, ClientHolders, OccupiesGlobal,
              OccupiesClient, HasGlobalPermit, HasClientPermit, Requests
<1>3. CapacityConserved'
  <2>1. Cardinality({}) = 0
    BY FS_EmptySet
  <2>2. /\ Cardinality(GlobalHolders') = 0 /\ Cardinality(RunnerHolders') = 0
        /\ \A c \in Clients : Cardinality(ClientHolders(c)') = 0
    BY <1>2, <2>1
  <2>3. /\ slots' = GlobalSlots /\ runnerSlots' = RunnerSlots
        /\ \A c \in Clients : clientSlots'[c] = LocalSlots
    BY DEF Restart
  <2> QED
    BY <2>2, <2>3, SlotsAssumption DEF CapacityConserved
<1>4. WorkerInv'
  BY <1>1 DEF Restart, PermitInv, WorkerInv
<1> QED
  BY <1>3, <1>4 DEF PermitInv

LEMMA PermitInvariant == Spec => []PermitInv
<1>1. Init => PermitInv
  <2> SUFFICES ASSUME Init PROVE PermitInv
    OBVIOUS
  <2>1. /\ GlobalHolders = {} /\ RunnerHolders = {}
        /\ \A c \in Clients : ClientHolders(c) = {}
    BY DEF Init, GlobalHolders, RunnerHolders, ClientHolders, OccupiesGlobal,
           OccupiesClient, HasGlobalPermit, HasClientPermit, Requests
  <2>2. CapacityConserved
    BY <2>1, FS_EmptySet, SlotsAssumption DEF Init, CapacityConserved
  <2> QED
    BY <2>2 DEF Init, PermitInv, WorkerInv
<1>2. TypeOK /\ PermitInv /\ [Next]_vars => PermitInv'
  <2> SUFFICES ASSUME TypeOK, PermitInv, [Next]_vars PROVE PermitInv'
    OBVIOUS
  <2> USE DEF permitVars, maintVars, dbVars
  <2>1. ASSUME NEW r \in Requests, Enter(r) PROVE PermitInv'
    <3>1. /\ \A q \in Requests : q # r => pc'[q] = pc[q]
          /\ pc[r] = "idle" /\ pc'[r] \in {"admit", "done"}
          /\ UNCHANGED <<begun, worker, slots, clientSlots, runnerSlots>>
      BY <2>1 DEF Enter, TypeOK
    <3>2. CapacityConserved'
      BY <3>1, PermitsKept DEF HasGlobalPermit, HasClientPermit
    <3> QED
      BY <3>1, <3>2 DEF PermitInv, WorkerInv
  <2>2. ASSUME NEW r \in Requests, Step(r) PROVE PermitInv'
    <3>1. CASE AdmissionFails(r)
      BY <3>1, ConcludePermits DEF AdmissionFails
    <3>2. CASE AcquireLocal(r)
      BY <3>2, AcquireLocalPermits
    <3>3. CASE AcquireGlobal(r)
      BY <3>3, AcquireGlobalPermits
    <3>4. CASE AcquireTimeout(r)
      BY <3>4, ConcludePermits DEF AcquireTimeout
    <3>5. CASE Submit(r)
      BY <3>5, NothingMoves DEF Submit
    <3>6. CASE Prepared(r)
      <4>1. /\ \A q \in Requests : q # r => pc'[q] = pc[q] /\ begun'[q] = begun[q]
            /\ pc[r] = "prepare" /\ pc'[r] = "dispatch"
            /\ UNCHANGED <<worker, slots, clientSlots, runnerSlots>>
        BY <3>6 DEF Prepared, TypeOK
      <4>2. CapacityConserved'
        BY <4>1, PermitsKept DEF HasGlobalPermit, HasClientPermit
      <4> QED
        BY <4>1, <4>2 DEF PermitInv, WorkerInv
    <3>7. CASE NotPrepared(r)
      BY <3>7, ConcludePermits DEF NotPrepared
    <3>8. CASE ContextFails(r)
      BY <3>8, ConcludePermits DEF ContextFails
    <3>9. CASE StartAsync(r)
      <4>1. /\ \A q \in Requests : q # r => pc'[q] = pc[q]
            /\ pc[r] = "dispatch" /\ pc'[r] = "async"
            /\ UNCHANGED <<begun, worker, slots, clientSlots, runnerSlots>>
        BY <3>9 DEF StartAsync, TypeOK
      <4>2. CapacityConserved'
        BY <4>1, PermitsKept DEF HasGlobalPermit, HasClientPermit
      <4> QED
        BY <4>1, <4>2 DEF PermitInv, WorkerInv
    <3>10. CASE StartThread(r)
      BY <3>10, StartThreadPermits
    <3>11. CASE Executed(r)
      BY <3>11, ConcludePermits DEF Executed
    <3>12. CASE Deadline(r)
      BY <3>12, ConcludePermits DEF Deadline, Expired
    <3>13. CASE Recorded(r)
      BY <3>13, ReturnPermits DEF Recorded
    <3>14. CASE NotRecorded(r)
      BY <3>14, ReturnPermits DEF NotRecorded
    <3> QED
      BY <2>2, <3>1, <3>2, <3>3, <3>4, <3>5, <3>6, <3>7, <3>8, <3>9, <3>10,
         <3>11, <3>12, <3>13, <3>14 DEF Step
  <2>3. ASSUME NEW r \in Requests, ThreadEnds(r) PROVE PermitInv'
    BY <2>3, ThreadEndsPermits
  <2>4. ASSUME NEW r \in Requests, Cancel(r) PROVE PermitInv'
    BY <2>4, ReturnPermits, ConcludePermits DEF Cancel, CanBeCancelled
  <2>5. ASSUME NEW j \in jobs, RunJob(j) PROVE PermitInv'
    BY <2>5, NothingMoves DEF RunJob, RunInsert, RunUpdate, JobFails, Answer
  <2>6. CASE MaintenanceTick
    BY <2>6, NothingMoves DEF MaintenanceTick
  <2>7. CASE MaintenanceRuns
    BY <2>7, NothingMoves DEF MaintenanceRuns
  <2>8. CASE LatchCleared
    BY <2>8, NothingMoves DEF LatchCleared
  <2>9. CASE StorageError
    BY <2>9, NothingMoves DEF StorageError
  <2>10. CASE Restart
    BY <2>10, RestartPermits
  <2>11. CASE UNCHANGED vars
    BY <2>11, NothingMoves DEF vars
  <2> QED
    BY <2>1, <2>2, <2>3, <2>4, <2>5, <2>6, <2>7, <2>8, <2>9, <2>10, <2>11 DEF Next
<1> QED
  BY <1>1, <1>2, TypeCorrect, PTL DEF Spec

\* No permit of Gateway.slots, Gateway.client_slots or BlockingRunner.slots is lost
\* or returned twice, for any number of requests, clients and permits.
THEOREM CapacityIsConserved == Spec => []CapacityConserved
<1>1. PermitInv => CapacityConserved
  BY DEF PermitInv
<1> QED
  BY <1>1, PermitInvariant, PTL

\* A request that holds a global permit and has no thread yet finds a runner permit,
\* whenever the runner has at least as many permits as the gateway.
THEOREM RunnerAlwaysFree == Spec => []RunnerNeverRefuses
<1>1. TypeOK /\ PermitInv => RunnerNeverRefuses
  <2> SUFFICES ASSUME TypeOK, PermitInv, NEW r \in Requests, pc[r] = "dispatch"
               PROVE  runnerSlots > 0
    BY DEF RunnerNeverRefuses
  <2>1. RunnerHolders \subseteq GlobalHolders \ {r}
    BY DEF PermitInv, WorkerInv, RunnerHolders, GlobalHolders, OccupiesGlobal
  <2>2. r \in GlobalHolders
    BY DEF GlobalHolders, OccupiesGlobal, HasGlobalPermit
  <2>3. /\ IsFiniteSet(GlobalHolders \ {r})
        /\ Cardinality(GlobalHolders \ {r}) = Cardinality(GlobalHolders) - 1
    BY <2>2, HoldersFinite, FS_RemoveElement
  <2>4. Cardinality(RunnerHolders) <= Cardinality(GlobalHolders) - 1
    BY <2>1, <2>3, FS_Subset
  <2>5. Cardinality(GlobalHolders) \in Nat /\ Cardinality(RunnerHolders) \in Nat
    BY HoldersFinite, FS_CardinalityType
  <2>6. /\ slots = GlobalSlots - Cardinality(GlobalHolders) /\ slots \in Nat
        /\ runnerSlots = RunnerSlots - Cardinality(RunnerHolders)
    BY DEF PermitInv, CapacityConserved, TypeOK
  <2> QED
    BY <2>4, <2>5, <2>6, SlotsAssumption, RunnerAssumption
<1> QED
  BY <1>1, TypeCorrect, PermitInvariant, PTL

-----------------------------------------------------------------------------
(* ToolCall implements AuditTrail, for every number of requests, clients, permits and *)
(* restarts.                                                                          *)
(* The inductive invariant: what is known of a call while it ends *)

Concluded(r) == pc[r] \in {"record", "done"}

\* A job that is to close the row of a call writes what the call concluded with, and no call
\* concludes twice.
QueuedEnding(r) ==
  \A j \in jobs :
    j.req = r /\ j.kind = "update" => begun[r] /\ Concluded(r) /\ j.status = out[r]

\* A row that was closed holds what the call concluded with.
RowEnd(r) == audit[r] \in Outcomes => begun[r] /\ Concluded(r) /\ audit[r] = out[r]

SuccessRan(r) ==
  /\ pc[r] \in {"async", "thread"} => ran[r]
  /\ out[r] = "ok" => ran[r]

Answers == {"value", "failed", "cancelled"} \cup NothingDone

\* While a call records its end, the answer it will give fits the status it records.
AnswerFits(r) ==
  pc[r] = "record" =>
    /\ reply[r] \in Answers
    /\ reply[r] = "value" <=> out[r] = "ok"
    /\ reply[r] \in {"value", "failed"} => begun[r]

\* The coroutine was told that its end is recorded, and it still is.
RecordedEnd(r) ==
  pc[r] = "record" /\ db[r] = "ok" => audit[r] = IF begun[r] THEN out[r] ELSE "denied"

CallInv(r) ==
  QueuedEnding(r) /\ RowEnd(r) /\ SuccessRan(r) /\ AnswerFits(r) /\ RecordedEnd(r)

TrailInv == \A r \in Calls : CallInv(r)

-----------------------------------------------------------------------------
(* The invariant is kept *)

\* Nothing that the invariant says of a call changes, but for jobs that were run.
Same(q) ==
  /\ pc'[q] = pc[q] /\ db'[q] = db[q] /\ begun'[q] = begun[q] /\ out'[q] = out[q]
  /\ reply'[q] = reply[q] /\ ran'[q] = ran[q] /\ audit'[q] = audit[q]
  /\ \A j \in jobs' : j.req = q => j \in jobs

LEMMA SameKeeps ==
  ASSUME NEW q, CallInv(q), Same(q)
  PROVE  CallInv(q)'
BY DEF Same, CallInv, QueuedEnding, RowEnd, SuccessRan, AnswerFits, RecordedEnd, Concluded

LEMMA OthersSame ==
  ASSUME TrailInv, NEW r, \A q \in Calls : q # r => Same(q), r \in Calls => CallInv(r)'
  PROVE  TrailInv'
<1>1. ASSUME NEW q \in Calls PROVE CallInv(q)'
  BY SameKeeps DEF TrailInv
<1> QED
  BY <1>1 DEF TrailInv

\* A call leaves its try block once, with an answer that fits what it records.
Concludes(r, s, a) ==
  /\ ~Concluded(r)
  /\ a \in Answers /\ (a = "value" <=> s = "ok")
  /\ s = "ok" => ran[r]
  /\ a \in {"value", "failed"} => begun[r]

LEMMA ConcludeTrailInv ==
  ASSUME TypeOK, TrailInv, NEW r \in Requests, NEW s \in Outcomes, NEW a \in Replies,
         Conclude(r, s, a), r \in Calls => Concludes(r, s, a),
         UNCHANGED <<audit, begun, ran, jobs>>
  PROVE  TrailInv'
<1>1. \A q \in Calls : q # r => Same(q)
  BY DEF Conclude, TypeOK, Same, Requests
<1>2. ASSUME r \in Calls PROVE CallInv(r)'
  <2>1. r \notin Ops
    BY <1>2, RequestsAssumption
  <2>2. pc'[r] = "record" /\ db'[r] = "slot" /\ out'[r] = s /\ reply'[r] = a
    BY <1>2, <2>1 DEF Conclude, TypeOK
  <2>3. CallInv(r) /\ Concludes(r, s, a)
    BY <1>2 DEF TrailInv
  <2> QED
    BY <2>2, <2>3
    DEF Concludes, CallInv, QueuedEnding, RowEnd, SuccessRan, AnswerFits, RecordedEnd, Concluded
<1> QED
  BY <1>1, <1>2, OthersSame

LEMMA ReturnTrailInv ==
  ASSUME TypeOK, TrailInv, NEW r \in Requests, NEW a \in Replies, Return(r, a),
         r \in Calls => pc[r] = "record", UNCHANGED <<audit, begun, out, ran, jobs>>
  PROVE  TrailInv'
<1>1. \A q \in Calls : q # r => Same(q)
  BY DEF Return, TypeOK, Same, Requests
<1>2. ASSUME r \in Calls PROVE CallInv(r)'
  <2>1. pc'[r] = "done"
    BY DEF Return, TypeOK
  <2>2. CallInv(r)
    BY <1>2 DEF TrailInv
  <2> QED
    BY <1>2, <2>1, <2>2
    DEF CallInv, QueuedEnding, RowEnd, SuccessRan, AnswerFits, RecordedEnd, Concluded
<1> QED
  BY <1>1, <1>2, OthersSame

LEMMA JobTrailInv ==
  ASSUME TypeOK, StartInv, TrailInv, NEW j \in jobs, RunJob(j)
  PROVE  TrailInv'
<1>1. j.req \in Requests /\ jobs' = jobs \ {j}
  BY DEF RunJob, RunInsert, RunUpdate, JobFails, Answer, TypeOK, Job
<1>2. UNCHANGED <<pc, begun, out, reply, ran>>
  BY DEF RunJob, RunInsert, RunUpdate, JobFails, Answer
<1>3. \A q \in Calls : q # j.req => Same(q)
  BY <1>1, <1>2 DEF RunJob, RunInsert, RunUpdate, JobFails, Answer, TypeOK, Same, Requests
<1>4. ASSUME j.req \in Calls PROVE CallInv(j.req)'
  <2> DEFINE r == j.req
  <2>1. CallInv(r) /\ out[r] \in Outcomes
    BY <1>1, <1>4 DEF TrailInv, TypeOK
  <2>2. ASSUME audit' = audit, db'[r] \in {db[r], "refused", "error"} PROVE CallInv(r)'
    BY <1>1, <1>2, <2>1, <2>2
    DEF CallInv, QueuedEnding, RowEnd, SuccessRan, AnswerFits, RecordedEnd, Concluded
  <2>3. ASSUME j.kind = "insert", audit[r] = "none", audit'[r] = j.status,
               db'[r] = IF Awaited(j) THEN "ok" ELSE db[r]
        PROVE  CallInv(r)'
    <3>1. j.status \in {"started", "denied"}
      BY <2>3 DEF StartInv
    <3>2. RowEnd(r)'
      BY <3>1, <2>3 DEF RowEnd, Outcomes
    <3>3. RecordedEnd(r)'
      <4>1. CASE Awaited(j)
        BY <1>2, <2>3, <4>1 DEF Awaited, JobOf, RecordedEnd
      <4>2. CASE ~Awaited(j)
        BY <1>2, <2>1, <2>3, <4>2 DEF CallInv, RecordedEnd, Outcomes
      <4> QED
        BY <4>1, <4>2
    <3> QED
      BY <1>1, <1>2, <2>1, <3>2, <3>3
      DEF CallInv, QueuedEnding, SuccessRan, AnswerFits, Concluded
  <2>4. ASSUME RunUpdate(j) PROVE CallInv(r)'
    <3>1. begun[r] /\ Concluded(r) /\ j.status = out[r]
      BY <2>1, <2>4 DEF RunUpdate, CallInv, QueuedEnding
    <3>2. audit[r] # "none"
      BY <1>1, <3>1 DEF StartInv
    <3>3. audit'[r] = out[r]
      BY <1>1, <2>4, <3>1, <3>2 DEF RunUpdate, Updates, TypeOK
    <3> QED
      BY <1>1, <1>2, <2>1, <3>1, <3>3
      DEF CallInv, QueuedEnding, RowEnd, SuccessRan, AnswerFits, RecordedEnd, Concluded
  <2>5. ASSUME NEW w, Answer(j, w) PROVE db'[r] = IF Awaited(j) THEN w ELSE db[r]
    BY <1>1, <2>5 DEF Answer, TypeOK
  <2>6. CASE RunInsert(j)
    <3>1. \/ audit' = audit /\ db'[r] \in {db[r], "refused", "error"}
          \/ /\ j.kind = "insert" /\ audit[r] = "none" /\ audit'[r] = j.status
             /\ db'[r] = IF Awaited(j) THEN "ok" ELSE db[r]
      BY <1>1, <2>5, <2>6 DEF RunInsert, Inserts, TypeOK
    <3> QED
      BY <3>1, <2>2, <2>3
  <2>7. CASE JobFails(j)
    <3>1. audit' = audit /\ db'[r] \in {db[r], "refused", "error"}
      BY <2>5, <2>7 DEF JobFails
    <3> QED
      BY <3>1, <2>2
  <2> QED
    BY <2>4, <2>6, <2>7 DEF RunJob
<1> QED
  BY <1>3, <1>4, OthersSame

LEMMA StepTrailInv ==
  ASSUME TypeOK, StartInv, TrailInv, NEW r \in Requests, Step(r)
  PROVE  TrailInv'
<1> USE DEF permitVars, maintVars, dbVars
<1> DEFINE Others == \A q \in Calls : q # r => Same(q)
<1>c. r \in Calls => CallInv(r) /\ out[r] \in Outcomes
  BY DEF TrailInv, TypeOK
<1>1. CASE AdmissionFails(r)
  BY <1>1, ConcludeTrailInv
  DEF AdmissionFails, Concludes, Concluded, Answers, NothingDone, StartInv, Outcomes, Replies
<1>2. CASE AcquireLocal(r)
  <2>1. Others
    BY <1>2 DEF AcquireLocal, TypeOK, Same, Requests
  <2>2. ASSUME r \in Calls PROVE CallInv(r)'
    BY <1>2, <1>c, <2>2
    DEF AcquireLocal, TypeOK, CallInv, QueuedEnding, RowEnd, SuccessRan, AnswerFits,
        RecordedEnd, Concluded
  <2> QED
    BY <2>1, <2>2, OthersSame
<1>3. CASE AcquireGlobal(r)
  <2>1. Others
    BY <1>3 DEF AcquireGlobal, TypeOK, Same, Requests
  <2>2. ASSUME r \in Calls PROVE CallInv(r)'
    BY <1>3, <1>c, <2>2
    DEF AcquireGlobal, TypeOK, CallInv, QueuedEnding, RowEnd, SuccessRan, AnswerFits,
        RecordedEnd, Concluded
  <2> QED
    BY <2>1, <2>2, OthersSame
<1>4. CASE AcquireTimeout(r)
  BY <1>4, ConcludeTrailInv
  DEF AcquireTimeout, Concludes, Concluded, Answers, NothingDone, StartInv, Outcomes, Replies
<1>5. CASE Submit(r)
  <2>1. Others
    BY <1>5 DEF Submit, JobOf, TypeOK, Same, Requests
  <2>2. ASSUME r \in Calls PROVE CallInv(r)'
    BY <1>5, <1>c, <2>2
    DEF Submit, JobOf, TypeOK, CallInv, QueuedEnding, RowEnd, SuccessRan, AnswerFits,
        RecordedEnd, Concluded
  <2> QED
    BY <2>1, <2>2, OthersSame
<1>6. CASE Prepared(r)
  <2>1. Others
    BY <1>6 DEF Prepared, TypeOK, Same, Requests
  <2>2. ASSUME r \in Calls PROVE CallInv(r)'
    BY <1>6, <1>c, <2>2
    DEF Prepared, TypeOK, CallInv, QueuedEnding, RowEnd, SuccessRan, AnswerFits,
        RecordedEnd, Concluded
  <2> QED
    BY <2>1, <2>2, OthersSame
<1>7. CASE NotPrepared(r)
  BY <1>7, ConcludeTrailInv
  DEF NotPrepared, Concludes, Concluded, Answers, NothingDone, StartInv, Outcomes, Replies
<1>8. CASE ContextFails(r)
  BY <1>8, ConcludeTrailInv
  DEF ContextFails, Concludes, Concluded, Answers, StartInv, Outcomes, Replies
<1>9. CASE StartAsync(r)
  <2>1. Others
    BY <1>9 DEF StartAsync, TypeOK, Same, Requests
  <2>2. ASSUME r \in Calls PROVE CallInv(r)'
    BY <1>9, <1>c, <2>2
    DEF StartAsync, TypeOK, CallInv, QueuedEnding, RowEnd, SuccessRan, AnswerFits,
        RecordedEnd, Concluded
  <2> QED
    BY <2>1, <2>2, OthersSame
<1>10. CASE StartThread(r)
  <2>1. Others
    BY <1>10 DEF StartThread, TypeOK, Same, Requests
  <2>2. ASSUME r \in Calls PROVE CallInv(r)'
    BY <1>10, <1>c, <2>2
    DEF StartThread, TypeOK, CallInv, QueuedEnding, RowEnd, SuccessRan, AnswerFits,
        RecordedEnd, Concluded
  <2> QED
    BY <2>1, <2>2, OthersSame
<1>11. CASE Executed(r)
  <2>1. PICK s \in Outcomes : Conclude(r, Ending(r, s), IF s = "ok" THEN "value" ELSE "failed")
    BY <1>11 DEF Executed
  <2>2. Ending(r, s) \in Outcomes /\ (Ending(r, s) = "ok" <=> s = "ok")
    BY DEF Ending, Outcomes
  <2>3. r \in Calls => ran[r] /\ begun[r] /\ ~Concluded(r)
    BY <1>11, <1>c DEF Executed, CallInv, SuccessRan, Concluded, StartInv
  <2>4. UNCHANGED <<audit, begun, ran, jobs>>
    BY <1>11 DEF Executed
  <2> QED
    BY <2>1, <2>2, <2>3, <2>4, ConcludeTrailInv DEF Concludes, Answers, Replies
<1>12. CASE Deadline(r)
  <2>1. Ending(r, "timeout") \in Outcomes /\ Ending(r, "timeout") # "ok"
    BY DEF Ending, Outcomes
  <2> QED
    BY <1>12, <2>1, ConcludeTrailInv
    DEF Deadline, Expired, Concludes, Concluded, Answers, StartInv, Replies
<1>13. CASE Recorded(r)
  BY <1>13, ReturnTrailInv DEF Recorded, TypeOK
<1>14. CASE NotRecorded(r)
  <2>1. Unrecorded(r) \in Replies
    BY DEF Unrecorded, Replies, TypeOK
  <2> QED
    BY <1>14, <2>1, ReturnTrailInv DEF NotRecorded
<1> QED
  BY <1>1, <1>2, <1>3, <1>4, <1>5, <1>6, <1>7, <1>8, <1>9, <1>10, <1>11, <1>12, <1>13,
     <1>14 DEF Step

\* Steps that are not a request's own.
LEMMA EnvironmentTrailInv ==
  ASSUME TypeOK, TrailInv,
         \/ MaintenanceTick \/ MaintenanceRuns \/ LatchCleared \/ StorageError \/ Restart
  PROVE  TrailInv'
<1> USE DEF permitVars, maintVars
<1> SUFFICES ASSUME NEW q \in Calls PROVE CallInv(q)'
  BY DEF TrailInv
<1>c. CallInv(q) /\ q \in Requests
  BY DEF TrailInv, Requests
<1>1. CASE MaintenanceTick \/ LatchCleared \/ StorageError
  BY <1>1, <1>c, SameKeeps DEF MaintenanceTick, LatchCleared, StorageError, Same
<1>2. CASE MaintenanceRuns
  <2>1. \/ audit'[q] = audit[q]
        \/ audit[q] = "started" /\ audit'[q] = "interrupted"
    BY <1>2, <1>c DEF MaintenanceRuns, Orphans
  <2>2. out[q] \in Outcomes
    BY <1>c DEF TypeOK
  <2> QED
    BY <1>2, <1>c, <2>1, <2>2
    DEF MaintenanceRuns, CallInv, QueuedEnding, RowEnd, SuccessRan, AnswerFits, RecordedEnd,
        Concluded, Outcomes
<1>3. CASE Restart
  BY <1>3, <1>c
  DEF Restart, CallInv, QueuedEnding, RowEnd, SuccessRan, AnswerFits, RecordedEnd,
      Concluded, Outcomes
<1> QED
  BY <1>1, <1>2, <1>3

LEMMA TrailInvariant == Spec => []TrailInv
<1>1. Init => TrailInv
  BY DEF Init, TrailInv, CallInv, QueuedEnding, RowEnd, SuccessRan, AnswerFits, RecordedEnd,
         Requests, Outcomes
<1>2. TypeOK /\ StartInv /\ TrailInv /\ [Next]_vars => TrailInv'
  <2> SUFFICES ASSUME TypeOK, StartInv, TrailInv, [Next]_vars PROVE TrailInv'
    OBVIOUS
  <2> USE DEF permitVars, maintVars, dbVars
  <2>1. ASSUME NEW r \in Requests, Enter(r) PROVE TrailInv'
    <3>1. \A q \in Calls : q # r => Same(q)
      BY <2>1 DEF Enter, TypeOK, Same, Requests
    <3>2. ASSUME r \in Calls PROVE CallInv(r)'
      BY <2>1, <3>2
      DEF Enter, TypeOK, TrailInv, CallInv, QueuedEnding, RowEnd, SuccessRan, AnswerFits,
          RecordedEnd, Concluded
    <3> QED
      BY <3>1, <3>2, OthersSame
  <2>2. ASSUME NEW r \in Requests, Step(r) PROVE TrailInv'
    BY <2>2, StepTrailInv
  <2>3. ASSUME NEW r \in Requests, ThreadEnds(r) PROVE TrailInv'
    <3>1. \A q \in Calls : Same(q)
      BY <2>3 DEF ThreadEnds, Same
    <3> QED
      BY <3>1, SameKeeps DEF TrailInv
  <2>4. ASSUME NEW r \in Requests, Cancel(r) PROVE TrailInv'
    <3>1. Ending(r, "timeout") \in Outcomes /\ Ending(r, "timeout") # "ok"
      BY DEF Ending, Outcomes
    <3>2. r \in Calls => pc[r] # "done"
      BY <2>4 DEF Cancel, CanBeCancelled
    <3> QED
      BY <2>4, <3>1, <3>2, ConcludeTrailInv, ReturnTrailInv
      DEF Cancel, Concludes, Concluded, Answers, Replies, CanBeCancelled
  <2>5. ASSUME NEW j \in jobs, RunJob(j) PROVE TrailInv'
    BY <2>5, JobTrailInv
  <2>6. CASE UNCHANGED vars
    <3>1. \A q \in Calls : Same(q)
      BY <2>6 DEF vars, Same
    <3> QED
      BY <3>1, SameKeeps DEF TrailInv
  <2> QED
    BY <2>1, <2>2, <2>3, <2>4, <2>5, <2>6, EnvironmentTrailInv DEF Next
<1> QED
  BY <1>1, <1>2, TypeCorrect, StartInvariant, PTL DEF Spec

-----------------------------------------------------------------------------
(* Every step is a step of the audit trail, or none *)

\* Nothing of the call is seen from outside.
Unseen(q) == audit'[q] = audit[q] /\ ran'[q] = ran[q] /\ Told(q)' = Told(q)

LEMMA UnseenStutters ==
  ASSUME \A q \in Calls : Unseen(q)
  PROVE  UNCHANGED Trail!vars
BY DEF Unseen, Trail!vars

LEMMA ConcludeStutters ==
  ASSUME TypeOK, NEW r \in Requests, NEW s \in Outcomes, NEW a \in Replies,
         Conclude(r, s, a), r \in Calls => pc[r] # "done", UNCHANGED <<audit, ran>>
  PROVE  UNCHANGED Trail!vars
<1> SUFFICES ASSUME NEW q \in Calls PROVE Unseen(q)
  BY UnseenStutters
<1>1. CASE q # r
  BY <1>1 DEF Conclude, TypeOK, Unseen, Told, Requests
<1>2. CASE q = r
  <2>1. r \notin Ops
    BY <1>2, RequestsAssumption
  <2> QED
    BY <1>2, <2>1 DEF Conclude, TypeOK, Unseen, Told
<1> QED
  BY <1>1, <1>2

\* The answer of a call that ends agrees with its row and its execution.
LEMMA AnswerTells ==
  ASSUME NEW r \in Calls, NEW a \in Answers \cup {"unconfirmed"},
         pc[r] # "done", pc'[r] = "done", reply'[r] = a,
         \A q \in Calls : q # r => Told(q)' = Told(q), UNCHANGED <<audit, ran>>,
         a = "value" => audit[r] = "ok",
         a = "failed" => audit[r] \in {"error", "timeout"},
         a \in {"busy", "denied"} => audit[r] = "denied",
         a \in NothingDone => ~ran[r]
  PROVE  Trail!Tell(r)
<1>1. Trail!Agrees(r, a)
  BY DEF Trail!Agrees, Trail!NotExecuted, NothingDone
<1>2. Told(r) = "none" /\ Told(r)' = a
  BY DEF Told
<1> QED
  BY <1>1, <1>2 DEF Trail!Tell, Answers, NothingDone, Trail!NotExecuted

LEMMA ReturnTells ==
  ASSUME TypeOK, StartInv, NEW r \in Requests, NEW a \in Replies, Return(r, a),
         UNCHANGED <<audit, ran>>,
         r \in Calls =>
           /\ pc[r] # "done" /\ a \in Answers \cup {"unconfirmed"}
           /\ a = "value" => audit[r] = "ok"
           /\ a = "failed" => audit[r] \in {"error", "timeout"}
           /\ a \in {"busy", "denied"} => audit[r] = "denied"
           /\ a \in NothingDone => ~begun[r]
  PROVE  [Trail!Next]_(Trail!vars)
<1>1. \A q \in Calls : q # r => Unseen(q)
  BY DEF Return, TypeOK, Unseen, Told, Requests
<1>2. CASE r \in Calls
  <2>1. pc'[r] = "done" /\ reply'[r] = a
    BY DEF Return, TypeOK
  <2>2. a \in NothingDone => ~ran[r]
    BY <1>2 DEF StartInv
  <2>3. Trail!Tell(r)
    BY <1>1, <1>2, <2>1, <2>2, AnswerTells DEF Unseen
  <2> QED
    BY <1>2, <2>3 DEF Trail!Next
<1>3. CASE r \notin Calls
  BY <1>1, <1>3, UnseenStutters
<1> QED
  BY <1>2, <1>3

LEMMA EnterRefines ==
  ASSUME TypeOK, StartInv, NEW r \in Requests, Enter(r)
  PROVE  [Trail!Next]_(Trail!vars)
<1>1. \A q \in Calls : q # r => Unseen(q)
  BY DEF Enter, dbVars, TypeOK, Unseen, Told, Requests
<1>2. CASE r \in Calls /\ auditFailed
  <2>1. ~ran[r]
    BY DEF Enter, StartInv
  <2>2. pc[r] # "done" /\ pc'[r] = "done" /\ reply'[r] = "unavailable"
    BY <1>2 DEF Enter, TypeOK
  <2>3. UNCHANGED <<audit, ran>>
    BY DEF Enter, dbVars
  <2>4. Trail!Tell(r)
    BY <1>1, <1>2, <2>1, <2>2, <2>3, AnswerTells DEF Unseen, Answers, NothingDone
  <2> QED
    BY <1>2, <2>4 DEF Trail!Next
<1>3. CASE ~(r \in Calls /\ auditFailed)
  <2>1. r \in Calls => Unseen(r)
    BY <1>3 DEF Enter, dbVars, TypeOK, Unseen, Told
  <2> QED
    BY <1>1, <2>1, UnseenStutters
<1> QED
  BY <1>2, <1>3

LEMMA StartRefines ==
  ASSUME TypeOK, StartInv, NEW r \in Requests, StartAsync(r) \/ StartThread(r)
  PROVE  [Trail!Next]_(Trail!vars)
<1> USE DEF dbVars
<1>1. /\ \A q \in Calls : Told(q)' = Told(q)
      /\ audit' = audit /\ ran' = [ran EXCEPT ![r] = TRUE]
  BY DEF StartAsync, StartThread, TypeOK, Told, Requests
<1>2. CASE r \in Calls
  <2>1. audit[r] \notin {"none", "denied"} /\ Told(r) = "none"
    BY DEF StartAsync, StartThread, StartInv, Told
  <2>2. Trail!Execute(r)
    BY <1>1, <1>2, <2>1 DEF Trail!Execute, TypeOK, Requests
  <2> QED
    BY <1>2, <2>2 DEF Trail!Next
<1>3. CASE r \notin Calls
  <2>1. \A q \in Calls : Unseen(q)
    BY <1>1, <1>3 DEF Unseen, TypeOK, Requests
  <2> QED
    BY <2>1, UnseenStutters
<1> QED
  BY <1>2, <1>3

LEMMA JobRefines ==
  ASSUME TypeOK, StartInv, TrailInv, NEW j \in jobs, RunJob(j)
  PROVE  [Trail!Next]_(Trail!vars)
<1> DEFINE r == j.req
<1>1. r \in Requests
  BY DEF TypeOK, Job
<1>2. /\ UNCHANGED <<pc, reply, ran>>
      /\ \A q \in Calls : Told(q)' = Told(q)
  BY DEF RunJob, RunInsert, RunUpdate, JobFails, Answer, Told
<1>3. CASE r \notin Calls \/ audit' = audit
  <2>1. \A q \in Calls : audit'[q] = audit[q]
    BY <1>1, <1>3 DEF RunJob, RunInsert, RunUpdate, JobFails, TypeOK, Requests
  <2> QED
    BY <1>2, <2>1, UnseenStutters DEF Unseen
<1>4. CASE r \in Calls /\ audit' # audit
  <2>1. audit' = [audit EXCEPT ![r] = j.status]
    BY <1>4 DEF RunJob, RunInsert, RunUpdate, JobFails
  <2>2. ([q \in Calls |-> audit[q]])' = [[q \in Calls |-> audit[q]] EXCEPT ![r] = j.status]
    BY <1>1, <1>4, <2>1 DEF TypeOK, Requests
  <2>3. Trail!Write(r, j.status)
    BY <1>2, <2>2 DEF Trail!Write
  <2>4. CASE RunInsert(j)
    <3>1. audit[r] = "none" /\ j.status \in {"started", "denied"}
      BY <1>4, <2>4 DEF RunInsert, Inserts, StartInv
    <3>2. Trail!Start(r) \/ Trail!Deny(r)
      BY <1>4, <2>3, <3>1 DEF Trail!Start, Trail!Deny
    <3> QED
      BY <1>4, <3>2 DEF Trail!Next
  <2>5. CASE RunUpdate(j)
    <3>1. CallInv(r) /\ begun[r] /\ j.status = out[r] /\ out[r] \in Outcomes
      BY <1>1, <1>4, <2>5 DEF RunUpdate, TrailInv, CallInv, QueuedEnding, TypeOK
    <3>2. audit[r] \in {"started", "interrupted"}
      <4>1. audit[r] \notin {"none", "denied"}
        BY <1>1, <3>1 DEF StartInv
      <4>2. audit[r] \notin Outcomes
        BY <1>1, <1>4, <2>1, <3>1 DEF CallInv, RowEnd, TypeOK
      <4> QED
        BY <1>1, <4>1, <4>2 DEF TypeOK, Rows, Closed
    <3>3. j.status = "ok" => ran[r]
      BY <3>1 DEF CallInv, SuccessRan
    <3>4. Trail!End(r)
      BY <1>4, <2>3, <3>1, <3>2, <3>3 DEF Trail!End, Trail!Ended, Outcomes
    <3> QED
      BY <1>4, <3>4 DEF Trail!Next
  <2>6. ~JobFails(j)
    BY <1>4 DEF JobFails
  <2> QED
    BY <2>4, <2>5, <2>6 DEF RunJob
<1> QED
  BY <1>3, <1>4

LEMMA RecoveryRefines ==
  ASSUME TypeOK, MaintenanceRuns
  PROVE  [Trail!Next]_(Trail!vars)
<1>1. UNCHANGED ran /\ \A q \in Calls : Told(q)' = Told(q)
  BY DEF MaintenanceRuns, Told
<1>2. CASE audit' = audit
  BY <1>1, <1>2, UnseenStutters DEF Unseen
<1>3. CASE audit' # audit
  <2> DEFINE R == Orphans \cap Calls
  <2>1. \A q \in Calls : audit'[q] = IF q \in R THEN "interrupted" ELSE audit[q]
    BY <1>3 DEF MaintenanceRuns, Requests
  <2>2. R \in SUBSET Trail!Open
    BY DEF Orphans, Trail!Open
  <2>3. ([q \in Calls |-> audit[q]])' = Trail!Interrupted(R)
    BY <2>1 DEF Trail!Interrupted
  <2>4. Trail!Recover
    BY <1>1, <2>2, <2>3 DEF Trail!Recover
  <2> QED
    BY <2>4 DEF Trail!Next
<1> QED
  BY <1>2, <1>3

LEMMA CrashRefines ==
  ASSUME TypeOK, Restart
  PROVE  Trail!Crash
<1> DEFINE R == {q \in Calls : pc[q] \notin {"idle", "done"}}
<1>1. \A q \in Calls : audit'[q] = IF q \in Trail!Open THEN "interrupted" ELSE audit[q]
  BY DEF Restart, Trail!Open, Requests
<1>2. R \in SUBSET {q \in Calls : ([p \in Calls |-> Told(p)])[q] = "none"}
  BY DEF Told
<1>3. \A q \in Calls : Told(q)' = IF q \in R THEN "lost" ELSE Told(q)
  BY DEF Restart, Told, Requests
<1>4. ([q \in Calls |-> Told(q)])' =
        [q \in Calls |-> IF q \in R THEN "lost" ELSE ([p \in Calls |-> Told(p)])[q]]
  BY <1>3
<1>5. ([q \in Calls |-> audit[q]])' = Trail!Interrupted(Trail!Open)
  BY <1>1 DEF Trail!Interrupted
<1>6. UNCHANGED [q \in Calls |-> ran[q]]
  BY DEF Restart
<1> QED
  BY <1>2, <1>4, <1>5, <1>6 DEF Trail!Crash

LEMMA StepRefines ==
  ASSUME TypeOK, StartInv, TrailInv, NEW r \in Requests, Step(r)
  PROVE  [Trail!Next]_(Trail!vars)
<1> USE DEF permitVars, maintVars, dbVars
<1>1. CASE \/ AdmissionFails(r) \/ AcquireTimeout(r) \/ NotPrepared(r) \/ ContextFails(r)
           \/ Executed(r) \/ Deadline(r)
  <2>1. \E s \in Outcomes, a \in Replies : Conclude(r, s, a)
    BY <1>1 DEF AdmissionFails, AcquireTimeout, NotPrepared, ContextFails, Executed, Deadline,
                Ending, Outcomes, Replies
  <2>2. pc[r] # "done" /\ UNCHANGED <<audit, ran>>
    BY <1>1 DEF AdmissionFails, AcquireTimeout, NotPrepared, ContextFails, Executed, Deadline,
                Expired
  <2> QED
    BY <2>1, <2>2, ConcludeStutters
<1>2. CASE AcquireLocal(r) \/ AcquireGlobal(r) \/ Submit(r) \/ Prepared(r)
  <2>1. \A q \in Calls : Unseen(q)
    BY <1>2 DEF AcquireLocal, AcquireGlobal, Submit, Prepared, TypeOK, Unseen, Told, Requests
  <2> QED
    BY <2>1, UnseenStutters
<1>3. CASE StartAsync(r) \/ StartThread(r)
  BY <1>3, StartRefines
<1>4. CASE Recorded(r)
  <2>1. Return(r, reply[r]) /\ reply[r] \in Replies /\ UNCHANGED <<audit, ran>>
    BY <1>4 DEF Recorded, TypeOK
  <2>2. ASSUME r \in Calls
        PROVE  /\ pc[r] # "done" /\ reply[r] \in Answers \cup {"unconfirmed"}
               /\ reply[r] = "value" => audit[r] = "ok"
               /\ reply[r] = "failed" => audit[r] \in {"error", "timeout"}
               /\ reply[r] \in {"busy", "denied"} => audit[r] = "denied"
               /\ reply[r] \in NothingDone => ~begun[r]
    <3>1. pc[r] = "record" /\ db[r] = "ok"
      BY <1>4 DEF Recorded
    <3>2. /\ reply[r] \in Answers /\ (reply[r] = "value" <=> out[r] = "ok")
          /\ reply[r] \in {"value", "failed"} => begun[r]
          /\ audit[r] = IF begun[r] THEN out[r] ELSE "denied"
      BY <2>2, <3>1 DEF TrailInv, CallInv, AnswerFits, RecordedEnd
    <3>3. out[r] \in {"ok", "error", "timeout"}
      BY DEF TypeOK, Outcomes
    <3>4. reply[r] \in NothingDone => ~begun[r]
      BY DEF StartInv
    <3> QED
      BY <3>1, <3>2, <3>3, <3>4 DEF NothingDone
  <2> QED
    BY <2>1, <2>2, ReturnTells
<1>5. CASE NotRecorded(r)
  <2>1. Return(r, Unrecorded(r)) /\ UNCHANGED <<audit, ran>> /\ pc[r] = "record"
    BY <1>5 DEF NotRecorded
  <2>2. Unrecorded(r) \in Replies
    BY DEF Unrecorded, Replies, TypeOK
  <2>3. r \in Calls =>
          \/ Unrecorded(r) \in {"cancelled", "unconfirmed"}
          \/ Unrecorded(r) = "unavailable" /\ ~begun[r]
    BY DEF Unrecorded
  <2> QED
    BY <2>1, <2>2, <2>3, ReturnTells DEF Answers, NothingDone
<1> QED
  BY <1>1, <1>2, <1>3, <1>4, <1>5 DEF Step

LEMMA CancelRefines ==
  ASSUME TypeOK, StartInv, NEW r \in Requests, Cancel(r)
  PROVE  [Trail!Next]_(Trail!vars)
<1>1. pc[r] # "done" /\ UNCHANGED <<audit, ran>>
  BY DEF Cancel, CanBeCancelled, dbVars
<1>2. CASE Return(r, "cancelled")
  BY <1>1, <1>2, ReturnTells DEF Answers, NothingDone, Replies
<1>3. CASE Conclude(r, Ending(r, "timeout"), "cancelled")
  BY <1>1, <1>3, ConcludeStutters DEF Ending, Outcomes, Replies
<1> QED
  BY <1>2, <1>3 DEF Cancel

LEMMA NextRefines ==
  ASSUME TypeOK, StartInv, TrailInv, [Next]_vars
  PROVE  [Trail!Next]_(Trail!vars)
<1>1. ASSUME NEW r \in Requests, ThreadEnds(r) PROVE UNCHANGED Trail!vars
  BY <1>1, UnseenStutters DEF ThreadEnds, dbVars, Unseen, Told
<1>2. CASE MaintenanceTick \/ LatchCleared \/ StorageError \/ UNCHANGED vars
  BY <1>2, UnseenStutters DEF MaintenanceTick, LatchCleared, StorageError, vars, Unseen, Told
<1>3. CASE Restart
  BY <1>3, CrashRefines DEF Trail!Next
<1> QED
  BY <1>1, <1>2, <1>3, EnterRefines, StepRefines, CancelRefines, JobRefines, RecoveryRefines
  DEF Next

\* Seen from outside, the execution core is the audit trail: whatever is cancelled, times
\* out, fails to be recorded, commits late or dies, a row is opened before the execution and
\* closed once, and every answer agrees with it, for any number of calls and operations.
THEOREM TrailImplemented == Spec => ImplementsTrail
<1>1. Init => Trail!Init
  BY DEF Init, Trail!Init, Told, Requests
<1>2. TypeOK /\ StartInv /\ TrailInv /\ [Next]_vars => [Trail!Next]_(Trail!vars)
  BY NextRefines
<1> QED
  BY <1>1, <1>2, TypeCorrect, StartInvariant, TrailInvariant, PTL
  DEF Spec, ImplementsTrail, Trail!Spec

-----------------------------------------------------------------------------
(* What the answer of a call says of its audit row *)

\* A call that was given a value or a failure had its end recorded, and nothing that is still
\* queued or recovered later changes the row.
Truthful(r) ==
  pc[r] = "done" /\ reply[r] \in {"value", "failed"} =>
    /\ begun[r] /\ audit[r] = out[r]
    /\ reply[r] = "value" <=> out[r] = "ok"

AnswerInv == \A r \in Calls : Truthful(r)

LEMMA TruthKept ==
  ASSUME NEW q, Truthful(q), pc'[q] = pc[q] \/ pc'[q] # "done", reply'[q] = reply[q],
         begun'[q] = begun[q], out'[q] = out[q], audit'[q] = audit[q]
  PROVE  Truthful(q)'
BY DEF Truthful

\* The coroutine of one call moves, what is in the database stays.
LEMMA MoveAnswerInv ==
  ASSUME AnswerInv, NEW r \in Requests, UNCHANGED audit,
         \A q \in Calls : q # r => /\ pc'[q] = pc[q] /\ reply'[q] = reply[q]
                                   /\ begun'[q] = begun[q] /\ out'[q] = out[q],
         r \in Calls => Truthful(r)'
  PROVE  AnswerInv'
BY TruthKept DEF AnswerInv

LEMMA ConcludeAnswerInv ==
  ASSUME TypeOK, AnswerInv, NEW r \in Requests, NEW s \in Outcomes, NEW a \in Replies,
         Conclude(r, s, a), UNCHANGED <<audit, begun>>
  PROVE  AnswerInv'
<1>1. \A q \in Calls : q # r => /\ pc'[q] = pc[q] /\ reply'[q] = reply[q]
                                /\ begun'[q] = begun[q] /\ out'[q] = out[q]
  BY DEF Conclude, TypeOK, Requests
<1>2. r \in Calls => pc'[r] = "record"
  BY RequestsAssumption DEF Conclude, TypeOK
<1> QED
  BY <1>1, <1>2, MoveAnswerInv DEF Truthful

LEMMA ReturnAnswerInv ==
  ASSUME TypeOK, AnswerInv, NEW r \in Requests, NEW a \in Replies, Return(r, a),
         UNCHANGED <<audit, begun, out>>,
         r \in Calls /\ a \in {"value", "failed"} =>
           begun[r] /\ audit[r] = out[r] /\ (a = "value" <=> out[r] = "ok")
  PROVE  AnswerInv'
<1>1. \A q \in Calls : q # r => /\ pc'[q] = pc[q] /\ reply'[q] = reply[q]
                                /\ begun'[q] = begun[q] /\ out'[q] = out[q]
  BY DEF Return, TypeOK, Requests
<1>2. reply'[r] = a
  BY DEF Return, TypeOK
<1> QED
  BY <1>1, <1>2, MoveAnswerInv DEF Truthful

LEMMA StepAnswerInv ==
  ASSUME TypeOK, TrailInv, AnswerInv, NEW r \in Requests, Step(r)
  PROVE  AnswerInv'
<1> USE DEF permitVars, maintVars, dbVars
<1>1. CASE \/ AdmissionFails(r) \/ AcquireTimeout(r) \/ NotPrepared(r) \/ ContextFails(r)
           \/ Executed(r) \/ Deadline(r)
  <2>1. \E s \in Outcomes, a \in Replies : Conclude(r, s, a)
    BY <1>1 DEF AdmissionFails, AcquireTimeout, NotPrepared, ContextFails, Executed, Deadline,
                Ending, Outcomes, Replies
  <2>2. UNCHANGED <<audit, begun>>
    BY <1>1 DEF AdmissionFails, AcquireTimeout, NotPrepared, ContextFails, Executed, Deadline
  <2> QED
    BY <2>1, <2>2, ConcludeAnswerInv
<1>2. CASE AcquireLocal(r) \/ AcquireGlobal(r) \/ Prepared(r) \/ StartAsync(r) \/ StartThread(r)
  <2>1. \A q \in Calls : q # r => /\ pc'[q] = pc[q] /\ reply'[q] = reply[q]
                                  /\ begun'[q] = begun[q] /\ out'[q] = out[q]
    BY <1>2 DEF AcquireLocal, AcquireGlobal, Prepared, StartAsync, StartThread, TypeOK, Requests
  <2>2. UNCHANGED audit /\ pc'[r] # "done"
    BY <1>2 DEF AcquireLocal, AcquireGlobal, Prepared, StartAsync, StartThread, TypeOK
  <2> QED
    BY <2>1, <2>2, MoveAnswerInv DEF Truthful
<1>5. CASE Submit(r)
  BY <1>5, TruthKept DEF Submit, AnswerInv
<1>3. CASE Recorded(r)
  <2>1. /\ Return(r, reply[r]) /\ reply[r] \in Replies
        /\ pc[r] = "record" /\ db[r] = "ok" /\ UNCHANGED <<audit, begun, out>>
    BY <1>3 DEF Recorded, TypeOK
  <2>2. ASSUME r \in Calls, reply[r] \in {"value", "failed"}
        PROVE  begun[r] /\ audit[r] = out[r] /\ (reply[r] = "value" <=> out[r] = "ok")
    BY <2>1, <2>2 DEF TrailInv, CallInv, AnswerFits, RecordedEnd
  <2> QED
    BY <2>1, <2>2, ReturnAnswerInv
<1>4. CASE NotRecorded(r)
  <2>1. Return(r, Unrecorded(r)) /\ UNCHANGED <<audit, begun, out>>
    BY <1>4 DEF NotRecorded
  <2>2. /\ Unrecorded(r) \in Replies
        /\ r \in Calls => Unrecorded(r) \notin {"value", "failed"}
    BY DEF Unrecorded, Replies, TypeOK
  <2> QED
    BY <2>1, <2>2, ReturnAnswerInv
<1> QED
  BY <1>1, <1>2, <1>3, <1>4, <1>5 DEF Step

\* A job writes to the row of a call that was answered only what the row already says.
LEMMA JobAnswerInv ==
  ASSUME TypeOK, TrailInv, AnswerInv, NEW j \in jobs, RunJob(j)
  PROVE  AnswerInv'
<1> SUFFICES ASSUME NEW q \in Calls PROVE Truthful(q)'
  BY DEF AnswerInv
<1>1. UNCHANGED <<pc, begun, out, reply>> /\ q \in Requests
  BY DEF RunJob, RunInsert, RunUpdate, JobFails, Answer, Requests
<1>2. Truthful(q) /\ CallInv(q) /\ out[q] \in Outcomes
  BY <1>1 DEF AnswerInv, TrailInv, TypeOK
<1>3. \/ audit'[q] = audit[q]
      \/ audit[q] = "none"
      \/ j.req = q /\ j.kind = "update" /\ audit'[q] = j.status
  BY <1>1 DEF RunJob, RunInsert, RunUpdate, JobFails, Inserts, TypeOK
<1>4. j.req = q /\ j.kind = "update" => j.status = out[q]
  BY <1>2 DEF CallInv, QueuedEnding
<1> QED
  BY <1>1, <1>2, <1>3, <1>4 DEF Truthful, Outcomes

LEMMA AnswerInvariant == Spec => []AnswerInv
<1>1. Init => AnswerInv
  BY DEF Init, AnswerInv, Truthful, Requests
<1>2. TypeOK /\ TrailInv /\ AnswerInv /\ [Next]_vars => AnswerInv'
  <2> SUFFICES ASSUME TypeOK, TrailInv, AnswerInv, [Next]_vars PROVE AnswerInv'
    OBVIOUS
  <2> USE DEF permitVars, maintVars, dbVars
  <2>1. ASSUME NEW r \in Requests, Enter(r) PROVE AnswerInv'
    <3>1. \A q \in Calls : q # r => /\ pc'[q] = pc[q] /\ reply'[q] = reply[q]
                                    /\ begun'[q] = begun[q] /\ out'[q] = out[q]
      BY <2>1 DEF Enter, TypeOK, Requests
    <3>2. UNCHANGED audit /\ (pc'[r] = "admit" \/ reply'[r] = "unavailable")
      BY <2>1 DEF Enter, TypeOK
    <3> QED
      BY <3>1, <3>2, MoveAnswerInv DEF Truthful
  <2>2. ASSUME NEW r \in Requests, Cancel(r) PROVE AnswerInv'
    <3>1. Ending(r, "timeout") \in Outcomes /\ UNCHANGED <<audit, begun>>
      BY <2>2 DEF Ending, Outcomes, Cancel
    <3> QED
      BY <2>2, <3>1, ConcludeAnswerInv, ReturnAnswerInv DEF Cancel, Replies
  <2>3. CASE MaintenanceRuns
    <3>1. UNCHANGED <<pc, reply, begun, out>>
      BY <2>3 DEF MaintenanceRuns
    <3>2. \A q \in Calls : audit[q] = "started" \/ audit'[q] = audit[q]
      BY <2>3 DEF MaintenanceRuns, Orphans, Requests
    <3>3. \A q \in Calls : Truthful(q) /\ out[q] # "started"
      BY DEF AnswerInv, TypeOK, Outcomes, Requests
    <3> QED
      BY <3>1, <3>2, <3>3 DEF AnswerInv, Truthful
  <2>4. CASE Restart
    <3>1. ASSUME NEW q \in Calls PROVE Truthful(q)'
      <4>1. Truthful(q) /\ out[q] # "started" /\ q \in Requests
        BY DEF AnswerInv, TypeOK, Outcomes, Requests
      <4>2. reply'[q] \in {"value", "failed"} /\ pc'[q] = "done" =>
              pc[q] = "done" /\ reply'[q] = reply[q]
        BY <2>4, <4>1 DEF Restart
      <4>3. UNCHANGED <<begun, out>> /\ (audit[q] = "started" \/ audit'[q] = audit[q])
        BY <2>4, <4>1 DEF Restart
      <4> QED
        BY <4>1, <4>2, <4>3 DEF Truthful
    <3> QED
      BY <3>1 DEF AnswerInv
  <2>5. CASE \/ MaintenanceTick \/ LatchCleared \/ StorageError \/ UNCHANGED vars
             \/ \E r \in Requests : ThreadEnds(r)
    <3>1. UNCHANGED <<audit, pc, reply, begun, out>>
      BY <2>5 DEF MaintenanceTick, LatchCleared, StorageError, vars, ThreadEnds
    <3> QED
      BY <3>1, TruthKept DEF AnswerInv
  <2> QED
    BY <2>1, <2>2, <2>3, <2>4, <2>5, StepAnswerInv, JobAnswerInv DEF Next
<1> QED
  BY <1>1, <1>2, TypeCorrect, TrailInvariant, PTL DEF Spec

\* A caller that was given a value or a failure finds exactly that end in the audit log, for
\* any number of calls: no job left in the queue, no recovery and no restart rewrites it.
THEOREM AnswersAudited == Spec => []AnswerIsAudited
<1>1. AnswerInv => AnswerIsAudited
  BY DEF AnswerInv, Truthful, AnswerIsAudited
<1> QED
  BY <1>1, AnswerInvariant, PTL

-----------------------------------------------------------------------------
(* How a call may end *)

\* A call that records its end and has submitted the job still has it in the queue, and the
\* job never refuses.
Submitted(r) ==
  pc[r] = "record" =>
    /\ db[r] \in {"slot", "job", "ok", "error"}
    /\ db[r] = "job" => JobOf(r) \in jobs

EndInv == \A r \in Calls : Submitted(r)

LEMMA SubmittedKept ==
  ASSUME NEW q, Submitted(q), pc'[q] = pc[q], db'[q] = db[q], begun'[q] = begun[q],
         out'[q] = out[q], \A j \in jobs : j.req = q => j \in jobs'
  PROVE  Submitted(q)'
BY DEF Submitted, JobOf

\* What one request does leaves the others where they are.
LEMMA MoveEndInv ==
  ASSUME EndInv, NEW r, jobs \subseteq jobs',
         \A q \in Calls : q # r => /\ pc'[q] = pc[q] /\ db'[q] = db[q]
                                   /\ begun'[q] = begun[q] /\ out'[q] = out[q],
         r \in Calls => Submitted(r)'
  PROVE  EndInv'
BY SubmittedKept DEF EndInv

LEMMA ConcludeEndInv ==
  ASSUME TypeOK, EndInv, NEW r \in Requests, NEW s \in Outcomes, NEW a \in Replies,
         Conclude(r, s, a), UNCHANGED <<jobs, begun>>
  PROVE  EndInv'
<1>1. \A q \in Calls : q # r => /\ pc'[q] = pc[q] /\ db'[q] = db[q]
                                /\ begun'[q] = begun[q] /\ out'[q] = out[q]
  BY DEF Conclude, TypeOK, Requests
<1>2. r \in Calls => pc'[r] = "record" /\ db'[r] = "slot"
  BY RequestsAssumption DEF Conclude, TypeOK
<1> QED
  BY <1>1, <1>2, MoveEndInv DEF Submitted

LEMMA ReturnEndInv ==
  ASSUME TypeOK, EndInv, NEW r \in Requests, NEW a \in Replies, Return(r, a),
         UNCHANGED <<jobs, begun, out>>
  PROVE  EndInv'
<1>1. \A q \in Calls : q # r => /\ pc'[q] = pc[q] /\ db'[q] = db[q]
                                /\ begun'[q] = begun[q] /\ out'[q] = out[q]
  BY DEF Return, TypeOK, Requests
<1>2. pc'[r] = "done"
  BY DEF Return, TypeOK
<1> QED
  BY <1>1, <1>2, MoveEndInv DEF Submitted

LEMMA StepEndInv ==
  ASSUME TypeOK, EndInv, NEW r \in Requests, Step(r)
  PROVE  EndInv'
<1> USE DEF permitVars, maintVars, dbVars
<1>1. CASE \/ AdmissionFails(r) \/ AcquireTimeout(r) \/ NotPrepared(r) \/ ContextFails(r)
           \/ Executed(r) \/ Deadline(r)
  <2>1. \E s \in Outcomes, a \in Replies : Conclude(r, s, a)
    BY <1>1 DEF AdmissionFails, AcquireTimeout, NotPrepared, ContextFails, Executed, Deadline,
                Ending, Outcomes, Replies
  <2>2. UNCHANGED <<jobs, begun>>
    BY <1>1 DEF AdmissionFails, AcquireTimeout, NotPrepared, ContextFails, Executed, Deadline
  <2> QED
    BY <2>1, <2>2, ConcludeEndInv
<1>2. CASE \/ AcquireLocal(r) \/ AcquireGlobal(r) \/ Prepared(r) \/ StartAsync(r)
           \/ StartThread(r)
  <2>1. \A q \in Calls : q # r => /\ pc'[q] = pc[q] /\ db'[q] = db[q]
                                  /\ begun'[q] = begun[q] /\ out'[q] = out[q]
    BY <1>2 DEF AcquireLocal, AcquireGlobal, Prepared, StartAsync, StartThread, TypeOK, Requests
  <2>2. UNCHANGED jobs /\ pc'[r] # "record"
    BY <1>2 DEF AcquireLocal, AcquireGlobal, Prepared, StartAsync, StartThread, TypeOK
  <2> QED
    BY <2>1, <2>2, MoveEndInv DEF Submitted
<1>3. CASE Submit(r)
  <2>1. \A q \in Calls : q # r => /\ pc'[q] = pc[q] /\ db'[q] = db[q]
                                  /\ begun'[q] = begun[q] /\ out'[q] = out[q]
    BY <1>3 DEF Submit, TypeOK, Requests
  <2>2. /\ UNCHANGED <<pc, begun, out>> /\ db'[r] = "job"
        /\ jobs' = jobs \cup {JobOf(r)} /\ JobOf(r)' = JobOf(r)
    BY <1>3 DEF Submit, TypeOK, JobOf
  <2> QED
    BY <2>1, <2>2, MoveEndInv DEF Submitted
<1>4. CASE Recorded(r)
  <2>1. reply[r] \in Replies
    BY DEF TypeOK
  <2> QED
    BY <1>4, <2>1, ReturnEndInv DEF Recorded
<1>5. CASE NotRecorded(r)
  <2>1. Unrecorded(r) \in Replies
    BY DEF Unrecorded, Replies, TypeOK
  <2> QED
    BY <1>5, <2>1, ReturnEndInv DEF NotRecorded
<1> QED
  BY <1>1, <1>2, <1>3, <1>4, <1>5 DEF Step

LEMMA JobEndInv ==
  ASSUME TypeOK, EndInv, NEW j \in jobs, RunJob(j)
  PROVE  EndInv'
<1> SUFFICES ASSUME NEW q \in Calls PROVE Submitted(q)'
  BY DEF EndInv
<1>1. /\ UNCHANGED <<pc, begun, out>> /\ jobs' = jobs \ {j} /\ JobOf(q)' = JobOf(q)
      /\ Submitted(q) /\ q \in Requests /\ out[q] \in Outcomes
  BY DEF RunJob, RunInsert, RunUpdate, JobFails, Answer, Requests, JobOf, EndInv, TypeOK
<1>2. CASE ~(Awaited(j) /\ j.req = q)
  <2>1. db' = db \/ (j.req # q /\ \E w : db' = [db EXCEPT ![j.req] = w])
    BY <1>2 DEF RunJob, RunInsert, RunUpdate, JobFails, Answer
  <2>2. db[q] = "job" => j # JobOf(q)
    BY <1>2 DEF Awaited, JobOf
  <2> QED
    BY <1>1, <2>1, <2>2 DEF Submitted, TypeOK
<1>3. CASE Awaited(j) /\ j.req = q
  <2>1. pc[q] = "record" => j.status # "started"
    BY <1>1, <1>3 DEF Awaited, JobOf, Outcomes
  <2>2. db'[q] \in {"ok", "error"} \/ (db'[q] = "refused" /\ j.status = "started")
    BY <1>1, <1>3 DEF RunJob, RunInsert, RunUpdate, JobFails, Answer, Refuses, TypeOK
  <2> QED
    BY <1>1, <2>1, <2>2 DEF Submitted
<1> QED
  BY <1>2, <1>3

LEMMA EndInvariant == Spec => []EndInv
<1>1. Init => EndInv
  BY DEF Init, EndInv, Submitted, Requests
<1>2. TypeOK /\ EndInv /\ [Next]_vars => EndInv'
  <2> SUFFICES ASSUME TypeOK, EndInv, [Next]_vars PROVE EndInv'
    OBVIOUS
  <2> USE DEF permitVars, maintVars, dbVars
  <2>1. ASSUME NEW r \in Requests, Enter(r) PROVE EndInv'
    <3>1. \A q \in Calls : q # r => /\ pc'[q] = pc[q] /\ db'[q] = db[q]
                                    /\ begun'[q] = begun[q] /\ out'[q] = out[q]
      BY <2>1 DEF Enter, TypeOK, Requests
    <3>2. UNCHANGED jobs /\ pc'[r] # "record"
      BY <2>1 DEF Enter, TypeOK
    <3> QED
      BY <3>1, <3>2, MoveEndInv DEF Submitted
  <2>2. ASSUME NEW r \in Requests, Cancel(r) PROVE EndInv'
    <3>1. Ending(r, "timeout") \in Outcomes /\ UNCHANGED <<jobs, begun>>
      BY <2>2 DEF Ending, Outcomes, Cancel
    <3> QED
      BY <2>2, <3>1, ConcludeEndInv, ReturnEndInv DEF Cancel, Replies
  <2>3. CASE Restart
    BY <2>3 DEF Restart, EndInv, Submitted, Requests
  <2>4. CASE \/ MaintenanceTick \/ MaintenanceRuns \/ LatchCleared \/ StorageError
             \/ UNCHANGED vars \/ \E r \in Requests : ThreadEnds(r)
    <3>1. UNCHANGED <<pc, db, begun, out, jobs>>
      BY <2>4 DEF MaintenanceTick, MaintenanceRuns, LatchCleared, StorageError, vars, ThreadEnds
    <3> QED
      BY <3>1, SubmittedKept DEF EndInv
  <2> QED
    BY <2>1, <2>2, <2>3, <2>4, StepEndInv, JobEndInv DEF Next
<1> QED
  BY <1>1, <1>2, TypeCorrect, PTL DEF Spec

\* What EndedCallAccounted says of one call.
Accounted(r) ==
  \/ audit'[r] \in Closed
  \/ \E j \in jobs' : j.req = r /\ j.status # "started"
  \/ auditFailed'
  \/ restarts' # restarts
  \/ db[r] \in {"slot", "error"} /\ reply'[r] = "cancelled"

\* A cancelled call leaves its job in the queue or its row closed, but for the hole that the
\* property names.
LEMMA CancelAccounted ==
  ASSUME TypeOK, TrailInv, EndInv, NEW r \in Calls, Cancel(r), pc'[r] = "done"
  PROVE  Accounted(r)
<1>1. /\ pc[r] = "record" /\ reply'[r] = "cancelled" /\ UNCHANGED <<audit, jobs>>
      /\ r \in Requests /\ out[r] \in Outcomes
  BY RequestsAssumption DEF Cancel, Conclude, Return, dbVars, TypeOK, Requests
<1>2. RecordedEnd(r) /\ Submitted(r)
  BY DEF TrailInv, CallInv, EndInv
<1>3. CASE db[r] = "job"
  <2>1. JobOf(r) \in jobs' /\ JobOf(r).req = r /\ JobOf(r).status # "started"
    BY <1>1, <1>2, <1>3 DEF Submitted, JobOf, Outcomes
  <2> QED
    BY <2>1 DEF Accounted
<1>4. CASE db[r] = "ok"
  BY <1>1, <1>2, <1>4 DEF Accounted, RecordedEnd, Closed
<1>5. CASE db[r] \in {"slot", "error"}
  BY <1>1, <1>5 DEF Accounted
<1> QED
  BY <1>1, <1>2, <1>3, <1>4, <1>5 DEF Submitted

LEMMA EndAccounted ==
  ASSUME TypeOK, TrailInv, EndInv, Next, NEW r \in Calls, pc[r] # "done", pc'[r] = "done"
  PROVE  Accounted(r)
<1>1. r \in Requests /\ out[r] \in Outcomes
  BY DEF Requests, TypeOK
<1>2. ASSUME NEW q \in Requests, Enter(q) PROVE Accounted(r)
  BY <1>1, <1>2 DEF Enter, TypeOK, Accounted
<1>3. ASSUME NEW q \in Requests, Cancel(q) PROVE Accounted(r)
  <2>1. q = r
    BY <1>1, <1>3 DEF Cancel, Conclude, Return, TypeOK
  <2> QED
    BY <1>3, <2>1, CancelAccounted
<1>4. ASSUME NEW q \in Requests, Step(q) PROVE Accounted(r)
  <2>1. CASE NotRecorded(q)
    BY <2>1 DEF NotRecorded, LatchOnLoss, Accounted
  <2>2. CASE Recorded(q)
    <3>1. q = r /\ pc[r] = "record" /\ db[r] = "ok" /\ audit' = audit
      BY <1>1, <2>2 DEF Recorded, Return, TypeOK, dbVars
    <3> QED
      BY <1>1, <3>1 DEF TrailInv, CallInv, RecordedEnd, Accounted, Closed
  <2>3. CASE ~NotRecorded(q) /\ ~Recorded(q)
    <3>1. \/ \E s \in Outcomes, a \in Replies : Conclude(q, s, a)
          \/ AcquireLocal(q) \/ AcquireGlobal(q) \/ Submit(q) \/ Prepared(q)
          \/ StartAsync(q) \/ StartThread(q)
      BY <1>4, <2>3
      DEF Step, AdmissionFails, AcquireTimeout, NotPrepared, ContextFails, Executed, Deadline,
          Ending, Outcomes, Replies
    <3>2. ASSUME NEW s, NEW a, Conclude(q, s, a) PROVE FALSE
      BY <1>1, <3>2, RequestsAssumption DEF Conclude, TypeOK
    <3> QED
      BY <1>1, <3>1, <3>2
      DEF AcquireLocal, AcquireGlobal, Submit, Prepared, StartAsync, StartThread, TypeOK
  <2> QED
    BY <2>1, <2>2, <2>3
<1>5. CASE Restart
  BY <1>5 DEF Restart, Accounted, TypeOK
<1>6. ~(MaintenanceTick \/ MaintenanceRuns \/ LatchCleared \/ StorageError)
  BY DEF MaintenanceTick, MaintenanceRuns, LatchCleared, StorageError
<1>7. ASSUME NEW q \in Requests, ThreadEnds(q) PROVE FALSE
  BY <1>7 DEF ThreadEnds
<1>8. ASSUME NEW j \in jobs, RunJob(j) PROVE FALSE
  BY <1>8 DEF RunJob, RunInsert, RunUpdate, JobFails, Answer
<1> QED
  BY <1>2, <1>3, <1>4, <1>5, <1>6, <1>7, <1>8 DEF Next

\* However a call ends, its row is closed, or a queued job is about to close it, or the latch
\* stops the gateway; the only hole is the cancellation in the moment before the job exists.
THEOREM EndsAccounted == Spec => EndedCallAccounted
<1>1. TypeOK /\ TrailInv /\ EndInv /\ [Next]_vars =>
        [\A r \in Calls : pc[r] # "done" /\ pc'[r] = "done" => Accounted(r)]_vars
  BY EndAccounted
<1> QED
  BY <1>1, TypeCorrect, TrailInvariant, EndInvariant, PTL DEF Spec, EndedCallAccounted, Accounted
=============================================================================
