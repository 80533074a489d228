------------------------------ MODULE AuditTrail ------------------------------
(***************************************************************************)
(* What the audit trail promises of a tool call, without coroutines,       *)
(* permits, threads or database jobs: its row is opened before anything is *)
(* executed and closed once; what the caller is told agrees with the row   *)
(* and with what was executed; after the answer nothing is executed.       *)
(***************************************************************************)
EXTENDS FiniteSets

CONSTANT Calls

VARIABLES
  row,  \* of each call: its status in the audit log
  ran,  \* the call reached its asset
  told  \* what its caller was told

vars == <<row, ran, told>>

Ended == {"ok", "error", "timeout"}

\* These answers say that nothing was executed and invite the client to try again.
NotExecuted == {"busy", "unavailable", "denied"}

Init ==
  /\ row = [r \in Calls |-> "none"]
  /\ ran = [r \in Calls |-> FALSE]
  /\ told = [r \in Calls |-> "none"]

Write(r, status) ==
  /\ row' = [row EXCEPT ![r] = status]
  /\ UNCHANGED <<ran, told>>

\* A cancelled caller may have gone before its call is admitted: the row then waits for
\* the recovery.
Start(r) == row[r] = "none" /\ Write(r, "started")

Deny(r) == row[r] = "none" /\ Write(r, "denied")

Execute(r) ==
  /\ row[r] \notin {"none", "denied"} /\ told[r] = "none"
  /\ ran' = [ran EXCEPT ![r] = TRUE]
  /\ UNCHANGED <<row, told>>

\* A call that was taken for an orphan may still record how it ended.
End(r) ==
  /\ row[r] \in {"started", "interrupted"}
  /\ \E status \in Ended : (status = "ok" => ran[r]) /\ Write(r, status)

Interrupted(R) == [r \in Calls |-> IF r \in R THEN "interrupted" ELSE row[r]]

Open == {r \in Calls : row[r] = "started"}

\* Some of the open rows are orphans.
Recover ==
  /\ \E R \in SUBSET Open : row' = Interrupted(R)
  /\ UNCHANGED <<ran, told>>

Agrees(r, answer) ==
  /\ answer = "value" => row[r] = "ok"
  /\ answer = "failed" => row[r] \in {"error", "timeout"}
  /\ answer \in {"busy", "denied"} => row[r] = "denied"
  /\ answer \in NotExecuted => ~ran[r]

Tell(r) ==
  /\ told[r] = "none"
  /\ \E answer \in {"value", "failed", "cancelled", "unconfirmed"} \cup NotExecuted :
       Agrees(r, answer) /\ told' = [told EXCEPT ![r] = answer]
  /\ UNCHANGED <<row, ran>>

\* The process ends: the callers that wait learn nothing, every open row is an orphan.
Crash ==
  /\ row' = Interrupted(Open)
  /\ \E R \in SUBSET {r \in Calls : told[r] = "none"} :
       told' = [r \in Calls |-> IF r \in R THEN "lost" ELSE told[r]]
  /\ UNCHANGED ran

Next ==
  \/ \E r \in Calls : Start(r) \/ Deny(r) \/ Execute(r) \/ End(r) \/ Tell(r)
  \/ Recover \/ Crash

Spec == Init /\ [][Next]_vars

=============================================================================
