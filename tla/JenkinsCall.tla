---------------------------- MODULE JenkinsCall ----------------------------
(***************************************************************************)
(* One call of a Jenkins tool that writes (app/asset_types/jenkins.py,     *)
(* jenkins_http.py, pinned.py): what it reads, the crumb, the one POST,    *)
(* and what the client is told of it, whatever Jenkins, a proxy before it  *)
(* or the network do with the request and its answer.                      *)
(***************************************************************************)
EXTENDS Integers

CONSTANTS
  None,
  MaxPerformed \* bound on how often Jenkins performs what one call asks

VARIABLES
  call,      \* the call: its tool, what it has read, whether the crumb is ready, its answer
  post,      \* the POST and its response, between the gateway and Jenkins
  performed  \* how often Jenkins has done what the call asks

vars == <<call, post, performed>>

Tools == {"trigger", "update", "replay", "rebuild", "rebuild_pipeline"}

\* The documents that a tool needs before it submits.
Reads == [trigger |-> 1, update |-> 1, replay |-> 3, rebuild |-> 2, rebuild_pipeline |-> 1]

\* Answers that say that nothing was done.
Definite ==
  {"JENKINS_AUTH", "JENKINS_CSRF", "JENKINS_FORBIDDEN", "JENKINS_NOT_FOUND", "JENKINS_CONFLICT",
   "JENKINS_NETWORK", "JENKINS_TLS", "JENKINS_RESPONSE", "JENKINS_PARAMETER",
   "JENKINS_REPLAY_UNSUPPORTED", "JENKINS_REBUILD_UNSUPPORTED", "NETWORK_DENIED"}

\* Answers after which the client has to look.
Unclear ==
  {"JENKINS_WRITE_UNKNOWN", "JENKINS_UPSTREAM", "JENKINS_RESPONSE_LIMIT", "UPSTREAM_REDIRECT",
   "UPSTREAM_ENCODING", "UPSTREAM_SIZE", "OUTPUT_LIMIT", "TIMEOUT"}

\* Statuses by what check makes of them; "other": none of the others.
Statuses  == {200, 201, 302, 307, 401, 403, 404, 409, 500}
Rejecting == {401, 403, 404, 409}
Redirects == {302, 307}

TypeOK ==
  /\ call \in [tool : Tools, step : {"reading", "crumb", "ready", "waiting", "answered"},
               reads : 0..3, answer : {None, "submitted"} \cup Definite \cup Unclear]
  /\ post \in [at : {"none", "sent", "taken", "answer", "lost"},
               status : Statuses \cup {None}, trusted : BOOLEAN]
  /\ performed \in 0..MaxPerformed

-----------------------------------------------------------------------------
(* Faulty forms of definitions below: the mistakes the properties exclude. *)

AsRead(reading) == "JENKINS_NETWORK" \* a broken POST is reported as a broken GET is

-----------------------------------------------------------------------------
Answer(code) == call' = [call EXCEPT !.step = "answered", !.answer = code]

Local == UNCHANGED <<post, performed>>

\* GET: what check, json and the transport make of a response that is no use; nothing
\* is written yet.
ReadErrors ==
  {"JENKINS_AUTH", "JENKINS_FORBIDDEN", "JENKINS_NOT_FOUND", "JENKINS_CONFLICT",
   "JENKINS_RESPONSE", "JENKINS_TLS", "NETWORK_DENIED"}
  \cup (Unclear \ {"JENKINS_WRITE_UNKNOWN"})

\* What the tool finds in the documents: not buildable, hidden parameters, no script.
Unfit ==
  [trigger |-> {"JENKINS_CONFLICT", "JENKINS_PARAMETER"}, update |-> {"JENKINS_PARAMETER"},
   replay |-> {"JENKINS_REPLAY_UNSUPPORTED"}, rebuild_pipeline |-> {},
   rebuild |-> {"JENKINS_REBUILD_UNSUPPORTED", "JENKINS_CONFLICT", "JENKINS_PARAMETER"}]

Broken(reading) == IF reading THEN "JENKINS_NETWORK" ELSE "JENKINS_WRITE_UNKNOWN"

Read ==
  /\ call.step = "reading"
  /\ \/ call' = [call EXCEPT !.reads = @ + 1,
                             !.step = IF call.reads + 1 = Reads[call.tool] THEN "crumb" ELSE @]
     \/ \E code \in ReadErrors \cup Unfit[call.tool] \cup {Broken(TRUE)} : Answer(code)
  /\ Local

\* A Jenkins without crumbs answers 404.
Crumb ==
  /\ call.step = "crumb"
  /\ \/ call' = [call EXCEPT !.step = "ready"]
     \/ \E code \in (ReadErrors \ {"JENKINS_NOT_FOUND"}) \cup {"JENKINS_CSRF", Broken(TRUE)} :
          Answer(code)
  /\ Local

\* handle_async_request: the address is resolved and checked again for every request.
Denied == call.step = "ready" /\ Answer("NETWORK_DENIED") /\ Local

Send ==
  /\ call.step = "ready"
  /\ call' = [call EXCEPT !.step = "waiting"] /\ post' = [post EXCEPT !.at = "sent"]
  /\ UNCHANGED performed

\* No connection, or broken before the response is here.
Breaks ==
  /\ call.step \in {"ready", "waiting"} /\ Answer(Broken(FALSE))
  /\ Local

-----------------------------------------------------------------------------
(* Jenkins and what lies before it: external *)

Perform ==
  /\ post.at = "sent" /\ performed < MaxPerformed
  /\ performed' = performed + 1 /\ post' = [post EXCEPT !.at = "taken"]
  /\ UNCHANGED call

Respond(at, status, trusted) ==
  /\ post.at = at /\ post' = [at |-> "answer", status |-> status, trusted |-> trusted]
  /\ UNCHANGED <<call, performed>>

\* Done: the page or the queue item to look at, or something else on the way back.
RespondDone ==
  \E status \in Statuses \ Rejecting, trusted \in BOOLEAN : Respond("taken", status, trusted)

\* Not done: refused, failed, or sent elsewhere to log in.
RespondNot == \E status \in Rejecting \cup {302, 307, 500} : Respond("sent", status, FALSE)

Lost == post.at \in {"sent", "taken"} /\ post' = [post EXCEPT !.at = "lost"]
        /\ UNCHANGED <<call, performed>>

-----------------------------------------------------------------------------
(* The response: handle_async_request, request, check, submit, rebuild *)

Refusal(status) ==
  CASE status = 401 -> {"JENKINS_AUTH"}
    [] status = 403 -> {"JENKINS_CSRF", "JENKINS_FORBIDDEN"}
    [] status = 404 -> IF call.tool = "rebuild_pipeline" THEN {"JENKINS_REBUILD_UNSUPPORTED"}
                                                          ELSE {"JENKINS_NOT_FOUND"}
    [] status = 409 -> {"JENKINS_CONFLICT"}
    [] status = 500 -> {"JENKINS_UPSTREAM"}

\* accepted_location: of the same origin, and the page or queue item this POST leads to.
Accepted == post.trusted

Receive ==
  /\ call.step = "waiting" /\ post.at = "answer"
  /\ \/ post.status \in Redirects /\ ~(post.status = 302 /\ Accepted) /\ Answer("UPSTREAM_REDIRECT")
     \/ \E code \in {"UPSTREAM_ENCODING", "UPSTREAM_SIZE", "JENKINS_RESPONSE_LIMIT", "TIMEOUT"} :
          Answer(code)
     \/ post.status \in Rejecting \cup {500} /\ \E code \in Refusal(post.status) : Answer(code)
     \/ post.status = 200 /\ Answer("JENKINS_WRITE_UNKNOWN")
     \/ post.status = 201 /\ ~Accepted /\ Answer("JENKINS_WRITE_UNKNOWN")
     \/ post.status \in {201, 302} /\ Accepted /\ \E code \in {"submitted", "OUTPUT_LIMIT"} : Answer(code)
  /\ Local

\* execute: the deadline of the call passes anywhere; write_started is set with the POST.
Deadline ==
  /\ call.step # "answered"
  /\ Answer(IF call.step \in {"ready", "waiting"} THEN "JENKINS_WRITE_UNKNOWN" ELSE "TIMEOUT")
  /\ Local

-----------------------------------------------------------------------------
Init ==
  /\ \E tool \in Tools : call = [tool |-> tool, step |-> "reading", reads |-> 0, answer |-> None]
  /\ post = [at |-> "none", status |-> None, trusted |-> FALSE]
  /\ performed = 0

Next ==
  \/ Read \/ Crumb \/ Denied \/ Send \/ Breaks \/ Receive \/ Deadline
  \/ Perform \/ RespondDone \/ RespondNot \/ Lost

Spec == Init /\ [][Next]_vars

-----------------------------------------------------------------------------
(* Properties *)

\* What the answer says is so, now and later: "submitted" only if Jenkins has done it, an
\* error that names a refusal only if Jenkins has not and no request of this call is left
\* that it could still act on, and in no case more than once.
DefiniteAnswer ==
  /\ performed <= 1
  /\ call.answer = "submitted" => performed = 1
  /\ call.answer \in Definite => performed = 0 /\ post.at # "sent"

-----------------------------------------------------------------------------
(* What makes DefiniteAnswer inductive *)

\* A POST that is not sent, or not taken, has had no effect; one that was taken had one; a
\* response that refuses, or leads to a page of its own, tells which.
PostTells ==
  /\ post.at \in {"none", "sent"} => performed = 0
  /\ post.at = "taken" => performed = 1
  /\ post.at = "answer" /\ post.status \in Rejecting => performed = 0
  /\ post.at = "answer" /\ post.trusted => performed = 1

\* Nothing is sent before the crumb is ready, and nothing is told before the call ends.
CallTells ==
  /\ call.step \in {"reading", "crumb", "ready"} => post.at = "none"
  /\ call.step = "reading" => call.reads < Reads[call.tool]
  /\ call.step # "answered" => call.answer = None
  /\ call.answer = "submitted" => performed = 1 /\ post.at = "answer"
  /\ call.answer \in Definite => performed = 0 /\ post.at # "sent"

Inv == TypeOK /\ performed <= 1 /\ PostTells /\ CallTells

=============================================================================
