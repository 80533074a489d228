------------------------------ MODULE Manifest ------------------------------
(***************************************************************************)
(* One k8s_apply call (KubernetesAssetType.apply_manifest): the documents  *)
(* of a manifest are checked and sent one after the other, each in a PATCH *)
(* of its own; an error at one of them leaves what came before in effect,  *)
(* and the message of most errors says how many that were.                 *)
(***************************************************************************)
EXTENDS Integers

CONSTANTS
  None,
  MaxDocs \* bound on the documents of a manifest

VARIABLES
  call,   \* the manifest and how far it got
  patch,  \* the PATCH under way: where it is, and what the API server answered
  applied \* the documents in effect in the cluster

vars == <<call, patch, applied>>

TypeOK ==
  /\ call \in [docs : 1..MaxDocs, dry_run : BOOLEAN, index : 1..(MaxDocs + 1),
               step : {"check", "send", "wait", "error", "done"}, named : 0..MaxDocs \cup {None}]
  /\ patch \in {"none", "sent", "taken", "ok", "ok_no_json", "refused", "lost"}
  /\ applied \subseteq 1..MaxDocs

-----------------------------------------------------------------------------
(* apply_manifest *)

\* len(applied), when the document "index" is in turn.
Before(index) == index - 1

Fail(named) == call' = [call EXCEPT !.step = "error", !.named = named]

\* What the handler of GatewayError makes of an error: with nothing applied, as it is.
Counted == IF Before(call.index) = 0 THEN None ELSE Before(call.index)

\* apply_target: kind, apiVersion, name and namespace are checked one document at a time, so
\* that a later one may be refused when earlier ones are in effect; that error has no count.
Check ==
  /\ call.step = "check"
  /\ \/ call.index > call.docs /\ call' = [call EXCEPT !.step = "done", !.named = call.docs]
     \/ call.index <= call.docs /\ (call' = [call EXCEPT !.step = "send"] \/ Fail(None))
  /\ UNCHANGED <<patch, applied>>

\* request: TLS material, address and deadline are checked again for every document.
Send ==
  /\ call.step = "send"
  /\ \/ call' = [call EXCEPT !.step = "wait"] /\ patch' = "sent"
     \/ Fail(Counted) /\ UNCHANGED patch
  /\ UNCHANGED applied

\* 2xx, 4xx or 5xx; a redirect, too large a body or a deadline seen by the gateway itself is
\* a GatewayError, too, whatever the answer was.
Receive ==
  /\ call.step = "wait" /\ patch \in {"ok", "ok_no_json", "refused"}
  /\ \/ patch = "ok" /\ call' = [call EXCEPT !.step = "check", !.index = @ + 1]
     \/ patch = "ok_no_json" /\ Fail(None)
     \/ Fail(Counted)
  /\ patch' = "none" /\ UNCHANGED applied

\* The connection breaks, or the timeout of the call strikes: errors of another class.
Breaks ==
  /\ call.step = "wait" /\ Fail(None)
  /\ UNCHANGED <<patch, applied>>

-----------------------------------------------------------------------------
(* The API server: external *)

Apply ==
  /\ patch = "sent" /\ patch' = "taken"
  /\ applied' = IF call.dry_run THEN applied ELSE applied \cup {call.index}
  /\ UNCHANGED call

Respond ==
  /\ \/ patch = "taken" /\ patch' \in {"ok", "ok_no_json", "lost"}
     \/ patch = "sent" /\ patch' \in {"refused", "lost"}
  /\ UNCHANGED <<call, applied>>

-----------------------------------------------------------------------------
Init ==
  /\ \E docs \in 1..MaxDocs, dry_run \in BOOLEAN :
       call = [docs |-> docs, dry_run |-> dry_run, index |-> 1, step |-> "check", named |-> None]
  /\ patch = "none" /\ applied = {}

Next == Check \/ Send \/ Receive \/ Breaks \/ Apply \/ Respond

Spec == Init /\ [][Next]_vars

-----------------------------------------------------------------------------
(* Properties *)

\* The documents that an answer counts are in effect, and at most one more is: the one
\* that failed, whose PATCH may have been taken all the same. (Of a dry run, whose message
\* counts too, nothing is ever in effect.)
CountIsTrue ==
  call.named # None =>
    IF call.dry_run THEN applied = {}
    ELSE 1..call.named \subseteq applied /\ applied \subseteq 1..(call.named + 1)

-----------------------------------------------------------------------------
(* What makes CountIsTrue inductive *)

\* What was sent before the document in turn is in effect, and nothing after it.
AppliedSoFar ==
  IF call.dry_run THEN applied = {}
  ELSE 1..(call.index - 1) \subseteq applied /\ applied \subseteq 1..call.index

\* The answer of the API server tells whether the document in turn is in effect; no PATCH
\* is under way before a document was checked, or after the last one.
PatchTells ==
  /\ call.index <= call.docs + 1
  /\ call.step \in {"send", "wait"} => call.index <= call.docs
  /\ call.step \in {"check", "send"} => patch = "none"
  /\ patch # "none" => call.index <= call.docs
  /\ patch \in {"taken", "ok", "ok_no_json"} /\ ~call.dry_run => call.index \in applied

CountTells ==
  /\ call.step \notin {"error", "done"} => call.named = None
  /\ call.named # None => call.named = call.index - 1

Inv == TypeOK /\ AppliedSoFar /\ PatchTells /\ CountTells

=============================================================================
