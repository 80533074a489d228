--------------------------- MODULE MCParts_proofs ---------------------------
(***************************************************************************)
(* Theorems about the parts that share no state with each other: of each,  *)
(* an inductive invariant (Inv of its module), and for the state space of  *)
(* all of them the properties that MCParts states, for every value of the  *)
(* constants. For each part X, XMoves gives the steps of it in PartsNext,  *)
(* XBegins and XKept its invariant.                                        *)
(***************************************************************************)
EXTENDS MCParts, Installer_proofs, FiniteSetTheorems, NaturalsInduction, WellFoundedInduction, TLAPS

-----------------------------------------------------------------------------
(* Numbers *)

\* Every set of natural numbers that is not empty has a least element; what follows by
\* induction in this module follows from it.
LEMMA LeastNatural ==
  ASSUME NEW T \in SUBSET Nat, T # {}
  PROVE  \E k \in T : \A j \in T : k =< j
<1>1. PICK k \in T : \A j \in T : ~(<<j, k>> \in OpToRel(<, Nat))
  BY NatLessThanWellFounded, WFMin
<1>2. ASSUME NEW j \in T PROVE ~(j < k)
  BY <1>1 DEF OpToRel
<1>3. \A j \in T : k =< j
  BY <1>2
<1> QED
  BY <1>3

\* A set of numbers that holds with each of them those before it is an interval.
LEMMA PrefixIsInterval ==
  ASSUME NEW m \in Nat, NEW S \in SUBSET (1..m), \A n \in S : \A k \in 1..n : k \in S
  PROVE  Cardinality(S) \in 0..m /\ S = 1..Cardinality(S)
<1> DEFINE T == {k \in Nat : k + 1 \notin S}
<1>1. m \in T /\ T \in SUBSET Nat
  OBVIOUS
<1>2. PICK n \in T : \A j \in T : n =< j
  BY <1>1, LeastNatural
<1>3. S = 1..n
  <2>1. ASSUME NEW k \in 1..n PROVE k \in S
    <3>1. k - 1 \in Nat /\ ~(n =< k - 1)
      BY <1>2
    <3> QED
      BY <1>2, <3>1
  <2>2. ASSUME NEW k \in S, k > n PROVE FALSE
    BY <1>2, <2>2
  <2>3. \A k \in S : k \in 1..n
    <3>1. n \in Nat /\ \A k \in S : k \in 1..m
      BY <1>2
    <3> QED
      BY <2>2, <3>1
  <2> QED
    BY <2>1, <2>3
<1>4. Cardinality(1..n) = n
  BY <1>2, FS_Interval
<1> QED
  BY <1>1, <1>2, <1>3, <1>4

\* A set of numbers with a bound has a greatest one.
LEMMA GreatestNatural ==
  ASSUME NEW m \in Nat, NEW S \in SUBSET (0..m), S # {}
  PROVE  \E k \in S : \A j \in S : k >= j
<1> DEFINE T == {b \in Nat : \A j \in S : j <= b}
<1>1. m \in T /\ T \in SUBSET Nat
  OBVIOUS
<1>2. PICK b \in T : \A c \in T : b <= c
  BY <1>1, LeastNatural
<1>3. b \in Nat /\ \A j \in S : j \in Nat /\ j <= b
  BY <1>2
<1>4. ASSUME b \notin S PROVE FALSE
  <2>1. \A j \in S : j <= b - 1
    BY <1>3, <1>4
  <2>2. PICK s \in S : s \in Nat
    BY <1>3
  <2>3. b - 1 \in Nat
    BY <1>3, <2>1, <2>2
  <2>4. b - 1 \in T
    BY <2>1, <2>3
  <2> QED
    BY <1>2, <1>3, <2>4
<1> QED
  BY <1>3, <1>4

-----------------------------------------------------------------------------
(* JenkinsCall *)

JenCalls == [tool : Jen!Tools, step : {"reading", "crumb", "ready", "waiting", "answered"},
             reads : 0..3, answer : {None, "submitted"} \cup Jen!Definite \cup Jen!Unclear]
JenPosts == [at : {"none", "sent", "taken", "answer", "lost"},
             status : Jen!Statuses \cup {None}, trusted : BOOLEAN]

JenInv == part = "jenkins" => Jen!Inv

LEMMA JenMoves ==
  ASSUME [PartsNext]_all, part' = "jenkins"
  PROVE  part = "jenkins" /\ [Jen!Next]_(Jen!vars)
BY DEF PartsNext, Chosen, all, others, Jen!vars

\* A step that leaves what is told untold.
LEMMA JenGoes ==
  ASSUME Jen!Inv, x1' \in JenCalls, x2' \in JenPosts, x3' \in 0..MaxPerformed,
         x3' <= 1, Jen!PostTells', x1'.step # "answered", x1'.answer = x1.answer,
         x1.step # "answered", x1'.step \in {"reading", "crumb", "ready"} => x2'.at = "none",
         x1'.step = "reading" => x1'.reads < Jen!Reads[x1'.tool]
  PROVE  Jen!Inv'
<1>1. x1'.answer = None
  BY DEF Jen!Inv, Jen!CallTells
<1>2. Jen!CallTells'
  BY <1>1, PartsAssumption DEF Jen!CallTells
<1> QED
  BY <1>2 DEF Jen!Inv, Jen!TypeOK, JenCalls, JenPosts

\* An answer is final, and true.
LEMMA JenAnswers ==
  ASSUME Jen!Inv, NEW code \in {"submitted"} \cup Jen!Definite \cup Jen!Unclear, Jen!Answer(code),
         Jen!Local, code = "submitted" => x3 = 1 /\ x2.at = "answer",
         code \in Jen!Definite => x3 = 0 /\ x2.at # "sent"
  PROVE  Jen!Inv'
<1>1. x1 \in JenCalls
  BY DEF Jen!Inv, Jen!TypeOK, JenCalls
<1>2. x1' \in JenCalls /\ x1'.step = "answered" /\ x1'.answer = code
  BY <1>1 DEF Jen!Answer, JenCalls
<1>3. UNCHANGED <<x2, x3>>
  BY DEF Jen!Local
<1>4. Jen!PostTells'
  BY <1>3 DEF Jen!Inv, Jen!PostTells
<1>5. Jen!CallTells'
  BY <1>2, <1>3 DEF Jen!CallTells
<1> QED
  BY <1>2, <1>3, <1>4, <1>5 DEF Jen!Inv, Jen!TypeOK, JenCalls

\* Where nothing was sent, a refusal is so.
LEMMA JenUnsent ==
  ASSUME Jen!Inv, NEW code \in Jen!Definite \cup Jen!Unclear, Jen!Answer(code), Jen!Local,
         x1.step \in {"reading", "crumb", "ready"}
  PROVE  Jen!Inv'
<1>1. x3 = 0 /\ x2.at = "none"
  BY DEF Jen!Inv, Jen!CallTells, Jen!PostTells
<1>2. code # "submitted"
  BY DEF Jen!Definite, Jen!Unclear
<1> QED
  BY <1>1, <1>2, JenAnswers

LEMMA JenReads ==
  ASSUME Jen!Inv, Jen!Read \/ Jen!Crumb \/ Jen!Denied
  PROVE  Jen!Inv'
<1>1. x1 \in JenCalls /\ x2 \in JenPosts /\ x3 \in 0..MaxPerformed
  BY DEF Jen!Inv, Jen!TypeOK, JenCalls, JenPosts
<1>2. /\ Jen!ReadErrors \subseteq Jen!Definite \cup Jen!Unclear
      /\ Jen!Broken(TRUE) \in Jen!Definite /\ "JENKINS_CSRF" \in Jen!Definite
      /\ "NETWORK_DENIED" \in Jen!Definite
  BY DEF Jen!ReadErrors, Jen!Broken, Jen!Definite, Jen!Unclear
<1>3. Jen!Unfit[x1.tool] \subseteq Jen!Definite
  BY <1>1 DEF JenCalls, Jen!Tools, Jen!Unfit, Jen!Definite
<1>4. ASSUME Jen!Local, x1' \in JenCalls, x1.step \in {"reading", "crumb"},
             x1'.step \in {"reading", "crumb", "ready"}, x1'.answer = x1.answer,
             x1'.step = "reading" => x1'.reads < Jen!Reads[x1'.tool]
      PROVE  Jen!Inv'
  <2>1. UNCHANGED <<x2, x3>> /\ x2.at = "none" /\ x3 <= 1
    BY <1>4 DEF Jen!Local, Jen!Inv, Jen!CallTells
  <2>2. Jen!PostTells'
    BY <2>1 DEF Jen!Inv, Jen!PostTells
  <2> QED
    BY <1>1, <1>4, <2>1, <2>2, JenGoes
<1>5. CASE Jen!Read
  <2> DEFINE step == IF x1.reads + 1 = Jen!Reads[x1.tool] THEN "crumb" ELSE x1.step
  <2>1. CASE x1' = [x1 EXCEPT !.reads = @ + 1, !.step = step]
    <3>1. x1.step = "reading" /\ x1.reads \in 0..3 /\ x1.tool \in Jen!Tools
      BY <1>1, <1>5 DEF JenCalls, Jen!Read
    <3>2. Jen!Reads[x1.tool] \in 1..3
      BY <3>1 DEF Jen!Tools, Jen!Reads
    <3>3. x1.reads < Jen!Reads[x1.tool]
      BY <3>1 DEF Jen!Inv, Jen!CallTells
    <3>4. x1.reads + 1 \in 0..3 /\ (step = "reading" => x1.reads + 1 < Jen!Reads[x1.tool])
      BY <3>1, <3>2, <3>3
    <3>5. step \in {"reading", "crumb"}
      BY <3>1
    <3> HIDE DEF step
    <3>6. /\ x1' \in JenCalls /\ x1'.step = step /\ x1'.reads = x1.reads + 1
          /\ x1'.tool = x1.tool /\ x1'.answer = x1.answer
      BY <1>1, <2>1, <3>4, <3>5 DEF JenCalls
    <3> QED
      BY <1>4, <1>5, <3>1, <3>4, <3>5, <3>6 DEF Jen!Read
  <2>2. CASE \E code \in Jen!ReadErrors \cup Jen!Unfit[x1.tool] \cup {Jen!Broken(TRUE)} : Jen!Answer(code)
    BY <1>2, <1>3, <1>5, <2>2, JenUnsent DEF Jen!Read
  <2> QED
    BY <1>5, <2>1, <2>2 DEF Jen!Read
<1>6. CASE Jen!Crumb
  <2>1. CASE x1' = [x1 EXCEPT !.step = "ready"]
    BY <1>1, <1>4, <1>6, <2>1 DEF Jen!Crumb, JenCalls
  <2>2. CASE \E code \in (Jen!ReadErrors \ {"JENKINS_NOT_FOUND"}) \cup {"JENKINS_CSRF", Jen!Broken(TRUE)} :
               Jen!Answer(code)
    BY <1>2, <1>6, <2>2, JenUnsent DEF Jen!Crumb
  <2> QED
    BY <1>6, <2>1, <2>2 DEF Jen!Crumb
<1>7. CASE Jen!Denied
  BY <1>2, <1>7, JenUnsent DEF Jen!Denied
<1> QED
  BY <1>5, <1>6, <1>7

LEMMA JenSends ==
  ASSUME Jen!Inv, Jen!Send \/ Jen!Breaks \/ Jen!Deadline
  PROVE  Jen!Inv'
<1>1. x1 \in JenCalls /\ x2 \in JenPosts /\ x3 \in 0..MaxPerformed /\ x3 <= 1
  BY DEF Jen!Inv, Jen!TypeOK, JenCalls, JenPosts
<1>2. /\ "JENKINS_WRITE_UNKNOWN" \in Jen!Unclear \ Jen!Definite
      /\ "TIMEOUT" \in Jen!Unclear \ Jen!Definite
  BY DEF Jen!Unclear, Jen!Definite
<1>3. CASE Jen!Send
  <2>1. /\ x1' \in JenCalls /\ x1'.step = "waiting" /\ x1'.answer = x1.answer
        /\ x2' \in JenPosts /\ x2'.at = "sent" /\ x3' = x3 /\ x2.at = "none"
    BY <1>1, <1>3 DEF Jen!Send, JenCalls, JenPosts, Jen!Inv, Jen!CallTells
  <2>2. Jen!PostTells'
    BY <2>1 DEF Jen!Inv, Jen!PostTells
  <2> QED
    BY <1>1, <1>3, <2>1, <2>2, JenGoes DEF Jen!Send
<1>4. CASE Jen!Breaks
  BY <1>2, <1>4, JenAnswers DEF Jen!Breaks, Jen!Broken
<1>5. CASE Jen!Deadline
  BY <1>2, <1>5, JenAnswers DEF Jen!Deadline
<1> QED
  BY <1>3, <1>4, <1>5

\* What the client is told follows from a response that tells whether it was done.
LEMMA JenReceives ==
  ASSUME Jen!Inv, Jen!Receive
  PROVE  Jen!Inv'
<1>1. x2.at = "answer" /\ Jen!Local
  BY DEF Jen!Receive
<1>2. /\ x2.status \in Jen!Rejecting => x3 = 0
      /\ x2.trusted => x3 = 1
  BY <1>1 DEF Jen!Inv, Jen!PostTells
<1>3. {"UPSTREAM_REDIRECT", "UPSTREAM_ENCODING", "UPSTREAM_SIZE", "JENKINS_RESPONSE_LIMIT", "TIMEOUT",
       "JENKINS_WRITE_UNKNOWN", "OUTPUT_LIMIT", "JENKINS_UPSTREAM"} \subseteq Jen!Unclear \ Jen!Definite
  BY DEF Jen!Unclear, Jen!Definite
<1>4. "submitted" \notin Jen!Definite
  BY DEF Jen!Definite
<1>5. ASSUME NEW code \in Jen!Unclear \ Jen!Definite, Jen!Answer(code) PROVE Jen!Inv'
  <2>1. code # "submitted"
    BY DEF Jen!Unclear
  <2> QED
    BY <1>1, <1>5, <2>1, JenAnswers
<1>6. CASE x2.status \in Jen!Rejecting \cup {500} /\ \E code \in Jen!Refusal(x2.status) : Jen!Answer(code)
  <2>1. PICK code \in Jen!Refusal(x2.status) : Jen!Answer(code)
    BY <1>6
  <2>2. CASE x2.status = 500
    <3>1. code = "JENKINS_UPSTREAM"
      BY <2>1, <2>2 DEF Jen!Refusal
    <3> QED
      BY <1>3, <1>5, <2>1, <3>1
  <2>3. CASE x2.status \in Jen!Rejecting
    <3>1. code \in Jen!Definite /\ code # "submitted"
      BY <2>1, <2>3 DEF Jen!Refusal, Jen!Rejecting, Jen!Definite
    <3> QED
      BY <1>1, <1>2, <2>1, <2>3, <3>1, JenAnswers
  <2> QED
    BY <1>6, <2>2, <2>3
<1>7. CASE Jen!Accepted /\ Jen!Answer("submitted")
  BY <1>1, <1>2, <1>4, <1>7, JenAnswers DEF Jen!Accepted
<1>8. CASE \E code \in {"UPSTREAM_REDIRECT", "UPSTREAM_ENCODING", "UPSTREAM_SIZE",
            "JENKINS_RESPONSE_LIMIT", "TIMEOUT", "JENKINS_WRITE_UNKNOWN", "OUTPUT_LIMIT"} : Jen!Answer(code)
  BY <1>3, <1>5, <1>8
<1> QED
  BY <1>6, <1>7, <1>8 DEF Jen!Receive

\* What Jenkins, a proxy and the network do changes nothing that was told.
LEMMA JenOutside ==
  ASSUME Jen!Inv, Jen!Perform \/ Jen!RespondDone \/ Jen!RespondNot \/ Jen!Lost
  PROVE  Jen!Inv'
<1>1. x1 \in JenCalls /\ x2 \in JenPosts /\ x3 \in 0..MaxPerformed /\ x1' = x1
  BY DEF Jen!Inv, Jen!TypeOK, JenCalls, JenPosts, Jen!Perform, Jen!RespondDone, Jen!RespondNot,
         Jen!Respond, Jen!Lost
<1>2. x2.at \in {"sent", "taken"}
  BY DEF Jen!Perform, Jen!RespondDone, Jen!RespondNot, Jen!Respond, Jen!Lost
<1>3. /\ x2' \in JenPosts /\ x2'.at \in {"taken", "answer", "lost"} /\ Jen!PostTells'
      /\ x3' \in 0..MaxPerformed /\ x3' <= 1
      /\ x2.at = "taken" => x3' = x3
  <2>1. CASE Jen!Perform
    <3>1. x3 = 0 /\ x3' = 1 /\ x3' \in 0..MaxPerformed
      BY <1>1, <2>1, PartsAssumption DEF Jen!Perform, Jen!Inv, Jen!PostTells
    <3>2. x2' \in JenPosts /\ x2'.at = "taken"
      BY <1>1, <2>1 DEF Jen!Perform, JenPosts
    <3> QED
      BY <2>1, <3>1, <3>2 DEF Jen!PostTells, Jen!Perform
  <2>2. CASE Jen!RespondDone
    <3>1. PICK status \in Jen!Statuses \ Jen!Rejecting, trusted \in BOOLEAN :
            Jen!Respond("taken", status, trusted)
      BY <2>2 DEF Jen!RespondDone
    <3>2. x3' = x3 /\ x3 = 1
      BY <3>1 DEF Jen!Respond, Jen!Inv, Jen!PostTells
    <3>3. x2' \in JenPosts /\ x2'.at = "answer" /\ x2'.status \notin Jen!Rejecting
      BY <3>1 DEF Jen!Respond, JenPosts
    <3> QED
      BY <1>1, <3>2, <3>3 DEF Jen!PostTells
  <2>3. CASE Jen!RespondNot
    <3>1. PICK status \in Jen!Rejecting \cup {302, 307, 500} : Jen!Respond("sent", status, FALSE)
      BY <2>3 DEF Jen!RespondNot
    <3>2. x3' = x3 /\ x3 = 0
      BY <3>1 DEF Jen!Respond, Jen!Inv, Jen!PostTells
    <3>3. x2' \in JenPosts /\ x2'.at = "answer" /\ ~x2'.trusted
      BY <3>1 DEF Jen!Respond, JenPosts, Jen!Statuses, Jen!Rejecting
    <3> QED
      BY <1>1, <3>2, <3>3 DEF Jen!PostTells
  <2>4. CASE Jen!Lost
    <3>1. x2' \in JenPosts /\ x2'.at = "lost" /\ x3' = x3
      BY <1>1, <2>4 DEF Jen!Lost, JenPosts
    <3> QED
      BY <1>1, <3>1 DEF Jen!PostTells, Jen!Inv
  <2> QED
    BY <2>1, <2>2, <2>3, <2>4
<1>4. Jen!CallTells'
  <2>1. x1.step \notin {"reading", "crumb", "ready"} /\ x1.answer # "submitted"
    BY <1>2 DEF Jen!Inv, Jen!CallTells
  <2>2. x1.answer \in Jen!Definite => x3 = 0 /\ x2.at # "sent" /\ x2.at # "taken"
    BY DEF Jen!Inv, Jen!CallTells, Jen!PostTells
  <2> QED
    BY <1>1, <1>2, <1>3, <2>1, <2>2 DEF Jen!Inv, Jen!CallTells
<1> QED
  BY <1>1, <1>3, <1>4 DEF Jen!Inv, Jen!TypeOK, JenCalls, JenPosts

LEMMA JenKept ==
  ASSUME Jen!Inv, [Jen!Next]_(Jen!vars)
  PROVE  Jen!Inv'
<1>1. CASE UNCHANGED Jen!vars
  BY <1>1 DEF Jen!vars, Jen!Inv, Jen!TypeOK, Jen!PostTells, Jen!CallTells
<1> QED
  BY <1>1, JenReads, JenSends, JenReceives, JenOutside DEF Jen!Next

LEMMA JenBegins ==
  ASSUME Jen!Init
  PROVE  Jen!Inv
<1>1. PICK tool \in Jen!Tools : x1 = [tool |-> tool, step |-> "reading", reads |-> 0, answer |-> None]
  BY DEF Jen!Init
<1>2. 0 < Jen!Reads[tool]
  BY DEF Jen!Tools, Jen!Reads
<1>3. x1 \in JenCalls /\ x2 \in JenPosts /\ x3 \in 0..MaxPerformed /\ x3 = 0
  BY <1>1, PartsAssumption DEF JenCalls, JenPosts, Jen!Init
<1>4. Jen!PostTells /\ Jen!CallTells
  BY <1>1, <1>2, PartsAssumption DEF Jen!Init, Jen!PostTells, Jen!CallTells
<1> QED
  BY <1>3, <1>4 DEF Jen!Inv, Jen!TypeOK, JenCalls, JenPosts

-----------------------------------------------------------------------------
(* Manifest *)

ManCalls == [docs : 1..MaxDocs, dry_run : BOOLEAN, index : 1..(MaxDocs + 1),
             step : {"check", "send", "wait", "error", "done"}, named : 0..MaxDocs \cup {None}]
ManPatches == {"none", "sent", "taken", "ok", "ok_no_json", "refused", "lost"}

ManInv == part = "manifest" => Man!Inv

LEMMA ManMoves ==
  ASSUME [PartsNext]_all, part' = "manifest"
  PROVE  part = "manifest" /\ [Man!Next]_(Man!vars)
BY DEF PartsNext, Chosen, all, others, Man!vars

LEMMA ManTyped ==
  ASSUME Man!Inv
  PROVE  /\ x1 \in ManCalls /\ x2 \in ManPatches /\ x3 \subseteq 1..MaxDocs
         /\ x1.index \in 1..(MaxDocs + 1) /\ x1.docs \in 1..MaxDocs /\ MaxDocs \in Nat
BY PartsAssumption DEF Man!Inv, Man!TypeOK, ManCalls, ManPatches

LEMMA ManStep ==
  ASSUME NEW c \in ManCalls, NEW step \in {"check", "send", "wait", "error", "done"}
  PROVE  /\ [c EXCEPT !.step = step] \in ManCalls /\ [c EXCEPT !.step = step].step = step
         /\ [c EXCEPT !.step = step].docs = c.docs /\ [c EXCEPT !.step = step].index = c.index
         /\ [c EXCEPT !.step = step].dry_run = c.dry_run
BY DEF ManCalls

LEMMA ManNamed ==
  ASSUME NEW c \in ManCalls, NEW named \in 0..MaxDocs \cup {None}
  PROVE  /\ [c EXCEPT !.named = named] \in ManCalls /\ [c EXCEPT !.named = named].named = named
         /\ [c EXCEPT !.named = named].docs = c.docs /\ [c EXCEPT !.named = named].index = c.index
         /\ [c EXCEPT !.named = named].dry_run = c.dry_run /\ [c EXCEPT !.named = named].step = c.step
BY DEF ManCalls

\* An error counts the documents that are in effect, or does not count.
LEMMA ManFails ==
  ASSUME Man!Inv, NEW named \in {None, Man!Counted}, Man!Fail(named),
         x2' \in {x2, "none"}, x3' = x3
  PROVE  Man!Inv'
<1>1. \/ named = None
      \/ named = x1.index - 1 /\ named \in 0..MaxDocs
  <2>1. named = None \/ named = x1.index - 1
    BY DEF Man!Counted, Man!Before
  <2>2. x1.index - 1 \in 0..MaxDocs
    BY ManTyped
  <2> QED
    BY <2>1, <2>2
<1>2. /\ x1' \in ManCalls /\ x1'.step = "error" /\ x1'.named = named
      /\ x1'.docs = x1.docs /\ x1'.index = x1.index /\ x1'.dry_run = x1.dry_run
  <2>1. named \in 0..MaxDocs \cup {None} /\ x1 \in ManCalls
    BY <1>1, ManTyped
  <2>2. "error" \in {"check", "send", "wait", "error", "done"}
    OBVIOUS
  <2> DEFINE c1 == [x1 EXCEPT !.step = "error"]
             c2 == [c1 EXCEPT !.named = named]
  <2>3. x1' = c2
    BY DEF Man!Fail
  <2>4. /\ c1 \in ManCalls /\ c1.step = "error"
        /\ c1.docs = x1.docs /\ c1.index = x1.index /\ c1.dry_run = x1.dry_run
    BY <2>1, <2>2, ManStep
  <2> HIDE DEF c1
  <2> QED
    BY <2>1, <2>3, <2>4, ManNamed
<1>3. Man!AppliedSoFar' /\ Man!PatchTells' /\ Man!CountTells'
  BY <1>1, <1>2 DEF Man!Inv, Man!AppliedSoFar, Man!PatchTells, Man!CountTells
<1>4. x2' \in ManPatches /\ x3' \subseteq 1..MaxDocs
  BY ManTyped DEF ManPatches
<1> QED
  BY <1>2, <1>3, <1>4 DEF Man!Inv, Man!TypeOK, ManCalls, ManPatches

LEMMA ManGateway ==
  ASSUME Man!Inv, Man!Check \/ Man!Send \/ Man!Receive \/ Man!Breaks
  PROVE  Man!Inv'
<1>1. CASE Man!Check /\ x1.index > x1.docs /\ x1' = [x1 EXCEPT !.step = "done", !.named = x1.docs]
  <2>1. /\ x1' \in ManCalls /\ x1'.step = "done" /\ x1'.named = x1.docs
        /\ x1'.docs = x1.docs /\ x1'.index = x1.index /\ x1'.dry_run = x1.dry_run
    <3>1. x1.docs \in 0..MaxDocs \cup {None} /\ x1 \in ManCalls
      BY ManTyped
    <3>2. "done" \in {"check", "send", "wait", "error", "done"}
      OBVIOUS
    <3> DEFINE c1 == [x1 EXCEPT !.step = "done"]
               c2 == [c1 EXCEPT !.named = x1.docs]
    <3>3. x1' = c2
      BY <1>1
    <3>4. /\ c1 \in ManCalls /\ c1.step = "done"
          /\ c1.docs = x1.docs /\ c1.index = x1.index /\ c1.dry_run = x1.dry_run
      BY <3>1, <3>2, ManStep
    <3> HIDE DEF c1
    <3> QED
      BY <3>1, <3>3, <3>4, ManNamed
  <2>2. UNCHANGED <<x2, x3>> /\ x1.docs = x1.index - 1
    BY <1>1, ManTyped DEF Man!Check, Man!Inv, Man!PatchTells
  <2>3. Man!AppliedSoFar' /\ Man!PatchTells' /\ Man!CountTells'
    BY <1>1, <2>1, <2>2 DEF Man!Check, Man!Inv, Man!AppliedSoFar, Man!PatchTells, Man!CountTells
  <2> QED
    BY <2>1, <2>2, <2>3, ManTyped DEF Man!Inv, Man!TypeOK, ManCalls, ManPatches
<1>2. CASE Man!Check /\ x1.index <= x1.docs /\ x1' = [x1 EXCEPT !.step = "send"]
  <2>1. /\ x1' \in ManCalls /\ x1'.step = "send" /\ x1'.named = x1.named
        /\ x1'.docs = x1.docs /\ x1'.index = x1.index /\ x1'.dry_run = x1.dry_run
    BY <1>2, ManTyped DEF ManCalls
  <2>2. UNCHANGED <<x2, x3>>
    BY <1>2 DEF Man!Check
  <2>3. Man!AppliedSoFar' /\ Man!PatchTells' /\ Man!CountTells'
    BY <1>2, <2>1, <2>2 DEF Man!Check, Man!Inv, Man!AppliedSoFar, Man!PatchTells, Man!CountTells
  <2> QED
    BY <2>1, <2>2, <2>3, ManTyped DEF Man!Inv, Man!TypeOK, ManCalls, ManPatches
<1>3. CASE Man!Send /\ x1' = [x1 EXCEPT !.step = "wait"] /\ x2' = "sent"
  <2>1. /\ x1' \in ManCalls /\ x1'.step = "wait" /\ x1'.named = x1.named
        /\ x1'.docs = x1.docs /\ x1'.index = x1.index /\ x1'.dry_run = x1.dry_run
    BY <1>3, ManTyped DEF ManCalls
  <2>2. x3' = x3 /\ x2' \in ManPatches
    BY <1>3 DEF Man!Send, ManPatches
  <2>3. Man!AppliedSoFar' /\ Man!PatchTells' /\ Man!CountTells'
    BY <1>3, <2>1, <2>2 DEF Man!Send, Man!Inv, Man!AppliedSoFar, Man!PatchTells, Man!CountTells
  <2> QED
    BY <2>1, <2>2, <2>3, ManTyped DEF Man!Inv, Man!TypeOK, ManCalls, ManPatches
<1>4. CASE Man!Receive /\ x2 = "ok" /\ x1' = [x1 EXCEPT !.step = "check", !.index = @ + 1]
  <2>1. x1.index + 1 \in 1..(MaxDocs + 1) /\ x1.index <= x1.docs
    BY <1>4, ManTyped DEF Man!Receive, Man!Inv, Man!PatchTells
  <2>2. /\ x1' \in ManCalls /\ x1'.step = "check" /\ x1'.named = x1.named
        /\ x1'.docs = x1.docs /\ x1'.index = x1.index + 1 /\ x1'.dry_run = x1.dry_run
    BY <1>4, <2>1, ManTyped DEF ManCalls
  <2>3. x3' = x3 /\ x2' = "none" /\ x1.step = "wait"
    BY <1>4 DEF Man!Receive
  <2>4. Man!AppliedSoFar'
    BY <1>4, <2>1, <2>2, <2>3, ManTyped DEF Man!Inv, Man!AppliedSoFar, Man!PatchTells
  <2>5. Man!PatchTells' /\ Man!CountTells'
    BY <1>4, <2>1, <2>2, <2>3, ManTyped DEF Man!Inv, Man!PatchTells, Man!CountTells
  <2> QED
    BY <2>2, <2>3, <2>4, <2>5, ManTyped DEF Man!Inv, Man!TypeOK, ManCalls, ManPatches
<1>5. CASE /\ \E named \in {None, Man!Counted} : Man!Fail(named)
           /\ x2' \in {x2, "none"} /\ x3' = x3
  BY <1>5, ManFails
<1> QED
  BY <1>1, <1>2, <1>3, <1>4, <1>5 DEF Man!Check, Man!Send, Man!Receive, Man!Breaks

LEMMA ManOutside ==
  ASSUME Man!Inv, Man!Apply \/ Man!Respond
  PROVE  Man!Inv'
<1>1. x1' = x1 /\ x2 # "none" /\ x1.index <= x1.docs
  BY DEF Man!Apply, Man!Respond, Man!Inv, Man!PatchTells
<1>2. /\ x1.step \notin {"check", "send"} /\ x2' \in ManPatches \ {"none"}
      /\ x3' \subseteq 1..MaxDocs
      /\ x2' \in {"taken", "ok", "ok_no_json"} /\ ~x1.dry_run => x1.index \in x3'
  BY <1>1, ManTyped DEF Man!Apply, Man!Respond, ManPatches, Man!Inv, Man!PatchTells
<1>3. Man!AppliedSoFar'
  BY <1>1, ManTyped DEF Man!Apply, Man!Respond, Man!Inv, Man!AppliedSoFar
<1>4. Man!PatchTells' /\ Man!CountTells'
  BY <1>1, <1>2 DEF Man!Inv, Man!PatchTells, Man!CountTells
<1> QED
  BY <1>1, <1>2, <1>3, <1>4, ManTyped DEF Man!Inv, Man!TypeOK, ManCalls, ManPatches

LEMMA ManKept ==
  ASSUME Man!Inv, [Man!Next]_(Man!vars)
  PROVE  Man!Inv'
<1>1. CASE UNCHANGED Man!vars
  BY <1>1 DEF Man!vars, Man!Inv, Man!TypeOK, Man!AppliedSoFar, Man!PatchTells, Man!CountTells
<1> QED
  BY <1>1, ManGateway, ManOutside DEF Man!Next

LEMMA ManBegins ==
  ASSUME Man!Init
  PROVE  Man!Inv
<1>1. PICK docs \in 1..MaxDocs, dry_run \in BOOLEAN :
        x1 = [docs |-> docs, dry_run |-> dry_run, index |-> 1, step |-> "check", named |-> None]
  BY DEF Man!Init
<1>2. x1 \in ManCalls
  BY <1>1, PartsAssumption DEF ManCalls
<1>3. Man!AppliedSoFar /\ Man!PatchTells /\ Man!CountTells
  BY <1>1 DEF Man!Init, Man!AppliedSoFar, Man!PatchTells, Man!CountTells
<1> QED
  BY <1>2, <1>3 DEF Man!Inv, Man!TypeOK, ManCalls, Man!Init

-----------------------------------------------------------------------------
\* Whatever Jenkins, a proxy or the network do with a POST, an answer that says "submitted"
\* means that it was done, one that names a refusal that it was not and will not be; and the
\* documents that the answer of k8s_apply counts are in effect, at most one more is.
THEOREM AnswersTell ==
  PartsSpec => []DefiniteAnswer
<1>1. PartsInit => JenInv /\ ManInv
  BY PartsAssumption, JenBegins, ManBegins DEF PartsInit, JenInv, ManInv
<1>2. JenInv /\ [PartsNext]_all => JenInv'
  BY PartsAssumption, JenMoves, JenKept DEF JenInv
<1>3. ManInv /\ [PartsNext]_all => ManInv'
  BY PartsAssumption, ManMoves, ManKept DEF ManInv
<1>4. JenInv /\ ManInv => DefiniteAnswer
  <2>1. Jen!Inv => Jen!DefiniteAnswer
    BY DEF Jen!Inv, Jen!CallTells, Jen!DefiniteAnswer
  <2>2. Man!Inv => Man!CountIsTrue
    BY ManTyped, PartsAssumption
    DEF Man!Inv, Man!AppliedSoFar, Man!CountTells, Man!PatchTells, Man!CountIsTrue
  <2> QED
    BY <2>1, <2>2 DEF JenInv, ManInv, DefiniteAnswer
<1> QED
  BY <1>1, <1>2, <1>3, <1>4, PTL DEF PartsSpec

-----------------------------------------------------------------------------
(* Sessions: the invariant and its proof are those of Sessions_proofs *)

AdmP == INSTANCE Sessions_proofs
          WITH password_hash <- x1, sessions <- x2, requests <- x3, time <- x4

AdmInv == part = "sessions" => AdmP!Inv

LEMMA AdmMoves ==
  ASSUME [PartsNext]_all, part' = "sessions"
  PROVE  part = "sessions" /\ [Adm!Next]_<<x1, x2, x3, x4>>
BY DEF PartsNext, Chosen, all, others

LEMMA AdmSame ==
  ASSUME [Adm!Next]_<<x1, x2, x3, x4>>
  PROVE  [AdmP!Next]_(AdmP!vars)
BY DEF Adm!Next, AdmP!Next, AdmP!vars,
       Adm!Hashes, AdmP!Hashes, Adm!Rows, AdmP!Rows, Adm!NoRequest, AdmP!NoRequest, Adm!Present,
      AdmP!Present, Adm!Valid, AdmP!Valid, Adm!Begin, AdmP!Begin, Adm!Done, AdmP!Done,
      Adm!Free, AdmP!Free, Adm!Revoke, AdmP!Revoke, Adm!init_admin, AdmP!init_admin,
      Adm!LoginVerified, AdmP!LoginVerified, Adm!Unchanged, AdmP!Unchanged, Adm!LoginOpens,
      AdmP!LoginOpens, Adm!Admitted, AdmP!Admitted, Adm!logout, AdmP!logout, Adm!OldVerified,
      AdmP!OldVerified, Adm!PasswordChanged, AdmP!PasswordChanged, Adm!Cleanup, AdmP!Cleanup,
      Adm!Tick, AdmP!Tick, Adm!Restart, AdmP!Restart

LEMMA AdmAssumption == AdmP!BoundsAssumption
BY PartsAssumption DEF AdmP!BoundsAssumption, AdmP!Hashes

LEMMA AdmBegins ==
  ASSUME PartsInit
  PROVE  AdmInv
<1>1. ASSUME Adm!Init PROVE AdmP!Inv
  BY <1>1, AdmAssumption DEF Adm!Init, Adm!Rows, Adm!NoRequest, AdmP!Inv, AdmP!Shape,
     AdmP!OpenFollows, AdmP!Present, AdmP!Free, AdmP!NoRequest, AdmP!Rows, AdmP!BoundsAssumption
<1> QED
  BY <1>1 DEF PartsInit, AdmInv

LEMMA AdmStays ==
  ASSUME AdmInv, [PartsNext]_all
  PROVE  AdmInv'
<1>1. ASSUME AdmP!Inv, [Adm!Next]_<<x1, x2, x3, x4>> PROVE AdmP!Inv'
  BY <1>1, AdmAssumption, AdmSame, AdmP!InvKept
<1> QED
  BY <1>1, AdmMoves DEF AdmInv

\* However logins, changes of the password and other requests interleave, a cookie opens
\* nothing that was not opened with the password now in force.
THEOREM CookiesFollowPassword ==
  PartsSpec => []SessionsFollowPassword
<1>1. AdmInv => SessionsFollowPassword
  BY DEF AdmInv, SessionsFollowPassword, AdmP!Inv, AdmP!OpenFollows, AdmP!Present, AdmP!Rows,
     Adm!SessionsFollowPassword, Adm!Valid, Adm!Present, Adm!Rows
<1> QED
  BY <1>1, AdmBegins, AdmStays, PTL DEF PartsSpec

-----------------------------------------------------------------------------
(* SqlCall *)

SqlServers == [tls : BOOLEAN, total : 0..MaxTotal, asked : 0..MaxTotal, done : 0..2]
SqlConns   == [mode : Sql!Modes, state : {"none", "plain", "encrypted", "closed"}, tried : BOOLEAN]
SqlCalls   == [tool : Sql!Tools, own : 0..MaxTotal \cup {None}, part : 1..4, running : BOOLEAN,
               rows : 0..MaxTotal, size : 0..(RowBudget + 2), cut : BOOLEAN, missing : BOOLEAN,
               answer : {"none", "rows", "written", "refused", "unclear"}]

LEMMA SqlMoves ==
  ASSUME [PartsNext]_all, part' = "sql"
  PROVE  part = "sql" /\ [Sql!Next]_(Sql!vars)
BY DEF PartsNext, Chosen, all, others, Sql!vars

LEMMA SqlTyped ==
  Sql!TypeOK <=> x1 \in SqlServers /\ x2 \in SqlConns /\ x3 \in SqlCalls
BY DEF Sql!TypeOK, Sql!Totals, SqlServers, SqlConns, SqlCalls

LEMMA SqlBounds ==
  MaxRows \in Nat /\ MaxMeta \in Nat /\ RowBudget \in Nat /\ MaxTotal \in Nat
BY PartsAssumption

LEMMA SqlMax ==
  ASSUME x3 \in SqlCalls
  PROVE  Sql!MaxOf(x3.part) \in Nat /\ (x3.tool = "select" => Sql!MaxOf(x3.part) = MaxRows)
<1>1. x3.part \in 1..4
  BY DEF SqlCalls
<1> QED
  BY <1>1, SqlBounds DEF Sql!MaxOf

LEMMA SqlMaxSame ==
  ASSUME x3'.part = x3.part, x3'.tool = x3.tool
  PROVE  Sql!MaxOf(x3.part)' = Sql!MaxOf(x3.part)
BY DEF Sql!MaxOf

\* An answer ends the call and changes nothing that was read.
LEMMA SqlAnswers ==
  ASSUME Sql!Inv,
         NEW code \in {"rows", "written", "refused", "unclear"}, Sql!Answer(code),
         x1' \in SqlServers, x1'.total = x1.total, x1'.asked = x1.asked, x2' \in SqlConns
  PROVE  Sql!Inv'
<1>1. x3 \in SqlCalls
  BY SqlTyped DEF Sql!Inv
<1>2. /\ x3' \in SqlCalls /\ x3'.running = x3.running /\ x3'.part = x3.part /\ x3'.rows = x3.rows
      /\ x3'.tool = x3.tool /\ x3'.size = x3.size /\ x3'.cut = x3.cut /\ x3'.missing = x3.missing
  BY <1>1 DEF SqlCalls, Sql!Answer
<1>3. Sql!RowsOf'
  BY <1>2 DEF Sql!Inv, Sql!RowsOf, Sql!MaxOf
<1>4. Sql!TypeOK'
  BY <1>2, SqlTyped DEF Sql!TypeOK, Sql!Totals, SqlServers, SqlConns, SqlCalls
<1> QED
  BY <1>2, <1>3, <1>4 DEF Sql!Inv

\* The connection, where the call goes on.
LEMMA SqlConnects ==
  ASSUME Sql!Inv, UNCHANGED <<x1, x3>>, x2' \in SqlConns
  PROVE  Sql!Inv'
BY SqlTyped DEF Sql!Inv, Sql!TypeOK, Sql!Totals, SqlServers, SqlConns, SqlCalls, Sql!RowsOf, Sql!MaxOf

LEMMA SqlDials ==
  ASSUME Sql!Inv, NEW tls \in BOOLEAN, Sql!Dial(tls)
  PROVE  Sql!Inv'
<1>1. x1 \in SqlServers /\ x2 \in SqlConns
  BY SqlTyped DEF Sql!Inv
<1>2. x2' \in SqlConns
  <2> DEFINE d1 == [x2 EXCEPT !.tried = TRUE]
             now == IF ~tls THEN "plain" ELSE IF x1.tls THEN "encrypted" ELSE x2.state
             d2 == [d1 EXCEPT !.state = now]
  <2>1. d1 \in SqlConns /\ now \in {"none", "plain", "encrypted", "closed"}
    BY <1>1 DEF SqlConns
  <2>2. x2' = d2
    BY DEF Sql!Dial
  <2> HIDE DEF d1, now
  <2> QED
    BY <2>1, <2>2 DEF SqlConns
<1>3. CASE Sql!Answer("refused")
  BY <1>1, <1>2, <1>3, SqlAnswers DEF Sql!Dial
<1>4. CASE UNCHANGED x3
  BY <1>2, <1>4, SqlConnects DEF Sql!Dial
<1> QED
  BY <1>3, <1>4 DEF Sql!Dial

\* A query starts: what it asks for, and what the server will send.
LEMMA SqlExecutes ==
  ASSUME Sql!Inv, NEW total \in 0..MaxTotal, Sql!Execute(total)
  PROVE  Sql!Inv'
<1>1. x1 \in SqlServers /\ x2 \in SqlConns /\ x3 \in SqlCalls
  BY SqlTyped DEF Sql!Inv
<1> DEFINE asked == IF x3.own = None THEN total ELSE Sql!Least(total, x3.own)
<1>2. asked \in 0..MaxTotal
  BY <1>1 DEF SqlCalls, Sql!Least
<1> HIDE DEF asked
<1>3. /\ Sql!Sent(asked) \in 0..MaxTotal
      /\ \/ Sql!Sent(asked) = asked
         \/ x3.tool = "select" /\ Sql!Sent(asked) = Sql!LimitOf(MaxRows)
  <2>1. Sql!LimitOf(MaxRows) \in Nat
    BY SqlBounds DEF Sql!LimitOf
  <2>2. \/ Sql!Sent(asked) = asked
        \/ /\ x3.tool = "select" /\ Sql!Sent(asked) = Sql!LimitOf(MaxRows)
           /\ ~(asked < Sql!LimitOf(MaxRows))
    BY DEF Sql!Sent, Sql!Least
  <2>3. Sql!Sent(asked) \in 0..MaxTotal
    BY <1>2, <2>1, <2>2, SqlBounds
  <2> QED
    BY <2>2, <2>3
<1>4. x1' \in SqlServers /\ x1'.asked = asked /\ x1'.total = Sql!Sent(asked)
  <2> DEFINE d1 == [x1 EXCEPT !.asked = asked]
             d2 == [d1 EXCEPT !.total = Sql!Sent(asked)]
  <2>1. x1' = d2
    BY DEF Sql!Execute, asked
  <2>2. d1 \in SqlServers /\ d1.asked = asked
    BY <1>1, <1>2 DEF SqlServers
  <2> HIDE DEF d1
  <2> QED
    BY <1>3, <2>1, <2>2 DEF SqlServers
<1>5. /\ x3' \in SqlCalls /\ x3'.running /\ x3'.part = x3.part /\ x3'.rows = 0 /\ x3'.size = 0
      /\ x3'.tool = x3.tool /\ x3'.cut = x3.cut /\ x3'.missing = x3.missing
  <2> DEFINE d1 == [x3 EXCEPT !.running = TRUE]
             d2 == [d1 EXCEPT !.rows = 0]
             d3 == [d2 EXCEPT !.size = 0]
  <2>1. x3' = d3
    BY DEF Sql!Execute
  <2>2. /\ d1 \in SqlCalls /\ d1.running /\ d1.part = x3.part
        /\ d1.tool = x3.tool /\ d1.cut = x3.cut /\ d1.missing = x3.missing
    BY <1>1 DEF SqlCalls
  <2> HIDE DEF d1
  <2>3. /\ d2 \in SqlCalls /\ d2.running /\ d2.part = x3.part /\ d2.rows = 0
        /\ d2.tool = x3.tool /\ d2.cut = x3.cut /\ d2.missing = x3.missing
    BY <2>2, PartsAssumption DEF SqlCalls
  <2> HIDE DEF d2
  <2> QED
    BY <2>1, <2>3, PartsAssumption DEF SqlCalls
<1>6. x3.part <= Sql!Parts[x3.tool] /\ x2' = x2
  BY DEF Sql!Execute
<1>7. 0 <= Sql!MaxOf(x3.part) /\ Sql!MaxOf(x3.part)' = Sql!MaxOf(x3.part)
  BY <1>1, <1>5, SqlMax, SqlMaxSame
<1>8. Sql!RowsOf'
  BY <1>3, <1>4, <1>5, <1>6, <1>7, SqlBounds DEF Sql!RowsOf
<1>9. Sql!TypeOK'
  BY <1>1, <1>4, <1>5, <1>6 DEF Sql!TypeOK, Sql!Totals, SqlServers, SqlConns, SqlCalls
<1> QED
  BY <1>5, <1>8, <1>9 DEF Sql!Inv

\* A part ends, by a limit or with its last row: what is missing then was cut.
LEMMA SqlEndsPart ==
  ASSUME Sql!Inv, NEW cut \in BOOLEAN, x3.running, Sql!EndsPart(cut),
         x3.rows < x1.asked => cut, x1' = x1, x2' \in SqlConns
  PROVE  Sql!Inv'
<1>1. x1 \in SqlServers /\ x2 \in SqlConns /\ x3 \in SqlCalls
  BY SqlTyped DEF Sql!Inv
<1>2. x3.part + 1 \in 1..4
  <2>1. x3.tool \in Sql!Tools /\ x3.part \in 1..4 /\ x3.part <= Sql!Parts[x3.tool]
    BY <1>1 DEF SqlCalls, Sql!Inv, Sql!RowsOf
  <2>2. Sql!Parts[x3.tool] \in 0..3
    BY <2>1 DEF Sql!Tools, Sql!Parts
  <2> QED
    BY <2>1, <2>2
<1>3. /\ x3' \in SqlCalls /\ ~x3'.running /\ x3'.size = x3.size /\ x3'.tool = x3.tool
      /\ x3'.cut = (x3.cut \/ cut) /\ x3'.missing = (x3.missing \/ x3.rows < x1.asked)
  <2> DEFINE d1 == [x3 EXCEPT !.running = FALSE]
             d2 == [d1 EXCEPT !.part = x3.part + 1]
             d3 == [d2 EXCEPT !.cut = x3.cut \/ cut]
             k4 == [d3 EXCEPT !.missing = x3.missing \/ x3.rows < x1.asked]
  <2>1. x3' = k4
    BY DEF Sql!EndsPart
  <2>2. /\ d1 \in SqlCalls /\ ~d1.running /\ d1.size = x3.size /\ d1.tool = x3.tool
    BY <1>1 DEF SqlCalls
  <2> HIDE DEF d1
  <2>3. /\ d2 \in SqlCalls /\ ~d2.running /\ d2.size = x3.size /\ d2.tool = x3.tool
    BY <1>2, <2>2 DEF SqlCalls
  <2> HIDE DEF d2
  <2>4. /\ d3 \in SqlCalls /\ ~d3.running /\ d3.size = x3.size /\ d3.tool = x3.tool
        /\ d3.cut = (x3.cut \/ cut)
    BY <1>1, <2>3 DEF SqlCalls
  <2> HIDE DEF d3
  <2>5. (x3.missing \/ x3.rows < x1.asked) \in BOOLEAN
    BY <1>1 DEF SqlCalls
  <2> QED
    BY <2>1, <2>4, <2>5 DEF SqlCalls
<1>4. Sql!RowsOf'
  BY <1>3 DEF Sql!Inv, Sql!RowsOf
<1>5. Sql!TypeOK'
  BY <1>1, <1>3 DEF Sql!TypeOK, Sql!Totals, SqlServers, SqlConns, SqlCalls
<1> QED
  BY <1>3, <1>4, <1>5 DEF Sql!Inv

LEMMA SqlFetches ==
  ASSUME Sql!Inv, NEW size \in 1..2, Sql!Fetch(size)
  PROVE  Sql!Inv'
<1>1. x1 \in SqlServers /\ x2 \in SqlConns /\ x3 \in SqlCalls
  BY SqlTyped DEF Sql!Inv
<1>2. CASE Sql!EndsPart(TRUE) /\ x2' = [x2 EXCEPT !.state = "closed"]
  <2>1. x2' \in SqlConns
    BY <1>1, <1>2 DEF SqlConns
  <2> QED
    BY <1>2, <2>1, SqlEndsPart DEF Sql!Fetch
<1>3. CASE /\ ~(x3.rows >= Sql!MaxOf(x3.part) \/ x3.size + size > RowBudget)
           /\ x3' = [x3 EXCEPT !.rows = @ + 1, !.size = @ + size] /\ UNCHANGED x2
  <2>1. /\ x3.rows \in 0..MaxTotal /\ x1.total \in 0..MaxTotal /\ x3.rows < x1.total
        /\ x3.size \in 0..(RowBudget + 2) /\ RowBudget \in Nat
    BY <1>1, PartsAssumption DEF SqlCalls, SqlServers, Sql!Fetch
  <2>2. x3.rows + 1 \in 0..MaxTotal /\ x3.size + size \in 0..RowBudget
    BY <1>3, <2>1, PartsAssumption
  <2>3. Sql!MaxOf(x3.part) \in Nat
    BY <1>1, SqlMax
  <2>4. x3.rows + 1 <= Sql!MaxOf(x3.part) /\ x3.rows + 1 <= x1.total
    BY <1>3, <2>1, <2>3
  <2>5. /\ x3' \in SqlCalls /\ x3'.running = x3.running /\ x3'.part = x3.part
        /\ x3'.rows = x3.rows + 1 /\ x3'.size = x3.size + size
        /\ x3'.tool = x3.tool /\ x3'.cut = x3.cut /\ x3'.missing = x3.missing
    <3> DEFINE d1 == [x3 EXCEPT !.rows = x3.rows + 1]
               d2 == [d1 EXCEPT !.size = x3.size + size]
    <3>1. x3' = d2
      BY <1>3
    <3>2. /\ d1 \in SqlCalls /\ d1.running = x3.running /\ d1.part = x3.part
          /\ d1.rows = x3.rows + 1
          /\ d1.tool = x3.tool /\ d1.cut = x3.cut /\ d1.missing = x3.missing
      BY <1>1, <2>2 DEF SqlCalls
    <3> HIDE DEF d1
    <3>3. x3.size + size \in 0..(RowBudget + 2)
      BY <2>1, <2>2
    <3> QED
      BY <3>1, <3>2, <3>3 DEF SqlCalls
  <2>6. x1' = x1
    BY DEF Sql!Fetch
  <2>7. Sql!RowsOf'
    <3>1. Sql!MaxOf(x3.part)' = Sql!MaxOf(x3.part)
      BY <2>5, SqlMaxSame
    <3> QED
      BY <2>2, <2>4, <2>5, <2>6, <3>1 DEF Sql!Inv, Sql!RowsOf
  <2>8. Sql!TypeOK'
    BY <1>1, <1>3, <2>5, <2>6 DEF Sql!TypeOK, Sql!Totals, SqlServers, SqlConns, SqlCalls
  <2> QED
    BY <2>5, <2>7, <2>8 DEF Sql!Inv
<1> QED
  BY <1>2, <1>3 DEF Sql!Fetch

\* The last row was read: of a SELECT that was sent one row too many, that row was not.
LEMMA SqlFetchEnds ==
  ASSUME Sql!Inv, Sql!FetchEnds
  PROVE  Sql!Inv'
<1>1. x1 \in SqlServers /\ x2 \in SqlConns /\ x3 \in SqlCalls
  BY SqlTyped DEF Sql!Inv
<1>2. x3.rows = x1.total /\ x3.running /\ x3.rows <= Sql!MaxOf(x3.part)
  BY DEF Sql!FetchEnds, Sql!Inv, Sql!RowsOf
<1>3. ~(x3.tool = "select" /\ x1.total = Sql!LimitOf(MaxRows))
  BY <1>1, <1>2, SqlMax, SqlBounds DEF Sql!LimitOf
<1>4. ~(x3.rows < x1.asked)
  BY <1>1, <1>2, <1>3 DEF Sql!Inv, Sql!RowsOf, SqlServers
<1> QED
  BY <1>1, <1>2, <1>4, SqlEndsPart DEF Sql!FetchEnds

LEMMA SqlWrites ==
  ASSUME Sql!Inv, Sql!Write
  PROVE  Sql!Inv'
<1>1. x1 \in SqlServers /\ x2 \in SqlConns /\ x3 \in SqlCalls
  BY SqlTyped DEF Sql!Inv
<1>2. x1' = x1 \/ x1' = [x1 EXCEPT !.done = @ + 1]
  BY DEF Sql!Write
<1>3. x1.done + 1 \in 0..2
  BY <1>1 DEF Sql!Write, SqlServers
<1>4. x1' \in SqlServers /\ x1'.total = x1.total /\ x1'.asked = x1.asked
  BY <1>1, <1>2, <1>3 DEF SqlServers
<1>5. x2' = x2 /\ \E code \in {"written", "refused", "unclear"} : Sql!Answer(code)
  BY DEF Sql!Write
<1> QED
  BY <1>1, <1>4, <1>5, SqlAnswers

LEMMA SqlKept ==
  ASSUME Sql!Inv, [Sql!Next]_(Sql!vars)
  PROVE  Sql!Inv'
<1>1. x1 \in SqlServers /\ x2 \in SqlConns
  BY SqlTyped DEF Sql!Inv
<1>2. CASE UNCHANGED Sql!vars
  BY <1>1, <1>2, SqlConnects DEF Sql!vars
<1>3. CASE \E tls \in BOOLEAN : Sql!Dial(tls)
  BY <1>3, SqlDials
<1>4. CASE \E total \in Sql!Totals : Sql!Execute(total)
  BY <1>4, SqlExecutes DEF Sql!Totals
<1>5. CASE \E size \in 1..2 : Sql!Fetch(size)
  BY <1>5, SqlFetches
<1>6. CASE Sql!validate_sql \/ Sql!DialFails \/ Sql!Return \/ Sql!Breaks
  <2>1. \E code \in {"rows", "written", "refused", "unclear"} : Sql!Answer(code)
    BY <1>6 DEF Sql!validate_sql, Sql!DialFails, Sql!Return, Sql!Breaks
  <2>2. UNCHANGED <<x1, x2>>
    BY <1>6 DEF Sql!validate_sql, Sql!DialFails, Sql!Return, Sql!Breaks
  <2> QED
    BY <1>1, <2>1, <2>2, SqlAnswers
<1> QED
  BY <1>2, <1>3, <1>4, <1>5, <1>6, SqlFetchEnds, SqlWrites DEF Sql!Next

LEMMA SqlBegins ==
  ASSUME Sql!Init
  PROVE  Sql!Inv
<1>1. x1 \in SqlServers /\ x2 \in SqlConns /\ x1.total = x1.asked
  BY PartsAssumption DEF Sql!Init, SqlServers, SqlConns
<1>2. PICK tool \in Sql!Tools, own \in Sql!Totals \cup {None} :
        x3 = [tool |-> tool, own |-> own, part |-> 1, running |-> FALSE, rows |-> 0,
              size |-> 0, cut |-> FALSE, missing |-> FALSE, answer |-> "none"]
  BY DEF Sql!Init
<1>3. x3 \in SqlCalls /\ ~x3.running /\ x3.size = 0 /\ ~x3.missing
  BY <1>2, PartsAssumption DEF SqlCalls, Sql!Totals
<1> QED
  BY <1>1, <1>3, SqlTyped, PartsAssumption DEF Sql!Inv, Sql!RowsOf

-----------------------------------------------------------------------------
(* KeyScan *)

ScanServers == [tls : BOOLEAN, left : SUBSET Keys]
ScanConns   == [mode : Scan!Modes, state : {"none", "plain", "encrypted", "failed"}, tried : BOOLEAN]
ScanCalls   == [pattern : 1..(Len(Patterns) + 1), rounds : 0..Rounds, found : SUBSET Keys,
                scanned : 0..(KeyBudget + 1), returned : BOOLEAN, truncated : BOOLEAN]

LEMMA ScanMoves ==
  ASSUME [PartsNext]_all, part' = "scan"
  PROVE  part = "scan" /\ [Scan!Next]_(Scan!vars)
BY DEF PartsNext, Chosen, all, others, Scan!vars

LEMMA ScanTyped ==
  Scan!TypeOK <=> x1 \in ScanServers /\ x2 \in ScanConns /\ x3 \in ScanCalls /\ x4 \in BOOLEAN
BY DEF Scan!TypeOK, ScanServers, ScanConns, ScanCalls

LEMMA ScanBounds ==
  Limit \in Nat /\ KeyBudget \in Nat /\ Rounds \in Nat /\ Batch \in Nat
BY PartsAssumption

LEMMA ScanPatterns == Len(Patterns) = 2 /\ DOMAIN Patterns = 1..2
BY DEF Patterns

LEMMA ScanCardinality ==
  ASSUME NEW S
  PROVE  Scan!Cardinality(S) = Cardinality(S)
BY DEF Scan!Cardinality, Cardinality

LEMMA ScanFinite ==
  ASSUME NEW S \in SUBSET Keys
  PROVE  Scan!Cardinality(S) \in Nat
<1>1. IsFiniteSet(Keys)
  <2>1. IsFiniteSet({}) /\ IsFiniteSet({} \cup {k1})
    BY FS_EmptySet, FS_AddElement
  <2>2. IsFiniteSet(({} \cup {k1}) \cup {k2})
    BY <2>1, FS_AddElement
  <2>3. IsFiniteSet((({} \cup {k1}) \cup {k2}) \cup {k3})
    BY <2>2, FS_AddElement
  <2>4. Keys = (({} \cup {k1}) \cup {k2}) \cup {k3}
    BY DEF Keys
  <2> QED
    BY <2>3, <2>4
<1>2. IsFiniteSet(S)
  BY <1>1, FS_Subset
<1> QED
  BY <1>2, FS_CardinalityType, ScanCardinality

\* The connection comes and goes without a key being lost.
LEMMA ScanConnects ==
  ASSUME Scan!Inv, UNCHANGED <<x1, x3, x4>>, x2' \in ScanConns
  PROVE  Scan!Inv'
<1>1. Scan!TypeOK'
  BY DEF Scan!Inv, Scan!TypeOK, ScanConns
<1> QED
  BY <1>1 DEF Scan!Inv, Scan!FoundSoFar, Scan!Matched, Scan!Truncated

LEMMA ScanDials ==
  ASSUME Scan!Inv, NEW tls \in BOOLEAN, Scan!Dial(tls)
  PROVE  Scan!Inv'
<1> DEFINE now == IF tls /\ ~x1.tls THEN IF x2.mode = "PREFERRED" THEN "none" ELSE "failed"
                    ELSE IF tls THEN "encrypted" ELSE "plain"
           c1st == [x2 EXCEPT !.tried = TRUE]
           c2nd == [c1st EXCEPT !.state = now]
<1>1. x2' = c2nd
  BY DEF Scan!Dial
<1>2. c1st \in ScanConns /\ now \in {"none", "plain", "encrypted", "failed"}
  BY ScanTyped DEF Scan!Inv, ScanConns
<1> HIDE DEF c1st, now
<1>3. x2' \in ScanConns
  BY <1>1, <1>2 DEF ScanConns
<1> QED
  BY <1>3, ScanConnects DEF Scan!Dial

LEMMA OneMore ==
  ASSUME NEW a \in Nat, NEW b \in Nat, NEW c \in Nat, NEW d \in Nat, a + b <= d, c <= b + 1
  PROVE  a + c \in 0..(d + 1)
OBVIOUS

\* One SCAN: if no limit cut the loop over its batch, all of the batch was looked at.
LEMMA ScanScans ==
  ASSUME Scan!Inv, NEW m \in 0..Batch, NEW batch \in [1..m -> Keys],
         NEW over \in BOOLEAN, Scan!Scan(batch, over)
  PROVE  Scan!Inv'
<1> DEFINE seen   == {i \in DOMAIN batch : \A k \in 1..i : Scan!Goes(batch, k)}
           n      == Scan!Cardinality(seen)
           looked == IF n < Len(batch) THEN n + 1 ELSE n
           found  == Scan!FoundIn(batch, n)
           come   == {batch[i] : i \in DOMAIN batch}
<1>1. x1 \in ScanServers /\ x2 \in ScanConns /\ x3 \in ScanCalls /\ x4 \in BOOLEAN
  BY ScanTyped DEF Scan!Inv
<1>2. m \in Nat /\ Len(batch) = m /\ DOMAIN batch = 1..m
  BY ScanBounds
<1>3. n \in 0..m /\ seen = 1..n
  <2>1. seen \in SUBSET (1..m) /\ \A i \in seen : \A k \in 1..i : k \in seen
    BY <1>2
  <2> QED
    BY <1>2, <2>1, PrefixIsInterval, ScanCardinality
<1>14. \A i \in 1..m : i \in seen <=> \A k \in 1..i : Scan!Goes(batch, k)
  BY <1>2
<1>15. /\ found = Scan!FoundIn(batch, n) /\ looked = IF n < m THEN n + 1 ELSE n
  BY <1>2
<1>16. \E r1st, r2nd, r3rd :
         /\ r1st = [x3 EXCEPT !.found = found]
         /\ r2nd = [r1st EXCEPT !.scanned = x3.scanned + looked]
         /\ r3rd = [r2nd EXCEPT !.rounds = IF over THEN 0 ELSE x3.rounds + 1]
         /\ x3' = [r3rd EXCEPT !.pattern = IF over THEN x3.pattern + 1 ELSE x3.pattern]
  BY DEF Scan!Scan
<1> HIDE DEF seen, n, found, looked
<1>4. /\ \A k \in 1..n : Scan!Goes(batch, k)
      /\ n < m => ~Scan!Goes(batch, n + 1)
  <2>1. ASSUME NEW k \in 1..n PROVE Scan!Goes(batch, k)
    <3>1. k \in seen /\ k \in 1..m /\ k \in 1..k
      BY <1>2, <1>3
    <3> QED
      BY <1>14, <3>1
  <2>2. ASSUME n < m, Scan!Goes(batch, n + 1) PROVE FALSE
    <3>1. n + 1 \in 1..m /\ \A k \in 1..(n + 1) : k \in 1..n \/ k = n + 1
      BY <1>2, <1>3, <2>2
    <3>2. n + 1 \in seen
      BY <1>14, <2>1, <2>2, <3>1
    <3> QED
      BY <1>3, <3>2
  <2> QED
    BY <2>1, <2>2
<1>5. /\ x3.pattern \in 1..2 /\ x3.scanned < KeyBudget /\ x3.rounds < Rounds
      /\ Scan!Cardinality(x3.found) < Limit /\ ~x3.returned
      /\ over => x1.left \subseteq come
      /\ x1' = [x1 EXCEPT !.left = IF over THEN Keys ELSE @ \ come]
      /\ UNCHANGED <<x2, x4>>
  BY <1>1, ScanPatterns DEF Scan!Scan, Scan!Open, Scan!More, ScanCalls
<1>6. /\ found \in SUBSET Keys /\ x3.found \subseteq found
      /\ \A i \in 1..n : batch[i] \in Patterns[x3.pattern] => batch[i] \in found
      /\ \A k \in found : k \in x3.found \/ k \in Patterns[x3.pattern]
  <2>1. found = x3.found \cup {batch[i] : i \in {k \in 1..n : batch[k] \in Patterns[x3.pattern]}}
    BY <1>15 DEF Scan!FoundIn
  <2>2. \A i \in 1..n : batch[i] \in Keys
    BY <1>2, <1>3
  <2> QED
    BY <1>1, <2>1, <2>2 DEF ScanCalls
<1>7. x3.scanned + looked \in 0..(KeyBudget + 1)
  <2>1. x3.scanned \in Nat /\ n \in Nat
    BY <1>1, <1>3, ScanBounds DEF ScanCalls
  <2>2. n > 0 => n \in 1..n /\ x3.scanned + n <= KeyBudget
    BY <1>4, <2>1 DEF Scan!Goes
  <2> QED
    <3>1. looked \in {n, n + 1} /\ x3.scanned < KeyBudget
      BY <1>5, <1>15
    <3>2. x3.scanned + n <= KeyBudget
      BY <2>1, <2>2, <3>1, ScanBounds
    <3>3. KeyBudget \in Nat /\ looked \in Nat /\ looked <= n + 1
      BY <2>1, <3>1, ScanBounds
    <3> QED
      BY <2>1, <3>2, <3>3, OneMore
<1>8. Scan!Cardinality(found) < Limit /\ x3.scanned + looked < KeyBudget => n = m
  <2>1. ASSUME n < m, Scan!Cardinality(found) < Limit, x3.scanned + looked < KeyBudget PROVE FALSE
    <3>1. looked = n + 1 /\ (n + 1) - 1 = n /\ x3.scanned \in Nat /\ n \in Nat
      BY <1>1, <1>3, <1>15, <2>1, ScanBounds DEF ScanCalls
    <3>2. x3.scanned + (n + 1) <= KeyBudget
      BY <2>1, <3>1, ScanBounds
    <3>3. Scan!Goes(batch, n + 1)
      BY <1>15, <2>1, <3>1, <3>2 DEF Scan!Goes
    <3> QED
      BY <1>4, <2>1, <3>3
  <2> QED
    BY <1>2, <1>3, <2>1
<1>9. /\ x3' \in ScanCalls /\ x3'.found = found /\ x3'.scanned = x3.scanned + looked
      /\ x3'.pattern = (IF over THEN x3.pattern + 1 ELSE x3.pattern) /\ ~x3'.returned
  <2> DEFINE rounds  == IF over THEN 0 ELSE x3.rounds + 1
             pattern == IF over THEN x3.pattern + 1 ELSE x3.pattern
             scanned == x3.scanned + looked
  <2>1. PICK r1st, r2nd, r3rd :
          /\ r1st = [x3 EXCEPT !.found = found]
          /\ r2nd = [r1st EXCEPT !.scanned = scanned]
          /\ r3rd = [r2nd EXCEPT !.rounds = rounds]
          /\ x3' = [r3rd EXCEPT !.pattern = pattern]
    BY <1>16
  <2>2. /\ rounds \in 0..Rounds /\ pattern \in 1..(Len(Patterns) + 1)
        /\ scanned \in 0..(KeyBudget + 1)
    <3>1. x3.rounds \in Nat /\ x3.pattern \in 1..2
      BY <1>1, <1>5, ScanBounds DEF ScanCalls
    <3> QED
      <4>1. x3.rounds < Rounds
        BY <1>5
      <4>2. rounds \in 0..Rounds
        <5>1. x3.rounds + 1 \in 0..Rounds /\ 0 \in 0..Rounds
          BY <3>1, <4>1, ScanBounds
        <5> QED
          BY <5>1
      <4>3. pattern \in 1..(Len(Patterns) + 1)
        BY <3>1, ScanPatterns
      <4> QED
        BY <1>7, <4>2, <4>3
  <2> HIDE DEF rounds, pattern, scanned
  <2>3. /\ r1st \in ScanCalls /\ r1st.found = found /\ ~r1st.returned
    BY <1>1, <1>5, <1>6, <2>1 DEF ScanCalls
  <2>4. /\ r2nd \in ScanCalls /\ r2nd.found = found /\ r2nd.scanned = scanned /\ ~r2nd.returned
    BY <2>1, <2>2, <2>3 DEF ScanCalls
  <2>5. /\ r3rd \in ScanCalls /\ r3rd.found = found /\ r3rd.scanned = scanned /\ ~r3rd.returned
    BY <2>1, <2>2, <2>4 DEF ScanCalls
  <2>6. /\ x3' \in ScanCalls /\ x3'.found = found /\ x3'.scanned = scanned /\ ~x3'.returned
        /\ x3'.pattern = pattern
    BY <2>1, <2>2, <2>5 DEF ScanCalls
  <2> QED
    BY <2>6 DEF scanned, pattern
<1>10. x1' \in ScanServers /\ x1'.left = (IF over THEN Keys ELSE x1.left \ come)
  BY <1>1, <1>5 DEF ScanServers
<1>11. Scan!FoundSoFar'
  <2> SUFFICES ASSUME ~x4, Scan!Cardinality(found) < Limit, x3.scanned + looked < KeyBudget,
                      NEW p \in DOMAIN Patterns
               PROVE  /\ p < x3'.pattern => Keys \cap Patterns[p] \subseteq found
                      /\ p = x3'.pattern => (Keys \ x1'.left) \cap Patterns[p] \subseteq found
    BY <1>5, <1>9 DEF Scan!FoundSoFar
  <2>1. /\ p < x3.pattern => Keys \cap Patterns[p] \subseteq found
        /\ p = x3.pattern => (Keys \ x1.left) \cap Patterns[p] \subseteq found
    BY <1>5, <1>6 DEF Scan!Inv, Scan!FoundSoFar
  <2>2. \A k \in come : k \in Patterns[x3.pattern] => k \in found
    BY <1>2, <1>6, <1>8
  <2>3. p \in 1..2
    BY ScanPatterns
  <2>4. CASE over
    <3>1. p = x3.pattern => Keys \cap Patterns[p] \subseteq found
      BY <1>5, <2>1, <2>2, <2>4
    <3>2. x3'.pattern = x3.pattern + 1 /\ x1'.left = Keys
      BY <1>9, <1>10, <2>4
    <3> QED
      BY <1>5, <2>1, <2>3, <3>1, <3>2
  <2>5. CASE ~over
    <3>1. x3'.pattern = x3.pattern /\ x1'.left = x1.left \ come
      BY <1>9, <1>10, <2>5
    <3> QED
      BY <2>1, <2>2, <3>1
  <2> QED
    BY <2>4, <2>5
<1>12. x3'.found \subseteq Scan!Matched
  BY <1>5, <1>6, <1>9, ScanPatterns DEF Scan!Inv, Scan!Matched
<1>13. Scan!TypeOK'
  BY <1>1, <1>5, <1>9, <1>10 DEF Scan!TypeOK, ScanServers, ScanConns, ScanCalls
<1> QED
  BY <1>9, <1>11, <1>12, <1>13 DEF Scan!Inv, Scan!Matched

\* A pattern is given up for a limit, which marks the result, or for its rounds.
LEMMA ScanEndsPattern ==
  ASSUME Scan!Inv, Scan!EndPattern
  PROVE  Scan!Inv'
<1>1. x1 \in ScanServers /\ x2 \in ScanConns /\ x3 \in ScanCalls /\ x4 \in BOOLEAN
  BY ScanTyped DEF Scan!Inv
<1>2. x3.pattern \in 1..2 /\ ~x3.returned /\ ~Scan!More
  BY <1>1, ScanPatterns DEF Scan!EndPattern, Scan!Open, ScanCalls
<1>3. /\ x3' \in ScanCalls /\ x3'.found = x3.found /\ x3'.scanned = x3.scanned /\ ~x3'.returned
  <2> DEFINE r1st == [x3 EXCEPT !.pattern = x3.pattern + 1]
             r2nd == [r1st EXCEPT !.rounds = 0]
  <2>1. x3' = r2nd
    BY DEF Scan!EndPattern
  <2>2. x3.pattern + 1 \in 1..(Len(Patterns) + 1) /\ 0 \in 0..Rounds
    BY <1>2, ScanPatterns, ScanBounds
  <2>3. r1st \in ScanCalls /\ r1st.found = x3.found /\ r1st.scanned = x3.scanned /\ ~r1st.returned
    BY <1>1, <1>2, <2>2 DEF ScanCalls
  <2> HIDE DEF r1st
  <2> QED
    BY <2>1, <2>2, <2>3 DEF ScanCalls
<1>4. /\ x1' \in ScanServers /\ x2' = x2 /\ x4' \in BOOLEAN /\ x4' = (x4 \/ x3.rounds = Rounds)
  BY <1>1 DEF Scan!EndPattern, ScanServers
<1>5. Scan!FoundSoFar'
  <2>1. ~x4' => ~(Scan!Cardinality(x3.found) < Limit /\ x3.scanned < KeyBudget)
    <3>1. x3.rounds \in Nat /\ x3.rounds <= Rounds
      BY <1>1, ScanBounds DEF ScanCalls
    <3>2. ~x4' => x3.rounds # Rounds
      BY <1>4
    <3>3. ~x4' => x3.rounds < Rounds
      BY <3>1, <3>2, ScanBounds
    <3> QED
      BY <1>2, <3>3 DEF Scan!More
  <2> QED
    BY <1>3, <2>1 DEF Scan!FoundSoFar
<1>6. Scan!TypeOK'
  BY <1>1, <1>3, <1>4 DEF Scan!TypeOK, ScanServers, ScanConns, ScanCalls
<1> QED
  BY <1>3, <1>5, <1>6 DEF Scan!Inv, Scan!Matched

LEMMA ScanReturns ==
  ASSUME Scan!Inv, Scan!Return
  PROVE  Scan!Inv'
<1>1. x1 \in ScanServers /\ x2 \in ScanConns /\ x3 \in ScanCalls /\ x4 \in BOOLEAN
  BY ScanTyped DEF Scan!Inv
<1> DEFINE cut == Scan!Truncated(x3.found, x3.scanned)
<1>2. cut \in BOOLEAN
  BY DEF Scan!Truncated
<1> HIDE DEF cut
<1>3. /\ x3' \in ScanCalls /\ x3'.found = x3.found /\ x3'.scanned = x3.scanned
      /\ x3'.pattern = x3.pattern /\ x3'.truncated = cut
  <2> DEFINE r1st == [x3 EXCEPT !.returned = TRUE]
             r2nd == [r1st EXCEPT !.truncated = cut]
  <2>1. x3' = r2nd
    BY DEF Scan!Return, cut
  <2>2. /\ r1st \in ScanCalls /\ r1st.found = x3.found /\ r1st.scanned = x3.scanned
        /\ r1st.pattern = x3.pattern
    BY <1>1 DEF ScanCalls
  <2> HIDE DEF r1st
  <2> QED
    BY <1>2, <2>1, <2>2 DEF ScanCalls
<1>4. UNCHANGED <<x1, x2, x4>> /\ x3.pattern > Len(Patterns)
  BY DEF Scan!Return
<1>5. Scan!FoundSoFar'
  BY <1>3, <1>4 DEF Scan!Inv, Scan!FoundSoFar
<1>6. Scan!TypeOK'
  BY <1>1, <1>3, <1>4 DEF Scan!TypeOK, ScanServers, ScanConns, ScanCalls
<1>7. Scan!Truncated(x3.found, x3.scanned)' = cut
  BY <1>3 DEF cut, Scan!Truncated
<1> QED
  BY <1>3, <1>4, <1>5, <1>6, <1>7 DEF Scan!Inv, Scan!Matched

LEMMA ScanKept ==
  ASSUME Scan!Inv, [Scan!Next]_(Scan!vars)
  PROVE  Scan!Inv'
<1>1. x2 \in ScanConns
  BY ScanTyped DEF Scan!Inv
<1>2. CASE UNCHANGED Scan!vars
  BY <1>1, <1>2, ScanConnects DEF Scan!vars
<1>3. CASE Scan!DialFails \/ Scan!Fails
  <2>1. x2' \in ScanConns
    BY <1>1, <1>3 DEF Scan!DialFails, Scan!Fails, ScanConns
  <2> QED
    BY <1>3, <2>1, ScanConnects DEF Scan!DialFails, Scan!Fails
<1> QED
  BY <1>2, <1>3, ScanDials, ScanEndsPattern, ScanReturns, ScanScans DEF Scan!Next

LEMMA ScanBegins ==
  ASSUME Scan!Init
  PROVE  Scan!Inv
<1>1. x1 \in ScanServers /\ x2 \in ScanConns /\ x4 = FALSE /\ x1.left = Keys
  BY DEF Scan!Init, ScanServers, ScanConns
<1>2. x3 \in ScanCalls /\ x3.found = {} /\ x3.pattern = 1 /\ ~x3.returned
  BY ScanBounds, ScanPatterns DEF Scan!Init, ScanCalls
<1>3. Scan!FoundSoFar
  BY <1>1, <1>2, ScanPatterns DEF Scan!FoundSoFar
<1> QED
  BY <1>1, <1>2, <1>3, ScanTyped DEF Scan!Inv

LEMMA ScanMarks ==
  ASSUME Scan!Inv
  PROVE  Scan!CutIsMarked
<1> SUFFICES ASSUME x3.returned, ~x3.truncated, ~x4 PROVE x3.found = Scan!Matched
  BY DEF Scan!CutIsMarked, Scan!Matched
<1>1. x3 \in ScanCalls
  BY ScanTyped DEF Scan!Inv
<1>2. ~Scan!Truncated(x3.found, x3.scanned) /\ x3.pattern > 2
  BY ScanPatterns DEF Scan!Inv
<1>3. Scan!Cardinality(x3.found) \in Nat /\ x3.scanned \in Nat
  <2>1. x3.found \in SUBSET Keys /\ x3.scanned \in 0..(KeyBudget + 1)
    BY <1>1 DEF ScanCalls
  <2> QED
    BY <2>1, ScanFinite, ScanBounds
<1>4. Scan!Cardinality(x3.found) < Limit /\ x3.scanned < KeyBudget
  BY <1>2, <1>3, ScanBounds DEF Scan!Truncated
<1>5. \A p \in DOMAIN Patterns : Keys \cap Patterns[p] \subseteq x3.found
  <2>1. x3.pattern \in 1..3
    BY <1>1, ScanPatterns DEF ScanCalls
  <2>2. \A p \in DOMAIN Patterns : p < x3.pattern
    BY <1>2, <2>1, ScanPatterns
  <2> QED
    BY <1>4, <2>2 DEF Scan!Inv, Scan!FoundSoFar
<1> QED
  BY <1>5 DEF Scan!Inv, Scan!Matched

-----------------------------------------------------------------------------
(* GitMirror: the invariant and its proof are those of GitMirror_proofs *)

GitP  == INSTANCE GitMirror_proofs WITH Urls <- {FirstUrl}, events <- faults, MaxEvents <- MaxFaults
Git1P == INSTANCE GitMirror_proofs WITH Readers <- {r1}, events <- faults

MirrorInv ==
  /\ part = "git"  => GitP!Inv
  /\ part = "git1" => Git1P!Inv

LEMMA MirrorMoves ==
  ASSUME [PartsNext]_all
  PROVE  /\ part' = "git"  => part = "git" /\ [Git!Next]_<<mirror, marks>>
         /\ part' = "git1" => part = "git1" /\ [Git1!Next]_<<mirror, marks>>
BY DEF PartsNext, Chosen, all, mirror, marks

LEMMA GitSame ==
  ASSUME [Git!Next]_<<mirror, marks>>
  PROVE  [GitP!Next]_(GitP!vars)
BY DEF mirror, marks, GitP!vars, Git!Next, GitP!Next, Git!Ask, GitP!Ask, Git!ReaderStep,
       GitP!ReaderStep, Git!Check, GitP!Check, Git!_maybe_refresh, GitP!_maybe_refresh,
       Git!_start, GitP!_start, Git!_await_preparing, GitP!_await_preparing, Git!readerFrame,
       GitP!readerFrame, Git!Step, GitP!Step, Git!Join, GitP!Join, Git!Leave, GitP!Leave,
       Git!Joining, GitP!Joining, Git!Resting, GitP!Resting, Git!Alive, GitP!Alive, Git!Working,
       GitP!Working, Git!is_repo, GitP!is_repo, Git!Newest, GitP!Newest, Git!Cloned,
       GitP!Cloned, Git!NoRepo, GitP!NoRepo, Git!NoSync, GitP!NoSync, Git!syncFrame,
       GitP!syncFrame, Git!Goto, GitP!Goto, Git!Ended, GitP!Ended, Git!Leaves, GitP!Leaves,
       Git!GiveUp, GitP!GiveUp, Git!SyncStep, GitP!SyncStep, Git!RemoveStale, GitP!RemoveStale,
       Git!GitClone, GitP!GitClone, Git!RemoveOld, GitP!RemoveOld, Git!Complete, GitP!Complete,
       Git!Vacant, GitP!Vacant, Git!Replace, GitP!Replace, Git!SameRemote, GitP!SameRemote,
       Git!validate_cached_remote, GitP!validate_cached_remote, Git!GitFetch, GitP!GitFetch,
       Git!Unlocked, GitP!Unlocked, Git!ResetStarts, GitP!ResetStarts, Git!Settled,
       GitP!Settled, Git!ResetEnds, GitP!ResetEnds, Git!Succeed, GitP!Succeed, Git!TooLarge,
       GitP!TooLarge, Git!prepare_git, GitP!prepare_git, Git!SyncFails, GitP!SyncFails,
       Git!worldFrame, GitP!worldFrame, Git!RetryTime, GitP!RetryTime, Git!FailureAges,
       GitP!FailureAges, Git!CopyAges, GitP!CopyAges, Git!Push, GitP!Push, Git!ChangeUrl,
       GitP!ChangeUrl, Git!Crash, GitP!Crash, Git!Commits, GitP!Commits, Git!Event, GitP!Event,
       Git!Removing, GitP!Removing, Git!Tear, GitP!Tear, Git!Gone, GitP!Gone, Git!RemoveEnds,
       GitP!RemoveEnds, Git!GitFails, GitP!GitFails

LEMMA GitBegins ==
  ASSUME Git!Init
  PROVE  GitP!Init
BY DEF Git!Init, GitP!Init, Git!NoRepo, GitP!NoRepo, Git!NoSync, GitP!NoSync, Git!Resting,
       GitP!Resting

LEMMA Git1Same ==
  ASSUME [Git1!Next]_<<mirror, marks>>
  PROVE  [Git1P!Next]_(Git1P!vars)
BY DEF mirror, marks, Git1P!vars, Git1!Next, Git1P!Next, Git1!Ask, Git1P!Ask, Git1!ReaderStep,
       Git1P!ReaderStep, Git1!Check, Git1P!Check, Git1!_maybe_refresh, Git1P!_maybe_refresh,
       Git1!_start, Git1P!_start, Git1!_await_preparing, Git1P!_await_preparing,
       Git1!readerFrame, Git1P!readerFrame, Git1!Step, Git1P!Step, Git1!Join, Git1P!Join,
       Git1!Leave, Git1P!Leave, Git1!Joining, Git1P!Joining, Git1!Resting, Git1P!Resting,
       Git1!Alive, Git1P!Alive, Git1!Working, Git1P!Working, Git1!is_repo, Git1P!is_repo,
       Git1!Newest, Git1P!Newest, Git1!Cloned, Git1P!Cloned, Git1!NoRepo, Git1P!NoRepo,
       Git1!NoSync, Git1P!NoSync, Git1!syncFrame, Git1P!syncFrame, Git1!Goto, Git1P!Goto,
       Git1!Ended, Git1P!Ended, Git1!Leaves, Git1P!Leaves, Git1!GiveUp, Git1P!GiveUp,
       Git1!SyncStep, Git1P!SyncStep, Git1!RemoveStale, Git1P!RemoveStale, Git1!GitClone,
       Git1P!GitClone, Git1!RemoveOld, Git1P!RemoveOld, Git1!Complete, Git1P!Complete,
       Git1!Vacant, Git1P!Vacant, Git1!Replace, Git1P!Replace, Git1!SameRemote,
       Git1P!SameRemote, Git1!validate_cached_remote, Git1P!validate_cached_remote,
       Git1!GitFetch, Git1P!GitFetch, Git1!Unlocked, Git1P!Unlocked, Git1!ResetStarts,
       Git1P!ResetStarts, Git1!Settled, Git1P!Settled, Git1!ResetEnds, Git1P!ResetEnds,
       Git1!Succeed, Git1P!Succeed, Git1!TooLarge, Git1P!TooLarge, Git1!prepare_git,
       Git1P!prepare_git, Git1!SyncFails, Git1P!SyncFails, Git1!worldFrame, Git1P!worldFrame,
       Git1!RetryTime, Git1P!RetryTime, Git1!FailureAges, Git1P!FailureAges, Git1!CopyAges,
       Git1P!CopyAges, Git1!Push, Git1P!Push, Git1!ChangeUrl, Git1P!ChangeUrl, Git1!Crash,
       Git1P!Crash, Git1!Commits, Git1P!Commits, Git1!Event, Git1P!Event, Git1!Removing,
       Git1P!Removing, Git1!Tear, Git1P!Tear, Git1!Gone, Git1P!Gone, Git1!RemoveEnds,
       Git1P!RemoveEnds, Git1!GitFails, Git1P!GitFails

LEMMA Git1Begins ==
  ASSUME Git1!Init
  PROVE  Git1P!Init
BY DEF Git1!Init, Git1P!Init, Git1!NoRepo, Git1P!NoRepo, Git1!NoSync, Git1P!NoSync, Git1!Resting,
       Git1P!Resting

LEMMA MirrorKept ==
  ASSUME MirrorInv, [PartsNext]_all
  PROVE  MirrorInv'
<1>1. GitP!MirrorAssumption /\ Git1P!MirrorAssumption
  BY PartsAssumption, InstallerAssumption DEF GitP!MirrorAssumption, Git1P!MirrorAssumption
<1>2. ASSUME GitP!Inv, [Git!Next]_<<mirror, marks>> PROVE GitP!Inv'
  BY <1>1, <1>2, GitSame, GitP!InvKept
<1>3. ASSUME Git1P!Inv, [Git1!Next]_<<mirror, marks>> PROVE Git1P!Inv'
  BY <1>1, <1>3, Git1Same, Git1P!InvKept
<1> QED
  BY <1>2, <1>3, MirrorMoves DEF MirrorInv

LEMMA MirrorBegins ==
  ASSUME PartsInit
  PROVE  MirrorInv
<1>1. GitP!MirrorAssumption /\ Git1P!MirrorAssumption
  BY PartsAssumption, InstallerAssumption DEF GitP!MirrorAssumption, Git1P!MirrorAssumption
<1>2. part = "git" => GitP!Init
  BY GitBegins DEF PartsInit
<1>3. part = "git1" => Git1P!Init
  BY Git1Begins DEF PartsInit
<1>4. GitP!Init => GitP!Inv
  BY <1>1, GitP!InvBegins
<1>5. Git1P!Init => Git1P!Inv
  BY <1>1, Git1P!InvBegins
<1> QED
  BY <1>2, <1>3, <1>4, <1>5 DEF MirrorInv

\* In both instances, with racing readers and while the address changes, a working copy holds
\* commits of the remote it was cloned from, as long as no two threads worked on it at once.
THEOREM CopiesKeepOrigin ==
  PartsSpec => []TreeOfOrigin
<1>1. MirrorInv => TreeOfOrigin
  BY DEF MirrorInv, TreeOfOrigin, GitP!Inv, GitP!OneRemote, Git!TreeOfOrigin,
         Git1P!Inv, Git1P!OneRemote, Git1!TreeOfOrigin
<1> QED
  BY <1>1, MirrorBegins, MirrorKept, PTL DEF PartsSpec

\* In both instances, after any number of threads raced for the directory, it is one whole
\* commit or no copy once they have gone.
THEOREM QuietCopiesAreWhole ==
  PartsSpec => []WholeWhenQuiet
<1>1. MirrorInv => WholeWhenQuiet
  <2>1. ASSUME GitP!Inv PROVE Git!WholeWhenQuiet
    <3>1. GitP!WholeWhenQuiet
      BY <2>1, GitP!QuietIsWhole
    <3> QED
      BY <3>1 DEF GitP!WholeWhenQuiet, Git!WholeWhenQuiet, GitP!Working, Git!Working,
         GitP!is_repo, Git!is_repo, GitP!Cardinality, Git!Cardinality
  <2>2. ASSUME Git1P!Inv PROVE Git1!WholeWhenQuiet
    <3>1. Git1P!WholeWhenQuiet
      BY <2>2, Git1P!QuietIsWhole
    <3> QED
      BY <3>1 DEF Git1P!WholeWhenQuiet, Git1!WholeWhenQuiet, Git1P!Working, Git1!Working,
         Git1P!is_repo, Git1!is_repo, Git1P!Cardinality, Git1!Cardinality
  <2> QED
    BY <2>1, <2>2 DEF MirrorInv, WholeWhenQuiet
<1> QED
  BY <1>1, MirrorBegins, MirrorKept, PTL DEF PartsSpec

-----------------------------------------------------------------------------
(* PodExec: x1 command, x2 wire, x3 link, x4 call, x5 answer *)

PodInv == part = "exec" => Pod!Inv

LEMMA PodMoves ==
  ASSUME [PartsNext]_all, part' = "exec"
  PROVE  part = "exec" /\ [Pod!Next]_<<x1, x2, x3, x4, x5>>
BY DEF PartsNext, Chosen, all, others

PodKnown == [channel |-> x4.channel, got |-> x4.got]
PodTold  == [channel |-> x1.message, got |-> x1.wrote]

\* The command and what it has written only go forward.
PodForward ==
  /\ x1'.state \in {"waiting", "running", "exited", "told"}
  /\ \A s \in Pod!Streams : x1.wrote[s] <= x1'.wrote[s]
  /\ x1.state \in {"exited", "told"} =>
       x1'.wrote = x1.wrote /\ x1'.state \in {"exited", "told"}
  /\ x1.state = "told" => x1'.state = "told"

LEMMA PodFollows ==
  ASSUME PodForward, NEW view, NEW frame, Pod!Follows(x1, view, frame)
  PROVE  Pod!Follows(x1', view, frame)
BY DEF PodForward, Pod!Follows, Pod!SpokenOn

\* The gateway takes the first frame.
LEMMA PodTakes ==
  ASSUME Pod!InOrder, x2 \in Seq(Pod!Frames), x2 # <<>>, x2' = Tail(x2), UNCHANGED <<x1, x3>>,
         PodKnown' = Pod!Sees(PodKnown, Head(x2))
  PROVE  Pod!InOrder'
<1>1. PICK views \in [0..Len(x2) -> Pod!Views] :
        /\ views[0] = PodKnown
        /\ \A i \in 1..Len(x2) :
             Pod!Follows(x1, views[i - 1], x2[i]) /\ views[i] = Pod!Sees(views[i - 1], x2[i])
        /\ \A i \in 0..Len(x2), s \in Pod!Streams : views[i].got[s] <= x1.wrote[s]
        /\ x3 = "up" => views[Len(x2)] = PodTold
  BY DEF Pod!InOrder, PodKnown, PodTold
<1> DEFINE v == [i \in 0..Len(x2') |-> views[i + 1]]
<1>2. /\ Len(x2) \in Nat \ {0} /\ Len(x2') = Len(x2) - 1 /\ Head(x2) = x2[1]
      /\ \A i \in 1..Len(x2') : x2'[i] = x2[i + 1]
  OBVIOUS
<1>3. v \in [0..Len(x2') -> Pod!Views]
  BY <1>1, <1>2
<1>4. v[0] = PodKnown'
  BY <1>1, <1>2
<1>5. ASSUME NEW i \in 1..Len(x2')
      PROVE  /\ Pod!Follows(x1', v[i - 1], x2'[i])
             /\ v[i] = Pod!Sees(v[i - 1], x2'[i])
  <2>1. i + 1 \in 1..Len(x2) /\ (i + 1) - 1 = i /\ v[i - 1] = views[i] /\ v[i] = views[i + 1]
    BY <1>2
  <2>2. Pod!Follows(x1, views[i], x2[i + 1]) /\ views[i + 1] = Pod!Sees(views[i], x2[i + 1])
    BY <1>1, <2>1
  <2>3. x2'[i] = x2[i + 1]
    BY <1>2
  <2> QED
    BY <2>1, <2>2, <2>3 DEF Pod!Follows
<1>6. \A i \in 0..Len(x2'), s \in Pod!Streams : v[i].got[s] <= x1'.wrote[s]
  BY <1>1, <1>2
<1>7. x3' = "up" => v[Len(x2')] = PodTold'
  BY <1>1, <1>2 DEF PodTold
<1> HIDE DEF v
<1> QED
  BY <1>3, <1>4, <1>5, <1>6, <1>7 DEF Pod!InOrder, PodKnown, PodTold, Pod!Sees, Pod!SpokenOn, Pod!Streams

\* Frames that do not arrive leave the others in order.
LEMMA PodLoses ==
  ASSUME Pod!InOrder, x2 \in Seq(Pod!Frames), NEW n \in 0..Len(x2), x2' = SubSeq(x2, 1, n),
         x3' # "up", UNCHANGED <<x1, x4>>
  PROVE  Pod!InOrder'
<1>1. PICK views \in [0..Len(x2) -> Pod!Views] :
        /\ views[0] = PodKnown
        /\ \A i \in 1..Len(x2) :
             Pod!Follows(x1, views[i - 1], x2[i]) /\ views[i] = Pod!Sees(views[i - 1], x2[i])
        /\ \A i \in 0..Len(x2), s \in Pod!Streams : views[i].got[s] <= x1.wrote[s]
  BY DEF Pod!InOrder, PodKnown
<1> DEFINE v == [i \in 0..n |-> views[i]]
<1>2. /\ Len(x2') = n /\ n \in Nat /\ n <= Len(x2) /\ Len(x2) \in Nat
      /\ \A i \in 1..n : x2'[i] = x2[i]
  OBVIOUS
<1>3. v \in [0..n -> Pod!Views]
  BY <1>1, <1>2
<1>4. ASSUME NEW i \in 1..n
      PROVE  /\ Pod!Follows(x1', v[i - 1], x2'[i])
             /\ v[i] = Pod!Sees(v[i - 1], x2'[i])
  <2>1. i \in 1..Len(x2) /\ v[i - 1] = views[i - 1] /\ v[i] = views[i] /\ x2'[i] = x2[i]
    BY <1>2
  <2> QED
    BY <1>1, <2>1 DEF Pod!Follows
<1>5. \A i \in 0..n, s \in Pod!Streams : v[i].got[s] <= x1'.wrote[s]
  BY <1>1, <1>2
<1>6. v[0] = PodKnown'
  BY <1>1, <1>2 DEF PodKnown
<1> HIDE DEF v
<1>7. /\ v \in [0..Len(x2') -> Pod!Views] /\ v[0] = PodKnown'
      /\ \A i \in 1..Len(x2') :
           Pod!Follows(x1', v[i - 1], x2'[i]) /\ v[i] = Pod!Sees(v[i - 1], x2'[i])
      /\ \A i \in 0..Len(x2'), s \in Pod!Streams : v[i].got[s] <= x1'.wrote[s]
  BY <1>2, <1>3, <1>4, <1>5, <1>6
<1> QED
  BY <1>7 DEF Pod!InOrder, PodKnown, Pod!Sees, Pod!SpokenOn, Pod!Streams

\* The command goes on without a word.
LEMMA PodWaits ==
  ASSUME Pod!InOrder, PodForward, UNCHANGED <<x2, x3, x4>>, PodTold' = PodTold
  PROVE  Pod!InOrder'
<1>1. PICK views \in [0..Len(x2) -> Pod!Views] :
        /\ views[0] = PodKnown
        /\ \A i \in 1..Len(x2) :
             Pod!Follows(x1, views[i - 1], x2[i]) /\ views[i] = Pod!Sees(views[i - 1], x2[i])
        /\ \A i \in 0..Len(x2), s \in Pod!Streams : views[i].got[s] <= x1.wrote[s]
        /\ x3 = "up" => views[Len(x2)] = PodTold
  BY DEF Pod!InOrder, PodKnown, PodTold
<1>2. x1'.wrote = x1.wrote
  BY DEF PodTold
<1>3. \A i \in 1..Len(x2) : Pod!Follows(x1', views[i - 1], x2[i])
  BY <1>1, PodFollows
<1>4. /\ views \in [0..Len(x2') -> Pod!Views] /\ views[0] = PodKnown'
      /\ \A i \in 1..Len(x2') :
           Pod!Follows(x1', views[i - 1], x2'[i]) /\ views[i] = Pod!Sees(views[i - 1], x2'[i])
      /\ \A i \in 0..Len(x2'), s \in Pod!Streams : views[i].got[s] <= x1'.wrote[s]
      /\ x3' = "up" => views[Len(x2')] = PodTold'
  BY <1>1, <1>2, <1>3 DEF PodKnown
<1> QED
  BY <1>4 DEF Pod!InOrder, PodKnown, PodTold, Pod!Sees, Pod!SpokenOn, Pod!Streams

\* A frame is sent, of what the command has done.
LEMMA PodSends ==
  ASSUME Pod!InOrder, x2 \in Seq(Pod!Frames), NEW frame \in Pod!Frames, x3 = "up",
         x2' = Append(x2, frame), UNCHANGED <<x3, x4>>, PodForward,
         x1.wrote \in [Pod!Streams -> 0..MaxOutput], x1'.wrote \in [Pod!Streams -> 0..MaxOutput],
         MaxOutput \in Nat,
         PodTold' \in Pod!Views, PodTold' = Pod!Sees(PodTold, frame),
         Pod!Follows(x1', PodTold, frame)
  PROVE  Pod!InOrder'
<1>1. PICK views \in [0..Len(x2) -> Pod!Views] :
        /\ views[0] = PodKnown
        /\ \A i \in 1..Len(x2) :
             Pod!Follows(x1, views[i - 1], x2[i]) /\ views[i] = Pod!Sees(views[i - 1], x2[i])
        /\ \A i \in 0..Len(x2), s \in Pod!Streams : views[i].got[s] <= x1.wrote[s]
        /\ views[Len(x2)] = PodTold
  BY DEF Pod!InOrder, PodKnown, PodTold
<1> DEFINE last == Len(x2) + 1
           v    == [i \in 0..last |-> IF i = last THEN PodTold' ELSE views[i]]
<1>2. /\ Len(x2) \in Nat /\ Len(x2') = last /\ x2'[last] = frame
      /\ \A i \in 1..Len(x2) : x2'[i] = x2[i]
  OBVIOUS
<1>3. v \in [0..last -> Pod!Views] /\ v[0] = PodKnown
  BY <1>1, <1>2
<1>4. ASSUME NEW i \in 1..last
      PROVE  /\ Pod!Follows(x1', v[i - 1], x2'[i])
             /\ v[i] = Pod!Sees(v[i - 1], x2'[i])
  <2>1. CASE i = last
    <3>1. v[i - 1] = PodTold /\ v[i] = PodTold' /\ x2'[i] = frame
      BY <1>1, <1>2, <2>1
    <3> QED
      BY <3>1 DEF Pod!Follows
  <2>2. CASE i # last
    <3>1. i \in 1..Len(x2) /\ v[i - 1] = views[i - 1] /\ v[i] = views[i] /\ x2'[i] = x2[i]
      BY <1>2, <2>2
    <3>2. Pod!Follows(x1', views[i - 1], x2[i])
      BY <1>1, <3>1, PodFollows
    <3> QED
      BY <1>1, <3>1, <3>2 DEF Pod!Follows
  <2> QED
    BY <2>1, <2>2
<1>5. ASSUME NEW i \in 0..last, NEW s \in Pod!Streams
      PROVE  v[i].got[s] <= x1'.wrote[s]
  <2>1. CASE i = last
    BY <1>2, <2>1 DEF PodTold
  <2>2. CASE i # last
    <3>1. i \in 0..Len(x2) /\ v[i] = views[i]
      BY <1>2, <2>2
    <3>2. views[i] \in Pod!Views /\ views[i].got[s] <= x1.wrote[s] /\ x1.wrote[s] <= x1'.wrote[s]
      BY <1>1, <3>1 DEF PodForward
    <3>3. views[i].got[s] \in Int /\ x1.wrote[s] \in Int /\ x1'.wrote[s] \in Int
      BY <3>2 DEF Pod!Views
    <3> QED
      BY <3>1, <3>2, <3>3
  <2> QED
    BY <2>1, <2>2
<1>6. v[last] = PodTold' /\ PodKnown' = PodKnown
  BY <1>2 DEF PodKnown
<1> HIDE DEF v
<1> QED
  BY <1>2, <1>3, <1>4, <1>5, <1>6
  DEF Pod!InOrder, PodKnown, PodTold, Pod!Sees, Pod!SpokenOn, Pod!Streams


PodCommand ==
  [state : {"waiting", "running", "exited", "told"}, code : Pod!Codes,
   wrote : [Pod!Streams -> 0..MaxOutput], message : Pod!Chans, closed : BOOLEAN]
PodCall ==
  [accepted : BOOLEAN, channel : Pod!Chans, got : [Pod!Streams -> 0..MaxOutput],
   exit_code : Pod!Codes \cup {None}, truncated : BOOLEAN, closed : BOOLEAN]

\* What a step of the command has to show while exec_stream has not answered.
LEMMA PodServes ==
  ASSUME Pod!Inv, x5.kind = "none", UNCHANGED <<x4, x5>>, PodForward,
         x1' \in PodCommand, x1.state = "told" => x1'.code = x1.code,
         x2' \in Seq(Pod!Frames), Len(x2') <= MaxWire, x3' \in {"up", "eof", "reset"},
         Pod!StatusLast', Pod!InOrder => Pod!InOrder'
  PROVE  Pod!Inv'
<1>1. Pod!TypeOK'
  BY DEF PodCommand, Pod!Inv, Pod!TypeOK, Pod!Chans, Pod!Streams, Pod!Codes, Pod!Frames
<1>2. Pod!StatusTrue' /\ Pod!ExitIsReal'
  BY DEF Pod!Inv, Pod!StatusTrue, Pod!ExitIsReal, PodForward
<1> QED
  BY <1>1, <1>2 DEF Pod!Inv

\* The same of one that sends a frame.
LEMMA PodSpeaks ==
  ASSUME Pod!Inv, x5.kind = "none", UNCHANGED <<x3, x4, x5>>, PodForward,
         x1' \in PodCommand, x1.state = "told" => x1'.code = x1.code,
         NEW frame \in Pod!Frames, Pod!Send(frame), Pod!StatusLast',
         PodTold' = Pod!Sees(PodTold, frame), Pod!Follows(x1', PodTold, frame)
  PROVE  Pod!Inv'
<1>1. /\ x2 \in Seq(Pod!Frames) /\ x3 = "up" /\ x2' = Append(x2, frame) /\ Len(x2) < MaxWire
      /\ MaxOutput \in Nat /\ MaxWire \in Nat
      /\ x1.wrote \in [Pod!Streams -> 0..MaxOutput]
  BY PartsAssumption DEF Pod!Inv, Pod!TypeOK, Pod!Send
<1>2. x2' \in Seq(Pod!Frames) /\ Len(x2') <= MaxWire
  BY <1>1
<1>3. x1'.wrote \in [Pod!Streams -> 0..MaxOutput] /\ PodTold' \in Pod!Views
  BY DEF PodCommand, PodTold, Pod!Views, Pod!Chans, Pod!Streams
<1>4. Pod!InOrder => Pod!InOrder'
  BY <1>1, <1>3, PodSends
<1> QED
  BY <1>1, <1>2, <1>4, PodServes

LEMMA PodKnows ==
  ASSUME Pod!Inv
  PROVE  /\ x1 \in PodCommand /\ x4 \in PodCall /\ x2 \in Seq(Pod!Frames) /\ Len(x2) <= MaxWire
         /\ x3 \in {"up", "eof", "reset"} /\ Pod!StatusLast
         /\ x5 \in [kind : {"none", "result", "refused", "unknown"}, exit_code : Pod!Codes \cup {None}]
         /\ MaxOutput \in Nat /\ MaxWire \in Nat /\ Maximum \in Nat /\ None \notin 0..3
BY PartsAssumption DEF Pod!Inv, Pod!TypeOK, PodCommand, PodCall

LEMMA PodAccept ==
  ASSUME Pod!Inv, x5.kind = "none", NEW code \in Pod!Codes, Pod!Accept(code)
  PROVE  Pod!Inv'
<1> DEFINE c1 == [x1 EXCEPT !.state = "running"]
           c2 == [c1 EXCEPT !.code = code]
           frame == [type |-> "accept"]
<1>1. x1' = c2 /\ x1.state = "waiting" /\ Pod!Send(frame) /\ UNCHANGED <<x3, x4, x5>>
  BY DEF Pod!Accept, Pod!serverFrame
<1>2. /\ c1 \in PodCommand /\ c1.state = "running" /\ c1.wrote = x1.wrote
      /\ c1.message = x1.message /\ c1.closed = x1.closed
  BY PodKnows DEF PodCommand
<1> HIDE DEF c1
<1>3. /\ x1' \in PodCommand /\ x1'.state = "running" /\ x1'.wrote = x1.wrote
      /\ x1'.message = x1.message
  BY <1>1, <1>2 DEF PodCommand
<1>4. PodForward
  BY <1>1, <1>3, PodKnows DEF PodForward, PodCommand
<1>5. Pod!StatusLast'
  BY <1>1, <1>3, PodKnows DEF Pod!StatusLast
<1>6. frame \in Pod!Frames
  BY DEF Pod!Frames
<1>7. PodTold' = Pod!Sees(PodTold, frame) /\ Pod!Follows(x1', PodTold, frame)
  BY <1>3 DEF PodTold, Pod!Sees, Pod!Follows
<1> HIDE DEF frame
<1> QED
  BY <1>1, <1>3, <1>4, <1>5, <1>6, <1>7, PodSpeaks

\* The command stays as it is, or its side of the connection is closed.
LEMMA PodOnlySends ==
  ASSUME Pod!Inv, x5.kind = "none", UNCHANGED <<x3, x4, x5>>,
         x1' = x1 \/ x1' = [x1 EXCEPT !.closed = TRUE],
         NEW frame \in Pod!Frames, frame.type # "data", Pod!Send(frame)
  PROVE  Pod!Inv'
<1>1. /\ x1' \in PodCommand /\ x1'.state = x1.state /\ x1'.wrote = x1.wrote
      /\ x1'.message = x1.message /\ x1'.code = x1.code
  BY PodKnows DEF PodCommand
<1>2. PodForward
  BY <1>1, PodKnows DEF PodForward, PodCommand
<1>3. Pod!StatusLast'
  BY <1>1, PodKnows DEF Pod!StatusLast
<1>4. PodTold' = Pod!Sees(PodTold, frame) /\ Pod!Follows(x1', PodTold, frame)
  BY <1>1 DEF PodTold, Pod!Sees, Pod!Follows
<1> QED
  BY <1>1, <1>2, <1>3, <1>4, PodSpeaks

LEMMA PodOutput ==
  ASSUME Pod!Inv, x5.kind = "none", NEW s \in Pod!Streams, NEW units \in 0..1, NEW fin \in BOOLEAN,
         Pod!Output(s, units, fin)
  PROVE  Pod!Inv'
<1> DEFINE new   == IF fin THEN None ELSE s
           c1    == [x1 EXCEPT !.wrote[s] = x1.wrote[s] + units]
           c2    == [c1 EXCEPT !.message = new]
           frame == Pod!Data(IF x1.message = None THEN s ELSE None, units, fin)
<1>1. /\ x1' = c2 /\ x1.state = "running" /\ x1.message \in {None, s} /\ Pod!Send(frame)
      /\ x1.wrote[s] + units <= MaxOutput /\ UNCHANGED <<x3, x4, x5>>
  BY DEF Pod!Output, Pod!serverFrame
<1>2. /\ x1.wrote \in [Pod!Streams -> 0..MaxOutput] /\ MaxOutput \in Nat
      /\ x1.wrote[s] + units \in 0..MaxOutput /\ new \in Pod!Chans /\ None \notin 1..3
  BY <1>1, PodKnows DEF PodCommand, Pod!Chans, Pod!Streams
<1>3. /\ c1 \in PodCommand /\ c1.state = "running" /\ c1.code = x1.code
      /\ c1.wrote = [x1.wrote EXCEPT ![s] = x1.wrote[s] + units]
  BY <1>1, <1>2, PodKnows DEF PodCommand
<1> HIDE DEF c1, new
<1>4. /\ x1' \in PodCommand /\ x1'.state = "running" /\ x1'.code = x1.code
      /\ x1'.wrote = [x1.wrote EXCEPT ![s] = x1.wrote[s] + units] /\ x1'.message = new
  BY <1>1, <1>2, <1>3 DEF PodCommand
<1>5. PodForward
  <2>1. \A t \in Pod!Streams : x1.wrote[t] <= x1'.wrote[t]
    BY <1>2, <1>4
  <2> QED
    BY <1>1, <1>4, <2>1 DEF PodForward
<1>6. Pod!StatusLast'
  BY <1>2, <1>4 DEF Pod!StatusLast, new, Pod!Streams
<1>7. frame \in Pod!Frames
  BY DEF Pod!Frames, Pod!Data, Pod!Chans
<1>8. PodTold' = Pod!Sees(PodTold, frame)
  <2>1. Pod!SpokenOn(PodTold, frame) = s /\ frame.type = "data" /\ frame.fin = fin /\ frame.units = units
    BY <1>1 DEF Pod!SpokenOn, PodTold, Pod!Data
  <2>2. x1'.wrote = [t \in Pod!Streams |-> x1.wrote[t] + IF t = s THEN units ELSE 0]
    BY <1>2, <1>4
  <2> QED
    BY <1>4, <2>1, <2>2 DEF Pod!Sees, PodTold, new
<1>9. Pod!Follows(x1', PodTold, frame)
  BY <1>1, <1>2 DEF Pod!Follows, Pod!SpokenOn, PodTold, Pod!Data, Pod!Streams
<1> HIDE DEF frame
<1> QED
  BY <1>1, <1>4, <1>5, <1>6, <1>7, <1>8, <1>9, PodSpeaks

LEMMA PodStatus ==
  ASSUME Pod!Inv, x5.kind = "none", NEW fin \in BOOLEAN, Pod!Status(fin)
  PROVE  Pod!Inv'
<1> DEFINE new   == IF fin THEN None ELSE 3
           next  == IF fin THEN "told" ELSE "exited"
           c1    == [x1 EXCEPT !.state = next]
           c2    == [c1 EXCEPT !.message = new]
           frame == Pod!Data(IF x1.message = None THEN 3 ELSE None, 0, fin)
<1>1. /\ x1' = c2 /\ x1.state = "exited" /\ x1.message \in {None, 3} /\ Pod!Send(frame)
      /\ UNCHANGED <<x3, x4, x5>>
  BY DEF Pod!Status, Pod!serverFrame
<1>2. /\ new \in Pod!Chans /\ None \notin 1..3
      /\ x1.wrote \in [Pod!Streams -> 0..MaxOutput] /\ MaxOutput \in Nat
  BY PodKnows DEF PodCommand, Pod!Chans, Pod!Streams
<1>3. c1 \in PodCommand /\ c1.state = next /\ c1.code = x1.code /\ c1.wrote = x1.wrote
  BY PodKnows DEF PodCommand
<1> HIDE DEF c1
<1>4. /\ x1' \in PodCommand /\ x1'.state = next /\ x1'.code = x1.code
      /\ x1'.wrote = x1.wrote /\ x1'.message = new
  BY <1>1, <1>2, <1>3 DEF PodCommand
<1>5. PodForward
  BY <1>1, <1>2, <1>4 DEF PodForward
<1>6. Pod!StatusLast'
  BY <1>2, <1>4 DEF Pod!StatusLast
<1>7. frame \in Pod!Frames
  BY DEF Pod!Frames, Pod!Data, Pod!Chans
<1>8. Pod!SpokenOn(PodTold, frame) = 3 /\ frame.type = "data" /\ frame.fin = fin /\ frame.units = 0
  BY <1>1 DEF Pod!SpokenOn, PodTold, Pod!Data
<1>9. PodTold' = Pod!Sees(PodTold, frame)
  <2>1. x1.wrote = [t \in Pod!Streams |-> x1.wrote[t] + IF t = 3 THEN 0 ELSE 0]
    BY <1>2
  <2> QED
    BY <1>4, <1>8, <2>1 DEF Pod!Sees, PodTold
<1>10. Pod!Follows(x1', PodTold, frame)
  BY <1>1, <1>2, <1>4, <1>8 DEF Pod!Follows, PodTold, Pod!Data
<1> HIDE DEF frame
<1> QED
  BY <1>1, <1>4, <1>5, <1>6, <1>7, <1>9, <1>10, PodSpeaks

LEMMA PodServer ==
  ASSUME Pod!Inv, x5.kind = "none", Pod!Server
  PROVE  Pod!Inv'
<1>1. CASE \E code \in Pod!Codes : Pod!Accept(code)
  BY <1>1, PodAccept
<1>2. CASE Pod!Refuse
  <2>1. [type |-> "refuse"] \in Pod!Frames
    BY DEF Pod!Frames
  <2>2. /\ Pod!Send([type |-> "refuse"]) /\ UNCHANGED <<x3, x4, x5>>
        /\ x1' = [x1 EXCEPT !.closed = TRUE]
    BY <1>2 DEF Pod!Refuse, Pod!serverFrame
  <2> QED
    BY <2>1, <2>2, PodOnlySends
<1>3. CASE Pod!Exit
  <2>1. /\ x1.state = "running" /\ x1.message = None /\ x1' = [x1 EXCEPT !.state = "exited"]
        /\ UNCHANGED <<x2, x3, x4, x5>>
    BY <1>3 DEF Pod!Exit, Pod!serverFrame
  <2>2. /\ x1' \in PodCommand /\ x1'.state = "exited" /\ x1'.wrote = x1.wrote
        /\ x1'.message = None
    BY <2>1, PodKnows DEF PodCommand
  <2>3. PodForward
    BY <2>1, <2>2, PodKnows DEF PodForward, PodCommand
  <2>4. Pod!StatusLast'
    BY <2>2 DEF Pod!StatusLast
  <2>5. Pod!InOrder => Pod!InOrder'
    BY <2>1, <2>2, <2>3, PodWaits DEF PodTold
  <2>6. x2' \in Seq(Pod!Frames) /\ Len(x2') <= MaxWire /\ x3' \in {"up", "eof", "reset"}
    BY <2>1, PodKnows
  <2> QED
    BY <2>1, <2>2, <2>3, <2>4, <2>5, <2>6, PodServes
<1>4. CASE \E s \in Pod!Streams, units \in 0..1, fin \in BOOLEAN : Pod!Output(s, units, fin)
  BY <1>4, PodOutput
<1>5. CASE \E fin \in BOOLEAN : Pod!Status(fin)
  BY <1>5, PodStatus
<1>6. CASE \E code \in {1000, 1011} : Pod!Close(code)
  <2>1. PICK code \in {1000, 1011} : Pod!Close(code)
    BY <1>6
  <2> DEFINE frame == [type |-> "close", code |-> code]
  <2>2. frame \in Pod!Frames /\ frame.type # "data"
    BY DEF Pod!Frames
  <2>3. Pod!Send(frame) /\ UNCHANGED <<x3, x4, x5>> /\ x1' = [x1 EXCEPT !.closed = TRUE]
    BY <2>1 DEF Pod!Close, Pod!serverFrame
  <2> HIDE DEF frame
  <2> QED
    BY <2>2, <2>3, PodOnlySends
<1>7. CASE \E type \in {"ping", "text"} : Pod!Chatter(type)
  <2>1. PICK type \in {"ping", "text"} : Pod!Chatter(type)
    BY <1>7
  <2>2. [type |-> type] \in Pod!Frames /\ [type |-> type].type # "data"
    BY DEF Pod!Frames
  <2>3. Pod!Send([type |-> type]) /\ UNCHANGED <<x3, x4, x5>> /\ x1' = x1
    BY <2>1 DEF Pod!Chatter, Pod!serverFrame
  <2> QED
    BY <2>2, <2>3, PodOnlySends
<1>8. CASE \E how \in {"eof", "reset"} : Pod!Break(how)
  <2>1. PICK n \in 0..Len(x2) : x2' = SubSeq(x2, 1, n)
    BY <1>8 DEF Pod!Break
  <2>2. x3' \in {"eof", "reset"} /\ UNCHANGED <<x1, x4, x5>>
    BY <1>8 DEF Pod!Break
  <2>3. x2' \in Seq(Pod!Frames) /\ Len(x2') <= MaxWire
    BY <2>1, PodKnows
  <2>4. PodForward /\ Pod!StatusLast' /\ x1' \in PodCommand
    BY <2>2, PodKnows DEF PodForward, PodCommand, Pod!StatusLast, Pod!Chans, Pod!Streams, Pod!Codes
  <2>5. Pod!InOrder => Pod!InOrder'
    BY <2>1, <2>2, PodKnows, PodLoses
  <2> QED
    BY <2>2, <2>3, <2>4, <2>5, PodServes
<1> QED
  BY <1>1, <1>2, <1>3, <1>4, <1>5, <1>6, <1>7, <1>8 DEF Pod!Server


\* What exec_stream knows of the next frame, and what it may learn from it.
LEMMA PodHead ==
  ASSUME Pod!InOrder, x2 \in Seq(Pod!Frames), x2 # <<>>
  PROVE  /\ Head(x2) \in Pod!Frames /\ Pod!Follows(x1, PodKnown, Head(x2))
         /\ Pod!Sees(PodKnown, Head(x2)) \in Pod!Views
         /\ \A s \in Pod!Streams : Pod!Sees(PodKnown, Head(x2)).got[s] <= x1.wrote[s]
<1>1. Len(x2) \in Nat \ {0} /\ Head(x2) = x2[1] /\ x2[1] \in Pod!Frames
  OBVIOUS
<1>2. PICK views \in [0..Len(x2) -> Pod!Views] :
        /\ views[0] = PodKnown
        /\ \A i \in 1..Len(x2) :
             Pod!Follows(x1, views[i - 1], x2[i]) /\ views[i] = Pod!Sees(views[i - 1], x2[i])
        /\ \A i \in 0..Len(x2), s \in Pod!Streams : views[i].got[s] <= x1.wrote[s]
  BY DEF Pod!InOrder, PodKnown
<1>3. 1 \in 1..Len(x2) /\ 1 \in 0..Len(x2) /\ 1 - 1 = 0
  BY <1>1
<1>4. Pod!Follows(x1, views[0], x2[1]) /\ views[1] = Pod!Sees(views[0], x2[1])
  BY <1>2, <1>3
<1> QED
  BY <1>1, <1>2, <1>3, <1>4

\* exec_stream ends, with an exit code only if that is the command's.
LEMMA PodAnswers ==
  ASSUME Pod!Inv, x5.kind = "none", UNCHANGED <<x1, x3, x4>>,
         x2' \in {x2, <<>>, Tail(x2)}, x2 = <<>> => x2' = x2,
         x5'.kind # "none",
         x5' \in [kind : {"none", "result", "refused", "unknown"}, exit_code : Pod!Codes \cup {None}],
         x5'.exit_code \in {None, x4.exit_code}
  PROVE  Pod!Inv'
<1>1. x2' \in Seq(Pod!Frames) /\ Len(x2') <= MaxWire
  <2>1. x2 \in Seq(Pod!Frames) /\ Len(x2) <= MaxWire /\ MaxWire \in Nat
    BY PodKnows
  <2>2. CASE x2' = Tail(x2) /\ x2 # <<>>
    BY <2>1, <2>2
  <2>3. CASE x2' = x2
    BY <2>1, <2>3
  <2>4. CASE x2' = <<>>
    BY <2>1, <2>4
  <2> QED
    BY <2>2, <2>3, <2>4
<1>2. Pod!TypeOK'
  BY <1>1, PodKnows DEF PodCommand, PodCall, Pod!TypeOK, Pod!Chans, Pod!Streams, Pod!Codes, Pod!Frames
<1>3. Pod!StatusLast' /\ Pod!StatusTrue' /\ Pod!ExitIsReal'
  BY DEF Pod!Inv, Pod!StatusLast, Pod!StatusTrue, Pod!ExitIsReal
<1> QED
  BY <1>2, <1>3 DEF Pod!Inv

\* exec_stream goes on.
LEMMA PodLearns ==
  ASSUME Pod!Inv, x5.kind = "none", UNCHANGED <<x1, x3, x5>>, x2' \in Seq(Pod!Frames), Len(x2') <= MaxWire,
         x4' \in PodCall, ~x4'.truncated => Pod!InOrder', Pod!StatusTrue'
  PROVE  Pod!Inv'
<1>1. Pod!TypeOK'
  BY PodKnows DEF PodCommand, PodCall, Pod!TypeOK, Pod!Chans, Pod!Streams, Pod!Codes, Pod!Frames
<1>2. Pod!StatusLast' /\ Pod!ExitIsReal'
  BY DEF Pod!Inv, Pod!StatusLast, Pod!ExitIsReal
<1> QED
  BY <1>1, <1>2 DEF Pod!Inv

\* A frame of output, or of the status.
LEMMA PodBytes ==
  ASSUME Pod!Inv, Pod!Reading, x2 # <<>>, x2' = Tail(x2), Head(x2).type = "data",
         Pod!BytesMessage(Head(x2)), UNCHANGED <<x1, x3>>
  PROVE  Pod!Inv'
<1> DEFINE frame   == Head(x2)
           channel == Pod!Channel(frame)
           after   == IF frame.fin THEN None ELSE channel
<1>1. /\ x5.kind = "none" /\ ~x4.truncated /\ Pod!InOrder /\ x2 \in Seq(Pod!Frames)
      /\ x2' \in Seq(Pod!Frames) /\ Len(x2') <= MaxWire /\ x4 \in PodCall
      /\ x1 \in PodCommand /\ None \notin 0..3 /\ Maximum \in Nat /\ MaxOutput \in Nat
      /\ Pod!StatusTrue
  BY PodKnows DEF Pod!Reading, Pod!Inv
<1>2. /\ frame \in Pod!Frames /\ Pod!Follows(x1, PodKnown, frame)
      /\ Pod!Sees(PodKnown, frame) \in Pod!Views
      /\ \A s \in Pod!Streams : Pod!Sees(PodKnown, frame).got[s] <= x1.wrote[s]
  BY <1>1, PodHead
<1>3. frame.channel \in Pod!Chans /\ frame.units \in 0..1 /\ frame.fin \in BOOLEAN
  BY <1>2 DEF Pod!Frames
<1>4. /\ channel = Pod!SpokenOn(PodKnown, frame) /\ channel \in {1, 2, 3}
      /\ after \in Pod!Chans
  BY <1>1, <1>2, <1>3 DEF Pod!Channel, Pod!SpokenOn, PodKnown, Pod!Follows, PodCall, Pod!Chans, Pod!Streams
<1>5. /\ x4.got \in [Pod!Streams -> 0..MaxOutput] /\ x1.wrote \in [Pod!Streams -> 0..MaxOutput]
  BY <1>1 DEF PodCall, PodCommand
<1>6. /\ Pod!Sees(PodKnown, frame).channel = after
      /\ Pod!Sees(PodKnown, frame).got =
           [s \in Pod!Streams |-> x4.got[s] + IF s = channel THEN frame.units ELSE 0]
      /\ Pod!Sees(PodKnown, frame) = [channel |-> after,
           got |-> [s \in Pod!Streams |-> x4.got[s] + IF s = channel THEN frame.units ELSE 0]]
  BY <1>4 DEF Pod!Sees, PodKnown
<1>7. PodKnown' = Pod!Sees(PodKnown, frame) => Pod!InOrder'
  BY <1>1, PodTakes
<1>8. ASSUME Pod!Raises("unknown") PROVE Pod!Inv'
  BY <1>1, <1>8, PodAnswers DEF Pod!Raises
<1>9. CASE channel \in Pod!Streams /\ Pod!Cut(frame.units)
  <2> DEFINE d1 == [x4 EXCEPT !.channel = channel]
             d2 == [d1 EXCEPT !.truncated = TRUE]
  <2>1. x4' = d2 /\ UNCHANGED x5
    <3>1. channel # 3
      BY <1>9 DEF Pod!Streams
    <3> QED
      BY <1>9, <3>1 DEF Pod!BytesMessage, Pod!Learns
  <2>2. /\ d1 \in PodCall /\ d1.got = x4.got /\ d1.exit_code = x4.exit_code
    BY <1>1, <1>4 DEF PodCall, Pod!Chans, Pod!Streams
  <2> HIDE DEF d1
  <2>3. x4' \in PodCall /\ x4'.truncated /\ x4'.got = x4.got /\ x4'.exit_code = x4.exit_code
    BY <2>1, <2>2 DEF PodCall
  <2>4. Pod!StatusTrue'
    BY <1>1, <2>3 DEF Pod!StatusTrue
  <2> QED
    BY <1>1, <2>1, <2>3, <2>4, PodLearns
<1>10. CASE channel \in Pod!Streams /\ ~Pod!Cut(frame.units)
  <2>1. Pod!Room(frame.units) = frame.units
    <3>1. x4.got[1] \in Int /\ x4.got[2] \in Int /\ frame.units \in Int /\ Maximum \in Int
      BY <1>1, <1>3, <1>5 DEF Pod!Streams
    <3> HIDE DEF frame
    <3> QED
      BY <1>10, <3>1 DEF Pod!Cut, Pod!Room
  <2> DEFINE more == [x4.got EXCEPT ![channel] = x4.got[channel] + frame.units]
             d1   == [x4 EXCEPT !.channel = after]
             d2   == [d1 EXCEPT !.got[channel] = x4.got[channel] + frame.units]
  <2>2. x4' = d2 /\ UNCHANGED x5
    <3>1. channel # 3
      BY <1>10 DEF Pod!Streams
    <3> QED
      BY <1>10, <2>1, <3>1 DEF Pod!BytesMessage, Pod!Learns
  <2>3. /\ d1 \in PodCall /\ d1.got = x4.got /\ d1.exit_code = x4.exit_code
        /\ d1.channel = after /\ d1.truncated = x4.truncated
    BY <1>1, <1>4 DEF PodCall
  <2>4. more = Pod!Sees(PodKnown, frame).got /\ more \in [Pod!Streams -> 0..MaxOutput]
    <3>1. more = [s \in Pod!Streams |-> x4.got[s] + IF s = channel THEN frame.units ELSE 0]
      BY <1>3, <1>5, <1>10
    <3> QED
      BY <1>2, <1>6, <3>1 DEF Pod!Views
  <2> HIDE DEF d1, after
  <2>5. /\ x4'.channel = after /\ x4'.exit_code = x4.exit_code /\ x4'.got = more
        /\ x4' \in PodCall
    BY <2>2, <2>3, <2>4 DEF PodCall
  <2>6. Pod!InOrder'
    BY <1>6, <1>7, <2>4, <2>5 DEF PodKnown
  <2>7. Pod!StatusTrue'
    <3>1. SUFFICES ASSUME x4.exit_code # None PROVE more = x4.got
      BY <1>1, <2>5 DEF Pod!StatusTrue
    <3>2. x4.got = x1.wrote
      BY <1>1, <3>1 DEF Pod!StatusTrue
    <3>3. \A s \in Pod!Streams : more[s] <= x1.wrote[s] /\ x4.got[s] <= more[s]
      BY <1>2, <1>3, <1>5, <2>4
    <3>4. \A s \in Pod!Streams : more[s] = x4.got[s]
      BY <1>5, <2>4, <3>2, <3>3
    <3> QED
      BY <1>5, <2>4, <3>4
  <2> QED
    BY <1>1, <2>2, <2>5, <2>6, <2>7, PodLearns
<1>11. CASE channel = 3
  <2>1. /\ Pod!Sees(PodKnown, frame).got = x4.got /\ 3 \notin Pod!Streams
        /\ x1.state \in {"exited", "told"} /\ x4.got = x1.wrote /\ (frame.fin => x1.state = "told")
    <3>1. [s \in Pod!Streams |-> x4.got[s] + IF s = channel THEN frame.units ELSE 0] = x4.got
      BY <1>5, <1>11 DEF Pod!Streams
    <3>2. Head(x2).type = "data" /\ Pod!SpokenOn(PodKnown, frame) = 3
      BY <1>4, <1>11
    <3> QED
      BY <1>2, <1>6, <3>1, <3>2 DEF Pod!Follows, PodKnown, Pod!Streams
  <2>2. CASE frame.fin /\ ~Pod!Raises("unknown")
    <3> DEFINE d1 == [x4 EXCEPT !.channel = None]
               d2 == [d1 EXCEPT !.exit_code = x1.code]
    <3>1. x4' = d2 /\ UNCHANGED x5
      BY <1>11, <2>1, <2>2 DEF Pod!BytesMessage, Pod!Learns
    <3>2. d1 \in PodCall /\ d1.got = x4.got /\ d1.channel = None
      BY <1>1 DEF PodCall, Pod!Chans
    <3> HIDE DEF d1
    <3>3. x4' \in PodCall /\ x4'.got = x4.got /\ x4'.channel = None /\ x4'.exit_code = x1.code
      BY <1>1, <3>1, <3>2 DEF PodCall, PodCommand
    <3>4. PodKnown' = Pod!Sees(PodKnown, frame)
      BY <1>6, <2>1, <2>2, <3>3 DEF PodKnown
    <3>5. Pod!StatusTrue'
      BY <2>1, <2>2, <3>3 DEF Pod!StatusTrue
    <3> QED
      BY <1>1, <1>7, <3>1, <3>3, <3>4, <3>5, PodLearns
  <2>3. CASE ~frame.fin
    <3>1. x4' = [x4 EXCEPT !.channel = 3] /\ UNCHANGED x5
      BY <1>11, <2>1, <2>3 DEF Pod!BytesMessage, Pod!Learns
    <3>2. x4' \in PodCall /\ x4'.got = x4.got /\ x4'.channel = 3 /\ x4'.exit_code = x4.exit_code
      BY <1>1, <3>1 DEF PodCall, Pod!Chans
    <3>3. PodKnown' = Pod!Sees(PodKnown, frame)
      BY <1>6, <1>11, <2>1, <2>3, <3>2 DEF PodKnown
    <3>4. Pod!StatusTrue'
      BY <1>1, <3>2 DEF Pod!StatusTrue
    <3> QED
      BY <1>1, <1>7, <3>1, <3>2, <3>3, <3>4, PodLearns
  <2> QED
    BY <1>8, <2>2, <2>3
<1> QED
  BY <1>4, <1>9, <1>10, <1>11 DEF Pod!Streams

LEMMA PodReceives ==
  ASSUME Pod!Inv, Pod!Receive
  PROVE  Pod!Inv'
<1>1. /\ Pod!Reading /\ x2 # <<>> /\ UNCHANGED <<x1, x3>> /\ x2 \in Seq(Pod!Frames)
      /\ x5.kind = "none" /\ ~x4.truncated /\ Pod!InOrder /\ x4 \in PodCall /\ Pod!StatusTrue
      /\ Len(x2) <= MaxWire /\ MaxWire \in Nat
  BY PodKnows DEF Pod!Receive, Pod!Reading, Pod!Inv
<1>2. Head(x2) \in Pod!Frames
  BY <1>1
<1>3. CASE Head(x2).type \in {"refuse", "text"}
  <2>1. Pod!Raises("refused") \/ Pod!Raises("unknown")
    BY <1>3 DEF Pod!Receive
  <2>2. x2' = <<>>
    BY <1>3 DEF Pod!Receive
  <2>3. /\ x5'.kind # "none" /\ x5'.exit_code = None /\ UNCHANGED x4
        /\ x5' \in [kind : {"none", "result", "refused", "unknown"}, exit_code : Pod!Codes \cup {None}]
    BY <2>1 DEF Pod!Raises
  <2> QED
    BY <1>1, <2>2, <2>3, PodAnswers
<1>4. CASE Head(x2).type = "data"
  BY <1>1, <1>4, PodBytes DEF Pod!Receive
<1>5. CASE Head(x2).type \in {"accept", "ping", "close"}
  <2>1. x2' = Tail(x2) /\ x2' \in Seq(Pod!Frames) /\ Len(x2') <= MaxWire
    BY <1>1, <1>5 DEF Pod!Receive
  <2>2. /\ x4' \in PodCall /\ x4'.got = x4.got /\ x4'.channel = x4.channel
        /\ x4'.exit_code \in {None, x4.exit_code} /\ UNCHANGED x5
    <3>1. CASE Head(x2).type = "accept"
      BY <1>1, <3>1 DEF Pod!Receive, Pod!Learns, PodCall
    <3>2. CASE Head(x2).type = "ping"
      BY <1>1, <3>2 DEF Pod!Receive, PodCall
    <3>3. CASE Head(x2).type = "close"
      <4> DEFINE d1 == [x4 EXCEPT !.closed = TRUE]
                 d2 == [d1 EXCEPT !.exit_code = IF Head(x2).code = 1000 THEN x4.exit_code ELSE None]
      <4>1. x4' = d2 /\ UNCHANGED x5
        BY <3>3 DEF Pod!Receive, Pod!Learns
      <4>2. d1 \in PodCall /\ d1.got = x4.got /\ d1.channel = x4.channel /\ d1.exit_code = x4.exit_code
        BY <1>1 DEF PodCall
      <4> HIDE DEF d1
      <4> QED
        BY <1>1, <4>1, <4>2 DEF PodCall
    <3> QED
      BY <1>5, <3>1, <3>2, <3>3
  <2>3. PodKnown' = Pod!Sees(PodKnown, Head(x2))
    BY <1>5, <2>2 DEF PodKnown, Pod!Sees
  <2>4. Pod!InOrder'
    BY <1>1, <2>1, <2>3, PodTakes
  <2>5. Pod!StatusTrue'
    BY <1>1, <2>2 DEF Pod!StatusTrue
  <2> QED
    BY <1>1, <2>1, <2>2, <2>4, <2>5, PodLearns
<1> QED
  BY <1>2, <1>3, <1>4, <1>5 DEF Pod!Frames

LEMMA PodKept ==
  ASSUME Pod!Inv, [Pod!Next]_<<x1, x2, x3, x4, x5>>
  PROVE  Pod!Inv'
<1>1. CASE x5.kind = "none" /\ Pod!Server
  BY <1>1, PodServer
<1>2. CASE Pod!Receive
  BY <1>2, PodReceives
<1>3. CASE Pod!Overrun
  <2>1. /\ UNCHANGED <<x1, x3, x5>> /\ x4' = [x4 EXCEPT !.truncated = TRUE] /\ x2' = <<>>
        /\ x5.kind = "none" /\ x4 \in PodCall /\ MaxWire \in Nat
    BY <1>3, PodKnows DEF Pod!Overrun, Pod!Reading, Pod!Learns
  <2>2. x4' \in PodCall /\ x4'.truncated /\ x4'.got = x4.got /\ x4'.exit_code = x4.exit_code
    BY <2>1 DEF PodCall
  <2>3. Pod!StatusTrue' /\ x2' \in Seq(Pod!Frames) /\ Len(x2') <= MaxWire
    BY <2>1, <2>2 DEF Pod!Inv, Pod!StatusTrue
  <2> QED
    BY <2>1, <2>2, <2>3, PodLearns
<1>4. CASE Pod!Return
  <2>1. /\ x5' = [kind |-> "result", exit_code |-> IF Pod!Unknown THEN None ELSE x4.exit_code]
        /\ x5.kind = "none" /\ UNCHANGED <<x1, x2, x3, x4>>
    BY <1>4 DEF Pod!Return, Pod!Answered
  <2>2. x4.exit_code \in Pod!Codes \cup {None}
    BY PodKnows DEF PodCall
  <2> QED
    BY <2>1, <2>2, PodAnswers
<1>5. CASE Pod!Fails
  BY <1>5, PodAnswers DEF Pod!Fails, Pod!Reading, Pod!Raises
<1>6. CASE UNCHANGED <<x1, x2, x3, x4, x5>>
  <2>1. Pod!InOrder' = Pod!InOrder
    BY <1>6 DEF Pod!InOrder, Pod!Views, Pod!Follows, Pod!Sees, Pod!SpokenOn, Pod!Streams, Pod!Chans
  <2> QED
    BY <1>6, <2>1 DEF Pod!Inv, Pod!TypeOK, Pod!StatusLast, Pod!StatusTrue, Pod!ExitIsReal,
       Pod!Chans, Pod!Streams, Pod!Codes, Pod!Frames
<1> QED
  BY <1>1, <1>2, <1>3, <1>4, <1>5, <1>6 DEF Pod!Next

LEMMA PodBegins ==
  ASSUME Pod!Init
  PROVE  Pod!Inv
<1>1. /\ x1.wrote = [s \in Pod!Streams |-> 0] /\ x1.message = None /\ x1.state = "waiting"
      /\ x4.got = [s \in Pod!Streams |-> 0] /\ x4.channel = None /\ x4.exit_code = None
      /\ x2 = <<>> /\ x3 = "up" /\ x5 = [kind |-> "none", exit_code |-> None]
      /\ MaxOutput \in Nat /\ MaxWire \in Nat
  BY PartsAssumption DEF Pod!Init
<1>2. x1 \in PodCommand /\ x4 \in PodCall
  BY <1>1 DEF Pod!Init, PodCommand, PodCall, Pod!Chans, Pod!Codes
<1>3. Pod!TypeOK
  BY <1>1, <1>2 DEF Pod!TypeOK, PodCommand, PodCall
<1>4. Pod!InOrder
  <2> DEFINE view == [channel |-> None, got |-> [s \in Pod!Streams |-> 0]]
             v    == [i \in 0..0 |-> view]
  <2>1. view \in Pod!Views
    BY <1>1 DEF Pod!Views, Pod!Chans
  <2>2. v \in [0..Len(x2) -> Pod!Views] /\ v[0] = view
    BY <1>1, <2>1
  <2>3. \A i \in 1..Len(x2) : FALSE
    BY <1>1
  <2>4. \A i \in 0..Len(x2), s \in Pod!Streams : v[i].got[s] <= x1.wrote[s]
    BY <1>1
  <2>5. v[Len(x2)] = view
    BY <1>1
  <2> HIDE DEF v
  <2> QED
    BY <1>1, <2>2, <2>3, <2>4, <2>5 DEF Pod!InOrder
<1> QED
  BY <1>1, <1>3, <1>4 DEF Pod!Inv, Pod!StatusLast, Pod!StatusTrue, Pod!ExitIsReal

\* However frames are cut, lost at the end or held up, the exit code that exec_stream returns
\* is the one of the command, whose whole output it returns with it.
THEOREM ExitCodesAreReal ==
  PartsSpec => []ExitIsReal
<1>1. PartsInit => PodInv
  BY PodBegins DEF PartsInit, PodInv
<1>2. PodInv /\ [PartsNext]_all => PodInv'
  BY PodMoves, PodKept DEF PodInv
<1>3. PodInv => ExitIsReal
  BY DEF PodInv, Pod!Inv, ExitIsReal
<1> QED
  BY <1>1, <1>2, <1>3, PTL DEF PartsSpec

-----------------------------------------------------------------------------
(* JobSearch *)

FindFolders == {root, folder}
FindJobs    == {ja, jb}
FindEntries == {root, folder, ja, jb}
FindTrees   == [FindFolders -> Seq(FindEntries)]
FindWalks   == [folders : Seq(FindFolders), visited : SUBSET FindFolders, read : SUBSET FindJobs,
                scanned : 0..JobBudget, partial : BOOLEAN, unreadable : BOOLEAN]

LEMMA FindMoves ==
  ASSUME [PartsNext]_all, part' = "find"
  PROVE  part = "find" /\ [Find!Next]_(Find!vars)
BY DEF PartsNext, Chosen, all, others, Find!vars

LEMMA FindTreesTyped == Trees \subseteq FindTrees
<1>1. ASSUME NEW s \in Lists PROVE s \in Seq(FindEntries)
  <2>1. PICK n \in 0..2 : s \in [1..n -> {folder, ja, jb}]
    BY DEF Lists
  <2>2. n \in Nat /\ s \in [1..n -> FindEntries]
    BY <2>1 DEF FindEntries
  <2>3. \A q \in [1..n -> FindEntries] : q \in Seq(FindEntries)
    BY <2>2
  <2> QED
    BY <2>2, <2>3
<1> QED
  BY <1>1 DEF Trees, FindTrees, FindFolders

\* The places of a set of numbers, counted from the least, are the numbers up to its size.
PlaceIn(at, i) == Cardinality({j \in at : j <= i})

LEMMA Places ==
  ASSUME NEW m \in Nat, NEW at \in SUBSET (1..m)
  PROVE  /\ Cardinality(at) \in Nat
         /\ \A i \in at : PlaceIn(at, i) \in 1..Cardinality(at)
         /\ \A i, j \in at : PlaceIn(at, i) = PlaceIn(at, j) => i = j
         /\ \A k \in 1..Cardinality(at) : \E i \in at : PlaceIn(at, i) = k
<1> DEFINE upto(i) == {j \in at : j <= i}
           f       == [i \in at |-> PlaceIn(at, i)]
           n       == Cardinality(at)
<1>1. IsFiniteSet(1..m) /\ Cardinality(1..m) = m
  BY FS_Interval
<1>2. IsFiniteSet(at) /\ n <= m
  BY <1>1, FS_Subset
<1>3. n \in Nat
  BY <1>2, FS_CardinalityType
<1>4. ASSUME NEW i \in at
      PROVE  IsFiniteSet(upto(i)) /\ Cardinality(upto(i)) \in 1..n
  <2>1. IsFiniteSet(upto(i)) /\ Cardinality(upto(i)) <= n
    BY <1>2, FS_Subset
  <2>2. i \in upto(i)
    OBVIOUS
  <2>3. Cardinality(upto(i)) \in Nat /\ Cardinality(upto(i)) # 0
    BY <2>1, <2>2, FS_CardinalityType, FS_EmptySet
  <2> QED
    BY <1>3, <2>1, <2>3
<1>5. ASSUME NEW i \in at, NEW j \in at, i < j PROVE Cardinality(upto(i)) # Cardinality(upto(j))
  <2>1. upto(i) \in SUBSET upto(j) /\ j \in upto(j) /\ j \notin upto(i)
    <3>1. i \in Nat /\ j \in Nat /\ \A k \in at : k \in Nat
      OBVIOUS
    <3>2. \A k \in at : k <= i => k <= j
      BY <1>5, <3>1
    <3>3. j <= j /\ ~(j <= i)
      BY <1>5, <3>1
    <3> QED
      BY <3>2, <3>3
  <2> QED
    BY <1>4, <2>1, FS_Subset
<1>6. ASSUME NEW i \in at, NEW j \in at, f[i] = f[j] PROVE i = j
  BY <1>5, <1>6 DEF PlaceIn
<1>7. f \in [at -> 1..n]
  BY <1>4 DEF PlaceIn
<1>12. \A i \in at : f[i] = PlaceIn(at, i)
  OBVIOUS
<1>8. IsFiniteSet(1..n) /\ Cardinality(1..n) = n
  BY <1>3, FS_Interval
<1> HIDE DEF f, n
<1>9. f \in Injection(at, 1..n)
  BY <1>6, <1>7 DEF Injection, IsInjective
<1>10. f \in Surjection(at, 1..n)
  BY <1>8, <1>9, FS_Injection DEF n
<1>11. \A k \in 1..n : \E i \in at : f[i] = k
  BY <1>10 DEF Surjection
<1> QED
  BY <1>3, <1>6, <1>7, <1>11, <1>12 DEF n

LEMMA FindCardinality ==
  ASSUME NEW S
  PROVE  Find!Cardinality(S) = Cardinality(S)
BY DEF Find!Cardinality, Cardinality

\* The folders of a list, all of them and nothing else.
LEMMA FoldersOfList ==
  ASSUME NEW list \in Seq(FindEntries)
  PROVE  /\ Find!FoldersOf(list) \in Seq(FindFolders)
         /\ \A i \in DOMAIN list :
              list[i] \in FindFolders =>
                \E k \in DOMAIN Find!FoldersOf(list) : Find!FoldersOf(list)[k] = list[i]
<1> DEFINE at       == {i \in DOMAIN list : list[i] \in FindFolders}
           n        == Cardinality(at)
           q        == [k \in 1..n |-> list[CHOOSE i \in at : PlaceIn(at, i) = k]]
<1>1. Find!FoldersOf(list) = q
  BY DEF Find!FoldersOf, FindFolders, PlaceIn, Find!Cardinality, Cardinality
<1>2. Len(list) \in Nat /\ at \in SUBSET (1..Len(list))
  OBVIOUS
<1>8. \A i \in at : list[i] \in FindFolders
  OBVIOUS
<1>9. \A i \in DOMAIN list : list[i] \in FindFolders => i \in at
  OBVIOUS
<1> HIDE DEF at
<1>3. /\ n \in Nat
      /\ \A i \in at : PlaceIn(at, i) \in 1..n
      /\ \A i, j \in at : PlaceIn(at, i) = PlaceIn(at, j) => i = j
      /\ \A k \in 1..n : \E i \in at : PlaceIn(at, i) = k
  BY <1>2, Places
<1> HIDE DEF n
<1>5. ASSUME NEW k \in 1..n PROVE q[k] \in FindFolders
  <2>1. \E i \in at : PlaceIn(at, i) = k
    BY <1>3
  <2> DEFINE c == CHOOSE i \in at : PlaceIn(at, i) = k
  <2>2. c \in at
    BY <2>1
  <2>3. q[k] = list[c]
    OBVIOUS
  <2> QED
    BY <1>8, <2>2, <2>3
<1>6. ASSUME NEW i \in at PROVE \E k \in 1..n : q[k] = list[i]
  <2> DEFINE k == PlaceIn(at, i)
             c == CHOOSE j \in at : PlaceIn(at, j) = k
  <2>1. c \in at /\ PlaceIn(at, c) = k
    OBVIOUS
  <2>2. c = i /\ k \in 1..n
    BY <1>3, <2>1
  <2>3. q[k] = list[c]
    BY <2>2
  <2> QED
    BY <2>2, <2>3
<1>7. q \in Seq(FindFolders) /\ DOMAIN q = 1..n
  <2>1. q \in [1..n -> FindFolders]
    BY <1>5
  <2> HIDE DEF q
  <2> QED
    BY <1>3, <2>1
<1> QED
  BY <1>1, <1>6, <1>7, <1>9

LEMMA FindTyped ==
  Find!TypeOK <=> /\ x1 \in Trees /\ x4 \in Trees /\ x2 \in FindWalks
                  /\ x3 \in {"no", "whole", "partial"}
BY DEF Find!TypeOK, FindWalks, FindFolders, FindJobs

\* What a walk knows of.
FindKnown(walk) == walk.visited \cup {walk.folders[i] : i \in DOMAIN walk.folders}

\* Walked, of a walk "walk" over the folders "old".
FindWalked(walk, old) ==
  ~walk.partial /\ ~walk.unreadable =>
    /\ root \in FindKnown(walk)
    /\ \A f \in walk.visited : \A i \in DOMAIN old[f] :
         /\ old[f][i] \in FindFolders => old[f][i] \in FindKnown(walk)
         /\ old[f][i] \in FindJobs => old[f][i] \in walk.read

LEMMA FindWalkedSame ==
  Find!Walked <=> FindWalked(x2, x4)
BY DEF Find!Walked, Find!Queued, FindWalked, FindKnown, FindFolders, FindJobs

\* Popping the queue keeps what is known.
LEMMA FindPops ==
  ASSUME x2 \in FindWalks, Find!Walking
  PROVE  /\ Find!Popped \in FindWalks
         /\ Head(x2.folders) \in FindFolders
         /\ Find!Popped.visited = x2.visited \cup {Head(x2.folders)}
         /\ Find!Popped.read = x2.read /\ Find!Popped.scanned = x2.scanned
         /\ Find!Popped.partial = x2.partial /\ Find!Popped.unreadable = x2.unreadable
         /\ FindKnown(x2) \subseteq FindKnown(Find!Popped)
<1> DEFINE w1 == [x2 EXCEPT !.folders = Tail(x2.folders)]
           w2 == [w1 EXCEPT !.visited = x2.visited \cup {Head(x2.folders)}]
<1>1. Find!Popped = w2
  BY DEF Find!Popped, FindWalks
<1>2. x2.folders \in Seq(FindFolders) /\ x2.folders # <<>>
  BY DEF FindWalks, Find!Walking
<1>3. Head(x2.folders) \in FindFolders /\ Tail(x2.folders) \in Seq(FindFolders)
  BY <1>2
<1>4. w1 \in FindWalks /\ w1.folders = Tail(x2.folders) /\ w1.read = x2.read /\ w1.scanned = x2.scanned
      /\ w1.partial = x2.partial /\ w1.unreadable = x2.unreadable /\ w1.visited = x2.visited
  BY <1>3 DEF FindWalks
<1> HIDE DEF w1
<1>5. w2 \in FindWalks /\ w2.folders = Tail(x2.folders) /\ w2.read = x2.read /\ w2.scanned = x2.scanned
      /\ w2.partial = x2.partial /\ w2.unreadable = x2.unreadable
      /\ w2.visited = x2.visited \cup {Head(x2.folders)}
  BY <1>3, <1>4 DEF FindWalks
<1>6. \A i \in DOMAIN x2.folders :
        \/ x2.folders[i] = Head(x2.folders)
        \/ \E k \in DOMAIN Tail(x2.folders) : Tail(x2.folders)[k] = x2.folders[i]
  <2>1. ASSUME NEW i \in DOMAIN x2.folders, i # 1
        PROVE  i - 1 \in DOMAIN Tail(x2.folders) /\ Tail(x2.folders)[i - 1] = x2.folders[i]
    BY <1>2, <2>1
  <2>2. Head(x2.folders) = x2.folders[1]
    BY <1>2
  <2> QED
    BY <2>1, <2>2
<1>7. FindKnown(x2) \subseteq FindKnown(w2)
  BY <1>5, <1>6 DEF FindKnown
<1> QED
  BY <1>1, <1>3, <1>5, <1>7

\* A folder seen before, and one that cannot be read.
LEMMA FindSkips ==
  ASSUME Find!Inv, Find!Again \/ Find!FolderUnreadable
  PROVE  Find!Inv'
<1>1. x1 \in Trees /\ x4 \in Trees /\ x2 \in FindWalks /\ UNCHANGED <<x1, x3, x4>>
  BY FindTyped DEF Find!Inv, Find!Again, Find!FolderUnreadable
<1>2. Find!Walking /\ x3 = "no"
  BY DEF Find!Again, Find!FolderUnreadable, Find!New, Find!Walking
<1> DEFINE popped == Find!Popped
<1>3. /\ popped \in FindWalks /\ popped.visited = x2.visited \cup {Head(x2.folders)}
      /\ popped.read = x2.read /\ popped.partial = x2.partial /\ popped.unreadable = x2.unreadable
      /\ FindKnown(x2) \subseteq FindKnown(popped)
  BY <1>1, <1>2, FindPops
<1>4. x2' = popped \/ x2' = [popped EXCEPT !.unreadable = TRUE]
  BY DEF Find!Again, Find!FolderUnreadable
<1>5. Find!Again => Head(x2.folders) \in x2.visited /\ x2' = popped
  BY DEF Find!Again
<1>6. Find!FolderUnreadable => x2' = [popped EXCEPT !.unreadable = TRUE]
  BY DEF Find!FolderUnreadable
<1> HIDE DEF popped
<1>7. x2' \in FindWalks
  BY <1>3, <1>4 DEF FindWalks
<1>8. FindWalked(x2', x4)
  <2>1. CASE Find!FolderUnreadable
    <3>1. x2'.unreadable
      BY <1>3, <1>6, <2>1 DEF FindWalks
    <3> QED
      BY <3>1 DEF FindWalked
  <2>2. CASE Find!Again
    <3>1. /\ x2'.visited = x2.visited /\ x2'.read = x2.read /\ x2'.partial = x2.partial
          /\ x2'.unreadable = x2.unreadable /\ FindKnown(x2) \subseteq FindKnown(x2')
      BY <1>3, <1>5, <2>2
    <3>2. FindWalked(x2, x4)
      BY FindWalkedSame DEF Find!Inv
    <3> QED
      BY <3>1, <3>2 DEF FindWalked
  <2> QED
    BY <2>1, <2>2
<1>9. Find!TypeOK'
  BY <1>1, <1>7, FindTyped DEF Find!TypeOK, Find!Inv, FindWalks, FindFolders, FindJobs
<1>10. Find!Walked'
  BY <1>1, <1>8 DEF Find!Walked, Find!Queued, FindWalked, FindKnown, FindFolders, FindJobs
<1> QED
  BY <1>1, <1>2, <1>9, <1>10 DEF Find!Inv, Find!Grown

\* The entries of a folder: nothing is left out unless the walk is marked.
LEMMA FindReads ==
  ASSUME Find!Inv, NEW denied \in SUBSET FindJobs, NEW vague \in SUBSET FindJobs,
         Find!Folder(denied, vague)
  PROVE  Find!Inv'
<1> DEFINE f      == Head(x2.folders)
           list   == x1[f]
           room   == JobBudget - x2.scanned
           some   == IF Len(list) < room THEN Len(list) ELSE room
           taken  == SubSeq(list, 1, some)
           jobs   == {taken[i] : i \in DOMAIN taken} \cap FindJobs
           more   == Find!FoldersOf(taken)
           popped == Find!Popped
<1>1. x1 \in Trees /\ x4 \in Trees /\ x2 \in FindWalks /\ UNCHANGED <<x1, x3, x4>>
  BY FindTyped DEF Find!Inv, Find!Folder
<1>2. Find!Walking /\ x3 = "no"
  BY DEF Find!Folder, Find!New, Find!Walking
<1>3. /\ popped \in FindWalks /\ f \in FindFolders /\ popped.visited = x2.visited \cup {f}
      /\ popped.read = x2.read /\ popped.partial = x2.partial /\ popped.unreadable = x2.unreadable
      /\ popped.scanned = x2.scanned /\ FindKnown(x2) \subseteq FindKnown(popped)
  BY <1>1, <1>2, FindPops
<1>4. /\ x2' = [popped EXCEPT !.folders = @ \o more,
                              !.read = @ \cup (jobs \ denied),
                              !.scanned = @ + Len(taken),
                              !.unreadable = @ \/ denied # {},
                              !.partial = @ \/ vague # {} \/ Len(taken) < Len(list)]
  BY DEF Find!Folder, FindJobs
<1>5. JobBudget \in Nat /\ x2.scanned \in Nat /\ x2.scanned < JobBudget
  BY <1>1, <1>2, PartsAssumption DEF Find!Walking, FindWalks
<1>6. list \in Seq(FindEntries) /\ x1 \in FindTrees /\ x4 \in FindTrees
  BY <1>1, <1>3, FindTreesTyped DEF FindTrees
<1> HIDE DEF popped, list, more, f
<1>7. /\ some \in 0..Len(list) /\ x2.scanned + some \in 0..JobBudget
      /\ taken \in Seq(FindEntries) /\ Len(taken) = some
      /\ \A i \in 1..some : taken[i] = list[i]
  <2>1. some \in Nat /\ some <= Len(list) /\ some <= room
    BY <1>5, <1>6
  <2> HIDE DEF some
  <2>2. x2.scanned + some \in 0..JobBudget
    BY <1>5, <2>1
  <2>3. taken \in Seq(FindEntries) /\ Len(taken) = some
    BY <1>6, <2>1
  <2>4. \A i \in 1..some : taken[i] = list[i]
    BY <1>6, <2>1
  <2> QED
    BY <1>6, <2>1, <2>2, <2>3, <2>4
<1> HIDE DEF some, taken
<1>8. /\ more \in Seq(FindFolders)
      /\ \A i \in DOMAIN taken : taken[i] \in FindFolders => \E k \in DOMAIN more : more[k] = taken[i]
  BY <1>7, FoldersOfList DEF more
<1>9. /\ x2' \in FindWalks
      /\ x2'.visited = x2.visited \cup {f}
      /\ x2'.read = x2.read \cup (jobs \ denied)
      /\ x2'.folders = popped.folders \o more
      /\ x2'.unreadable = (x2.unreadable \/ denied # {})
      /\ x2'.partial = (x2.partial \/ vague # {} \/ Len(taken) < Len(list))
  <2> DEFINE folders    == popped.folders \o more
             read       == popped.read \cup (jobs \ denied)
             scanned    == popped.scanned + Len(taken)
             unreadable == popped.unreadable \/ denied # {}
             cut        == popped.partial \/ vague # {} \/ Len(taken) < Len(list)
             w1 == [popped EXCEPT !.folders = folders]
             w2 == [w1 EXCEPT !.read = read]
             w3 == [w2 EXCEPT !.scanned = scanned]
             w4 == [w3 EXCEPT !.unreadable = unreadable]
             w5 == [w4 EXCEPT !.partial = cut]
  <2>1. x2' = w5
    BY <1>3, <1>4 DEF FindWalks
  <2>2. /\ folders \in Seq(FindFolders) /\ read \in SUBSET FindJobs /\ scanned \in 0..JobBudget
        /\ unreadable \in BOOLEAN /\ cut \in BOOLEAN
    <3>1. popped.folders \in Seq(FindFolders) /\ popped.read \in SUBSET FindJobs
      BY <1>3 DEF FindWalks
    <3> QED
      BY <1>3, <1>7, <1>8, <3>1
  <2>3. /\ read = x2.read \cup (jobs \ denied) /\ unreadable = (x2.unreadable \/ denied # {})
        /\ cut = (x2.partial \/ vague # {} \/ Len(taken) < Len(list))
    BY <1>3
  <2> HIDE DEF folders, read, scanned, unreadable, cut
  <2>4. w1 \in FindWalks /\ w1.folders = folders /\ w1.visited = popped.visited
    BY <1>3, <2>2 DEF FindWalks
  <2> HIDE DEF w1
  <2>5. w2 \in FindWalks /\ w2.folders = folders /\ w2.visited = popped.visited /\ w2.read = read
    BY <2>2, <2>4 DEF FindWalks
  <2> HIDE DEF w2
  <2>6. w3 \in FindWalks /\ w3.folders = folders /\ w3.visited = popped.visited /\ w3.read = read
    BY <2>2, <2>5 DEF FindWalks
  <2> HIDE DEF w3
  <2>7. w4 \in FindWalks /\ w4.folders = folders /\ w4.visited = popped.visited /\ w4.read = read
        /\ w4.unreadable = unreadable
    BY <2>2, <2>6 DEF FindWalks
  <2> HIDE DEF w4
  <2>8. w5 \in FindWalks /\ w5.folders = folders /\ w5.visited = popped.visited /\ w5.read = read
        /\ w5.unreadable = unreadable /\ w5.partial = cut
    BY <2>2, <2>7 DEF FindWalks
  <2>9. folders = popped.folders \o more
    BY DEF folders
  <2> QED
    BY <1>3, <2>1, <2>3, <2>8, <2>9
<1>10. /\ \A e \in FindKnown(popped) : e \in FindKnown(x2')
       /\ \A k \in DOMAIN more : more[k] \in FindKnown(x2')
  <2>1. popped.folders \in Seq(FindFolders)
    BY <1>3 DEF FindWalks
  <2> DEFINE q == popped.folders  a == Len(q)
  <2>2. a \in Nat /\ DOMAIN q = 1..a /\ DOMAIN more = 1..Len(more) /\ Len(more) \in Nat
    BY <1>8, <2>1
  <2>3. \A i \in DOMAIN q : i \in DOMAIN (q \o more) /\ (q \o more)[i] = q[i]
    BY <1>8, <2>1
  <2>4. \A k \in DOMAIN more : a + k \in DOMAIN (q \o more) /\ (q \o more)[a + k] = more[k]
    BY <1>8, <2>1
  <2>5. x2'.folders = q \o more /\ x2'.visited = popped.visited
    BY <1>3, <1>9
  <2> HIDE DEF q, a
  <2>6. FindKnown(popped) = popped.visited \cup {q[i] : i \in DOMAIN q}
    BY DEF FindKnown, q
  <2> QED
    BY <2>3, <2>4, <2>5, <2>6 DEF FindKnown
<1>11. FindWalked(x2', x4)
  <2> SUFFICES ASSUME ~x2'.partial, ~x2'.unreadable
               PROVE  /\ root \in FindKnown(x2')
                      /\ \A g \in x2'.visited : \A i \in DOMAIN x4[g] :
                           /\ x4[g][i] \in FindFolders => x4[g][i] \in FindKnown(x2')
                           /\ x4[g][i] \in FindJobs => x4[g][i] \in x2'.read
    BY DEF FindWalked
  <2>1. ~x2.partial /\ ~x2.unreadable /\ denied = {} /\ ~(Len(taken) < Len(list))
    BY <1>9
  <2>2. some = Len(list)
    BY <1>6, <1>7, <2>1
  <2>3. /\ root \in FindKnown(x2)
        /\ \A g \in x2.visited : \A i \in DOMAIN x4[g] :
             /\ x4[g][i] \in FindFolders => x4[g][i] \in FindKnown(x2)
             /\ x4[g][i] \in FindJobs => x4[g][i] \in x2.read
    <3>1. FindWalked(x2, x4)
      BY FindWalkedSame DEF Find!Inv
    <3> QED
      BY <2>1, <3>1 DEF FindWalked
  <2>4. \A e \in FindKnown(x2) : e \in FindKnown(x2')
    BY <1>3, <1>10
  <2>5. ASSUME NEW i \in DOMAIN x4[f]
        PROVE  /\ x4[f][i] \in FindFolders => x4[f][i] \in FindKnown(x2')
               /\ x4[f][i] \in FindJobs => x4[f][i] \in x2'.read
    <3>1. Len(x4[f]) <= Len(list) /\ list[i] = x4[f][i]
      BY <1>3 DEF Find!Inv, Find!Grown, FindFolders, list
    <3>2. x4[f] \in Seq(FindEntries)
      BY <1>3, <1>6 DEF FindTrees
    <3>3. i \in 1..Len(list)
      BY <1>6, <3>1, <3>2
    <3>4. i \in DOMAIN taken /\ taken[i] = x4[f][i]
      BY <1>7, <2>2, <3>1, <3>3
    <3>5. x4[f][i] \in FindJobs => x4[f][i] \in x2'.read
      BY <1>9, <2>1, <3>4
    <3> QED
      BY <1>8, <1>10, <3>4, <3>5
  <2> QED
    BY <1>9, <2>3, <2>4, <2>5
<1>12. Find!TypeOK'
  BY <1>1, <1>2, <1>9 DEF Find!TypeOK, FindWalks, FindFolders, FindJobs
<1>13. Find!Walked'
  BY <1>1, <1>11 DEF Find!Walked, Find!Queued, FindWalked, FindKnown, FindFolders, FindJobs
<1> QED
  BY <1>1, <1>2, <1>12, <1>13 DEF Find!Inv, Find!Grown

LEMMA FindReports ==
  ASSUME Find!Inv, Find!Report
  PROVE  Find!Inv'
<1>1. UNCHANGED <<x1, x2, x4>> /\ x3' = IF Find!Incomplete(x2) THEN "partial" ELSE "whole"
  BY DEF Find!Report
<1>2. Find!Incomplete(x2)' <=> Find!Incomplete(x2)
  BY <1>1 DEF Find!Incomplete
<1>3. Find!TypeOK'
  BY <1>1 DEF Find!Inv, Find!TypeOK
<1>4. Find!Walked'
  BY <1>1 DEF Find!Inv, Find!Walked, Find!Queued
<1>5. Find!Grown'
  BY <1>1 DEF Find!Inv, Find!Grown
<1> QED
  BY <1>1, <1>2, <1>3, <1>4, <1>5 DEF Find!Inv

\* What is added to a folder comes after what it had.
LEMMA FindChanges ==
  ASSUME Find!Inv, NEW f \in FindFolders, NEW e \in FindEntries, Find!Change(f, e)
  PROVE  Find!Inv'
<1>1. /\ UNCHANGED <<x2, x3, x4>> /\ x3 = "no" /\ x1' \in Trees
      /\ x1' = [x1 EXCEPT ![f] = Append(x1[f], e)]
  BY DEF Find!Change
<1>2. x1 \in FindTrees /\ x4 \in FindTrees
  BY FindTyped, FindTreesTyped DEF Find!Inv
<1>3. Find!TypeOK'
  BY <1>1 DEF Find!Inv, Find!TypeOK
<1>4. Find!Walked'
  BY <1>1 DEF Find!Inv, Find!Walked, Find!Queued
<1>5. ASSUME NEW g \in FindFolders
      PROVE  /\ Len(x4[g]) <= Len(x1'[g])
             /\ \A i \in DOMAIN x4[g] : x1'[g][i] = x4[g][i]
  <2>1. x1[g] \in Seq(FindEntries) /\ x4[g] \in Seq(FindEntries)
    BY <1>2 DEF FindTrees
  <2>2. Len(x4[g]) <= Len(x1[g]) /\ \A i \in DOMAIN x4[g] : x1[g][i] = x4[g][i]
    BY DEF Find!Inv, Find!Grown, FindFolders
  <2>3. x1'[g] = IF g = f THEN Append(x1[g], e) ELSE x1[g]
    BY <1>1, <1>2 DEF FindTrees
  <2>4. Len(Append(x1[g], e)) = Len(x1[g]) + 1
        /\ \A i \in 1..Len(x1[g]) : Append(x1[g], e)[i] = x1[g][i]
    BY <2>1
  <2>5. \A i \in DOMAIN x4[g] : i \in 1..Len(x1[g])
    BY <2>1, <2>2
  <2> QED
    BY <2>1, <2>2, <2>3, <2>4, <2>5
<1>6. Find!Grown'
  BY <1>1, <1>5 DEF Find!Grown, FindFolders
<1> QED
  BY <1>1, <1>3, <1>4, <1>6 DEF Find!Inv

LEMMA FindKept ==
  ASSUME Find!Inv, [Find!Next]_(Find!vars)
  PROVE  Find!Inv'
<1>1. CASE UNCHANGED Find!vars
  BY <1>1 DEF Find!vars, Find!Inv, Find!TypeOK, Find!Grown, Find!Walked, Find!Queued, Find!Incomplete
<1>2. CASE \E denied, vague \in SUBSET FindJobs : Find!Folder(denied, vague)
  BY <1>2, FindReads
<1>3. CASE \E f \in FindFolders, e \in FindEntries : Find!Change(f, e)
  BY <1>3, FindChanges
<1>4. FindFolders \cup FindJobs = FindEntries
  BY DEF FindFolders, FindJobs, FindEntries
<1>5. Find!Entries = FindEntries
  BY DEF FindEntries, Find!Entries
<1>6. CASE Find!Again \/ Find!FolderUnreadable \/ Find!Report
  BY <1>6, FindSkips, FindReports
<1> QED
  BY <1>1, <1>2, <1>3, <1>5, <1>6 DEF Find!Next, FindFolders, FindJobs

LEMMA FindBegins ==
  ASSUME Find!Init
  PROVE  Find!Inv
<1>1. /\ x1 \in Trees /\ x4 = x1 /\ x3 = "no"
      /\ x2 = [folders |-> <<root>>, visited |-> {}, read |-> {}, scanned |-> 0,
               partial |-> FALSE, unreadable |-> FALSE]
  BY DEF Find!Init
<1>2. <<root>> \in Seq(FindFolders) /\ 0 \in 0..JobBudget
  BY PartsAssumption DEF FindFolders
<1>3. x2 \in FindWalks /\ x2.visited = {} /\ x2.folders = <<root>>
  BY <1>1, <1>2 DEF FindWalks
<1>4. root \in FindKnown(x2)
  <2>1. 1 \in DOMAIN <<root>> /\ <<root>>[1] = root
    OBVIOUS
  <2> QED
    BY <1>3, <2>1 DEF FindKnown
<1>5. FindWalked(x2, x4)
  BY <1>3, <1>4 DEF FindWalked
<1>6. Find!Grown
  <2>1. ASSUME NEW f \in FindFolders
        PROVE  Len(x4[f]) <= Len(x1[f]) /\ \A i \in DOMAIN x4[f] : x1[f][i] = x4[f][i]
    <3>1. x1[f] \in Seq(FindEntries)
      BY <1>1, FindTreesTyped DEF FindTrees
    <3> QED
      BY <1>1, <3>1
  <2> QED
    BY <2>1 DEF Find!Grown, FindFolders
<1> QED
  BY <1>1, <1>3, <1>5, <1>6, FindTyped, FindWalkedSame DEF Find!Inv

\* With nothing in the queue, what was visited has every folder that can be reached.
LEMMA FindMarks ==
  ASSUME Find!Inv
  PROVE  Find!CutIsMarked
<1> SUFFICES ASSUME x3 = "whole", NEW f \in Find!Reachable, NEW i \in DOMAIN x4[f],
                    x4[f][i] \in FindJobs
             PROVE  x4[f][i] \in x2.read
  BY DEF Find!CutIsMarked, FindJobs
<1>1. ~Find!Incomplete(x2)
  BY DEF Find!Inv
<1>2. ~x2.partial /\ ~x2.unreadable /\ x2.folders = <<>>
  BY <1>1 DEF Find!Incomplete
<1>3. FindKnown(x2) = x2.visited
  <2>1. DOMAIN x2.folders = {}
    BY <1>2
  <2> QED
    BY <2>1 DEF FindKnown
<1>4. /\ root \in x2.visited
      /\ \A g \in x2.visited : \A j \in DOMAIN x4[g] :
           /\ x4[g][j] \in FindFolders => x4[g][j] \in x2.visited
           /\ x4[g][j] \in FindJobs => x4[g][j] \in x2.read
  <2>1. FindWalked(x2, x4)
    BY FindWalkedSame DEF Find!Inv
  <2> QED
    BY <1>2, <1>3, <2>1 DEF FindWalked
<1>5. x2.visited \in SUBSET FindFolders
  BY FindTyped DEF Find!Inv, FindWalks
<1>6. Find!Closed(x2.visited)
  BY <1>4 DEF Find!Closed, FindFolders
<1>7. f \in x2.visited
  BY <1>5, <1>6 DEF Find!Reachable, FindFolders
<1> QED
  BY <1>4, <1>7

-----------------------------------------------------------------------------
(* What a bounded read returns *)

SqlInv == part = "sql" => Sql!Inv
ScanInv == part = "scan" => Scan!Inv
FindInv == part = "find" => Find!Inv

\* Of the keys of a Redis, the rows of a database and the jobs of a Jenkins, a result that
\* is not marked has all, for any bounds: for keys, unless a pattern was given up after its
\* rounds.
THEOREM CutsAreMarked == PartsSpec => []CutIsMarked
<1>1. PartsInit => SqlInv /\ ScanInv /\ FindInv
  BY SqlBegins, ScanBegins, FindBegins DEF PartsInit, SqlInv, ScanInv, FindInv
<1>2. SqlInv /\ ScanInv /\ FindInv /\ [PartsNext]_all => (SqlInv /\ ScanInv /\ FindInv)'
  <2> SUFFICES ASSUME SqlInv, ScanInv, FindInv, [PartsNext]_all
               PROVE  (SqlInv /\ ScanInv /\ FindInv)'
    OBVIOUS
  <2>1. SqlInv'
    BY SqlMoves, SqlKept DEF SqlInv
  <2>2. ScanInv'
    BY ScanMoves, ScanKept DEF ScanInv
  <2>3. FindInv'
    BY FindMoves, FindKept DEF FindInv
  <2> QED
    BY <2>1, <2>2, <2>3
<1>3. SqlInv /\ ScanInv /\ FindInv => CutIsMarked
  BY ScanMarks, FindMarks DEF SqlInv, ScanInv, FindInv, CutIsMarked, Sql!Inv, Sql!CutIsMarked
<1> QED
  BY <1>1, <1>2, <1>3, PTL DEF PartsSpec

-----------------------------------------------------------------------------
(* JenkinsLog *)

LogLog == [size : Seq(1..MaxSize), open : BOOLEAN]

\* The logs that there are.
LogOK(l) == l \in LogLog /\ Len(l.size) <= MaxLines /\ (l.open => l.size # <<>>)

LEMMA LogMoves ==
  ASSUME [PartsNext]_all, part' = "log"
  PROVE  part = "log" /\ [Log!Next]_(Log!vars)
BY DEF PartsNext, Chosen, all, others, Log!vars

LEMMA LogBounds ==
  /\ MaxBuild \in Nat \ {0} /\ MaxLines \in Nat \ {0} /\ MaxSize \in Nat \ {0}
  /\ \A limit \in Limits : limit \in Nat
BY PartsAssumption

LEMMA LogCardinality ==
  ASSUME NEW S
  PROVE  Log!Cardinality(S) = Cardinality(S)
BY DEF Log!Cardinality, Cardinality

\* A set of lines from a to b.
LEMMA LogCounts ==
  ASSUME NEW a \in Nat, NEW b \in Nat, NEW S \in SUBSET ((a + 1)..b)
  PROVE  /\ Cardinality(S) \in Nat
         /\ Cardinality(S) = 0 \/ a + Cardinality(S) <= b
<1>1. a + 1 \in Int /\ b \in Int
  OBVIOUS
<1>2. IsFiniteSet((a + 1)..b) /\ Cardinality((a + 1)..b) = IF a + 1 > b THEN 0 ELSE b - (a + 1) + 1
  BY <1>1, FS_Interval
<1>3. Cardinality(S) \in Nat /\ Cardinality(S) <= Cardinality((a + 1)..b)
  BY <1>2, FS_Subset, FS_CardinalityType
<1> QED
  BY <1>2, <1>3

\* What a scan yields are lines of the log; the one being written only at the end.
LEMMA LogVisible ==
  ASSUME NEW l, LogOK(l)
  PROVE  /\ Log!Visible(l) \in 0..Len(l.size)
         /\ l.open /\ Log!Visible(l) = Len(l.size) => Log!Whole(l)
<1> DEFINE n == Len(l.size)
           S == {i \in DOMAIN l.size : Log!Offset(l, i) <= ScanBudget
                                         /\ (l.open /\ i = n => Log!Whole(l))}
<1>1. Log!Visible(l) = Cardinality(S)
  BY LogCardinality DEF Log!Visible
<1>2. n \in Nat /\ DOMAIN l.size = 1..n /\ (l.open => n \in 1..n)
  BY DEF LogOK, LogLog
<1>3. S \in SUBSET (1..n)
  BY <1>2
<1>4. l.open /\ n \in S => Log!Whole(l)
  OBVIOUS
<1> HIDE DEF S, n
<1>5. IsFiniteSet(1..n) /\ Cardinality(1..n) = n
  BY <1>2, FS_Interval
<1>6. Cardinality(S) \in Nat /\ Cardinality(S) <= n /\ (Cardinality(S) = n => S = 1..n)
  BY <1>3, <1>5, FS_Subset, FS_CardinalityType
<1> QED
  BY <1>1, <1>2, <1>4, <1>6 DEF n

LEMMA LogReread ==
  ASSUME NEW position \in Nat, NEW scanned \in Nat, NEW unfinished \in BOOLEAN
  PROVE  /\ Log!Reread(position, scanned, unfinished) \in 0..position
         /\ unfinished /\ position = scanned /\ position > 0 =>
              Log!Reread(position, scanned, unfinished) = position - 1
BY DEF Log!Reread, Log!Larger

\* A page read on: lines that it passes are returned, and it does not pass the last line
\* while that is written.
LEMMA LogForward ==
  ASSUME NEW l, LogOK(l), NEW skip \in Nat, NEW limit \in Nat, ~Log!Forward(l, skip, limit).fails
  PROVE  LET page == Log!Forward(l, skip, limit)
         IN  /\ page.first = skip + 1 /\ page.end \in Nat /\ page.position \in Nat
             /\ page.end = skip \/ (skip < page.end /\ page.end <= Len(l.size))
             /\ page.position <= Len(l.size) \/ page.position <= skip
             /\ \A i \in Nat : skip < i /\ i <= page.position =>
                                 i <= page.end /\ (l.open => i < Len(l.size))
<1> DEFINE n       == Len(l.size)
           visible == Log!Visible(l)
           fit     == {i \in (skip + 1)..visible :
                         i - skip <= limit /\ Log!Measure(l, skip + 1, i) <= PageBudget}
           count   == Cardinality(fit)
           end     == skip + count
           full    == count = limit
           over    == ~full /\ end < visible
           scanned == IF full \/ over THEN end ELSE visible
           reached == IF over THEN end + 1 ELSE scanned
           at      == IF count > 0 THEN end ELSE Log!Larger(scanned, skip)
           open    == Log!Whole(l) /\ l.open /\ reached = visible
           position == Log!Reread(at, scanned, open)
<1>1. /\ Log!Forward(l, skip, limit).first = skip + 1 /\ Log!Forward(l, skip, limit).end = end
      /\ Log!Forward(l, skip, limit).fails = (count = 0 /\ over)
      /\ Log!Forward(l, skip, limit).position = position
  BY DEF Log!Forward, Log!Cardinality, Cardinality
<1>2. visible \in 0..n /\ (l.open /\ visible = n => Log!Whole(l)) /\ n \in Nat
      /\ (l.open => n > 0) /\ l.open \in BOOLEAN
  BY LogVisible DEF LogOK, LogLog
<1> HIDE DEF visible
<1>3. fit \in SUBSET ((skip + 1)..visible)
  OBVIOUS
<1> HIDE DEF fit, n
<1>15. visible \in Nat /\ visible <= n
  BY <1>2
<1>4. count \in Nat /\ (count = 0 \/ skip + count <= visible)
  BY <1>3, <1>15, LogCounts
<1> HIDE DEF count
<1>5. end \in Nat /\ scanned \in Nat /\ reached \in Nat /\ open \in BOOLEAN
  BY <1>2, <1>4 DEF Log!Whole
<1>6. at \in Nat /\ (count > 0 => at = end) /\ (count = 0 => at = Log!Larger(scanned, skip))
  <2> HIDE DEF end, scanned
  <2> QED
    BY <1>4, <1>5 DEF Log!Larger
<1>7. ~(count = 0 /\ over)
  BY <1>1
<1>8. count = 0 => end = skip /\ at = skip
  <2>1. ASSUME count = 0 PROVE end = skip /\ scanned <= skip
    BY <1>2, <1>4, <1>7, <2>1
  <2> HIDE DEF end, scanned
  <2> QED
    BY <1>5, <1>6, <2>1 DEF Log!Larger
<1>9. at <= n \/ at <= skip
  BY <1>2, <1>4, <1>6, <1>8
<1>10. count > 0 /\ l.open /\ end = n => at = scanned /\ open
  <2>1. ASSUME count > 0, l.open, end = n PROVE at = scanned /\ open
    <3>1. visible = n /\ end = visible
      BY <1>2, <1>4, <2>1
    <3>2. ~over /\ scanned = end /\ reached = visible
      BY <1>2, <3>1
    <3> QED
      BY <1>2, <1>6, <2>1, <3>1, <3>2
  <2> QED
    BY <2>1
<1>11. end = skip \/ (skip < end /\ end <= n)
  <2>1. CASE count = 0
    BY <1>8, <2>1
  <2>2. CASE count # 0
    <3>1. skip < skip + count /\ skip + count <= n
      BY <1>2, <1>4, <1>15, <2>2
    <3> QED
      BY <3>1
  <2> QED
    BY <2>1, <2>2
<1> HIDE DEF at, scanned, open, end
<1>12. /\ position \in 0..at
       /\ open /\ at = scanned /\ at > 0 => position = at - 1
  BY <1>5, <1>6, LogReread
<1> HIDE DEF position
<1>13. ASSUME NEW i \in Nat, skip < i, i <= position PROVE i <= end /\ (l.open => i < n)
  <2>1. count > 0 /\ at = end
    BY <1>4, <1>6, <1>8, <1>12, <1>13
  <2>2. i <= end
    BY <1>5, <1>12, <1>13, <2>1
  <2>3. ASSUME l.open, i >= n PROVE FALSE
    BY <1>2, <1>5, <1>10, <1>11, <1>12, <1>13, <2>1, <2>2, <2>3
  <2> QED
    BY <1>2, <2>2, <2>3
<1>14. position \in Nat /\ (position <= n \/ position <= skip)
  BY <1>2, <1>6, <1>9, <1>12
<1> QED
  BY <1>1, <1>5, <1>11, <1>13, <1>14 DEF n

\* A page of the end of a log begins and ends with lines of it.
LEMMA LogBackward ==
  ASSUME NEW l, LogOK(l), NEW wanted \in Nat, NEW limit \in Nat
  PROVE  LET page == Log!Backward(l, wanted, limit)
         IN  /\ page.end \in 0..Len(l.size) /\ page.first \in 1..(Len(l.size) + 1)
             /\ page.position \in 0..page.end
             /\ l.open /\ page.end = Len(l.size) => page.position < Len(l.size)
             /\ \A i \in Nat : i <= page.position => i <= page.end
<1> DEFINE n       == Len(l.size)
           visible == Log!Visible(l)
           start   == Log!Larger(0, visible - wanted)
           rows    == {i \in (start + 1)..visible :
                         i <= start + limit /\ Log!Measure(l, i, visible) <= PageBudget}
           first   == IF rows = {} THEN visible + 1 ELSE CHOOSE i \in rows : \A j \in rows : i <= j
           end     == IF rows = {} THEN visible ELSE CHOOSE i \in rows : \A j \in rows : i >= j
           position == Log!Reread(end, visible, l.open)
<1>1. /\ Log!Backward(l, wanted, limit).first = first /\ Log!Backward(l, wanted, limit).end = end
      /\ Log!Backward(l, wanted, limit).position = position
  BY DEF Log!Backward
<1>2. visible \in 0..n /\ n \in Nat /\ (l.open => n > 0) /\ l.open \in BOOLEAN
  BY LogVisible DEF LogOK, LogLog
<1>3. start \in Nat
  BY <1>2 DEF Log!Larger
<1> HIDE DEF visible, start, n
<1>4. \A i \in rows : i \in 1..visible
  <2>1. visible \in Nat
    BY <1>2
  <2> QED
    BY <1>3, <2>1
<1> HIDE DEF rows
<1>5. CASE rows # {}
  <2>1. PICK i \in rows : \A j \in rows : i <= j
    <3>1. rows \in SUBSET Nat
      BY <1>2, <1>4
    <3> QED
      BY <1>5, <3>1, LeastNatural
  <2>2. PICK k \in rows : \A j \in rows : k >= j
    <3>1. visible \in Nat /\ rows \in SUBSET (0..visible)
      BY <1>2, <1>4
    <3> QED
      BY <1>5, <3>1, GreatestNatural
  <2>3. first \in rows /\ end \in rows
    BY <1>5, <2>1, <2>2
  <2> HIDE DEF first, end
  <2>4. first \in 1..visible /\ end \in 1..visible
    BY <1>4, <2>3
  <2>5. /\ position \in 0..end
        /\ l.open /\ end = visible => position = end - 1
    <3>1. end \in Nat /\ end > 0 /\ visible \in Nat
      BY <1>2, <2>4
    <3> QED
      BY <1>2, <3>1, LogReread
  <2> HIDE DEF position
  <2> QED
    BY <1>1, <1>2, <2>4, <2>5 DEF n
<1>6. CASE rows = {}
  <2>1. first = visible + 1 /\ end = visible
    BY <1>6
  <2> HIDE DEF first, end
  <2>2. /\ position \in 0..end
        /\ l.open /\ end = visible /\ end > 0 => position = end - 1
    BY <1>2, <2>1, LogReread
  <2> HIDE DEF position
  <2> QED
    BY <1>1, <1>2, <2>1, <2>2 DEF n
<1> QED
  BY <1>5, <1>6

LogBuilds == 1..MaxBuild
LogSeen   == [1..MaxLines -> 0..MaxSize]

LEMMA LogTyped ==
  Log!TypeOK <=> /\ x1 \in LogBuilds /\ x2 \in [LogBuilds -> LogLog] /\ \A b \in LogBuilds : LogOK(x2[b])
                 /\ x3 \in [build : LogBuilds, position : 0..MaxLines] \cup {None}
                 /\ x4 \in 0..MaxLines /\ x5 \in LogSeen
BY DEF Log!TypeOK, Log!Builds, Log!Lines, LogBuilds, LogSeen, LogLog, LogOK

\* What makes a page one of build b that skips nothing, for a client that began at "from".
LogFits(b, page, before, from) ==
  /\ page.position \in 0..MaxLines /\ page.position <= Log!Larger(Len(x2[b].size), from)
  /\ \A i \in page.first..page.end : i \in DOMAIN x2[b].size
  /\ \A i \in DOMAIN x2[b].size :
       from < i /\ i <= page.position =>
         /\ i \in page.first..page.end \/ before[i] = x2[b].size[i]
         /\ x2[b].open => i < Len(x2[b].size)

LEMMA ElementTyped ==
  ASSUME NEW S, NEW s \in Seq(S), NEW i \in DOMAIN s
  PROVE  s[i] \in S
OBVIOUS

LEMMA LogPages ==
  ASSUME Log!Inv, NEW b \in LogBuilds, NEW page, NEW before \in LogSeen, Log!Page(b, page, before),
         x4' \in 0..MaxLines, LogFits(b, page, before, x4')
  PROVE  Log!Inv'
<1>1. /\ x1 \in LogBuilds /\ x2 \in [LogBuilds -> LogLog] /\ LogOK(x2[b])
      /\ \A c \in LogBuilds : LogOK(x2[c])
  BY LogTyped DEF Log!Inv
<1>2. /\ x3' = [build |-> b, position |-> page.position] /\ UNCHANGED <<x1, x2>>
      /\ x5' = [i \in 1..MaxLines |-> IF i \in page.first..page.end THEN x2[b].size[i] ELSE before[i]]
  BY DEF Log!Page, Log!Lines
<1>3. x3' \in [build : LogBuilds, position : 0..MaxLines] /\ x3'.build = b /\ x3'.position = page.position
  BY <1>2 DEF LogFits
<1>4. x2[b].size \in Seq(1..MaxSize) /\ Len(x2[b].size) <= MaxLines
  BY <1>1 DEF LogOK, LogLog
<1>5. x5' \in LogSeen
  <2>1. ASSUME NEW i \in 1..MaxLines, i \in page.first..page.end PROVE x2[b].size[i] \in 0..MaxSize
    <3>1. i \in DOMAIN x2[b].size
      BY <2>1 DEF LogFits
    <3>2. x2[b].size[i] \in 1..MaxSize
      BY <1>4, <3>1, ElementTyped
    <3> QED
      BY <3>2, LogBounds
  <2>2. ASSUME NEW i \in 1..MaxLines PROVE before[i] \in 0..MaxSize
    BY DEF LogSeen
  <2> QED
    BY <1>2, <2>1, <2>2 DEF LogSeen
<1>6. \A c \in LogBuilds : LogOK(x2'[c])
  BY <1>1, <1>2 DEF LogOK
<1>7. Log!TypeOK'
  BY <1>1, <1>2, <1>3, <1>5, <1>6
     DEF Log!TypeOK, Log!Builds, Log!Lines, LogBuilds, LogSeen, LogLog, LogOK
<1>8. Log!NotAhead'
  BY <1>2, <1>3 DEF Log!NotAhead, LogFits, Log!Larger
<1>9. Log!NothingSkipped'
  <2> SUFFICES ASSUME NEW i \in DOMAIN x2[b].size, x4' < i, i <= page.position
               PROVE  x5'[i] = x2[b].size[i] /\ (x2[b].open => i < Len(x2[b].size))
    BY <1>2, <1>3 DEF Log!NothingSkipped
  <2>1. i \in 1..MaxLines
    BY <1>4, LogBounds
  <2>2. /\ i \in page.first..page.end \/ before[i] = x2[b].size[i]
        /\ x2[b].open => i < Len(x2[b].size)
    BY DEF LogFits
  <2> QED
    BY <1>2, <2>1, <2>2
<1> QED
  BY <1>7, <1>8, <1>9 DEF Log!Inv

LEMMA LogUnseen == Log!Unseen \in LogSeen
BY LogBounds DEF Log!Unseen, Log!Lines, LogSeen

LEMMA LogReadsOn ==
  ASSUME Log!Inv, NEW limit \in Limits, Log!ReadOn(limit)
  PROVE  Log!Inv'
<1> DEFINE b    == x3.build
           l    == x2[b]
           page == Log!Forward(l, x3.position, limit)
<1>1. x3 \in [build : LogBuilds, position : 0..MaxLines] /\ x3 # None
  BY LogTyped DEF Log!Inv, Log!ReadOn
<1>2. b \in LogBuilds /\ x3.position \in Nat /\ x3.position <= MaxLines /\ limit \in Nat
  BY <1>1, LogBounds
<1>3. LogOK(l) /\ x4 \in 0..MaxLines /\ x5 \in LogSeen
  BY <1>2, LogTyped DEF Log!Inv
<1>4. ~page.fails /\ Log!Page(b, page, x5) /\ x4' = x4
  BY DEF Log!ReadOn
<1>5. Len(l.size) \in Nat /\ Len(l.size) <= MaxLines /\ DOMAIN l.size = 1..Len(l.size)
  BY <1>3 DEF LogOK, LogLog
<1>6. /\ x3.position <= Log!Larger(Len(l.size), x4)
      /\ \A i \in DOMAIN l.size :
           x4 < i /\ i <= x3.position => x5[i] = l.size[i] /\ (l.open => i < Len(l.size))
  BY <1>1 DEF Log!Inv, Log!NotAhead, Log!NothingSkipped
<1> HIDE DEF b
<1>7. /\ page.first = x3.position + 1 /\ page.end \in Nat /\ page.position \in Nat
      /\ page.end = x3.position \/ (x3.position < page.end /\ page.end <= Len(l.size))
      /\ page.position <= Len(l.size) \/ page.position <= x3.position
      /\ \A i \in Nat : x3.position < i /\ i <= page.position =>
                          i <= page.end /\ (l.open => i < Len(l.size))
  <2> HIDE DEF l
  <2> QED
    BY <1>2, <1>3, <1>4, LogForward
<1> HIDE DEF page, l
<1>8. LogFits(b, page, x5, x4)
  <2>1. page.position \in 0..MaxLines /\ page.position <= Log!Larger(Len(l.size), x4)
    BY <1>2, <1>3, <1>5, <1>6, <1>7, LogBounds DEF Log!Larger
  <2>2. \A i \in page.first..page.end : i \in DOMAIN l.size
    BY <1>2, <1>5, <1>7
  <2>3. ASSUME NEW i \in DOMAIN l.size, x4 < i, i <= page.position
        PROVE  /\ i \in page.first..page.end \/ x5[i] = l.size[i]
               /\ l.open => i < Len(l.size)
    <3>1. i \in Nat
      BY <1>5
    <3>2. CASE i <= x3.position
      BY <1>6, <2>3, <3>2
    <3>3. CASE ~(i <= x3.position)
      BY <1>2, <1>7, <2>3, <3>1, <3>3
    <3> QED
      BY <3>2, <3>3
  <2> QED
    BY <2>1, <2>2, <2>3 DEF LogFits, l
<1> QED
  BY <1>2, <1>3, <1>4, <1>8, LogPages

LEMMA LogReadsFrom ==
  ASSUME Log!Inv, NEW limit \in Limits, NEW skip \in 0..1, Log!ReadFrom(skip, limit)
  PROVE  Log!Inv'
<1> DEFINE l    == x2[x1]
           page == Log!Forward(l, skip, limit)
<1>1. x1 \in LogBuilds /\ LogOK(l) /\ skip \in Nat /\ skip <= MaxLines /\ limit \in Nat
  BY LogTyped, LogBounds DEF Log!Inv
<1>2. ~page.fails /\ Log!Page(x1, page, Log!Unseen) /\ x4' = skip
  BY DEF Log!ReadFrom
<1>3. Len(l.size) \in Nat /\ Len(l.size) <= MaxLines /\ DOMAIN l.size = 1..Len(l.size)
  BY <1>1 DEF LogOK, LogLog
<1>4. /\ page.first = skip + 1 /\ page.end \in Nat /\ page.position \in Nat
      /\ page.end = skip \/ (skip < page.end /\ page.end <= Len(l.size))
      /\ page.position <= Len(l.size) \/ page.position <= skip
      /\ \A i \in Nat : skip < i /\ i <= page.position =>
                          i <= page.end /\ (l.open => i < Len(l.size))
  <2> HIDE DEF l
  <2> QED
    BY <1>1, <1>2, LogForward
<1> HIDE DEF page, l
<1>5. LogFits(x1, page, Log!Unseen, skip)
  <2>1. page.position \in 0..MaxLines /\ page.position <= Log!Larger(Len(l.size), skip)
    BY <1>1, <1>3, <1>4, LogBounds DEF Log!Larger
  <2>2. \A i \in page.first..page.end : i \in DOMAIN l.size
    BY <1>1, <1>3, <1>4
  <2>3. ASSUME NEW i \in DOMAIN l.size, skip < i, i <= page.position
        PROVE  i \in page.first..page.end /\ (l.open => i < Len(l.size))
    <3>1. i \in Nat
      BY <1>3
    <3> QED
      BY <1>1, <1>4, <2>3, <3>1
  <2> QED
    BY <2>1, <2>2, <2>3 DEF LogFits, l
<1>6. skip \in 0..MaxLines
  BY <1>1, LogBounds
<1> QED
  BY <1>1, <1>2, <1>5, <1>6, LogPages, LogUnseen

LEMMA LogReadsTail ==
  ASSUME Log!Inv, NEW limit \in Limits, NEW wanted \in 1..2, Log!ReadTail(wanted, limit)
  PROVE  Log!Inv'
<1> DEFINE l    == x2[x1]
           page == Log!Backward(l, wanted, limit)
<1>1. x1 \in LogBuilds /\ LogOK(l) /\ wanted \in Nat /\ limit \in Nat
  BY LogTyped, LogBounds DEF Log!Inv
<1>2. /\ Log!Page(x1, page, Log!Unseen)
      /\ x4' = IF page.first <= page.end THEN page.first - 1 ELSE page.position
  BY DEF Log!ReadTail
<1>3. Len(l.size) \in Nat /\ Len(l.size) <= MaxLines /\ DOMAIN l.size = 1..Len(l.size)
  BY <1>1 DEF LogOK, LogLog
<1>4. /\ page.end \in 0..Len(l.size) /\ page.first \in 1..(Len(l.size) + 1)
      /\ page.position \in 0..page.end
      /\ l.open /\ page.end = Len(l.size) => page.position < Len(l.size)
  <2> HIDE DEF l
  <2> QED
    BY <1>1, LogBackward
<1> HIDE DEF page, l
<1>5. x4' \in 0..MaxLines
  BY <1>2, <1>3, <1>4, LogBounds
<1>6. LogFits(x1, page, Log!Unseen, x4')
  <2>1. page.position \in 0..MaxLines /\ page.position <= Len(l.size)
    BY <1>3, <1>4, LogBounds
  <2>2. page.position <= Log!Larger(Len(l.size), x4')
    BY <1>3, <1>5, <2>1 DEF Log!Larger
  <2>3. \A i \in page.first..page.end : i \in DOMAIN l.size
    BY <1>3, <1>4
  <2>4. ASSUME NEW i \in DOMAIN l.size, x4' < i, i <= page.position
        PROVE  i \in page.first..page.end /\ (l.open => i < Len(l.size))
    BY <1>2, <1>3, <1>4, <2>4
  <2> QED
    BY <2>1, <2>2, <2>3, <2>4 DEF LogFits, l
<1> QED
  BY <1>1, <1>2, <1>5, <1>6, LogPages, LogUnseen

\* Jenkins writes to the log of a build, which the client may have read in part.
LEMMA LogWrites ==
  ASSUME Log!Inv, NEW b \in LogBuilds, NEW l, LogOK(l), Log!Written(b, l),
         Len(x2[b].size) <= Len(l.size),
         x3 # None /\ x3.build = b =>
           \A i \in DOMAIN l.size :
             x4 < i /\ i <= x3.position => x5[i] = l.size[i] /\ (l.open => i < Len(l.size))
  PROVE  Log!Inv'
<1>1. /\ x2 \in [LogBuilds -> LogLog] /\ x3 \in [build : LogBuilds, position : 0..MaxLines] \cup {None}
      /\ \A c \in LogBuilds : LogOK(x2[c])
      /\ x1 \in LogBuilds /\ x4 \in 0..MaxLines /\ x5 \in LogSeen
  BY LogTyped DEF Log!Inv
<1>2. x2' = [x2 EXCEPT ![b] = l] /\ UNCHANGED <<x1, x3, x4, x5>>
  BY DEF Log!Written
<1>3. /\ x2' \in [LogBuilds -> LogLog] /\ x2'[b] = l
      /\ \A c \in LogBuilds : c # b => x2'[c] = x2[c]
  BY <1>1, <1>2 DEF LogOK
<1>4. \A c \in LogBuilds : LogOK(x2'[c])
  BY <1>1, <1>3 DEF LogOK
<1>5. Log!TypeOK'
  BY <1>1, <1>2, <1>3, <1>4
     DEF Log!TypeOK, Log!Builds, Log!Lines, LogBuilds, LogSeen, LogLog, LogOK
<1>6. Log!NotAhead'
  <2> SUFFICES ASSUME x3 # None
               PROVE  x3.position <= Log!Larger(Len(x2'[x3.build].size), x4)
    BY <1>2 DEF Log!NotAhead, Log!Larger
  <2>1. x3.position <= Log!Larger(Len(x2[x3.build].size), x4)
    BY DEF Log!Inv, Log!NotAhead
  <2>2. x3.build \in LogBuilds /\ x3.position \in Nat
    BY <1>1, LogBounds
  <2>3. /\ Len(x2[x3.build].size) \in Nat /\ Len(x2'[x3.build].size) \in Nat /\ x4 \in Nat
        /\ Len(x2[x3.build].size) <= Len(x2'[x3.build].size)
    <3>1. \A c \in LogBuilds : Len(x2[c].size) \in Nat /\ Len(x2'[c].size) \in Nat
      BY <1>1, <1>4 DEF LogOK, LogLog
    <3> QED
      BY <1>1, <1>3, <2>2, <3>1, LogBounds
  <2> QED
    BY <2>1, <2>2, <2>3 DEF Log!Larger
<1>7. Log!NothingSkipped'
  <2> SUFFICES ASSUME x3 # None, NEW i \in DOMAIN x2'[x3.build].size, x4 < i, i <= x3.position
               PROVE  /\ x5[i] = x2'[x3.build].size[i]
                      /\ x2'[x3.build].open => i < Len(x2'[x3.build].size)
    BY <1>2 DEF Log!NothingSkipped
  <2>1. CASE x3.build = b
    BY <1>3, <2>1
  <2>2. CASE x3.build # b
    <3>1. x3.build \in LogBuilds
      BY <1>1
    <3>2. x2'[x3.build] = x2[x3.build]
      BY <1>3, <2>2, <3>1
    <3> QED
      BY <3>2 DEF Log!Inv, Log!NothingSkipped
  <2> QED
    BY <2>1, <2>2
<1> QED
  BY <1>5, <1>6, <1>7 DEF Log!Inv

\* What the client has passed of the log of build b.
LEMMA LogPassed ==
  ASSUME Log!Inv, NEW b \in LogBuilds
  PROVE  /\ LogOK(x2[b]) /\ Len(x2[b].size) \in Nat /\ DOMAIN x2[b].size = 1..Len(x2[b].size)
         /\ x3 # None /\ x3.build = b =>
              /\ x3.position \in Nat /\ x4 \in Nat
              /\ x3.position <= Len(x2[b].size) \/ x3.position <= x4
              /\ \A i \in DOMAIN x2[b].size :
                   x4 < i /\ i <= x3.position =>
                     x5[i] = x2[b].size[i] /\ (x2[b].open => i < Len(x2[b].size))
<1>1. LogOK(x2[b]) /\ x3 \in [build : LogBuilds, position : 0..MaxLines] \cup {None} /\ x4 \in 0..MaxLines
  BY LogTyped DEF Log!Inv
<1>2. Len(x2[b].size) \in Nat /\ DOMAIN x2[b].size = 1..Len(x2[b].size)
  BY <1>1 DEF LogOK, LogLog
<1>3. ASSUME x3 # None, x3.build = b
      PROVE  /\ x3.position \in Nat /\ x4 \in Nat
             /\ x3.position <= Len(x2[b].size) \/ x3.position <= x4
             /\ \A i \in DOMAIN x2[b].size :
                  x4 < i /\ i <= x3.position =>
                    x5[i] = x2[b].size[i] /\ (x2[b].open => i < Len(x2[b].size))
  <2>1. x3.position \in Nat /\ x4 \in Nat
    BY <1>1, <1>3, LogBounds
  <2>2. x3.position <= Log!Larger(Len(x2[b].size), x4)
    BY <1>3 DEF Log!Inv, Log!NotAhead
  <2>3. x3.position <= Len(x2[b].size) \/ x3.position <= x4
    BY <1>2, <2>1, <2>2 DEF Log!Larger
  <2>4. \A i \in DOMAIN x2[b].size :
          x4 < i /\ i <= x3.position =>
            x5[i] = x2[b].size[i] /\ (x2[b].open => i < Len(x2[b].size))
    BY <1>3 DEF Log!Inv, Log!NothingSkipped
  <2> QED
    BY <2>1, <2>3, <2>4
<1> QED
  BY <1>1, <1>2, <1>3

LEMMA LogStarts ==
  ASSUME Log!Inv, NEW b \in LogBuilds, Log!StartLine(b)
  PROVE  Log!Inv'
<1> DEFINE n    == Len(x2[b].size)
           size == Append(x2[b].size, 1)
           l    == [size |-> size, open |-> TRUE]
<1>1. ~x2[b].open /\ n < MaxLines /\ Log!Written(b, l)
  BY DEF Log!StartLine
<1>2. x2[b].size \in Seq(1..MaxSize) /\ 1 \in 1..MaxSize /\ n \in Nat
  BY LogPassed, LogBounds DEF LogOK, LogLog
<1>3. /\ size \in Seq(1..MaxSize) /\ Len(size) = n + 1 /\ DOMAIN size = 1..(n + 1)
      /\ \A i \in 1..n : size[i] = x2[b].size[i]
  BY <1>2
<1> HIDE DEF size
<1>4. LogOK(l) /\ l.size = size
  <2>1. size # <<>>
    BY <1>2, <1>3
  <2> QED
    BY <1>1, <1>2, <1>3, <2>1, LogBounds DEF LogOK, LogLog
<1>5. ASSUME x3 # None, x3.build = b, NEW i \in DOMAIN size, x4 < i, i <= x3.position
      PROVE  x5[i] = size[i] /\ i < Len(size)
  <2>1. /\ x3.position \in Nat /\ x4 \in Nat
        /\ x3.position <= n \/ x3.position <= x4
        /\ \A j \in DOMAIN x2[b].size : x4 < j /\ j <= x3.position => x5[j] = x2[b].size[j]
        /\ DOMAIN x2[b].size = 1..n
    BY <1>5, LogPassed
  <2>2. i \in 1..n
    BY <1>2, <1>3, <1>5, <2>1
  <2> QED
    BY <1>2, <1>3, <1>5, <2>1, <2>2
<1>6. Len(x2[b].size) <= Len(l.size)
  BY <1>2, <1>3, <1>4
<1> QED
  BY <1>1, <1>4, <1>5, <1>6, LogWrites

LEMMA LogExtends ==
  ASSUME Log!Inv, NEW b \in LogBuilds, Log!Extend(b)
  PROVE  Log!Inv'
<1> DEFINE old  == x2[b]
           n    == Len(old.size)
           size == [old.size EXCEPT ![n] = old.size[n] + 1]
           l    == [old EXCEPT !.size = size]
<1>1. old.open /\ old.size[n] < MaxSize /\ Log!Written(b, l)
  BY DEF Log!Extend
<1>2. LogOK(old) /\ n \in Nat /\ DOMAIN old.size = 1..n
  BY LogPassed
<1>3. old.size \in Seq(1..MaxSize) /\ n \in 1..n
  BY <1>1, <1>2 DEF LogOK, LogLog
<1>4. old.size[n] + 1 \in 1..MaxSize
  BY <1>1, <1>2, <1>3, ElementTyped, LogBounds
<1>5. /\ size \in Seq(1..MaxSize) /\ Len(size) = n /\ DOMAIN size = 1..n
      /\ \A i \in 1..n : i # n => size[i] = old.size[i]
  BY <1>2, <1>3, <1>4
<1> HIDE DEF size
<1>6. LogOK(l) /\ l.size = size /\ l.open = old.open
  BY <1>2, <1>3, <1>5 DEF LogOK, LogLog
<1>7. ASSUME x3 # None, x3.build = b, NEW i \in DOMAIN size, x4 < i, i <= x3.position
      PROVE  x5[i] = size[i] /\ i < Len(size)
  <2>1. i \in 1..n /\ x5[i] = old.size[i] /\ i < n
    BY <1>1, <1>2, <1>5, <1>7, LogPassed
  <2> QED
    BY <1>5, <2>1
<1> HIDE DEF l
<1>8. Len(x2[b].size) <= Len(l.size)
  BY <1>2, <1>5, <1>6
<1> QED
  BY <1>1, <1>6, <1>7, <1>8, LogWrites

LEMMA LogEnds ==
  ASSUME Log!Inv, NEW b \in LogBuilds, Log!EndLine(b)
  PROVE  Log!Inv'
<1> DEFINE l == [x2[b] EXCEPT !.open = FALSE]
<1>1. Log!Written(b, l)
  BY DEF Log!EndLine
<1>2. LogOK(l) /\ l.size = x2[b].size /\ ~l.open
  BY LogPassed DEF LogOK, LogLog
<1> HIDE DEF l
<1>3. Len(x2[b].size) <= Len(l.size)
  BY <1>2, LogPassed
<1> QED
  BY <1>1, <1>2, <1>3, LogPassed, LogWrites

LEMMA LogKept ==
  ASSUME Log!Inv, [Log!Next]_(Log!vars)
  PROVE  Log!Inv'
<1>1. CASE Log!NewBuild
  <2>1. UNCHANGED <<x2, x3, x4, x5>> /\ x1' = x1 + 1 /\ x1 < MaxBuild
    BY <1>1 DEF Log!NewBuild
  <2>2. x1' \in Log!Builds
    BY <2>1, LogBounds DEF Log!Inv, Log!TypeOK, Log!Builds
  <2> QED
    BY <2>1, <2>2 DEF Log!Inv, Log!TypeOK, Log!NotAhead, Log!NothingSkipped
<1>2. CASE UNCHANGED Log!vars
  BY <1>2 DEF Log!vars, Log!Inv, Log!TypeOK, Log!NotAhead, Log!NothingSkipped
<1>3. CASE \E b \in LogBuilds : Log!StartLine(b) \/ Log!Extend(b) \/ Log!EndLine(b)
  BY <1>3, LogStarts, LogExtends, LogEnds
<1> QED
  BY <1>1, <1>2, <1>3, LogReadsOn, LogReadsFrom, LogReadsTail DEF Log!Next, Log!Builds, LogBuilds

LEMMA LogBegins ==
  ASSUME Log!Init
  PROVE  Log!Inv
<1>1. /\ x1 \in LogBuilds /\ x3 = None /\ x4 \in 0..MaxLines /\ x5 \in LogSeen
      /\ x2 = [b \in LogBuilds |-> [size |-> <<>>, open |-> FALSE]]
  BY LogBounds, LogUnseen DEF Log!Init, Log!Builds, LogBuilds
<1>2. LogOK([size |-> <<>>, open |-> FALSE])
  BY LogBounds DEF LogOK, LogLog
<1>3. x2 \in [LogBuilds -> LogLog] /\ \A b \in LogBuilds : LogOK(x2[b])
  BY <1>1, <1>2 DEF LogOK
<1> QED
  BY <1>1, <1>3, LogTyped DEF Log!Inv, Log!NotAhead, Log!NothingSkipped

LogInv == part = "log" => Log!Inv

\* A client that pages through a log, from the beginning or near its end, gets every line it
\* passes as the line finally reads, for any sizes of the lines and any budgets.
THEOREM NoLineIsSkipped == PartsSpec => []NothingSkipped
<1>1. PartsInit => LogInv
  BY LogBegins DEF PartsInit, LogInv
<1>2. LogInv /\ [PartsNext]_all => LogInv'
  BY LogMoves, LogKept DEF LogInv
<1>3. LogInv => NothingSkipped
  BY DEF LogInv, NothingSkipped, Log!Inv
<1> QED
  BY <1>1, <1>2, <1>3, PTL DEF PartsSpec

-----------------------------------------------------------------------------
(* Type correctness of every part; of the installer by Installer_proofs *)

LEMMA InsMoves ==
  ASSUME [PartsNext]_all, part' = "installer"
  PROVE  part = "installer" /\ [Next]_vars
BY DEF PartsNext, Chosen, all, installer, marks, vars

InstallerInv == part = "installer" => Inv

TypesInv ==
  /\ part \in Parts /\ InstallerInv
  /\ MirrorInv /\ AdmInv /\ LogInv /\ PodInv /\ JenInv /\ ManInv /\ ScanInv /\ FindInv /\ SqlInv

LEMMA AdmTyped == AdmP!Inv => Adm!TypeOK
BY DEF AdmP!Inv, AdmP!Shape, Adm!TypeOK, AdmP!Hashes, Adm!Hashes, AdmP!Rows, Adm!Rows, AdmP!Row

LEMMA GitTyped ==
  /\ GitP!Inv => Git!TypeOK
  /\ Git1P!Inv => Git1!TypeOK
BY DEF GitP!Inv, GitP!Shape, GitP!TypeOK, Git!TypeOK, Git1P!Inv, Git1P!Shape, Git1P!TypeOK, Git1!TypeOK,
   Git!Repo, Git!Commits, GitP!Repo, GitP!Commits, Git1!Repo, Git1!Commits, Git1P!Repo, Git1P!Commits,
   Git!SyncRow, Git!ReaderRow, GitP!SyncRow, GitP!ReaderRow,
   Git1!SyncRow, Git1!ReaderRow, Git1P!SyncRow, Git1P!ReaderRow,
   Git!Flags, GitP!Flags, Git1!Flags, Git1P!Flags, Git!Ages, GitP!Ages, Git1!Ages, Git1P!Ages

\* Every part keeps its variables in their types, and so within the bounds that the code
\* gives them.
THEOREM TypesAreKept == PartsSpec => []PartsTypeOK
<1>1. PartsInit => TypesInv
  <2>1. PartsInit => Inv
    BY InstallerAssumption, Initially DEF PartsInit
  <2>2. PartsInit => AdmInv
    BY AdmBegins
  <2>3. PartsInit => LogInv /\ PodInv /\ JenInv /\ ManInv /\ ScanInv /\ FindInv /\ SqlInv
    BY LogBegins, PodBegins, JenBegins, ManBegins, ScanBegins, FindBegins, SqlBegins
       DEF PartsInit, LogInv, PodInv, JenInv, ManInv, ScanInv, FindInv, SqlInv
  <2> QED
    BY <2>1, <2>2, <2>3, MirrorBegins DEF TypesInv, InstallerInv, PartsInit
<1>2. TypesInv /\ [PartsNext]_all => TypesInv'
  <2> SUFFICES ASSUME TypesInv, [PartsNext]_all PROVE TypesInv'
    OBVIOUS
  <2>1. part' \in Parts
    BY DEF TypesInv, PartsNext, Chosen, all
  <2>2. InstallerInv'
    BY InstallerAssumption, InsMoves, StepInv DEF TypesInv, InstallerInv
  <2>3. MirrorInv'
    BY MirrorKept DEF TypesInv
  <2>4. AdmInv'
    BY AdmStays DEF TypesInv
  <2>5. LogInv' /\ PodInv'
    BY LogMoves, LogKept, PodMoves, PodKept DEF TypesInv, LogInv, PodInv
  <2>6. JenInv' /\ ManInv'
    BY JenMoves, JenKept, ManMoves, ManKept DEF TypesInv, JenInv, ManInv
  <2>7. ScanInv' /\ FindInv' /\ SqlInv'
    BY ScanMoves, ScanKept, FindMoves, FindKept, SqlMoves, SqlKept DEF TypesInv, ScanInv, FindInv, SqlInv
  <2> QED
    BY <2>1, <2>2, <2>3, <2>4, <2>5, <2>6, <2>7 DEF TypesInv
<1>3. TypesInv => PartsTypeOK
  BY AdmTyped, GitTyped
     DEF TypesInv, InstallerInv, PartsTypeOK, Parts, MirrorInv, AdmInv, LogInv, PodInv,
         JenInv, ManInv, ScanInv, FindInv, SqlInv, Log!Inv, Pod!Inv, Jen!Inv, Man!Inv,
         Scan!Inv, Find!Inv, Sql!Inv, Inv
<1> QED
  BY <1>1, <1>2, <1>3, PTL DEF PartsSpec

=============================================================================
