-------------------------- MODULE WorkerPool_proofs --------------------------
(***************************************************************************)
(* The worker pool for every number of requests, workers and crashes: a    *)
(* result goes to the call it was computed for, a call is executed once,   *)
(* and a call that failed is not executed any more.                        *)
(***************************************************************************)
EXTENDS WorkerPool, FiniteSetTheorems, SequenceTheorems, TLAPS

-----------------------------------------------------------------------------
(* Types *)

Underway == {"waiting", "starting", "talking", "killing"}

\* stop is in the shutdown of a worker.
Leaving == {"flushing", "waiting"}

\* A call under way has a worker; stop waits for a worker that is in its list.
TypeInv ==
  /\ TypeOK
  /\ \A c \in Calls : call[c].pc \in Underway => call[c].at \in Workers
  /\ phase \in Leaving => rest # <<>>

LEMMA NamesDiffer == Exit \notin Calls /\ None \notin Calls /\ None \notin Workers /\ Exit # None
BY PoolAssumption DEF Calls, Workers

LEMMA NoProcessType == NoProcess \in Processes
BY DEF NoProcess, Processes, Lives

\* One field of a process, of a lock or of a call.
LEMMA ProcessFields ==
  ASSUME NEW p \in Processes
  PROVE  /\ \A x \in Lives : [p EXCEPT !.life = x] \in Processes
         /\ \A x \in BOOLEAN : [p EXCEPT !.guard = x] \in Processes
         /\ \A x \in BOOLEAN : [p EXCEPT !.asked = x] \in Processes
         /\ \A x \in Seq(Calls \cup {Exit}) : [p EXCEPT !.stdin = x] \in Processes
         /\ \A x \in Calls \cup {None} : [p EXCEPT !.doing = x] \in Processes
         /\ \A x \in Seq(Messages) : [p EXCEPT !.stdout = x] \in Processes
BY DEF Processes

LEMMA RowFields ==
  ASSUME NEW q \in CallRows
  PROVE  /\ \A x \in Points : [q EXCEPT !.pc = x] \in CallRows
         /\ \A x \in Workers \cup {None} : [q EXCEPT !.at = x] \in CallRows
         /\ \A x \in Outcomes : [q EXCEPT !.outcome = x] \in CallRows
         /\ \A x \in Calls \cup {None} : [q EXCEPT !.got = x] \in CallRows
BY DEF CallRows

LEMMA EndedType ==
  ASSUME NEW p \in Processes
  PROVE  /\ Ended(p) \in Processes /\ Killed(p) = Ended(p)
         /\ Ended(p).life \in {"down", "dead"} /\ Ended(p).stdin = <<>> /\ Ended(p).doing = None
         /\ Ended(p).stdout = p.stdout /\ Ended(p).asked = p.asked /\ Ended(p).guard = p.guard
<1> DEFINE a == [p EXCEPT !.life = IF @ = "down" THEN "down" ELSE "dead"]
           b == [a EXCEPT !.stdin = <<>>]
<1>1. Ended(p) = [b EXCEPT !.doing = None]
  BY DEF Ended
<1>2. /\ a \in Processes /\ a.life \in {"down", "dead"} /\ a.stdout = p.stdout
      /\ a.asked = p.asked /\ a.guard = p.guard
  BY DEF Processes, Lives
<1> HIDE DEF a
<1>3. /\ b \in Processes /\ b.life = a.life /\ b.stdin = <<>> /\ b.stdout = a.stdout
      /\ b.asked = a.asked /\ b.guard = a.guard
  <2>1. <<>> \in Seq(Calls \cup {Exit})
    OBVIOUS
  <2>2. b \in Processes
    BY <1>2, <2>1, ProcessFields
  <2> QED
    BY <1>2, <2>2 DEF Processes
<1> HIDE DEF b
<1> QED
  BY <1>1, <1>2, <1>3 DEF Processes, Killed

\* Giving up a place in a queue leaves the others, in their order.
LEMMA WithoutProperties ==
  ASSUME NEW S, NEW queue \in Seq(S), NEW c, IsInjective(queue)
  PROVE  /\ Without(queue, c) \in Seq(S)
         /\ IsInjective(Without(queue, c))
         /\ \A i \in DOMAIN Without(queue, c) :
              Without(queue, c)[i] # c /\ \E j \in DOMAIN queue : queue[j] = Without(queue, c)[i]
<1> DEFINE q == Without(queue, c)
<1>1. CASE ~Contains(queue, c)
  BY <1>1 DEF Without, Contains
<1>2. CASE Contains(queue, c)
  <2> DEFINE i == CHOOSE i \in DOMAIN queue : queue[i] = c
  <2>1. i \in 1..Len(queue) /\ queue[i] = c
    BY <1>2 DEF Contains
  <2> HIDE DEF i
  <2> DEFINE a == SubSeq(queue, 1, i - 1)
             b == SubSeq(queue, i + 1, Len(queue))
  <2>2. /\ a \in Seq(S) /\ Len(a) = i - 1 /\ \A k \in 1..(i - 1) : a[k] = queue[k]
        /\ b \in Seq(S) /\ Len(b) = Len(queue) - i
        /\ \A k \in 1..(Len(queue) - i) : b[k] = queue[i + k]
    BY <2>1
  <2>3. q = a \o b
    BY <1>2 DEF Without, RemoveAt, i
  <2> HIDE DEF a, b, q
  <2>4. /\ q \in Seq(S) /\ Len(q) = Len(queue) - 1
        /\ \A k \in 1..Len(q) : q[k] = IF k < i THEN queue[k] ELSE queue[k + 1]
    <3>1. /\ q \in Seq(S) /\ Len(q) = Len(queue) - 1
          /\ \A k \in 1..Len(q) : q[k] = IF k <= i - 1 THEN a[k] ELSE b[k - (i - 1)]
      <4>1. /\ a \o b \in Seq(S) /\ Len(a \o b) = Len(a) + Len(b)
            /\ \A k \in 1..Len(a) + Len(b) :
                 (a \o b)[k] = IF k <= Len(a) THEN a[k] ELSE b[k - Len(a)]
        BY <2>2, ConcatProperties
      <4>2. Len(a) + Len(b) = Len(queue) - 1
        BY <2>1, <2>2
      <4> QED
        BY <2>2, <2>3, <4>1, <4>2
    <3>2. ASSUME NEW k \in 1..Len(q) PROVE q[k] = IF k < i THEN queue[k] ELSE queue[k + 1]
      <4>1. CASE k < i
        BY <2>1, <2>2, <3>1, <4>1
      <4>2. CASE ~(k < i)
        <5>1. k - (i - 1) \in 1..(Len(queue) - i) /\ i + (k - (i - 1)) = k + 1 /\ ~(k <= i - 1)
          BY <2>1, <3>1, <4>2
        <5> QED
          BY <2>2, <3>1, <4>2, <5>1
      <4> QED
        BY <4>1, <4>2
    <3> QED
      BY <3>1, <3>2
  <2>5. \A k \in DOMAIN q : /\ IF k < i THEN k \in DOMAIN queue ELSE k + 1 \in DOMAIN queue
                            /\ q[k] # c
    BY <2>1, <2>4 DEF IsInjective
  <2>6. IsInjective(q)
    <3> SUFFICES ASSUME NEW k \in 1..Len(q), NEW m \in 1..Len(q), q[k] = q[m] PROVE k = m
      BY <2>4 DEF IsInjective
    <3> DEFINE at(n) == IF n < i THEN n ELSE n + 1
    <3>1. \A n \in 1..Len(q) : at(n) \in DOMAIN queue /\ q[n] = queue[at(n)]
      BY <2>1, <2>4
    <3>2. at(k) = at(m)
      BY <3>1 DEF IsInjective
    <3> QED
      BY <2>1, <3>2
  <2>7. \A k \in DOMAIN q : \E j \in DOMAIN queue : queue[j] = q[k]
    BY <2>4, <2>5
  <2> QED
    BY <2>4, <2>5, <2>6, <2>7 DEF q
<1> QED
  BY <1>1, <1>2

-----------------------------------------------------------------------------
(* What the parts of the actions do *)

\* One call moves, the others keep their rows.
Moves(c, k) == k \in [Calls -> CallRows] /\ \A d \in Calls : d # c => k[d] = call[d]

LEMMA RowPc ==
  ASSUME NEW c \in Calls, NEW k, Moves(c, k), NEW x \in Points
  PROVE  LET m == [k EXCEPT ![c].pc = x] IN
           Moves(c, m) /\ m[c].pc = x /\ m[c].at = k[c].at /\ m[c].outcome = k[c].outcome /\ m[c].got = k[c].got
<1> DEFINE q == [k[c] EXCEPT !.pc = x]
<1>1. k[c] \in CallRows
  BY DEF Moves
<1>2. q \in CallRows /\ q.pc = x /\ q.at = k[c].at /\ q.outcome = k[c].outcome /\ q.got = k[c].got
  BY <1>1 DEF CallRows
<1> HIDE DEF q
<1>3. Moves(c, [k EXCEPT ![c] = q]) /\ [k EXCEPT ![c] = q][c] = q
  BY <1>2 DEF Moves
<1> QED
  BY <1>2, <1>3 DEF q

LEMMA RowAt ==
  ASSUME NEW c \in Calls, NEW k, Moves(c, k), NEW x \in Workers \cup {None}
  PROVE  LET m == [k EXCEPT ![c].at = x] IN
           Moves(c, m) /\ m[c].at = x /\ m[c].pc = k[c].pc /\ m[c].outcome = k[c].outcome /\ m[c].got = k[c].got
<1> DEFINE q == [k[c] EXCEPT !.at = x]
<1>1. k[c] \in CallRows
  BY DEF Moves
<1>2. q \in CallRows /\ q.at = x /\ q.pc = k[c].pc /\ q.outcome = k[c].outcome /\ q.got = k[c].got
  BY <1>1 DEF CallRows
<1> HIDE DEF q
<1>3. Moves(c, [k EXCEPT ![c] = q]) /\ [k EXCEPT ![c] = q][c] = q
  BY <1>2 DEF Moves
<1> QED
  BY <1>2, <1>3 DEF q

LEMMA RowOutcome ==
  ASSUME NEW c \in Calls, NEW k, Moves(c, k), NEW x \in Outcomes
  PROVE  LET m == [k EXCEPT ![c].outcome = x] IN
           Moves(c, m) /\ m[c].outcome = x /\ m[c].pc = k[c].pc /\ m[c].at = k[c].at /\ m[c].got = k[c].got
<1> DEFINE q == [k[c] EXCEPT !.outcome = x]
<1>1. k[c] \in CallRows
  BY DEF Moves
<1>2. q \in CallRows /\ q.outcome = x /\ q.pc = k[c].pc /\ q.at = k[c].at /\ q.got = k[c].got
  BY <1>1 DEF CallRows
<1> HIDE DEF q
<1>3. Moves(c, [k EXCEPT ![c] = q]) /\ [k EXCEPT ![c] = q][c] = q
  BY <1>2 DEF Moves
<1> QED
  BY <1>2, <1>3 DEF q

LEMMA RowGot ==
  ASSUME NEW c \in Calls, NEW k, Moves(c, k), NEW x \in Calls \cup {None}
  PROVE  LET m == [k EXCEPT ![c].got = x] IN
           Moves(c, m) /\ m[c].got = x /\ m[c].pc = k[c].pc /\ m[c].at = k[c].at /\ m[c].outcome = k[c].outcome
<1> DEFINE q == [k[c] EXCEPT !.got = x]
<1>1. k[c] \in CallRows
  BY DEF Moves
<1>2. q \in CallRows /\ q.got = x /\ q.pc = k[c].pc /\ q.at = k[c].at /\ q.outcome = k[c].outcome
  BY <1>1 DEF CallRows
<1> HIDE DEF q
<1>3. Moves(c, [k EXCEPT ![c] = q]) /\ [k EXCEPT ![c] = q][c] = q
  BY <1>2 DEF Moves
<1> QED
  BY <1>2, <1>3 DEF q

\* The call c ends with this outcome.
Ends(c, outcome) ==
  Moves(c, call') /\ call'[c].pc = "done" /\ call'[c].outcome = outcome

LEMMA FinishFacts ==
  ASSUME TypeInv, NEW c \in Calls, NEW outcome \in Outcomes, NEW p, Finish(c, outcome, p)
  PROVE  Ends(c, outcome) /\ call'[c].got = call[c].got
<1> DEFINE k1 == [call EXCEPT ![c].pc = "done"]
           k2 == [k1 EXCEPT ![c].outcome = outcome]
           k3 == [k2 EXCEPT ![c].at = None]
<1>1. call' = k3
  BY DEF Finish
<1>2. Moves(c, call) /\ "done" \in Points
  BY DEF Moves, TypeInv, TypeOK, Points
<1>3. Moves(c, k1) /\ k1[c].pc = "done" /\ k1[c].got = call[c].got
  BY <1>2, RowPc
<1> HIDE DEF k1
<1>4. Moves(c, k2) /\ k2[c].pc = "done" /\ k2[c].got = call[c].got /\ k2[c].outcome = outcome
  BY <1>3, RowOutcome
<1> HIDE DEF k2
<1>5. /\ Moves(c, k3) /\ k3[c].pc = "done" /\ k3[c].got = call[c].got
      /\ k3[c].outcome = outcome
  BY <1>4, RowAt
<1> QED
  BY <1>1, <1>5 DEF Ends

LEMMA KillFacts ==
  ASSUME TypeInv, NEW c \in Calls, call[c].pc \in Underway, NEW outcome \in Outcomes,
         Kill(c, outcome)
  PROVE  /\ Moves(c, call') /\ call'[c].got = call[c].got /\ call'[c].outcome = outcome
         /\ \/ /\ ~Alive(call[c].at) /\ proc' = proc /\ Release(call[c].at)
               /\ call'[c].pc = "done"
            \/ /\ Alive(call[c].at) /\ UNCHANGED lock
               /\ proc' = [proc EXCEPT ![call[c].at] = Ended(proc[call[c].at])]
               /\ call'[c].pc = "killing" /\ call'[c].at = call[c].at
<1> DEFINE w == call[c].at
<1>1. w \in Workers /\ proc[w] \in Processes /\ proc \in [Workers -> Processes]
  BY DEF TypeInv, TypeOK
<1>2. CASE Alive(w)
  <2> DEFINE k1 == [call EXCEPT ![c].pc = "killing"]
             k2 == [k1 EXCEPT ![c].outcome = outcome]
  <2>1. call' = k2 /\ UNCHANGED lock /\ proc' = [proc EXCEPT ![w] = Ended(proc[w])]
    BY <1>1, <1>2, EndedType DEF Kill
  <2>2. Moves(c, call) /\ "killing" \in Points
    BY DEF Moves, TypeInv, TypeOK, Points
  <2>3. Moves(c, k1) /\ k1[c].pc = "killing" /\ k1[c].got = call[c].got /\ k1[c].at = w
    BY <2>2, RowPc
  <2> HIDE DEF k1
  <2>4. /\ Moves(c, k2) /\ k2[c].pc = "killing" /\ k2[c].got = call[c].got
        /\ k2[c].at = w /\ k2[c].outcome = outcome
    BY <2>3, RowOutcome
  <2> QED
    BY <1>2, <2>1, <2>4
<1>3. CASE ~Alive(w)
  <2>1. Finish(c, outcome, proc[w])
    BY <1>3 DEF Kill
  <2>2. proc' = proc /\ Release(w)
    BY <1>1, <2>1 DEF Finish
  <2> QED
    BY <1>3, <2>1, <2>2, FinishFacts DEF Ends
<1> QED
  BY <1>2, <1>3

LEMMA EnterFacts ==
  ASSUME TypeInv, NEW c \in Calls, NEW w \in Workers, Enter(w, c)
  PROVE  /\ Moves(c, call') /\ call'[c].got = call[c].got /\ call'[c].outcome = call[c].outcome
         /\ call'[c].at = w /\ call'[c].pc = IF Alive(w) THEN "talking" ELSE "starting"
         /\ proc' \in [Workers -> Processes]
         /\ \A v \in Workers : v # w => proc'[v] = proc[v]
         /\ IF Live(w) THEN proc'[w] = [proc[w] EXCEPT !.stdin = Append(proc[w].stdin, c)]
                       ELSE proc' = proc
<1>1. proc \in [Workers -> Processes] /\ proc[w] \in Processes /\ Moves(c, call)
      /\ {"talking", "starting"} \subseteq Points
  BY DEF TypeInv, TypeOK, Moves, Points
<1>2. /\ Moves(c, call') /\ call'[c].got = call[c].got /\ call'[c].outcome = call[c].outcome
      /\ call'[c].at = w /\ call'[c].pc = IF Alive(w) THEN "talking" ELSE "starting"
  <2> DEFINE k1 == [call EXCEPT ![c].at = w]
             k2 == [k1 EXCEPT ![c].pc = IF Alive(w) THEN "talking" ELSE "starting"]
  <2>1. call' = k2
    BY DEF Enter
  <2>2. Moves(c, k1) /\ k1[c].got = call[c].got /\ k1[c].at = w /\ k1[c].outcome = call[c].outcome
    BY <1>1, RowAt
  <2> HIDE DEF k1
  <2>3. (IF Alive(w) THEN "talking" ELSE "starting") \in Points
    BY <1>1
  <2>4. /\ Moves(c, k2) /\ k2[c].got = k1[c].got /\ k2[c].at = k1[c].at
        /\ k2[c].outcome = k1[c].outcome /\ k2[c].pc = IF Alive(w) THEN "talking" ELSE "starting"
    BY <2>2, <2>3, RowPc
  <2> QED
    BY <2>1, <2>2, <2>4
<1>3. CASE Live(w)
  <2>1. Append(proc[w].stdin, c) \in Seq(Calls \cup {Exit})
    BY <1>1 DEF Processes
  <2>2. [proc[w] EXCEPT !.stdin = Append(proc[w].stdin, c)] \in Processes
    BY <1>1, <2>1, ProcessFields
  <2>3. proc' = [proc EXCEPT ![w] = [proc[w] EXCEPT !.stdin = Append(proc[w].stdin, c)]]
    BY <1>1, <1>3 DEF Enter, Send
  <2> QED
    BY <1>1, <1>2, <1>3, <2>2, <2>3
<1>4. CASE ~Live(w)
  BY <1>1, <1>2, <1>4 DEF Enter, Send
<1> QED
  BY <1>3, <1>4

\* The process is there and has the line of its call.
LEMMA StartedFacts ==
  ASSUME TypeInv, NEW c \in Calls, Started(c)
  PROVE  /\ call[c].pc = "starting" /\ Moves(c, call') /\ call'[c].pc = "talking"
         /\ call'[c].at = call[c].at /\ call'[c].outcome = call[c].outcome
         /\ call'[c].got = call[c].got
         /\ \E p \in Processes :
              /\ proc' = [proc EXCEPT ![call[c].at] = p]
              /\ p.life = "loading" /\ p.stdin = <<c>> /\ p.doing = None /\ ~p.asked
              /\ p.stdout = <<>>
<1> DEFINE l == [NoProcess EXCEPT !.life = "loading"]
           p == [l EXCEPT !.stdin = <<c>>]
           k == [call EXCEPT ![c].pc = "talking"]
<1>1. /\ call' = k /\ proc' = [proc EXCEPT ![call[c].at] = p] /\ call[c].pc = "starting"
  BY DEF Started
<1>2. /\ l \in Processes /\ l.life = "loading" /\ l.doing = None /\ ~l.asked /\ l.stdout = <<>>
  BY NoProcessType, ProcessFields DEF Lives, NoProcess
<1> HIDE DEF l
<1>3. /\ p \in Processes /\ p.life = "loading" /\ p.stdin = <<c>> /\ p.doing = None /\ ~p.asked
      /\ p.stdout = <<>>
  <2>1. <<c>> \in Seq(Calls \cup {Exit})
    OBVIOUS
  <2>2. p \in Processes
    BY <1>2, <2>1, ProcessFields
  <2> QED
    BY <1>2, <2>2 DEF Processes
<1> HIDE DEF p
<1>4. Moves(c, call) /\ "talking" \in Points
  BY DEF Moves, TypeInv, TypeOK, Points
<1>5. /\ Moves(c, k) /\ k[c].pc = "talking" /\ k[c].at = call[c].at
      /\ k[c].outcome = call[c].outcome /\ k[c].got = call[c].got
  BY <1>4, RowPc
<1> QED
  BY <1>1, <1>3, <1>5

LEMMA CancelFacts ==
  ASSUME TypeInv, NEW c \in Calls, Cancel(c)
  PROVE  Ends(c, "cancelled") /\ call'[c].got = call[c].got /\ UNCHANGED proc
<1> DEFINE k1 == [call EXCEPT ![c].pc = "done"]
           k2 == [k1 EXCEPT ![c].outcome = "cancelled"]
           k3 == [k2 EXCEPT ![c].at = None]
<1>1. call' = k3 /\ UNCHANGED proc
  BY DEF Cancel
<1>2. Moves(c, call) /\ "done" \in Points /\ "cancelled" \in Outcomes
  BY DEF Moves, TypeInv, TypeOK, Points, Outcomes
<1>3. Moves(c, k1) /\ k1[c].pc = "done" /\ k1[c].got = call[c].got
  BY <1>2, RowPc
<1> HIDE DEF k1
<1>4. /\ Moves(c, k2) /\ k2[c].pc = "done" /\ k2[c].got = call[c].got
      /\ k2[c].outcome = "cancelled"
  BY <1>2, <1>3, RowOutcome
<1> HIDE DEF k2
<1>5. /\ Moves(c, k3) /\ k3[c].pc = "done" /\ k3[c].got = call[c].got
      /\ k3[c].outcome = "cancelled"
  BY <1>4, RowAt
<1> QED
  BY <1>1, <1>5 DEF Ends

LEMMA ResultFacts ==
  ASSUME TypeInv, NEW c \in Calls,
         call' = [call EXCEPT ![c].pc = "done", ![c].outcome = "result",
                              ![c].got = c, ![c].at = None]
  PROVE  Ends(c, "result") /\ call'[c].got = c
<1> DEFINE k1 == [call EXCEPT ![c].pc = "done"]
           k2 == [k1 EXCEPT ![c].outcome = "result"]
           k3 == [k2 EXCEPT ![c].got = c]
           k4 == [k3 EXCEPT ![c].at = None]
<1>1. call' = k4
  OBVIOUS
<1>2. Moves(c, call) /\ "done" \in Points /\ "result" \in Outcomes
  BY DEF Moves, TypeInv, TypeOK, Points, Outcomes
<1>3. Moves(c, k1) /\ k1[c].pc = "done"
  BY <1>2, RowPc
<1> HIDE DEF k1
<1>4. Moves(c, k2) /\ k2[c].pc = "done" /\ k2[c].outcome = "result"
  BY <1>2, <1>3, RowOutcome
<1> HIDE DEF k2
<1>5. Moves(c, k3) /\ k3[c].pc = "done" /\ k3[c].outcome = "result" /\ k3[c].got = c
  BY <1>4, RowGot
<1> HIDE DEF k3
<1>6. Moves(c, k4) /\ k4[c].pc = "done" /\ k4[c].outcome = "result" /\ k4[c].got = c
  BY <1>5, RowAt
<1> QED
  BY <1>1, <1>6 DEF Ends

LEMMA RefuseFacts ==
  ASSUME TypeInv, NEW r \in Calls, Refuse(r)
  PROVE  Ends(r, "PLUGIN_DISABLED") /\ call'[r].got = call[r].got
<1> DEFINE k1 == [call EXCEPT ![r].pc = "done"]
           k2 == [k1 EXCEPT ![r].outcome = "PLUGIN_DISABLED"]
<1>1. call' = k2
  BY DEF Refuse
<1>2. Moves(r, call) /\ "done" \in Points /\ "PLUGIN_DISABLED" \in Outcomes
  BY DEF Moves, TypeInv, TypeOK, Points, Outcomes
<1>3. Moves(r, k1) /\ k1[r].pc = "done" /\ k1[r].got = call[r].got
  BY <1>2, RowPc
<1> HIDE DEF k1
<1>4. /\ Moves(r, k2) /\ k2[r].pc = "done" /\ k2[r].got = call[r].got
      /\ k2[r].outcome = "PLUGIN_DISABLED"
  BY <1>2, <1>3, RowOutcome
<1> QED
  BY <1>1, <1>4 DEF Ends

LEMMA SpawnFacts ==
  ASSUME TypeInv, _spawn
  PROVE  /\ Moves(Hello, call') /\ call'[Hello].pc = "talking" /\ call'[Hello].at = First
         /\ call'[Hello].outcome = call[Hello].outcome /\ call'[Hello].got = call[Hello].got
         /\ \E p \in Processes :
              /\ proc' = [proc EXCEPT ![First] = p]
              /\ p.life = "loading" /\ p.stdin = <<Hello>> /\ p.doing = None /\ ~p.asked
              /\ p.stdout = <<>>
<1> DEFINE l == [NoProcess EXCEPT !.life = "loading"]
           p == [l EXCEPT !.stdin = <<Hello>>]
           k1 == [call EXCEPT ![Hello].pc = "talking"]
           k2 == [k1 EXCEPT ![Hello].at = First]
<1>1. Hello \in Calls /\ First \in Workers
  BY DEF Calls, Workers
<1>2. call' = k2 /\ proc' = [proc EXCEPT ![First] = p]
  BY DEF _spawn
<1>3. /\ l \in Processes /\ l.life = "loading" /\ l.doing = None /\ ~l.asked /\ l.stdout = <<>>
  BY NoProcessType, ProcessFields DEF Lives, NoProcess
<1> HIDE DEF l
<1>4. /\ p \in Processes /\ p.life = "loading" /\ p.stdin = <<Hello>> /\ p.doing = None
      /\ ~p.asked /\ p.stdout = <<>>
  <2>1. <<Hello>> \in Seq(Calls \cup {Exit})
    BY <1>1
  <2>2. p \in Processes
    BY <1>3, <2>1, ProcessFields
  <2> QED
    BY <1>3, <2>2 DEF Processes
<1> HIDE DEF p
<1>5. Moves(Hello, call) /\ "talking" \in Points
  BY DEF Moves, TypeInv, TypeOK, Points
<1>6. /\ Moves(Hello, k1) /\ k1[Hello].pc = "talking"
      /\ k1[Hello].outcome = call[Hello].outcome /\ k1[Hello].got = call[Hello].got
  BY <1>1, <1>5, RowPc
<1> HIDE DEF k1
<1>7. /\ Moves(Hello, k2) /\ k2[Hello].pc = "talking" /\ k2[Hello].at = First
      /\ k2[Hello].outcome = call[Hello].outcome /\ k2[Hello].got = call[Hello].got
  BY <1>1, <1>6, RowAt
<1> QED
  BY <1>2, <1>4, <1>7

-----------------------------------------------------------------------------
(* The queues of the locks *)

Queue(w) == lock[w].waiters

\* A call waits in one queue, at one place; nobody waits before the first process is there.
QueueInv ==
  /\ \A w \in Workers : IsInjective(Queue(w))
  /\ \A w \in Workers : \A i \in DOMAIN Queue(w) :
       call[Queue(w)[i]].pc = "waiting" /\ call[Queue(w)[i]].at = w
  /\ phase = "spawning" => call[Hello].pc = "idle"

BaseInv == TypeInv /\ QueueInv

\* A call that leaves where it stood leaves the queue it stood in.
LEMMA QueueKept ==
  ASSUME BaseInv, NEW c \in Calls, Moves(c, call'),
         \A w \in Workers : Queue(w)' = Queue(w) \/ Queue(w)' = Without(Queue(w), c),
         call[c].pc = "waiting" =>
           \A w \in Workers : w = call[c].at => Queue(w)' = Without(Queue(w), c),
         phase' # "spawning" \/ (phase' = phase /\ call[c].pc # "idle")
  PROVE  QueueInv'
<1>1. ASSUME NEW w \in Workers PROVE Queue(w) \in Seq(Calls)
  BY DEF Queue, BaseInv, TypeInv, TypeOK, Locks
<1>2. ASSUME NEW w \in Workers
      PROVE  /\ IsInjective(Queue(w)')
             /\ \A i \in DOMAIN Queue(w)' : \E j \in DOMAIN Queue(w) : Queue(w)[j] = Queue(w)'[i]
             /\ Queue(w)' = Queue(w) \/ \A i \in DOMAIN Queue(w)' : Queue(w)'[i] # c
  <2>1. IsInjective(Queue(w))
    BY DEF BaseInv, QueueInv
  <2>2. CASE Queue(w)' = Queue(w)
    BY <2>1, <2>2
  <2>3. CASE Queue(w)' = Without(Queue(w), c)
    BY <1>1, <2>1, <2>3, WithoutProperties
  <2> QED
    BY <2>2, <2>3
<1>3. ASSUME NEW w \in Workers, NEW i \in DOMAIN Queue(w)'
      PROVE  call'[Queue(w)'[i]].pc = "waiting" /\ call'[Queue(w)'[i]].at = w
  <2>1. PICK j \in DOMAIN Queue(w) : Queue(w)[j] = Queue(w)'[i]
    BY <1>2, <1>3
  <2>2. /\ Queue(w)[j] \in Calls
        /\ call[Queue(w)[j]].pc = "waiting" /\ call[Queue(w)[j]].at = w
    BY <1>1 DEF BaseInv, QueueInv
  <2>3. Queue(w)[j] # c
    <3> SUFFICES ASSUME Queue(w)[j] = c PROVE FALSE
      OBVIOUS
    <3>1. Queue(w)' = Without(Queue(w), c) /\ IsInjective(Queue(w))
      BY <2>2 DEF BaseInv, QueueInv
    <3>2. \A k \in DOMAIN Without(Queue(w), c) : Without(Queue(w), c)[k] # c
      BY <1>1, <3>1, WithoutProperties
    <3> QED
      BY <1>3, <2>1, <3>1, <3>2
  <2> QED
    BY <2>1, <2>2, <2>3 DEF Moves
<1>4. phase' = "spawning" => call'[Hello].pc = "idle"
  <2>1. Hello \in Calls
    BY DEF Calls
  <2> QED
    BY <2>1 DEF Moves, BaseInv, QueueInv
<1> QED
  BY <1>2, <1>3, <1>4 DEF QueueInv

\* The steps of a call and of its worker's process.
LEMMA CallBase ==
  ASSUME BaseInv, NEW c \in Calls, call[c].pc # "idle", Moves(c, call'),
         proc' \in [Workers -> Processes], lock' \in [Workers -> Locks],
         \A w \in Workers : Queue(w)' = Queue(w) \/ Queue(w)' = Without(Queue(w), c),
         call[c].pc = "waiting" =>
           \A w \in Workers : w = call[c].at => Queue(w)' = Without(Queue(w), c),
         call'[c].pc \in Underway => call'[c].at \in Workers,
         callFrame
  PROVE  BaseInv'
<1>1. QueueInv'
  BY QueueKept DEF callFrame, ownerVars
<1>2. TypeOK'
  BY DEF BaseInv, TypeInv, TypeOK, Moves, callFrame, ownerVars
<1>3. TypeInv'
  BY <1>2 DEF BaseInv, TypeInv, Moves, callFrame, ownerVars
<1> QED
  BY <1>1, <1>3 DEF BaseInv

LEMMA ProcessBase ==
  ASSUME BaseInv, proc' \in [Workers -> Processes], ran' \subseteq Calls,
         crashes' \in 0..MaxCrashes, UNCHANGED <<ownerVars, lock, call>>
  PROVE  BaseInv'
BY DEF BaseInv, TypeInv, TypeOK, QueueInv, Queue, ownerVars

\* Whoever holds the lock leaves it to the others.
LEMMA ReleaseFacts ==
  ASSUME TypeInv, NEW w \in Workers, Release(w)
  PROVE  lock' \in [Workers -> Locks] /\ \A v \in Workers : Queue(v)' = Queue(v)
BY DEF Release, TypeInv, TypeOK, Locks, Queue

LEMMA LockedFacts ==
  ASSUME TypeInv, UNCHANGED lock
  PROVE  lock' \in [Workers -> Locks] /\ \A v \in Workers : Queue(v)' = Queue(v)
BY DEF TypeInv, TypeOK, Queue

\* A lock that goes to the first in its queue, or loses somebody who waited.
LEMMA LeaveFacts ==
  ASSUME BaseInv, NEW w \in Workers, NEW c \in Calls, NEW h \in Calls \cup {None},
         lock' = [lock EXCEPT ![w] = [holder |-> h, waiters |-> Without(Queue(w), c)]]
  PROVE  /\ lock' \in [Workers -> Locks] /\ Queue(w)' = Without(Queue(w), c)
         /\ \A v \in Workers : v # w => Queue(v)' = Queue(v)
<1>1. /\ lock \in [Workers -> Locks] /\ Queue(w) \in Seq(Calls) /\ IsInjective(Queue(w))
  BY DEF BaseInv, TypeInv, TypeOK, Locks, Queue, QueueInv
<1>2. Without(Queue(w), c) \in Seq(Calls)
  BY <1>1, WithoutProperties
<1> QED
  BY <1>1, <1>2 DEF Locks, Queue

LEMMA FinishBase ==
  ASSUME BaseInv, NEW c \in Calls, call[c].pc \in Underway \ {"waiting"},
         NEW outcome \in Outcomes, NEW p \in Processes, Finish(c, outcome, p), callFrame
  PROVE  BaseInv'
<1>1. Ends(c, outcome)
  BY FinishFacts DEF BaseInv
<1>2. call[c].at \in Workers /\ proc \in [Workers -> Processes]
  BY DEF BaseInv, TypeInv, TypeOK
<1>3. /\ proc' \in [Workers -> Processes] /\ lock' \in [Workers -> Locks]
      /\ \A v \in Workers : Queue(v)' = Queue(v)
  BY <1>2, ReleaseFacts DEF Finish, BaseInv
<1> QED
  BY <1>1, <1>2, <1>3, CallBase DEF Ends, Underway

LEMMA KillBase ==
  ASSUME BaseInv, NEW c \in Calls, call[c].pc = "talking", NEW outcome \in Outcomes,
         Kill(c, outcome), callFrame
  PROVE  BaseInv'
<1>1. call[c].at \in Workers /\ proc \in [Workers -> Processes] /\ call[c].pc \in Underway
  BY DEF BaseInv, TypeInv, TypeOK, Underway
<1>2. /\ Moves(c, call')
      /\ \/ proc' = proc /\ Release(call[c].at) /\ call'[c].pc = "done"
         \/ /\ UNCHANGED lock /\ proc' = [proc EXCEPT ![call[c].at] = Ended(proc[call[c].at])]
            /\ call'[c].at = call[c].at
  BY <1>1, KillFacts DEF BaseInv
<1>3. proc' \in [Workers -> Processes]
  BY <1>1, <1>2, EndedType
<1>4. lock' \in [Workers -> Locks] /\ \A v \in Workers : Queue(v)' = Queue(v)
  BY <1>1, <1>2, ReleaseFacts, LockedFacts DEF BaseInv
<1>5. call'[c].pc \in Underway => call'[c].at \in Workers
  BY <1>1, <1>2 DEF Underway
<1> QED
  BY <1>1, <1>2, <1>3, <1>4, <1>5, CallBase

\* The first line of the pipe was read.
LEMMA RestOfPipe ==
  ASSUME NEW p \in Processes, p.stdout # <<>>
  PROVE  LET m == Head(p.stdout)
             q == [p EXCEPT !.stdout = Tail(p.stdout)]
             r == [q EXCEPT !.stdout = <<[id |-> None, kind |-> "tail"]>> \o q.stdout]
         IN  /\ m \in Messages /\ q \in Processes /\ r \in Processes
             /\ q.stdout = Tail(p.stdout) /\ q.stdin = p.stdin /\ q.doing = p.doing
             /\ q.life = p.life /\ q.asked = p.asked
             /\ r.stdout = <<[id |-> None, kind |-> "tail"]>> \o Tail(p.stdout)
             /\ r.stdin = p.stdin /\ r.doing = p.doing /\ r.life = p.life /\ r.asked = p.asked
<1> DEFINE t == <<[id |-> None, kind |-> "tail"]>>
           u == t \o Tail(p.stdout)
<1>1. p.stdout \in Seq(Messages)
  BY DEF Processes
<1>2. Head(p.stdout) \in Messages /\ Tail(p.stdout) \in Seq(Messages)
  BY <1>1
<1>3. t \in Seq(Messages)
  BY DEF Messages
<1>4. u \in Seq(Messages)
  BY <1>2, <1>3
<1> HIDE DEF t, u
<1> DEFINE q == [p EXCEPT !.stdout = Tail(p.stdout)]
<1>5. /\ q \in Processes /\ q.stdout = Tail(p.stdout) /\ q.stdin = p.stdin /\ q.doing = p.doing
      /\ q.life = p.life /\ q.asked = p.asked
  BY <1>2 DEF Processes
<1> HIDE DEF q
<1> DEFINE r == [q EXCEPT !.stdout = u]
<1>6. /\ r \in Processes /\ r.stdout = u /\ r.stdin = q.stdin /\ r.doing = q.doing
      /\ r.life = q.life /\ r.asked = q.asked
  BY <1>4, <1>5 DEF Processes
<1> QED
  BY <1>2, <1>5, <1>6 DEF q, r, t, u

LEMMA ReadBase ==
  ASSUME BaseInv, NEW c \in Calls, Read(c)
  PROVE  BaseInv'
<1> DEFINE w == call[c].at
           m == Head(Inbox(c))
           q == [proc[w] EXCEPT !.stdout = Tail(proc[w].stdout)]
           r == [q EXCEPT !.stdout = <<[id |-> None, kind |-> "tail"]>> \o q.stdout]
<1>1. /\ call[c].pc = "talking" /\ w \in Workers /\ proc[w] \in Processes
      /\ proc \in [Workers -> Processes] /\ proc[w].stdout # <<>>
      /\ ReadMessage(c, m, q) /\ callFrame
  BY DEF Read, Talks, Inbox, BaseInv, TypeInv, TypeOK, Underway
<1>2. m \in Messages /\ q \in Processes /\ r \in Processes
  BY <1>1, RestOfPipe DEF Inbox
<1> HIDE DEF m, q
<1>3. CASE IsResult(c, m)  /\ Release(w) /\ proc' = [proc EXCEPT ![w] = q]
           /\ call' = [call EXCEPT ![c].pc = "done", ![c].outcome = "result",
                                   ![c].got = m.id, ![c].at = None]
  <2>7. Moves(c, call') /\ call'[c].pc = "done"
    BY <1>3, ResultFacts DEF BaseInv, IsResult, Ends
  <2>8. lock' \in [Workers -> Locks] /\ \A v \in Workers : Queue(v)' = Queue(v)
    BY <1>1, <1>3, ReleaseFacts DEF BaseInv
  <2>9. proc' \in [Workers -> Processes]
    BY <1>1, <1>2, <1>3
  <2> QED
    BY <1>1, <2>7, <2>8, <2>9, CallBase DEF Underway
<1>4. CASE \E p \in {q, r} : Finish(c, "error", p) \/ Finish(c, "ValueError", p)
  BY <1>1, <1>2, <1>4, FinishBase DEF Underway, Outcomes
<1>5. CASE Kill(c, "PLUGIN_PROTOCOL")
  BY <1>1, <1>5, KillBase DEF Outcomes
<1> QED
  BY <1>1, <1>3, <1>4, <1>5 DEF ReadMessage

LEMMA CallStepBase ==
  ASSUME BaseInv, NEW c \in Calls, CallStep(c)
  PROVE  BaseInv'
<1> DEFINE w == call[c].at
<1>1. call[c].pc \in Underway => w \in Workers /\ proc[w] \in Processes
  BY DEF BaseInv, TypeInv, TypeOK
<1>2. /\ Moves(c, call) /\ proc \in [Workers -> Processes] /\ lock \in [Workers -> Locks]
      /\ "talking" \in Points /\ "done" \in Points /\ "cancelled" \in Outcomes
  BY DEF Moves, BaseInv, TypeInv, TypeOK, Points, Outcomes
<1>3. CASE Started(c)
  <2>3. UNCHANGED lock /\ callFrame /\ call[c].pc = "starting"
    BY <1>3 DEF Started
  <2>5. w \in Workers
    BY <1>1, <2>3 DEF Underway
  <2>6. /\ Moves(c, call') /\ call'[c].at = w
        /\ \E p \in Processes : proc' = [proc EXCEPT ![w] = p]
    BY <1>3, StartedFacts DEF BaseInv
  <2>7. Moves(c, call') /\ call'[c].at \in Workers /\ proc' \in [Workers -> Processes]
    BY <1>2, <2>5, <2>6
  <2>8. lock' \in [Workers -> Locks] /\ \A v \in Workers : Queue(v)' = Queue(v)
    BY <2>3, LockedFacts DEF BaseInv
  <2> QED
    BY <2>3, <2>7, <2>8, CallBase
<1>4. CASE StartFails(c)
  BY <1>1, <1>4, FinishBase DEF StartFails, Underway, Outcomes
<1>5. CASE Read(c)
  BY <1>5, ReadBase
<1>6. CASE Disconnected(c) \/ Timeout(c)
  BY <1>6, KillBase DEF Disconnected, Timeout, Talks, Expires, Outcomes
<1>7. CASE KillEnds(c)
  <2>1. call[c].outcome \in Outcomes
    BY DEF BaseInv, TypeInv, TypeOK, CallRows
  <2> QED
    BY <1>1, <1>7, <2>1, FinishBase DEF KillEnds, Underway
<1>8. CASE Cancel(c)
  <2> PICK u \in Workers : u = call[c].at
    BY <1>1, <1>8 DEF Cancel, Underway
  <2> DEFINE h == IF lock[u].holder = c THEN None ELSE lock[u].holder
  <2>1. call[c].pc # "idle" /\ UNCHANGED proc /\ callFrame
    BY <1>8 DEF Cancel
  <2>2. lock' = [lock EXCEPT ![u] = [holder |-> h, waiters |-> Without(Queue(u), c)]]
    BY <1>8 DEF Cancel, Queue
  <2>3. h \in Calls \cup {None}
    BY <1>2 DEF Locks
  <2> HIDE DEF h
  <2>4. /\ lock' \in [Workers -> Locks] /\ Queue(u)' = Without(Queue(u), c)
        /\ \A v \in Workers : v # u => Queue(v)' = Queue(v)
    BY <2>1, <2>2, <2>3, LeaveFacts
  <2>8. Moves(c, call') /\ call'[c].pc = "done"
    BY <1>8, CancelFacts DEF BaseInv, Ends
  <2> QED
    BY <1>2, <2>1, <2>4, <2>8, CallBase DEF Underway
<1> QED
  BY <1>3, <1>4, <1>5, <1>6, <1>7, <1>8 DEF CallStep

LEMMA ProcessStepBase ==
  ASSUME BaseInv, NEW w \in Workers, ProcessStep(w)
  PROVE  BaseInv'
<1>1. /\ proc \in [Workers -> Processes] /\ proc[w] \in Processes /\ ran \subseteq Calls
      /\ crashes \in 0..MaxCrashes /\ MaxCrashes \in Nat
  BY PoolAssumption DEF BaseInv, TypeInv, TypeOK
<1>2. ASSUME NEW p \in Processes, proc' = [proc EXCEPT ![w] = p], UNCHANGED <<ran, crashes>>,
             processFrame
      PROVE  BaseInv'
  <2>1. proc' \in [Workers -> Processes]
    BY <1>1, <1>2
  <2> QED
    BY <1>1, <1>2, <2>1, ProcessBase DEF processFrame
<1>3. CASE Load(w) \/ Reap(w)
  <2>1. \E l \in Lives : proc' = [proc EXCEPT ![w] = [proc[w] EXCEPT !.life = l]]
    BY <1>3 DEF Load, Reap, Lives
  <2> QED
    BY <1>1, <1>2, <1>3, <2>1, ProcessFields DEF Load, Reap
<1>4. CASE LoadFails(w)
  <2>1. <<[id |-> None, kind |-> "error"]>> \in Seq(Messages)
    BY DEF Messages
  <2>2. [Ended(proc[w]) EXCEPT !.stdout = <<[id |-> None, kind |-> "error"]>>] \in Processes
    BY <1>1, <2>1, EndedType, ProcessFields
  <2> QED
    BY <1>2, <1>4, <2>2 DEF LoadFails
<1>5. CASE Take(w)
  <2> DEFINE h == Head(proc[w].stdin)
             p == [proc[w] EXCEPT !.stdin = Tail(proc[w].stdin)]
             q == [p EXCEPT !.doing = h]
  <2>1. proc[w].stdin \in Seq(Calls \cup {Exit}) /\ proc[w].stdin # <<>> /\ h # Exit
    BY <1>1, <1>5 DEF Take, Reads, Processes
  <2>2. h \in Calls /\ Tail(proc[w].stdin) \in Seq(Calls \cup {Exit})
    BY <2>1
  <2>3. proc' = [proc EXCEPT ![w] = q] /\ ran' = ran \cup {h} /\ UNCHANGED crashes /\ processFrame
    BY <1>5 DEF Take
  <2>4. p \in Processes
    BY <1>1, <2>2, ProcessFields
  <2> HIDE DEF p, h
  <2>5. q \in Processes
    BY <2>2, <2>4, ProcessFields
  <2>6. proc' \in [Workers -> Processes]
    BY <1>1, <2>3, <2>5
  <2> QED
    BY <1>1, <2>2, <2>3, <2>6, ProcessBase DEF processFrame
<1>6. CASE Leave(w)
  <2> DEFINE e == Ended(proc[w])
             m == [id |-> Exit, kind |-> "result"]
             s == Append(proc[w].stdout, m)
  <2>1. m \in Messages /\ e \in Processes
    BY <1>1, EndedType DEF Messages
  <2>2. proc' = [proc EXCEPT ![w] = [e EXCEPT !.stdout = s]]
    BY <1>6 DEF Leave
  <2> HIDE DEF e, m
  <2>3. s \in Seq(Messages)
    BY <1>1, <2>1 DEF Processes
  <2> HIDE DEF s
  <2>4. [e EXCEPT !.stdout = s] \in Processes
    BY <2>1, <2>3, ProcessFields
  <2> QED
    BY <1>2, <1>6, <2>2, <2>4 DEF Leave
<1>7. CASE \E kind \in Answers : Reply(w, kind)
  <2> PICK kind \in Answers : Reply(w, kind)
    BY <1>7
  <2> DEFINE c == proc[w].doing
             m == [id |-> c, kind |-> kind]
             p == [proc[w] EXCEPT !.doing = None]
             g == proc[w].guard \/ c = Hello
             q == [p EXCEPT !.guard = g]
             r == [q EXCEPT !.stdout = Append(q.stdout, m)]
  <2>1. c \in Calls /\ m \in Messages
    BY <1>1, PoolAssumption DEF Reply, Processes, Messages
  <2>2. /\ p \in Processes /\ p.guard = proc[w].guard /\ p.stdout = proc[w].stdout
    BY <1>1 DEF Processes
  <2>3. proc' = [proc EXCEPT ![w] = r]
    <3>1. proc' = [proc EXCEPT ![w].doing = None, ![w].guard = @ \/ c = Hello,
                               ![w].stdout = Append(@, [id |-> c, kind |-> kind])]
      BY DEF Reply
    <3> QED
      BY <1>1, <3>1 DEF Processes
  <2>4. g \in BOOLEAN
    BY <1>1 DEF Processes
  <2> HIDE DEF p, m, g
  <2>5. q \in Processes
    BY <2>2, <2>4, ProcessFields
  <2> HIDE DEF q
  <2>6. Append(q.stdout, m) \in Seq(Messages)
    BY <2>1, <2>5 DEF Processes
  <2>7. r \in Processes
    BY <2>5, <2>6, ProcessFields
  <2> QED
    BY <1>2, <2>3, <2>7 DEF Reply
<1>8. CASE Crash(w)
  <2>1. proc' \in [Workers -> Processes]
    BY <1>1, <1>8, EndedType DEF Crash
  <2>2. crashes' \in 0..MaxCrashes
    BY <1>1, <1>8 DEF Crash
  <2> QED
    BY <1>1, <1>8, <2>1, <2>2, ProcessBase DEF Crash, processFrame
<1> QED
  BY <1>3, <1>4, <1>5, <1>6, <1>7, <1>8 DEF ProcessStep

LEMMA EnterBase ==
  ASSUME BaseInv, NEW c \in Calls, NEW w \in Workers, Enter(w, c), phase' # "spawning",
         call[c].pc \in {"idle", "waiting"}, call[c].pc = "waiting" => call[c].at = w
  PROVE  /\ QueueInv' /\ Moves(c, call') /\ proc' \in [Workers -> Processes]
         /\ lock' \in [Workers -> Locks] /\ call'[c].pc \in Underway /\ call'[c].at = w
<1>1. /\ Moves(c, call') /\ proc' \in [Workers -> Processes] /\ call'[c].at = w
      /\ call'[c].pc \in Underway
  BY EnterFacts DEF BaseInv, Underway
<1>2. /\ lock' \in [Workers -> Locks] /\ Queue(w)' = Without(Queue(w), c)
      /\ \A v \in Workers : v # w => Queue(v)' = Queue(v)
  BY LeaveFacts DEF Enter, Queue
<1> QED
  BY <1>1, <1>2, QueueKept

\* Nobody is asked to wait before the pool serves.
LEMMA AcquireBase ==
  ASSUME BaseInv, NEW w \in Workers, Acquire(w)
  PROVE  BaseInv'
<1> DEFINE c == Head(Queue(w))
<1>1. /\ Queue(w) \in Seq(Calls) /\ Queue(w) # <<>> /\ Enter(w, c) /\ callFrame
  BY DEF Acquire, Queue, BaseInv, TypeInv, TypeOK, Locks
<1>2. c \in Calls /\ call[c].pc = "waiting" /\ call[c].at = w
  BY <1>1 DEF BaseInv, QueueInv
<1> HIDE DEF c
<1>3. /\ Moves(c, call') /\ proc' \in [Workers -> Processes] /\ call'[c].at = w
      /\ call'[c].pc \in Underway
  BY <1>1, <1>2, EnterFacts DEF BaseInv, Underway
<1>4. /\ lock' \in [Workers -> Locks] /\ Queue(w)' = Without(Queue(w), c)
      /\ \A v \in Workers : v # w => Queue(v)' = Queue(v)
  BY <1>1, <1>2, LeaveFacts DEF Enter, Queue
<1> QED
  BY <1>1, <1>2, <1>3, <1>4, CallBase

\* The workers a request leaves in the pool are workers of the pool, in their order.
LEMMA PruneFacts ==
  ASSUME TypeInv, NEW kept \in _prune
  PROVE  /\ kept \in Seq(Workers) /\ Len(kept) <= Len(workers)
         /\ \A i \in DOMAIN kept : \E j \in DOMAIN workers : kept[i] = workers[j]
         /\ IsInjective(workers) => IsInjective(kept)
<1>1. workers \in Seq(Workers) /\ Kept \in SUBSET (1..Len(workers))
  BY DEF TypeInv, TypeOK, Kept
<1>2. IsFiniteSet(Kept) /\ Cardinality(Kept) \in Nat /\ Cardinality(Kept) <= Len(workers)
  <2>1. IsFiniteSet(1..Len(workers)) /\ Cardinality(1..Len(workers)) = Len(workers)
    <3>1. Len(workers) \in Nat /\ 1 \in Int /\ Len(workers) \in Int
      BY <1>1
    <3>2. /\ IsFiniteSet(1..Len(workers))
          /\ Cardinality(1..Len(workers)) =
               IF 1 > Len(workers) THEN 0 ELSE Len(workers) - 1 + 1
      BY <3>1, FS_Interval
    <3> QED
      BY <3>1, <3>2
  <2>2. Len(workers) \in Nat
    BY <1>1
  <2>3. IsFiniteSet(Kept) /\ Cardinality(Kept) <= Cardinality(1..Len(workers))
    BY <1>1, <2>1, FS_Subset
  <2> QED
    BY <2>1, <2>3, FS_CardinalityType
<1>3. PICK f \in [1..Cardinality(Kept) -> Kept] :
        /\ kept = [i \in DOMAIN f |-> workers[f[i]]]
        /\ \A i, j \in DOMAIN f : i < j => f[i] < f[j]
  BY DEF _prune
<1>4. ASSUME NEW i \in 1..Cardinality(Kept)
      PROVE  f[i] \in 1..Len(workers) /\ workers[f[i]] \in Workers
  <2>1. f[i] \in Kept
    BY <1>3
  <2>2. f[i] \in 1..Len(workers)
    BY <1>1, <2>1
  <2> QED
    BY <1>1, <2>2
<1>5. kept = [i \in 1..Cardinality(Kept) |-> workers[f[i]]]
  BY <1>3
<1>6. kept \in Seq(Workers) /\ Len(kept) = Cardinality(Kept)
  BY <1>2, <1>4, <1>5
<1>7. \A i \in DOMAIN kept : kept[i] = workers[f[i]] /\ f[i] \in DOMAIN workers
  BY <1>1, <1>4, <1>5
<1>8. ASSUME IsInjective(workers), NEW i \in DOMAIN kept, NEW j \in DOMAIN kept, kept[i] = kept[j]
      PROVE  i = j
  <2>1. f[i] = f[j]
    BY <1>7, <1>8 DEF IsInjective
  <2>2. ~(i < j) /\ ~(j < i) /\ i \in Nat /\ j \in Nat
    BY <1>1, <1>2, <1>3, <1>4, <1>5, <1>8, <2>1
  <2> QED
    BY <2>2
<1> QED
  BY <1>2, <1>6, <1>7, <1>8 DEF IsInjective

\* The natural numbers are well ordered: a first worker is idle when one is.
LEMMA LeastNatural ==
  ASSUME NEW T \in SUBSET Nat, T # {}
  PROVE  \E k \in T : \A j \in T : k =< j
<1>1. PICK k \in T : \A j \in T : ~(<<j, k>> \in OpToRel(<, Nat))
  BY NatLessThanWellFounded, WFMin
<1>2. ASSUME NEW j \in T PROVE ~(j < k)
  BY <1>1 DEF OpToRel
<1>3. \A j \in T : k =< j
  BY <1>2
<1> QED
  BY <1>3

LEMMA PickFacts ==
  ASSUME TypeInv, NEW kept \in Seq(Workers), NEW r \in Requests
  PROVE  /\ _pick(kept, r) \in Workers
         /\ \/ \E i \in DOMAIN kept : _pick(kept, r) = kept[i]
            \/ _pick(kept, r) = r /\ Room(kept)
<1>1. CASE Idle(kept) # {}
  <2> DEFINE i == Min(Idle(kept))
  <2>1. Idle(kept) \in SUBSET (1..Len(kept))
    BY DEF Idle
  <2>2. \E k \in Idle(kept) : \A j \in Idle(kept) : k =< j
    BY <1>1, <2>1, LeastNatural
  <2>3. i \in Idle(kept)
    BY <2>2 DEF Min
  <2> QED
    BY <1>1, <2>1, <2>3 DEF _pick
<1>2. CASE Idle(kept) = {}
  <2>1. kept # <<>> \/ Room(kept)
    BY PoolAssumption DEF Room
  <2>2. r \in Workers
    BY DEF Workers
  <2> QED
    BY <1>2, <2>1, <2>2 DEF _pick
<1> QED
  BY <1>1, <1>2

\* A request that finds the lock of its worker taken queues behind those who wait.
LEMMA QueueBase ==
  ASSUME BaseInv, NEW r \in Calls, NEW w \in Workers, call[r].pc = "idle", phase' # "spawning",
         lock' = [lock EXCEPT ![w].waiters = Append(@, r)],
         call' = [call EXCEPT ![r].pc = "waiting", ![r].at = w]
  PROVE  /\ QueueInv' /\ Moves(r, call') /\ lock' \in [Workers -> Locks]
         /\ call'[r].pc = "waiting" /\ call'[r].at = w
         /\ call'[r].outcome = call[r].outcome /\ call'[r].got = call[r].got
<1>1. /\ lock \in [Workers -> Locks] /\ \A v \in Workers : Queue(v) \in Seq(Calls)
      /\ \A v \in Workers : IsInjective(Queue(v))
      /\ \A v \in Workers : \A i \in DOMAIN Queue(v) :
           call[Queue(v)[i]].pc = "waiting" /\ call[Queue(v)[i]].at = v
  BY DEF BaseInv, TypeInv, TypeOK, Locks, Queue, QueueInv
<1>2. /\ Moves(r, call') /\ call'[r].pc = "waiting" /\ call'[r].at = w
      /\ call'[r].outcome = call[r].outcome /\ call'[r].got = call[r].got
  <2> DEFINE k1 == [call EXCEPT ![r].pc = "waiting"]
             k2 == [k1 EXCEPT ![r].at = w]
  <2>1. Moves(r, call) /\ "waiting" \in Points
    BY DEF Moves, BaseInv, TypeInv, TypeOK, Points
  <2>2. call' = k2
    OBVIOUS
  <2>3. /\ Moves(r, k1) /\ k1[r].pc = "waiting"
        /\ k1[r].outcome = call[r].outcome /\ k1[r].got = call[r].got
    BY <2>1, RowPc
  <2> HIDE DEF k1
  <2>4. /\ Moves(r, k2) /\ k2[r].pc = "waiting" /\ k2[r].at = w
        /\ k2[r].outcome = call[r].outcome /\ k2[r].got = call[r].got
    BY <2>3, RowAt
  <2> QED
    BY <2>2, <2>4
<1>3. /\ Append(Queue(w), r) \in Seq(Calls) /\ Len(Append(Queue(w), r)) = Len(Queue(w)) + 1
      /\ \A i \in 1..Len(Queue(w)) : Append(Queue(w), r)[i] = Queue(w)[i]
      /\ Append(Queue(w), r)[Len(Queue(w)) + 1] = r
  BY <1>1
<1>4. /\ lock' \in [Workers -> Locks] /\ Queue(w)' = Append(Queue(w), r)
      /\ \A v \in Workers : v # w => Queue(v)' = Queue(v)
  <2> DEFINE s == Append(Queue(w), r)
             q == [lock[w] EXCEPT !.waiters = s]
  <2>1. lock[w] \in Locks /\ s \in Seq(Calls)
    BY <1>1, <1>3
  <2>2. lock' = [lock EXCEPT ![w] = q]
    BY DEF Queue
  <2> HIDE DEF s
  <2>3. q \in Locks /\ q.waiters = s
    BY <2>1 DEF Locks
  <2> HIDE DEF q
  <2> QED
    BY <1>1, <2>2, <2>3 DEF Queue, s
<1>5. \A v \in Workers : \A i \in DOMAIN Queue(v) : Queue(v)[i] # r
  BY <1>1
<1>6. IsInjective(Append(Queue(w), r))
  <2> SUFFICES ASSUME NEW i \in 1..(Len(Queue(w)) + 1), NEW j \in 1..(Len(Queue(w)) + 1),
                      Append(Queue(w), r)[i] = Append(Queue(w), r)[j]
               PROVE  i = j
    BY <1>3 DEF IsInjective
  <2>1. Len(Queue(w)) \in Nat /\ DOMAIN Queue(w) = 1..Len(Queue(w))
    BY <1>1
  <2>2. CASE i \in 1..Len(Queue(w)) /\ j \in 1..Len(Queue(w))
    <3>1. Queue(w)[i] = Queue(w)[j]
      BY <1>3, <2>2
    <3> QED
      BY <1>1, <2>1, <2>2, <3>1 DEF IsInjective
  <2>3. CASE i = Len(Queue(w)) + 1
    BY <1>3, <1>5, <2>1, <2>3
  <2>4. CASE j = Len(Queue(w)) + 1
    BY <1>3, <1>5, <2>1, <2>4
  <2> QED
    BY <2>1, <2>2, <2>3, <2>4
<1>7. ASSUME NEW v \in Workers, NEW i \in DOMAIN Queue(v)'
      PROVE  call'[Queue(v)'[i]].pc = "waiting" /\ call'[Queue(v)'[i]].at = v
  <2>1. CASE i \in DOMAIN Queue(v) /\ Queue(v)'[i] = Queue(v)[i]
    <3>1. Queue(v)[i] \in Calls /\ Queue(v)[i] # r
      BY <1>1, <1>5, <2>1
    <3> QED
      BY <1>1, <1>2, <2>1, <3>1 DEF Moves
  <2>2. CASE v = w /\ Queue(v)'[i] = r
    BY <1>2, <2>2
  <2>3. \/ i \in DOMAIN Queue(v) /\ Queue(v)'[i] = Queue(v)[i]
        \/ v = w /\ Queue(v)'[i] = r
    <3>1. CASE v = w
      <4>1. Queue(v)' = Append(Queue(w), r) /\ i \in 1..(Len(Queue(w)) + 1)
        BY <1>3, <1>4, <1>7, <3>1
      <4> QED
        BY <1>1, <1>3, <3>1, <4>1
    <3>2. CASE v # w
      BY <1>4, <1>7, <3>2
    <3> QED
      BY <3>1, <3>2
  <2> QED
    BY <2>1, <2>2, <2>3
<1>8. ASSUME NEW v \in Workers PROVE IsInjective(Queue(v)')
  <2>1. CASE v = w
    BY <1>4, <1>6, <2>1
  <2>2. CASE v # w
    <3>1. Queue(v)' = Queue(v)
      BY <1>4, <2>2
    <3> QED
      BY <1>1, <3>1
  <2> QED
    BY <2>1, <2>2
<1> QED
  BY <1>2, <1>4, <1>7, <1>8 DEF QueueInv

LEMMA RequestBase ==
  ASSUME BaseInv, NEW r \in Requests, Request(r) \/ Refuse(r)
  PROVE  BaseInv'
<1>0. r \in Calls /\ call \in [Calls -> CallRows]
  BY DEF Calls, BaseInv, TypeInv, TypeOK
<1>1. CASE Request(r)
  <2> PICK kept \in _prune :
        /\ workers' = IF _pick(kept, r) = r THEN Append(kept, r) ELSE kept
        /\ Ask(_pick(kept, r), r)
    BY <1>1 DEF Request
  <2>1. kept \in Seq(Workers)
    BY PruneFacts DEF BaseInv
  <2>2. _pick(kept, r) \in Workers
    BY <2>1, PickFacts DEF BaseInv
  <2>3. /\ call[r].pc = "idle" /\ phase = "serving"
        /\ UNCHANGED <<closed, phase, rest, ran, crashes>>
    BY <1>1 DEF Request
  <2>4. workers' \in Seq(Workers)
    BY <2>1, <2>2
  <2> PICK w \in Workers : Ask(w, r)
    BY <2>2
  <2>5. /\ QueueInv' /\ Moves(r, call') /\ proc' \in [Workers -> Processes]
        /\ lock' \in [Workers -> Locks] /\ call'[r].pc \in Underway /\ call'[r].at = w
    <3>1. CASE Enter(w, r)
      BY <1>0, <2>3, <3>1, EnterBase
    <3>2. CASE /\ lock' = [lock EXCEPT ![w].waiters = Append(@, r)]
               /\ call' = [call EXCEPT ![r].pc = "waiting", ![r].at = w]
               /\ UNCHANGED proc
      <4>1. /\ QueueInv' /\ Moves(r, call') /\ lock' \in [Workers -> Locks]
            /\ call'[r].pc = "waiting" /\ call'[r].at = w
        BY <1>0, <2>3, <3>2, QueueBase
      <4> QED
        BY <3>2, <4>1 DEF Underway, BaseInv, TypeInv, TypeOK
    <3> QED
      BY <3>1, <3>2 DEF Ask
  <2>6. TypeOK'
    BY <2>3, <2>4, <2>5 DEF BaseInv, TypeInv, TypeOK, Moves
  <2> QED
    BY <2>3, <2>5, <2>6 DEF BaseInv, TypeInv, Moves
<1>2. CASE Refuse(r)
  <2>1. /\ call[r].pc = "idle" /\ phase # "spawning"
        /\ UNCHANGED <<ownerVars, lock, proc, ran, crashes>>
    BY <1>2 DEF Refuse
  <2>5. Moves(r, call') /\ call'[r].pc = "done"
    BY <1>0, <1>2, RefuseFacts DEF BaseInv, Ends
  <2>6. QueueInv'
    BY <1>0, <2>1, <2>5, QueueKept DEF ownerVars, Queue
  <2>7. TypeOK'
    BY <2>1, <2>5 DEF BaseInv, TypeInv, TypeOK, Moves, ownerVars
  <2> QED
    BY <2>1, <2>5, <2>6, <2>7 DEF BaseInv, TypeInv, Moves, ownerVars, Underway
<1> QED
  BY <1>1, <1>2

-----------------------------------------------------------------------------
(* The owner *)

\* The owner moves on; the calls and their queues stay as they are.
LEMMA OwnerBase ==
  ASSUME BaseInv, workers' \in Seq(Workers), rest' \in Seq(Workers), closed' \in BOOLEAN,
         phase' \in Phases \ {"spawning"}, phase' \in Leaving => rest' # <<>>,
         proc' \in [Workers -> Processes], UNCHANGED <<lock, call, ran, crashes>>
  PROVE  BaseInv'
BY DEF BaseInv, TypeInv, TypeOK, QueueInv, Queue, ownerVars

LEMMA SpawnBase ==
  ASSUME BaseInv, _spawn
  PROVE  BaseInv'
<1>1. Hello \in Calls /\ First \in Workers /\ <<First>> \in Seq(Workers)
  BY DEF Calls, Workers
<1>2. /\ phase = "spawning" /\ phase' = "starting" /\ workers' = <<First>>
      /\ lock' = [lock EXCEPT ![First].holder = Hello]
      /\ UNCHANGED <<closed, rest>> /\ ownerFrame
  BY DEF _spawn
<1>7. Moves(Hello, call') /\ call'[Hello].pc = "talking" /\ call'[Hello].at = First
  BY SpawnFacts DEF BaseInv
<1>8. proc' \in [Workers -> Processes]
  BY <1>1, SpawnFacts DEF BaseInv, TypeInv, TypeOK
<1>9. lock' \in [Workers -> Locks] /\ \A v \in Workers : Queue(v)' = Queue(v)
  BY <1>1, <1>2 DEF BaseInv, TypeInv, TypeOK, Locks, Queue
<1>10. QueueInv'
  <2>1. call[Hello].pc # "waiting"
    BY <1>2 DEF BaseInv, QueueInv
  <2> QED
    BY <1>1, <1>2, <1>7, <1>9, <2>1, QueueKept
<1>11. TypeOK'
  BY <1>1, <1>2, <1>7, <1>8, <1>9 DEF BaseInv, TypeInv, TypeOK, Moves, ownerFrame, Phases
<1> QED
  BY <1>1, <1>2, <1>7, <1>10, <1>11 DEF BaseInv, TypeInv, Moves, Leaving

LEMMA OwnerStepBase ==
  ASSUME BaseInv, OwnerStep
  PROVE  BaseInv'
<1>1. /\ workers \in Seq(Workers) /\ rest \in Seq(Workers) /\ closed \in BOOLEAN
      /\ proc \in [Workers -> Processes]
      /\ phase \in Leaving => rest # <<>>
      /\ <<>> \in Seq(Workers) /\ First \in Workers
  BY DEF BaseInv, TypeInv, TypeOK, Workers
<1>2. rest # <<>> => Head(rest) \in Workers /\ Tail(rest) \in Seq(Workers)
  BY <1>1
<1>3. ASSUME NEW w \in Workers
      PROVE  [proc EXCEPT ![w] = Killed(@)] \in [Workers -> Processes]
  <2>1. Killed(proc[w]) \in Processes
    BY <1>1, EndedType
  <2> QED
    BY <1>1, <2>1
<1>4. CASE SpawnFails \/ Accept \/ Close \/ Drained \/ Exited \/ Stopped
  BY <1>1, <1>2, <1>4, OwnerBase
     DEF SpawnFails, Accept, Close, Drained, Exited, Stopped, ownerFrame, Phases, Leaving
<1>5. CASE Reject
  BY <1>1, <1>3, <1>5, OwnerBase DEF Reject, ownerFrame, Phases, Leaving
<1>6. CASE ExitTimeout
  BY <1>1, <1>2, <1>3, <1>6, OwnerBase
     DEF ExitTimeout, ExitExpires, ownerFrame, Phases, Leaving
<1>7. CASE shutdown
  <2>1. CASE ~Alive(Head(rest))
    BY <1>1, <1>2, <1>7, <2>1, OwnerBase DEF shutdown, ownerFrame, Phases, Leaving
  <2>2. CASE Alive(Head(rest))
    <3> PICK w \in Workers : w = Head(rest)
      BY <1>2, <1>7 DEF shutdown
    <3> DEFINE a == [proc[w] EXCEPT !.asked = TRUE]
               s == IF Live(w) THEN Append(proc[w].stdin, Exit) ELSE proc[w].stdin
               b == [a EXCEPT !.stdin = s]
    <3>0. proc[w] \in Processes
      BY <1>1
    <3>1. a \in Processes /\ a.stdin = proc[w].stdin
      BY <3>0 DEF Processes
    <3>2. s \in Seq(Calls \cup {Exit})
      BY <3>0 DEF Processes
    <3>3. proc' = [proc EXCEPT ![w] = b]
      <4>1. proc' = [proc EXCEPT ![w].asked = TRUE,
                          ![w].stdin = IF Live(w) THEN Append(@, Exit) ELSE @]
        BY <1>7, <2>2 DEF shutdown
      <4> QED
        BY <1>1, <4>1 DEF Processes
    <3> HIDE DEF a, s
    <3>4. b \in Processes
      BY <3>1, <3>2, ProcessFields
    <3> HIDE DEF b
    <3>5. proc' \in [Workers -> Processes]
      BY <1>1, <3>3, <3>4
    <3> QED
      BY <1>1, <1>7, <2>2, <3>5, OwnerBase DEF shutdown, ownerFrame, Phases, Leaving
  <2> QED
    BY <2>1, <2>2
<1>8. CASE _spawn
  BY <1>8, SpawnBase
<1>9. CASE Flushed
  BY <1>1, <1>2, <1>3, <1>9, OwnerBase DEF Flushed, ownerFrame, Phases, Leaving
<1> QED
  BY <1>4, <1>5, <1>6, <1>7, <1>8, <1>9 DEF OwnerStep

-----------------------------------------------------------------------------

LEMMA InitBase == Init => BaseInv
<1> SUFFICES ASSUME Init PROVE BaseInv
  OBVIOUS
<1>1. /\ <<>> \in Seq(Workers) /\ <<>> \in Seq(Calls) /\ 0 \in 0..MaxCrashes
  BY PoolAssumption
<1>2. \A w \in Workers : Queue(w) = <<>>
  BY DEF Init, Queue
<1>3. TypeOK
  BY <1>1, NoProcessType
     DEF Init, TypeOK, Phases, Locks, CallRows, Points, Outcomes
<1>4. QueueInv
  BY <1>2 DEF QueueInv, IsInjective, Init, Calls
<1> QED
  BY <1>3, <1>4 DEF BaseInv, TypeInv, Init, Underway, Leaving

LEMMA NextBase ==
  ASSUME BaseInv, [Next]_vars
  PROVE  BaseInv'
<1>1. CASE UNCHANGED vars
  BY <1>1 DEF vars, ownerVars, BaseInv, TypeInv, TypeOK, QueueInv, Queue
<1> QED
  BY <1>1, RequestBase, CallStepBase, AcquireBase, ProcessStepBase, OwnerStepBase DEF Next

LEMMA BaseInvariant == Spec => []BaseInv
BY InitBase, NextBase, PTL DEF Spec

\* The state of the pool, its locks, its processes and its calls has the types of the code.
THEOREM TypeCorrect == Spec => []TypeOK
<1>1. BaseInv => TypeOK
  BY DEF BaseInv, TypeInv
<1> QED
  BY <1>1, BaseInvariant, PTL

-----------------------------------------------------------------------------
(* The lines of the pipes *)

Running(p) == p.life \in {"loading", "up"}

\* A process that has ended carries nothing.
Hushed(p)   == Running(p) \/ (p.stdin = <<>> /\ p.doing = None)
AllHushed   == \A w \in Workers : Hushed(proc[w])
Lines(p, c) == \E i \in DOMAIN p.stdin : p.stdin[i] = c

\* The process executes the call, or will.
Carries(p, c) == p.doing = c \/ Lines(p, c)

Distinct(p) ==
  \A i, j \in DOMAIN p.stdin : p.stdin[i] = p.stdin[j] /\ p.stdin[i] # Exit => i = j

\* A result the process p had not written is of the call p was executing.
Speaks(p, q) ==
  \A i \in DOMAIN q.stdout :
    \/ \E j \in DOMAIN p.stdout : q.stdout[i] = p.stdout[j]
    \/ q.stdout[i].kind # "result"
    \/ q.stdout[i].id \notin Calls
    \/ q.stdout[i].id = p.doing

\* The process p becomes q without getting a line or taking one up.
Quieter(p, q) ==
  /\ q.stdin \in {p.stdin, <<>>} /\ q.doing \in {p.doing, None} /\ Hushed(q)
  /\ q.asked /\ Running(q) => p.asked /\ Running(p)
  /\ Speaks(p, q)

LEMMA QuieterSame ==
  ASSUME NEW p, Hushed(p)
  PROVE  Quieter(p, p)
BY DEF Quieter, Speaks

LEMMA QuieterEnded ==
  ASSUME NEW p \in Processes
  PROVE  Quieter(p, Ended(p)) /\ ~Running(Ended(p))
BY EndedType DEF Quieter, Hushed, Running, Speaks

LEMMA QuieterRest ==
  ASSUME NEW p \in Processes, p.stdout # <<>>, Hushed(p)
  PROVE  LET q == [p EXCEPT !.stdout = Tail(p.stdout)]
             r == [q EXCEPT !.stdout = <<[id |-> None, kind |-> "tail"]>> \o q.stdout]
         IN  Quieter(p, q) /\ Quieter(p, r)
<1> DEFINE q == [p EXCEPT !.stdout = Tail(p.stdout)]
           r == [q EXCEPT !.stdout = <<[id |-> None, kind |-> "tail"]>> \o q.stdout]
           t == [id |-> None, kind |-> "tail"]
<1>1. /\ q.stdout = Tail(p.stdout) /\ q.stdin = p.stdin /\ q.doing = p.doing
      /\ q.life = p.life /\ q.asked = p.asked
      /\ r.stdout = <<t>> \o Tail(p.stdout)
      /\ r.stdin = p.stdin /\ r.doing = p.doing /\ r.life = p.life /\ r.asked = p.asked
  BY RestOfPipe
<1> HIDE DEF q, r
<1>2. p.stdout \in Seq(Messages) /\ Len(p.stdout) \in Nat /\ Len(p.stdout) > 0
  BY DEF Processes
<1> DEFINE s == Tail(p.stdout)
<1>3. /\ s \in Seq(Messages) /\ Len(s) = Len(p.stdout) - 1
      /\ \A i \in 1..Len(s) : s[i] = p.stdout[i + 1]
  BY <1>2
<1> HIDE DEF s
<1>4. Speaks(p, q)
  <2>1. ASSUME NEW i \in DOMAIN s PROVE \E j \in DOMAIN p.stdout : s[i] = p.stdout[j]
    BY <1>2, <1>3, <2>1
  <2> QED
    BY <1>1, <2>1 DEF Speaks, s
<1>5. Speaks(p, r)
  <2>1. t.kind # "result" /\ t \in Messages
    BY DEF Messages
  <2>2. <<t>> \in Seq(Messages) /\ Len(<<t>>) = 1 /\ <<t>>[1] = t
    BY <2>1
  <2> HIDE DEF t
  <2>3. /\ Len(<<t>> \o s) = Len(<<t>>) + Len(s)
        /\ \A i \in 1..Len(<<t>>) + Len(s) :
             (<<t>> \o s)[i] = IF i <= Len(<<t>>) THEN <<t>>[i] ELSE s[i - Len(<<t>>)]
    BY <1>3, <2>2, ConcatProperties
  <2>4. <<t>> \o s \in Seq(Messages)
    BY <1>3, <2>2
  <2>5. ASSUME NEW i \in DOMAIN (<<t>> \o s), i # 1
        PROVE  \E j \in DOMAIN p.stdout : (<<t>> \o s)[i] = p.stdout[j]
    <3>1. i \in 1..(1 + Len(s))
      BY <2>2, <2>3, <2>4, <2>5
    <3>2. (<<t>> \o s)[i] = s[i - 1] /\ i - 1 \in 1..Len(s)
      BY <1>3, <2>2, <2>3, <2>5, <3>1
    <3>3. s[i - 1] = p.stdout[i] /\ i \in 1..Len(p.stdout)
      BY <1>2, <1>3, <3>2
    <3> QED
      BY <1>2, <3>2, <3>3
  <2>6. (<<t>> \o s)[1] = t
    BY <1>3, <2>2, <2>3
  <2> QED
    BY <1>1, <2>1, <2>5, <2>6 DEF Speaks, s
<1> QED
  BY <1>1, <1>4, <1>5 DEF Quieter, Hushed, Running, q, r

\* One process changes.
LEMMA QuieterOne ==
  ASSUME TypeInv, AllHushed, NEW w \in Workers, NEW p, Quieter(proc[w], p),
         proc' = [proc EXCEPT ![w] = p]
  PROVE  \A v \in Workers : Quieter(proc[v], proc'[v])
BY QuieterSame DEF TypeInv, TypeOK, AllHushed

LEMMA QuieterNone ==
  ASSUME AllHushed, UNCHANGED proc
  PROVE  \A v \in Workers : Quieter(proc[v], proc'[v])
BY QuieterSame DEF AllHushed

\* How a call ends: its process may be executing it still when the answer was not
\* awaited, or was of nobody; after a failure no process has it.
Lingering == {"result", "error", "cancelled", "ValueError"}

Settles(c) ==
  /\ Moves(c, call') /\ call'[c].pc \in {"done", "killing"}
  /\ call[c].pc \in Underway
  /\ \/ call'[c].pc = "done" /\ call'[c].outcome \in Lingering
     \/ call[c].pc \in {"starting", "killing"}
     \/ call[c].pc = "talking" /\ ~Running(proc'[call[c].at])

\* A result is of the call that gets it; it was in the pipe of its process.
Answered(c) ==
  call'[c].outcome = "result" =>
    \/ call[c].outcome = "result" /\ call'[c].got = call[c].got
    \/ /\ call'[c].got = c
       /\ \E w \in Workers : \E i \in DOMAIN proc[w].stdout :
            proc[w].stdout[i].kind = "result" /\ proc[w].stdout[i].id = c

LEMMA KillPipes ==
  ASSUME TypeInv, AllHushed, NEW c \in Calls, call[c].pc = "talking",
         NEW outcome \in Outcomes \ {"result"}, Kill(c, outcome)
  PROVE  Settles(c) /\ Answered(c) /\ \A w \in Workers : Quieter(proc[w], proc'[w])
<1>1. /\ call[c].at \in Workers /\ proc[call[c].at] \in Processes /\ call[c].pc \in Underway
      /\ proc \in [Workers -> Processes]
  BY DEF TypeInv, TypeOK, Underway
<1>2. /\ Moves(c, call') /\ call'[c].got = call[c].got /\ call'[c].outcome = outcome
      /\ \/ ~Alive(call[c].at) /\ proc' = proc /\ call'[c].pc = "done"
         \/ /\ proc' = [proc EXCEPT ![call[c].at] = Ended(proc[call[c].at])]
            /\ call'[c].pc = "killing"
  BY <1>1, KillFacts
<1>3. CASE ~Alive(call[c].at) /\ proc' = proc /\ call'[c].pc = "done"
  <2>1. ~Running(proc'[call[c].at])
    BY <1>3 DEF Alive, Running
  <2> QED
    BY <1>1, <1>2, <1>3, <2>1, QuieterNone DEF Settles, Answered
<1>4. CASE /\ proc' = [proc EXCEPT ![call[c].at] = Ended(proc[call[c].at])]
           /\ call'[c].pc = "killing"
  <2>1. proc'[call[c].at] = Ended(proc[call[c].at])
    BY <1>1, <1>4
  <2>2. ~Running(proc'[call[c].at]) /\ Quieter(proc[call[c].at], Ended(proc[call[c].at]))
    BY <1>1, <2>1, QuieterEnded
  <2> QED
    BY <1>1, <1>2, <1>4, <2>2, QuieterOne DEF Settles, Answered
<1> QED
  BY <1>2, <1>3, <1>4

LEMMA FinishPipes ==
  ASSUME TypeInv, AllHushed, NEW c \in Calls, NEW outcome \in Outcomes, NEW p,
         Finish(c, outcome, p), call[c].pc \in Underway, Quieter(proc[call[c].at], p)
  PROVE  /\ Ends(c, outcome) /\ call'[c].got = call[c].got
         /\ \A w \in Workers : Quieter(proc[w], proc'[w])
<1>1. call[c].at \in Workers /\ proc' = [proc EXCEPT ![call[c].at] = p]
  BY DEF TypeInv, Finish
<1> QED
  BY <1>1, FinishFacts, QuieterOne

LEMMA ReadPipes ==
  ASSUME TypeInv, AllHushed, NEW c \in Calls, Read(c)
  PROVE  Settles(c) /\ Answered(c) /\ \A w \in Workers : Quieter(proc[w], proc'[w])
<1> DEFINE u == call[c].at
           m == Head(Inbox(c))
           q == [proc[u] EXCEPT !.stdout = Tail(proc[u].stdout)]
           r == [q EXCEPT !.stdout = <<[id |-> None, kind |-> "tail"]>> \o q.stdout]
<1>1. /\ call[c].pc = "talking" /\ call[c].pc \in Underway /\ u \in Workers
      /\ proc[u] \in Processes /\ proc[u].stdout # <<>> /\ Hushed(proc[u])
      /\ ReadMessage(c, m, q)
  BY DEF Read, Talks, Inbox, TypeInv, TypeOK, Underway, AllHushed
<1>2. Quieter(proc[u], q) /\ Quieter(proc[u], r)
  BY <1>1, QuieterRest
<1>3. 1 \in DOMAIN proc[u].stdout /\ m = proc[u].stdout[1]
  BY <1>1 DEF Processes, Inbox
<1> HIDE DEF m, q
<1>4. CASE IsResult(c, m) /\ proc' = [proc EXCEPT ![u] = q]
           /\ call' = [call EXCEPT ![c].pc = "done", ![c].outcome = "result",
                                   ![c].got = m.id, ![c].at = None]
  <2>1. Ends(c, "result") /\ call'[c].got = c
    BY <1>4, ResultFacts DEF IsResult
  <2>2. proc[u].stdout[1].kind = "result" /\ proc[u].stdout[1].id = c
    BY <1>3, <1>4 DEF IsResult
  <2>3. Settles(c)
    BY <1>1, <2>1 DEF Settles, Ends, Lingering
  <2>4. Answered(c)
    BY <1>1, <1>3, <2>1, <2>2 DEF Answered
  <2> QED
    BY <1>1, <1>2, <1>4, <2>3, <2>4, QuieterOne
<1>5. ASSUME NEW p \in {q, r}, NEW outcome \in {"error", "ValueError"}, Finish(c, outcome, p)
      PROVE  Settles(c) /\ Answered(c) /\ \A w \in Workers : Quieter(proc[w], proc'[w])
  <2>1. outcome \in Outcomes /\ outcome \in Lingering /\ outcome # "result"
    BY DEF Outcomes, Lingering
  <2>2. Quieter(proc[u], p)
    BY <1>2, <1>5
  <2>3. /\ Ends(c, outcome) /\ \A w \in Workers : Quieter(proc[w], proc'[w])
    BY <1>1, <1>5, <2>1, <2>2, FinishPipes
  <2> QED
    BY <1>1, <2>1, <2>3 DEF Settles, Answered, Ends
<1>6. CASE Kill(c, "PLUGIN_PROTOCOL")
  BY <1>1, <1>6, KillPipes DEF Outcomes
<1> QED
  BY <1>1, <1>4, <1>5, <1>6 DEF ReadMessage

LEMMA CallStepPipes ==
  ASSUME TypeInv, AllHushed, NEW c \in Calls, CallStep(c), ~Started(c)
  PROVE  Settles(c) /\ Answered(c) /\ \A w \in Workers : Quieter(proc[w], proc'[w])
<1>1. /\ call[c].pc \in Underway => call[c].at \in Workers /\ Hushed(proc[call[c].at])
      /\ call[c].outcome \in Outcomes
  BY DEF TypeInv, TypeOK, AllHushed, CallRows
<1>2. CASE StartFails(c)
  <2>1. /\ Finish(c, "PLUGIN_START_FAILED", proc[call[c].at]) /\ call[c].pc = "starting"
        /\ call[c].pc \in Underway
    BY <1>2 DEF StartFails, Underway
  <2>2. Quieter(proc[call[c].at], proc[call[c].at])
    BY <1>1, <2>1, QuieterSame
  <2>3. "PLUGIN_START_FAILED" \in Outcomes
    BY DEF Outcomes
  <2>4. /\ Ends(c, "PLUGIN_START_FAILED")
        /\ \A w \in Workers : Quieter(proc[w], proc'[w])
    BY <2>1, <2>2, <2>3, FinishPipes
  <2> QED
    BY <2>1, <2>4 DEF Settles, Answered, Ends
<1>3. CASE Read(c)
  BY <1>3, ReadPipes
<1>4. CASE Disconnected(c) \/ Timeout(c)
  BY <1>4, KillPipes DEF Disconnected, Timeout, Talks, Expires, Outcomes
<1>5. CASE KillEnds(c)
  <2>1. /\ Finish(c, call[c].outcome, proc[call[c].at]) /\ call[c].pc = "killing"
        /\ call[c].pc \in Underway
    BY <1>5 DEF KillEnds, Underway
  <2>2. Quieter(proc[call[c].at], proc[call[c].at])
    BY <1>1, <2>1, QuieterSame
  <2>3. /\ Ends(c, call[c].outcome) /\ call'[c].got = call[c].got
        /\ \A w \in Workers : Quieter(proc[w], proc'[w])
    BY <1>1, <2>1, <2>2, FinishPipes
  <2> QED
    BY <2>1, <2>3 DEF Settles, Answered, Ends
<1>6. CASE Cancel(c)
  <2>1. Ends(c, "cancelled") /\ UNCHANGED proc
    BY <1>6, CancelFacts
  <2>2. call[c].pc \in Underway
    BY <1>6 DEF Cancel, Underway
  <2> QED
    BY <2>1, <2>2, QuieterNone DEF Settles, Answered, Ends, Lingering
<1> QED
  BY <1>2, <1>3, <1>4, <1>5, <1>6 DEF CallStep

\* What a process does, but for taking up a line.
LEMMA ProcessStepPipes ==
  ASSUME TypeInv, AllHushed, NEW w \in Workers, ProcessStep(w), ~Take(w)
  PROVE  UNCHANGED <<call, ran>> /\ \A v \in Workers : Quieter(proc[v], proc'[v])
<1>1. proc[w] \in Processes /\ Hushed(proc[w])
  BY DEF TypeInv, TypeOK, AllHushed
<1>2. CASE Load(w) \/ Reap(w)
  <2>0. \/ /\ proc' = [proc EXCEPT ![w].life = "up"] /\ proc[w].life = "loading"
           /\ UNCHANGED <<call, ran>>
        \/ /\ proc' = [proc EXCEPT ![w].life = "down"] /\ proc[w].life = "dead"
           /\ UNCHANGED <<call, ran>>
    BY <1>2 DEF Load, Reap, processFrame
  <2> PICK l : /\ proc' = [proc EXCEPT ![w].life = l] /\ UNCHANGED <<call, ran>>
               /\ (l = "up" /\ proc[w].life = "loading") \/ (l = "down" /\ proc[w].life = "dead")
    BY <2>0
  <2> DEFINE p == [proc[w] EXCEPT !.life = l]
  <2>1. /\ p.life = l /\ p.stdin = proc[w].stdin /\ p.doing = proc[w].doing
        /\ p.asked = proc[w].asked /\ p.stdout = proc[w].stdout
    BY <1>1 DEF Processes
  <2>2. proc' = [proc EXCEPT ![w] = p]
    OBVIOUS
  <2> HIDE DEF p
  <2>3. Quieter(proc[w], p)
    BY <1>1, <2>1 DEF Quieter, Hushed, Running, Speaks
  <2> QED
    BY <2>2, <2>3, QuieterOne
<1>3. CASE LoadFails(w)
  <2> DEFINE e == Ended(proc[w])
             m == [id |-> None, kind |-> "error"]
             p == [e EXCEPT !.stdout = <<m>>]
  <2>1. e \in Processes /\ Quieter(proc[w], e) /\ ~Running(e)
    BY <1>1, EndedType, QuieterEnded
  <2>2. proc' = [proc EXCEPT ![w] = p] /\ UNCHANGED <<call, ran>>
    BY <1>3 DEF LoadFails, processFrame
  <2> HIDE DEF e
  <2>3. /\ p.life = e.life /\ p.stdin = e.stdin /\ p.doing = e.doing /\ p.stdout = <<m>>
    BY <2>1 DEF Processes
  <2> HIDE DEF p
  <2>4. Speaks(proc[w], p)
    BY <2>3 DEF Speaks
  <2>5. Quieter(proc[w], p)
    BY <2>1, <2>3, <2>4 DEF Quieter, Hushed, Running
  <2> QED
    BY <2>2, <2>5, QuieterOne
<1>4. CASE Leave(w)
  <2> DEFINE e == Ended(proc[w])
             m == [id |-> Exit, kind |-> "result"]
             s == Append(proc[w].stdout, m)
             p == [e EXCEPT !.stdout = s]
  <2>1. e \in Processes /\ Quieter(proc[w], e) /\ ~Running(e)
    BY <1>1, EndedType, QuieterEnded
  <2>2. proc' = [proc EXCEPT ![w] = p] /\ UNCHANGED <<call, ran>>
    BY <1>4 DEF Leave, processFrame
  <2> HIDE DEF e
  <2>3. \A i \in DOMAIN s : (\E j \in DOMAIN proc[w].stdout : s[i] = proc[w].stdout[j]) \/ s[i] = m
    BY <1>1 DEF Processes
  <2> HIDE DEF s
  <2>4. /\ p.life = e.life /\ p.stdin = e.stdin /\ p.doing = e.doing /\ p.stdout = s
    BY <2>1 DEF Processes
  <2> HIDE DEF p
  <2>5. m.id \notin Calls
    BY NamesDiffer
  <2>6. Speaks(proc[w], p)
    BY <2>3, <2>4, <2>5 DEF Speaks
  <2>7. Quieter(proc[w], p)
    BY <2>1, <2>4, <2>6 DEF Quieter, Hushed, Running
  <2> QED
    BY <2>2, <2>7, QuieterOne
<1>5. CASE \E kind \in Answers : Reply(w, kind)
  <2> PICK kind \in Answers : Reply(w, kind)
    BY <1>5
  <2> DEFINE c == proc[w].doing
             m == [id |-> c, kind |-> kind]
             s == Append(proc[w].stdout, m)
             p == [proc[w] EXCEPT !.doing = None, !.guard = @ \/ c = Hello, !.stdout = s]
  <2>1. proc' = [proc EXCEPT ![w] = p] /\ UNCHANGED <<call, ran>>
    <3>1. proc' = [proc EXCEPT ![w].doing = None, ![w].guard = @ \/ c = Hello,
                               ![w].stdout = Append(@, [id |-> c, kind |-> kind])]
      BY DEF Reply
    <3>2. UNCHANGED <<call, ran>>
      BY DEF Reply, processFrame
    <3> QED
      BY <1>1, <3>1, <3>2 DEF Processes
  <2>2. \A i \in DOMAIN s : (\E j \in DOMAIN proc[w].stdout : s[i] = proc[w].stdout[j]) \/ s[i] = m
    BY <1>1 DEF Processes
  <2> HIDE DEF s
  <2>3. /\ p.life = proc[w].life /\ p.stdin = proc[w].stdin /\ p.doing = None /\ p.stdout = s
        /\ p.asked = proc[w].asked
    BY <1>1 DEF Processes
  <2> HIDE DEF p
  <2>4. Speaks(proc[w], p)
    BY <2>2, <2>3 DEF Speaks
  <2>5. Quieter(proc[w], p)
    BY <1>1, <2>3, <2>4 DEF Quieter, Hushed, Running
  <2> QED
    BY <2>1, <2>5, QuieterOne
<1>6. CASE Crash(w)
  <2>1. proc' = [proc EXCEPT ![w] = Ended(proc[w])] /\ UNCHANGED <<call, ran>>
    BY <1>6 DEF Crash, processFrame
  <2>2. Quieter(proc[w], Ended(proc[w]))
    BY <1>1, QuieterEnded
  <2> QED
    BY <2>1, <2>2, QuieterOne
<1> QED
  BY <1>2, <1>3, <1>4, <1>5, <1>6 DEF ProcessStep

\* What the owner does to the processes, but for starting and asking one.
LEMMA OwnerStepPipes ==
  ASSUME TypeInv, AllHushed, OwnerStep, ~_spawn, ~shutdown
  PROVE  UNCHANGED <<call, ran>> /\ \A v \in Workers : Quieter(proc[v], proc'[v])
<1>1. ASSUME NEW w \in Workers, proc' = [proc EXCEPT ![w] = Killed(@)]
      PROVE  \A v \in Workers : Quieter(proc[v], proc'[v])
  <2>1. proc[w] \in Processes
    BY DEF TypeInv, TypeOK
  <2>2. Quieter(proc[w], Killed(proc[w]))
    BY <2>1, QuieterEnded DEF Killed
  <2> QED
    BY <1>1, <2>2, QuieterOne
<1>2. CASE UNCHANGED <<proc, call, ran>>
  BY <1>2, QuieterNone
<1>3. CASE Reject
  <2>1. First \in Workers
    BY DEF Workers
  <2> QED
    BY <1>1, <1>2, <1>3, <2>1 DEF Reject, ownerFrame
<1>4. CASE ExitTimeout
  <2>1. Head(rest) \in Workers
    BY <1>4 DEF ExitTimeout, ExitExpires, TypeInv, TypeOK, Leaving
  <2> QED
    BY <1>1, <1>4, <2>1 DEF ExitTimeout, ownerFrame
<1>5. CASE Flushed
  <2>1. Head(rest) \in Workers
    BY <1>5 DEF Flushed, TypeInv, TypeOK, Leaving
  <2> QED
    BY <1>1, <1>2, <1>5, <2>1 DEF Flushed, ownerFrame
<1> QED
  BY <1>2, <1>3, <1>4, <1>5
     DEF OwnerStep, SpawnFails, Accept, Close, Drained, Exited, Stopped, ownerFrame

-----------------------------------------------------------------------------
(* A line is in one pipe, once, until its call is taken up *)

Early(row) == row.pc \in {"idle", "waiting", "starting"}

\* A process has a call only while the call awaits it, or after it has let go.
Tied(row, w) ==
  \/ row.pc = "talking" /\ row.at = w
  \/ row.pc = "done" /\ row.outcome \in Lingering

PipeInv ==
  /\ AllHushed
  /\ \A w \in Workers : Distinct(proc[w])
  /\ \A w, v \in Workers, c \in Calls : Lines(proc[w], c) /\ Lines(proc[v], c) => w = v
  /\ \A w \in Workers, c \in Calls : Lines(proc[w], c) => c \notin ran
  /\ \A c \in Calls : Early(call[c]) => c \notin ran /\ \A w \in Workers : ~Carries(proc[w], c)
  /\ \A w \in Workers, c \in Calls : Carries(proc[w], c) => Tied(call[c], w)

LEMMA QuieterLines ==
  ASSUME NEW p, NEW q, Quieter(p, q), Distinct(p)
  PROVE  /\ Distinct(q) /\ Hushed(q)
         /\ \A c \in Calls : (Lines(q, c) => Lines(p, c)) /\ (Carries(q, c) => Carries(p, c))
BY NamesDiffer DEF Quieter, Distinct, Lines, Carries

LEMMA SentLines ==
  ASSUME NEW p \in Processes, NEW q, NEW c \in Calls, Distinct(p), ~Lines(p, c),
         q.stdin = Append(p.stdin, c) \/ q.stdin = <<c>>, q.doing \in {p.doing, None}
  PROVE  /\ Distinct(q)
         /\ \A d \in Calls : Lines(q, d) => Lines(p, d) \/ d = c
         /\ \A d \in Calls : Carries(q, d) => Carries(p, d) \/ d = c
<1>1. p.stdin \in Seq(Calls \cup {Exit})
  BY DEF Processes
<1>2. CASE q.stdin = Append(p.stdin, c)
  <2>1. /\ q.stdin \in Seq(Calls \cup {Exit}) /\ Len(q.stdin) = Len(p.stdin) + 1
        /\ \A i \in 1..Len(p.stdin) : q.stdin[i] = p.stdin[i]
        /\ q.stdin[Len(p.stdin) + 1] = c
    BY <1>1, <1>2
  <2>2. \A i \in DOMAIN q.stdin : \/ i \in DOMAIN p.stdin /\ q.stdin[i] = p.stdin[i]
                                  \/ i = Len(p.stdin) + 1 /\ q.stdin[i] = c
    BY <1>1, <2>1
  <2>3. \A i \in DOMAIN p.stdin : p.stdin[i] # c
    BY DEF Lines
  <2>4. Distinct(q)
    BY <2>2, <2>3 DEF Distinct
  <2>5. \A d \in Calls : Lines(q, d) => Lines(p, d) \/ d = c
    BY <2>2 DEF Lines
  <2> QED
    BY <2>4, <2>5, NamesDiffer DEF Carries
<1>3. CASE q.stdin = <<c>>
  <2>1. \A i \in DOMAIN q.stdin : i = 1 /\ q.stdin[i] = c
    BY <1>3
  <2> QED
    BY <2>1, NamesDiffer DEF Distinct, Lines, Carries
<1> QED
  BY <1>2, <1>3

LEMMA TakenLines ==
  ASSUME NEW p \in Processes, NEW q, Distinct(p), p.stdin # <<>>, Head(p.stdin) # Exit,
         q.stdin = Tail(p.stdin), q.doing = Head(p.stdin)
  PROVE  /\ Head(p.stdin) \in Calls /\ Lines(p, Head(p.stdin)) /\ ~Lines(q, Head(p.stdin))
         /\ Distinct(q)
         /\ \A d \in Calls : (Lines(q, d) => Lines(p, d)) /\ (Carries(q, d) => Carries(p, d))
<1> DEFINE h == Head(p.stdin)
           s == Tail(p.stdin)
<1>1. p.stdin \in Seq(Calls \cup {Exit}) /\ Len(p.stdin) \in Nat /\ Len(p.stdin) > 0
  BY DEF Processes
<1>2. /\ h = p.stdin[1] /\ h \in Calls /\ 1 \in DOMAIN p.stdin
      /\ s \in Seq(Calls \cup {Exit}) /\ Len(s) = Len(p.stdin) - 1
      /\ \A i \in 1..Len(s) : s[i] = p.stdin[i + 1]
  BY <1>1
<1>3. \A i \in DOMAIN s : i \in Nat /\ i >= 1 /\ i + 1 \in DOMAIN p.stdin /\ s[i] = p.stdin[i + 1]
  BY <1>1, <1>2
<1> HIDE DEF h, s
<1>4. /\ q.stdin = s /\ q.doing = h /\ h # Exit
  BY DEF h, s
<1>5. Distinct(q)
  <2> SUFFICES ASSUME NEW i \in DOMAIN s, NEW j \in DOMAIN s, s[i] = s[j], s[i] # Exit
               PROVE  i = j
    BY <1>4 DEF Distinct
  <2>1. i + 1 = j + 1
    BY <1>3 DEF Distinct
  <2> QED
    BY <1>3, <2>1
<1>6. ~Lines(q, h)
  <2> SUFFICES ASSUME NEW i \in DOMAIN s, s[i] = h PROVE FALSE
    BY <1>4 DEF Lines
  <2>1. i + 1 = 1
    BY <1>2, <1>3, <1>4 DEF Distinct
  <2> QED
    BY <1>3, <2>1
<1>7. Lines(p, h)
  BY <1>2 DEF Lines
<1>8. \A d \in Calls : Lines(q, d) => Lines(p, d)
  BY <1>3, <1>4 DEF Lines
<1> QED
  BY <1>2, <1>4, <1>5, <1>6, <1>7, <1>8 DEF Carries, h

LEMMA QuietPipe ==
  ASSUME PipeInv, ran' = ran, \A w \in Workers : Quieter(proc[w], proc'[w]),
         \A c \in Calls : Early(call'[c]) => Early(call[c]),
         \A c \in Calls, w \in Workers :
           Carries(proc[w], c) /\ Carries(proc'[w], c) => Tied(call'[c], w)
  PROVE  PipeInv'
<1>1. \A w \in Workers :
        /\ Distinct(proc'[w]) /\ Hushed(proc'[w])
        /\ \A c \in Calls : /\ Lines(proc'[w], c) => Lines(proc[w], c)
                            /\ Carries(proc'[w], c) => Carries(proc[w], c)
  BY QuieterLines DEF PipeInv
<1>2. AllHushed' /\ \A w \in Workers : Distinct(proc'[w])
  BY <1>1 DEF AllHushed
<1>3. \A w, v \in Workers, c \in Calls : Lines(proc'[w], c) /\ Lines(proc'[v], c) => w = v
  BY <1>1 DEF PipeInv
<1>4. \A w \in Workers, c \in Calls : Lines(proc'[w], c) => c \notin ran'
  BY <1>1 DEF PipeInv
<1>5. \A c \in Calls : Early(call'[c]) => c \notin ran' /\ \A w \in Workers : ~Carries(proc'[w], c)
  BY <1>1 DEF PipeInv
<1>6. \A w \in Workers, c \in Calls : Carries(proc'[w], c) => Tied(call'[c], w)
  BY <1>1
<1> QED
  BY <1>2, <1>3, <1>4, <1>5, <1>6 DEF PipeInv

LEMMA SendPipe ==
  ASSUME TypeInv, PipeInv, NEW c \in Calls, NEW w \in Workers, NEW p, Early(call[c]),
         Moves(c, call'), call'[c].pc = "talking", call'[c].at = w, ran' = ran,
         proc' = [proc EXCEPT ![w] = p], Running(p),
         p.stdin = Append(proc[w].stdin, c) \/ p.stdin = <<c>>, p.doing \in {proc[w].doing, None}
  PROVE  PipeInv'
<1>1. /\ proc[w] \in Processes /\ Distinct(proc[w])
      /\ c \notin ran /\ \A v \in Workers : ~Carries(proc[v], c) /\ ~Lines(proc[v], c)
  BY DEF TypeInv, TypeOK, PipeInv, Carries
<1>2. /\ Distinct(p) /\ Hushed(p)
      /\ \A d \in Calls : Lines(p, d) => Lines(proc[w], d) \/ d = c
      /\ \A d \in Calls : Carries(p, d) => Carries(proc[w], d) \/ d = c
  BY <1>1, SentLines DEF Hushed
<1>3. proc'[w] = p /\ \A v \in Workers : v # w => proc'[v] = proc[v]
  BY DEF TypeInv, TypeOK
<1>4. AllHushed' /\ \A v \in Workers : Distinct(proc'[v])
  BY <1>2, <1>3 DEF PipeInv, AllHushed
<1>5. \A u, v \in Workers, d \in Calls : Lines(proc'[u], d) /\ Lines(proc'[v], d) => u = v
  BY <1>1, <1>2, <1>3 DEF PipeInv
<1>6. \A v \in Workers, d \in Calls : Lines(proc'[v], d) => d \notin ran'
  BY <1>1, <1>2, <1>3 DEF PipeInv
<1>7. ASSUME NEW d \in Calls, Early(call'[d])
      PROVE  d \notin ran' /\ \A v \in Workers : ~Carries(proc'[v], d)
  <2>1. d # c
    BY <1>7 DEF Early
  <2> QED
    BY <1>2, <1>3, <1>7, <2>1 DEF PipeInv, Moves
<1>8. ASSUME NEW v \in Workers, NEW d \in Calls, Carries(proc'[v], d)
      PROVE  Tied(call'[d], v)
  <2>1. CASE d = c
    <3>1. v = w
      BY <1>1, <1>3, <1>8, <2>1
    <3> QED
      BY <2>1, <3>1 DEF Tied
  <2>2. CASE d # c
    BY <1>2, <1>3, <1>8, <2>2 DEF PipeInv, Moves
  <2> QED
    BY <2>1, <2>2
<1> QED
  BY <1>4, <1>5, <1>6, <1>7, <1>8 DEF PipeInv

LEMMA TakePipe ==
  ASSUME TypeInv, PipeInv, NEW w \in Workers, Take(w)
  PROVE  PipeInv' /\ Head(proc[w].stdin) \in Calls /\ Head(proc[w].stdin) \notin ran
<1> DEFINE h == Head(proc[w].stdin)
           q == [proc[w] EXCEPT !.stdin = Tail(proc[w].stdin), !.doing = h]
<1>1. /\ proc[w] \in Processes /\ Distinct(proc[w]) /\ proc[w].life = "up"
      /\ proc[w].stdin # <<>> /\ h # Exit
      /\ proc' = [proc EXCEPT ![w] = q] /\ ran' = ran \cup {h} /\ UNCHANGED call
  BY DEF TypeInv, TypeOK, PipeInv, Take, Reads, processFrame
<1>2. q.stdin = Tail(proc[w].stdin) /\ q.doing = h /\ q.life = "up"
  BY <1>1 DEF Processes
<1>3. proc'[w] = q /\ \A v \in Workers : v # w => proc'[v] = proc[v]
  BY <1>1 DEF TypeInv, TypeOK
<1> HIDE DEF q
<1>4. /\ h \in Calls /\ Lines(proc[w], h) /\ ~Lines(q, h) /\ Distinct(q) /\ Hushed(q)
      /\ \A d \in Calls : (Lines(q, d) => Lines(proc[w], d)) /\ (Carries(q, d) => Carries(proc[w], d))
  BY <1>1, <1>2, TakenLines DEF Hushed, Running
<1> HIDE DEF h
<1>5. AllHushed' /\ \A v \in Workers : Distinct(proc'[v])
  BY <1>3, <1>4 DEF PipeInv, AllHushed
<1>6. \A u, v \in Workers, d \in Calls : Lines(proc'[u], d) /\ Lines(proc'[v], d) => u = v
  BY <1>3, <1>4 DEF PipeInv
<1>7. \A v \in Workers, d \in Calls : Lines(proc'[v], d) => d \notin ran'
  <2> SUFFICES ASSUME NEW v \in Workers, NEW d \in Calls, Lines(proc'[v], d)
               PROVE  d \notin ran /\ d # h
    BY <1>1
  <2>1. Lines(proc[v], d)
    BY <1>3, <1>4
  <2>2. d # h
    BY <1>3, <1>4, <2>1 DEF PipeInv
  <2> QED
    BY <2>1, <2>2 DEF PipeInv
<1>8. \A d \in Calls : Early(call'[d]) => d \notin ran' /\ \A v \in Workers : ~Carries(proc'[v], d)
  <2> SUFFICES ASSUME NEW d \in Calls, Early(call[d])
               PROVE  d \notin ran /\ d # h /\ \A v \in Workers : ~Carries(proc'[v], d)
    BY <1>1
  <2>1. Carries(proc[w], h)
    BY <1>4 DEF Carries
  <2> QED
    BY <1>3, <1>4, <2>1 DEF PipeInv
<1>9. \A v \in Workers, d \in Calls : Carries(proc'[v], d) => Tied(call'[d], v)
  BY <1>1, <1>3, <1>4 DEF PipeInv
<1>10. h \notin ran
  BY <1>4 DEF PipeInv
<1> QED
  BY <1>4, <1>5, <1>6, <1>7, <1>8, <1>9, <1>10 DEF PipeInv, h

LEMMA EnterPipe ==
  ASSUME TypeInv, PipeInv, NEW c \in Calls, NEW w \in Workers, Enter(w, c), Early(call[c]),
         ran' = ran
  PROVE  PipeInv'
<1>1. /\ Moves(c, call') /\ call'[c].at = w
      /\ call'[c].pc = IF Alive(w) THEN "talking" ELSE "starting"
  BY EnterFacts
<1>2. CASE Live(w)
  <2> DEFINE p == [proc[w] EXCEPT !.stdin = Append(proc[w].stdin, c)]
  <2>1. proc[w] \in Processes
    BY DEF TypeInv, TypeOK
  <2>2. p.stdin = Append(proc[w].stdin, c) /\ p.doing = proc[w].doing /\ p.life = proc[w].life
    BY <2>1 DEF Processes
  <2>3. proc' = [proc EXCEPT ![w] = p]
    BY <1>2 DEF Enter, Send
  <2> HIDE DEF p
  <2>4. Running(p) /\ call'[c].pc = "talking"
    BY <1>1, <1>2, <2>2 DEF Running, Live, Alive
  <2> QED
    BY <1>1, <2>2, <2>3, <2>4, SendPipe
<1>3. CASE ~Live(w)
  <2>1. UNCHANGED proc
    BY <1>3 DEF Enter, Send
  <2>2. \A d \in Calls : Early(call'[d]) => Early(call[d])
    BY <1>1 DEF Moves
  <2>3. \A d \in Calls, v \in Workers : Carries(proc[v], d) => Tied(call'[d], v)
    BY <1>1 DEF Moves, PipeInv
  <2>4. \A v \in Workers : Quieter(proc[v], proc'[v])
    BY <2>1, QuieterNone DEF PipeInv
  <2> QED
    BY <2>2, <2>3, <2>4, QuietPipe
<1> QED
  BY <1>2, <1>3

\* shutdown is the one line that is no call.
LEMMA AskedPipe ==
  ASSUME TypeInv, PipeInv, shutdown
  PROVE  PipeInv'
<1>1. rest # <<>> /\ rest \in Seq(Workers) /\ UNCHANGED <<call, ran>>
  BY DEF shutdown, TypeInv, TypeOK, ownerFrame
<1>2. Head(rest) \in Workers
  BY <1>1
<1>3. CASE ~Alive(Head(rest))
  <2>1. UNCHANGED proc
    BY <1>3 DEF shutdown
  <2> QED
    BY <1>1, <2>1, QuieterNone, QuietPipe DEF PipeInv
<1>4. CASE Alive(Head(rest))
  <2> PICK w \in Workers : w = Head(rest)
    BY <1>2
  <2> DEFINE p == [proc[w] EXCEPT !.asked = TRUE,
                     !.stdin = IF Live(w) THEN Append(proc[w].stdin, Exit) ELSE proc[w].stdin]
  <2>1. proc[w] \in Processes /\ Distinct(proc[w]) /\ Hushed(proc[w])
    BY DEF TypeInv, TypeOK, PipeInv, AllHushed
  <2>2. proc' = [proc EXCEPT ![w] = p]
    <3>1. proc' = [proc EXCEPT ![w].asked = TRUE,
                        ![w].stdin = IF Live(w) THEN Append(@, Exit) ELSE @]
      BY <1>4 DEF shutdown
    <3> QED
      BY <2>1, <3>1 DEF Processes
  <2>3. /\ p.stdin = IF Live(w) THEN Append(proc[w].stdin, Exit) ELSE proc[w].stdin
        /\ p.doing = proc[w].doing /\ p.life = proc[w].life
    BY <2>1 DEF Processes
  <2> HIDE DEF p
  <2>4. proc'[w] = p /\ \A v \in Workers : v # w => proc'[v] = proc[v]
    BY <2>2 DEF TypeInv, TypeOK
  <2>5. \A i \in DOMAIN p.stdin : \/ i \in DOMAIN proc[w].stdin /\ p.stdin[i] = proc[w].stdin[i]
                                  \/ p.stdin[i] = Exit
    BY <2>1, <2>3 DEF Processes
  <2>6. Hushed(p)
    BY <2>1, <2>3 DEF Hushed, Running, Live
  <2>7. Distinct(p)
    BY <2>1, <2>5 DEF Distinct
  <2>8. \A d \in Calls : Lines(p, d) => Lines(proc[w], d)
    BY <2>5, NamesDiffer DEF Lines
  <2>9. \A v \in Workers : /\ Distinct(proc'[v]) /\ Hushed(proc'[v])
          /\ \A d \in Calls : /\ Lines(proc'[v], d) => Lines(proc[v], d)
                              /\ Carries(proc'[v], d) => Carries(proc[v], d)
    BY <2>3, <2>4, <2>6, <2>7, <2>8 DEF Carries, PipeInv, AllHushed
  <2> QED
    BY <1>1, <2>9 DEF PipeInv, AllHushed
<1> QED
  BY <1>3, <1>4

LEMMA CallStepPipe ==
  ASSUME TypeInv, PipeInv, NEW c \in Calls, CallStep(c)
  PROVE  PipeInv'
<1>1. CASE Started(c)
  <2>1. /\ call[c].pc = "starting" /\ Moves(c, call') /\ call'[c].pc = "talking"
        /\ call'[c].at = call[c].at
        /\ \E p \in Processes : /\ proc' = [proc EXCEPT ![call[c].at] = p]
                                /\ p.life = "loading" /\ p.stdin = <<c>> /\ p.doing = None
    BY <1>1, StartedFacts
  <2>2. call[c].at \in Workers /\ ran' = ran
    BY <1>1, <2>1 DEF TypeInv, Underway, Started, callFrame
  <2> PICK p : /\ proc' = [proc EXCEPT ![call[c].at] = p]
               /\ p.life = "loading" /\ p.stdin = <<c>> /\ p.doing = None
    BY <2>1
  <2>3. Early(call[c]) /\ Running(p) /\ p.doing \in {proc[call[c].at].doing, None}
    BY <2>1 DEF Early, Running
  <2> QED
    BY <2>1, <2>2, <2>3, SendPipe
<1>2. CASE ~Started(c)
  <2>1. Settles(c) /\ \A w \in Workers : Quieter(proc[w], proc'[w])
    BY <1>2, CallStepPipes DEF PipeInv
  <2>2. ran' = ran
    BY DEF CallStep, Started, StartFails, Read, Disconnected, Timeout, KillEnds, Cancel, callFrame
  <2>3. \A d \in Calls : Early(call'[d]) => Early(call[d])
    BY <2>1 DEF Settles, Moves, Early
  <2>4. ASSUME NEW d \in Calls, NEW w \in Workers,
               Carries(proc[w], d), Carries(proc'[w], d)
        PROVE  Tied(call'[d], w)
    <3>1. Tied(call[d], w) /\ Hushed(proc'[w])
      BY <2>1, <2>4 DEF PipeInv, Quieter
    <3>2. CASE d # c
      BY <2>1, <3>1, <3>2 DEF Settles, Moves
    <3>3. CASE d = c
      <4>1. CASE call'[c].pc = "done" /\ call'[c].outcome \in Lingering
        BY <3>3, <4>1 DEF Tied
      <4>2. CASE call[c].pc \in {"starting", "killing"}
        BY <3>1, <3>3, <4>2 DEF Tied
      <4>3. CASE call[c].pc = "talking" /\ ~Running(proc'[call[c].at])
        <5>1. w = call[c].at
          BY <3>1, <3>3, <4>3 DEF Tied
        <5>2. proc'[w].stdin = <<>> /\ proc'[w].doing = None
          BY <3>1, <4>3, <5>1 DEF Hushed
        <5> QED
          BY <2>4, <5>2, NamesDiffer DEF Carries, Lines
      <4> QED
        BY <2>1, <4>1, <4>2, <4>3 DEF Settles
    <3> QED
      BY <3>2, <3>3
  <2> QED
    BY <2>1, <2>2, <2>3, <2>4, QuietPipe
<1> QED
  BY <1>1, <1>2

LEMMA RequestPipe ==
  ASSUME BaseInv, PipeInv, NEW r \in Requests, Request(r) \/ Refuse(r)
  PROVE  PipeInv'
<1>1. r \in Calls
  BY DEF Calls
<1>2. ASSUME UNCHANGED <<proc, ran>>, Moves(r, call'), call'[r].pc \in {"waiting", "done"},
             call[r].pc = "idle"
      PROVE  PipeInv'
  <2>1. \A d \in Calls : Early(call'[d]) => Early(call[d])
    BY <1>2 DEF Moves, Early
  <2>2. \A d \in Calls, w \in Workers : Carries(proc[w], d) => Tied(call'[d], w)
    BY <1>1, <1>2 DEF Moves, PipeInv, Early
  <2> QED
    BY <1>2, <2>1, <2>2, QuieterNone, QuietPipe DEF PipeInv
<1>3. CASE Request(r)
  <2> PICK kept \in _prune : Ask(_pick(kept, r), r)
    BY <1>3 DEF Request
  <2>1. kept \in Seq(Workers)
    BY PruneFacts DEF BaseInv
  <2>2. _pick(kept, r) \in Workers
    BY <2>1, PickFacts DEF BaseInv
  <2>3. call[r].pc = "idle" /\ phase' # "spawning" /\ ran' = ran
    BY <1>3 DEF Request
  <2> PICK w \in Workers : Ask(w, r)
    BY <2>2
  <2>4. CASE Enter(w, r)
    BY <1>1, <2>3, <2>4, EnterPipe DEF BaseInv, Early
  <2>5. CASE /\ lock' = [lock EXCEPT ![w].waiters = Append(@, r)]
             /\ call' = [call EXCEPT ![r].pc = "waiting", ![r].at = w]
             /\ UNCHANGED proc
    <3>1. Moves(r, call') /\ call'[r].pc = "waiting"
      BY <1>1, <2>3, <2>5, QueueBase
    <3> QED
      BY <1>2, <2>3, <2>5, <3>1
  <2> QED
    BY <2>4, <2>5 DEF Ask
<1>4. CASE Refuse(r)
  BY <1>1, <1>2, <1>4, RefuseFacts DEF Refuse, Ends, BaseInv
<1> QED
  BY <1>3, <1>4

LEMMA NextPipe ==
  ASSUME BaseInv, PipeInv, [Next]_vars
  PROVE  PipeInv'
<1>1. CASE UNCHANGED vars
  BY <1>1, QuieterNone, QuietPipe DEF vars, PipeInv
<1>2. ASSUME UNCHANGED <<call, ran>>, \A w \in Workers : Quieter(proc[w], proc'[w])
      PROVE  PipeInv'
  BY <1>2, QuietPipe DEF PipeInv
<1>3. ASSUME NEW w \in Workers, Acquire(w)
      PROVE  PipeInv'
  <2>1. /\ lock[w].waiters \in Seq(Calls) /\ lock[w].waiters # <<>>
        /\ Enter(w, Head(lock[w].waiters)) /\ ran' = ran
    BY <1>3 DEF Acquire, callFrame, BaseInv, TypeInv, TypeOK, Locks
  <2>2. Head(lock[w].waiters) \in Calls /\ call[Head(lock[w].waiters)].pc = "waiting"
    BY <2>1 DEF BaseInv, QueueInv, Queue
  <2> QED
    BY <2>1, <2>2, EnterPipe DEF BaseInv, Early
<1>4. ASSUME NEW w \in Workers, ProcessStep(w)
      PROVE  PipeInv'
  BY <1>2, <1>4, ProcessStepPipes, TakePipe DEF BaseInv, PipeInv
<1>5. CASE _spawn
  <2>1. /\ Moves(Hello, call') /\ call'[Hello].pc = "talking" /\ call'[Hello].at = First
        /\ \E p \in Processes : /\ proc' = [proc EXCEPT ![First] = p]
                                /\ p.life = "loading" /\ p.stdin = <<Hello>> /\ p.doing = None
    BY <1>5, SpawnFacts DEF BaseInv
  <2>2. Hello \in Calls /\ First \in Workers /\ Early(call[Hello]) /\ ran' = ran
    BY <1>5 DEF Calls, Workers, BaseInv, QueueInv, _spawn, ownerFrame, Early
  <2> QED
    BY <2>1, <2>2, SendPipe DEF BaseInv, Running
<1>6. CASE OwnerStep
  BY <1>2, <1>5, <1>6, OwnerStepPipes, AskedPipe DEF BaseInv, PipeInv
<1> QED
  BY <1>1, <1>3, <1>4, <1>6, CallStepPipe, RequestPipe DEF Next, BaseInv

LEMMA InitPipe == Init => PipeInv
BY NamesDiffer DEF Init, PipeInv, AllHushed, Hushed, Distinct, Lines, Carries, NoProcess

LEMMA PipeInvariant == Spec => [](BaseInv /\ PipeInv)
<1>1. Init => PipeInv
  BY InitPipe
<1>2. BaseInv /\ PipeInv /\ [Next]_vars => PipeInv'
  BY NextPipe
<1> QED
  BY <1>1, <1>2, BaseInvariant, PTL DEF Spec

\* A call that was told of a timeout, a crash or a broken protocol is in no process and
\* in no pipe: kill came before the lock was released.
THEOREM FailuresStopped == Spec => []FailedCallStopped
<1>1. BaseInv /\ PipeInv => FailedCallStopped
  <2> SUFFICES ASSUME BaseInv, PipeInv, NEW w \in Workers, NEW c \in Calls, call[c].pc = "done",
                      call[c].outcome \in {"TIMEOUT", "PLUGIN_CRASHED", "PLUGIN_PROTOCOL"}
               PROVE  proc[w].doing # c /\ ~Contains(proc[w].stdin, c)
    BY DEF FailedCallStopped
  <2>1. ~Carries(proc[w], c)
    BY DEF PipeInv, Tied, Lingering
  <2>2. proc[w].stdin \in Seq(Calls \cup {Exit})
    BY DEF BaseInv, TypeInv, TypeOK, Processes
  <2> QED
    BY <2>1, <2>2 DEF Carries, Lines, Contains
<1> QED
  BY <1>1, PipeInvariant, PTL

-----------------------------------------------------------------------------
(* What any step leaves of a process and of a call *)

\* Only Take takes up a line, and only shutdown asks a process to leave.
Follows(w) ==
  /\ Speaks(proc[w], proc'[w])
  /\ proc'[w].doing \in {proc[w].doing, None} \/ Take(w)
  /\ proc'[w].asked /\ Running(proc'[w]) =>
       \/ proc[w].asked /\ Running(proc[w])
       \/ shutdown /\ w = Head(rest) /\ phase' \in Leaving /\ rest' = rest

LEMMA QuieterFollows ==
  ASSUME NEW w \in Workers, Quieter(proc[w], proc'[w])
  PROVE  Follows(w)
BY DEF Quieter, Follows

\* A process gets a line, or starts with one.
LEMMA SentFollows ==
  ASSUME NEW w \in Workers, proc'[w].stdout \in {proc[w].stdout, <<>>},
         proc'[w].doing \in {proc[w].doing, None},
         ~proc'[w].asked \/ (proc'[w].asked = proc[w].asked /\ proc'[w].life = proc[w].life)
  PROVE  Follows(w)
BY DEF Follows, Speaks, Running

LEMMA EnterFollows ==
  ASSUME TypeInv, NEW c \in Calls, NEW v \in Workers, Enter(v, c), NEW w \in Workers
  PROVE  Follows(w)
<1>1. proc[w] \in Processes
  BY DEF TypeInv, TypeOK
<1>2. /\ w # v => proc'[w] = proc[w]
      /\ IF Live(v) THEN proc'[v] = [proc[v] EXCEPT !.stdin = Append(proc[v].stdin, c)]
                    ELSE proc' = proc
  BY EnterFacts
<1>3. proc'[w].stdout = proc[w].stdout /\ proc'[w].doing = proc[w].doing
      /\ proc'[w].asked = proc[w].asked /\ proc'[w].life = proc[w].life
  BY <1>1, <1>2 DEF Processes
<1> QED
  BY <1>3, SentFollows

LEMMA AskFollows ==
  ASSUME TypeInv, NEW c \in Calls, NEW v \in Workers, Ask(v, c), NEW w \in Workers
  PROVE  Follows(w)
<1>1. CASE Enter(v, c)
  BY <1>1, EnterFollows
<1>2. CASE UNCHANGED proc
  BY <1>2, SentFollows
<1> QED
  BY <1>1, <1>2 DEF Ask

LEMMA ShutdownFollows ==
  ASSUME TypeInv, shutdown, NEW w \in Workers
  PROVE  Follows(w)
<1>1. proc[w] \in Processes /\ proc \in [Workers -> Processes]
  BY DEF TypeInv, TypeOK
<1>2. CASE ~Alive(Head(rest)) \/ w # Head(rest)
  <2>1. proc'[w] = proc[w]
    BY <1>1, <1>2 DEF shutdown
  <2> QED
    BY <2>1, SentFollows
<1>3. CASE Alive(Head(rest)) /\ w = Head(rest)
  <2> DEFINE p == [proc[w] EXCEPT !.asked = TRUE,
                     !.stdin = IF Live(w) THEN Append(proc[w].stdin, Exit) ELSE proc[w].stdin]
  <2>1. proc' = [proc EXCEPT ![w] = p]
    <3>1. proc' = [proc EXCEPT ![w].asked = TRUE,
                        ![w].stdin = IF Live(w) THEN Append(@, Exit) ELSE @]
      BY <1>3 DEF shutdown
    <3> QED
      BY <1>1, <3>1 DEF Processes
  <2>2. p.stdout = proc[w].stdout /\ p.doing = proc[w].doing
    BY <1>1 DEF Processes
  <2> HIDE DEF p
  <2>3. proc'[w] = p /\ phase' \in Leaving /\ rest' = rest
    BY <1>1, <1>3, <2>1 DEF shutdown, Leaving
  <2>4. Speaks(proc[w], p)
    BY <2>2 DEF Speaks
  <2> QED
    BY <1>3, <2>2, <2>3, <2>4 DEF Follows
<1> QED
  BY <1>2, <1>3

LEMMA TakeFollows ==
  ASSUME TypeInv, NEW v \in Workers, Take(v), NEW w \in Workers
  PROVE  Follows(w)
<1>1. proc[w] \in Processes /\ proc \in [Workers -> Processes]
  BY DEF TypeInv, TypeOK
<1> DEFINE q == [proc[v] EXCEPT !.stdin = Tail(proc[v].stdin), !.doing = Head(proc[v].stdin)]
<1>2. proc' = [proc EXCEPT ![v] = q]
  BY DEF Take
<1>3. CASE w # v
  <2>1. proc'[w] = proc[w]
    BY <1>1, <1>2, <1>3
  <2> QED
    BY <2>1, SentFollows
<1>4. CASE w = v
  <2>1. q.stdout = proc[w].stdout /\ q.asked = proc[w].asked /\ q.life = proc[w].life
    BY <1>1, <1>4 DEF Processes
  <2> HIDE DEF q
  <2>2. proc'[w] = q
    BY <1>1, <1>2, <1>4
  <2>3. Speaks(proc[w], q)
    BY <2>1 DEF Speaks
  <2> QED
    BY <1>4, <2>1, <2>2, <2>3 DEF Follows, Running
<1> QED
  BY <1>3, <1>4

\* A process that is started has no answer in its pipe and was not asked to leave.
LEMMA NewFollows ==
  ASSUME TypeInv, NEW v \in Workers, NEW p, proc' = [proc EXCEPT ![v] = p],
         p.doing = None, ~p.asked, p.stdout = <<>>, NEW w \in Workers
  PROVE  Follows(w)
<1>1. IF w = v THEN proc'[w] = p ELSE proc'[w] = proc[w]
  BY DEF TypeInv, TypeOK
<1> QED
  BY <1>1, SentFollows

LEMMA NextFollows ==
  ASSUME BaseInv, AllHushed, [Next]_vars, NEW w \in Workers
  PROVE  Follows(w)
<1>0. TypeInv
  BY DEF BaseInv
<1>1. CASE UNCHANGED proc
  BY <1>1, SentFollows
<1>2. ASSUME NEW r \in Requests, Request(r) \/ Refuse(r)
      PROVE  Follows(w)
  <2>1. CASE Request(r)
    <3> PICK kept \in _prune : Ask(_pick(kept, r), r)
      BY <2>1 DEF Request
    <3>1. kept \in Seq(Workers)
      BY <1>0, PruneFacts
    <3>2. _pick(kept, r) \in Workers /\ r \in Calls
      BY <1>0, <3>1, PickFacts DEF Calls
    <3> QED
      BY <1>0, <3>2, AskFollows
  <2> QED
    BY <1>1, <1>2, <2>1 DEF Refuse
<1>3. ASSUME NEW c \in Calls, CallStep(c)
      PROVE  Follows(w)
  <2>1. CASE Started(c)
    <3>1. /\ call[c].pc = "starting"
          /\ \E p \in Processes : /\ proc' = [proc EXCEPT ![call[c].at] = p]
                                  /\ p.doing = None /\ ~p.asked /\ p.stdout = <<>>
      BY <1>0, <2>1, StartedFacts
    <3>2. call[c].at \in Workers
      BY <1>0, <3>1 DEF TypeInv, Underway
    <3> PICK p : /\ proc' = [proc EXCEPT ![call[c].at] = p]
                 /\ p.doing = None /\ ~p.asked /\ p.stdout = <<>>
      BY <3>1
    <3> QED
      BY <1>0, <3>2, NewFollows
  <2>2. CASE ~Started(c)
    BY <1>0, <1>3, <2>2, CallStepPipes, QuieterFollows
  <2> QED
    BY <2>1, <2>2
<1>4. ASSUME NEW v \in Workers, Acquire(v)
      PROVE  Follows(w)
  <2>1. /\ lock[v].waiters \in Seq(Calls) /\ lock[v].waiters # <<>>
        /\ Enter(v, Head(lock[v].waiters))
    BY <1>4 DEF Acquire, BaseInv, TypeInv, TypeOK, Locks
  <2>2. Head(lock[v].waiters) \in Calls
    BY <2>1
  <2> QED
    BY <1>0, <2>1, <2>2, EnterFollows
<1>5. ASSUME NEW v \in Workers, ProcessStep(v)
      PROVE  Follows(w)
  BY <1>0, <1>5, ProcessStepPipes, QuieterFollows, TakeFollows
<1>6. CASE _spawn
  <2> PICK p : /\ proc' = [proc EXCEPT ![First] = p]
               /\ p.doing = None /\ ~p.asked /\ p.stdout = <<>>
    BY <1>0, <1>6, SpawnFacts
  <2>1. First \in Workers
    BY DEF Workers
  <2> QED
    BY <1>0, <2>1, NewFollows
<1>7. CASE OwnerStep
  BY <1>0, <1>6, <1>7, OwnerStepPipes, QuieterFollows, ShutdownFollows
<1> QED
  BY <1>1, <1>2, <1>3, <1>4, <1>5, <1>7 DEF Next, vars

\* A killed call is not taken up again: its line was in one pipe, once.
THEOREM NotRunTwice == Spec => RunOnce
<1>1. ASSUME BaseInv, PipeInv, [Next]_vars, NEW w \in Workers,
             proc[w].doing = None, proc'[w].doing # None
      PROVE  proc'[w].doing \notin ran
  <2>1. Take(w)
    BY <1>1, NextFollows DEF Follows, PipeInv
  <2>2. Head(proc[w].stdin) \notin ran
    BY <1>1, <2>1, TakePipe DEF BaseInv
  <2>3. proc'[w].doing = Head(proc[w].stdin)
    <3> DEFINE q == [proc[w] EXCEPT !.stdin = Tail(proc[w].stdin), !.doing = Head(proc[w].stdin)]
    <3>1. proc[w] \in Processes /\ proc \in [Workers -> Processes]
      BY <1>1 DEF BaseInv, TypeInv, TypeOK
    <3>2. proc'[w] = q
      BY <2>1, <3>1 DEF Take
    <3> QED
      BY <3>1, <3>2 DEF Processes
  <2> QED
    BY <2>2, <2>3
<1>2. BaseInv /\ PipeInv /\ [Next]_vars =>
        [\A w \in Workers :
           proc[w].doing = None /\ proc'[w].doing # None => proc'[w].doing \notin ran]_vars
  BY <1>1
<1> QED
  BY <1>2, PipeInvariant, PTL DEF Spec, RunOnce

-----------------------------------------------------------------------------
(* Results *)

\* What a process executes or has answered was taken up.
ResultInv ==
  /\ \A w \in Workers : proc[w].doing # None => proc[w].doing \in ran
  /\ \A w \in Workers : \A i \in DOMAIN proc[w].stdout :
       proc[w].stdout[i].kind = "result" /\ proc[w].stdout[i].id \in Calls
         => proc[w].stdout[i].id \in ran
  /\ OwnReply

\* The other calls keep what they have.
LEMMA MovedAnswers ==
  ASSUME NEW c \in Calls, Moves(c, call'), Answered(c)
  PROVE  \A d \in Calls : Answered(d)
BY DEF Moves, Answered

LEMMA NextAnswered ==
  ASSUME BaseInv, AllHushed, [Next]_vars, NEW d \in Calls
  PROVE  Answered(d)
<1>0. TypeInv
  BY DEF BaseInv
<1>1. CASE UNCHANGED call
  BY <1>1 DEF Answered
<1>2. ASSUME NEW c \in Calls, Moves(c, call'), call'[c].got = call[c].got,
             call'[c].outcome = call[c].outcome \/ call'[c].outcome # "result"
      PROVE  Answered(d)
  <2>1. Answered(c)
    BY <1>2 DEF Answered
  <2> QED
    BY <1>2, <2>1, MovedAnswers
<1>3. ASSUME NEW r \in Requests, Request(r) \/ Refuse(r)
      PROVE  Answered(d)
  <2>0. r \in Calls
    BY DEF Calls
  <2>1. CASE Request(r)
    <3> PICK kept \in _prune : Ask(_pick(kept, r), r)
      BY <2>1 DEF Request
    <3>1. kept \in Seq(Workers)
      BY <1>0, PruneFacts
    <3>2. _pick(kept, r) \in Workers
      BY <1>0, <3>1, PickFacts
    <3> PICK w \in Workers : Ask(w, r)
      BY <3>2
    <3>3. call[r].pc = "idle" /\ phase' # "spawning"
      BY <2>1 DEF Request
    <3>4. CASE Enter(w, r)
      BY <1>0, <1>2, <2>0, <3>4, EnterFacts
    <3>5. CASE /\ lock' = [lock EXCEPT ![w].waiters = Append(@, r)]
               /\ call' = [call EXCEPT ![r].pc = "waiting", ![r].at = w]
      BY <1>2, <2>0, <3>3, <3>5, QueueBase
    <3> QED
      BY <3>4, <3>5 DEF Ask
  <2>2. CASE Refuse(r)
    BY <1>0, <1>2, <2>0, <2>2, RefuseFacts DEF Ends
  <2> QED
    BY <1>3, <2>1, <2>2
<1>4. ASSUME NEW c \in Calls, CallStep(c)
      PROVE  Answered(d)
  <2>1. CASE Started(c)
    BY <1>0, <1>2, <2>1, StartedFacts
  <2>2. CASE ~Started(c)
    BY <1>0, <1>4, <2>2, CallStepPipes, MovedAnswers DEF Settles
  <2> QED
    BY <2>1, <2>2
<1>5. ASSUME NEW v \in Workers, Acquire(v)
      PROVE  Answered(d)
  <2>1. /\ lock[v].waiters \in Seq(Calls) /\ lock[v].waiters # <<>>
        /\ Enter(v, Head(lock[v].waiters))
    BY <1>5 DEF Acquire, BaseInv, TypeInv, TypeOK, Locks
  <2>2. Head(lock[v].waiters) \in Calls
    BY <2>1
  <2> QED
    BY <1>0, <1>2, <2>1, <2>2, EnterFacts
<1>6. ASSUME NEW v \in Workers, ProcessStep(v)
      PROVE  Answered(d)
  BY <1>0, <1>1, <1>6, ProcessStepPipes DEF Take, processFrame
<1>7. CASE _spawn
  <2>1. Hello \in Calls
    BY DEF Calls
  <2> QED
    BY <1>0, <1>2, <1>7, <2>1, SpawnFacts
<1>8. CASE OwnerStep
  BY <1>0, <1>1, <1>7, <1>8, OwnerStepPipes DEF shutdown
<1> QED
  BY <1>1, <1>3, <1>4, <1>5, <1>6, <1>8 DEF Next, vars

\* ran only grows, by what a process takes up.
LEMMA NextRan ==
  ASSUME BaseInv, AllHushed, [Next]_vars
  PROVE  /\ ran \subseteq ran'
         /\ \A w \in Workers : Take(w) => proc'[w].doing \in ran'
<1>1. CASE \E w \in Workers : Take(w)
  <2>1. ran \subseteq ran'
    BY <1>1 DEF Take
  <2>2. ASSUME NEW w \in Workers, Take(w)
        PROVE  proc'[w].doing \in ran'
    <3> DEFINE q == [proc[w] EXCEPT !.stdin = Tail(proc[w].stdin), !.doing = Head(proc[w].stdin)]
    <3>1. proc[w] \in Processes /\ proc \in [Workers -> Processes]
      BY DEF BaseInv, TypeInv, TypeOK
    <3>2. proc'[w] = q /\ Head(proc[w].stdin) \in ran'
      BY <2>2, <3>1 DEF Take
    <3> QED
      BY <3>1, <3>2 DEF Processes
  <2> QED
    BY <2>1, <2>2
<1>2. CASE ~\E w \in Workers : Take(w)
  <2>1. CASE \E w \in Workers : ProcessStep(w)
    BY <1>2, <2>1, ProcessStepPipes DEF BaseInv
  <2>2. CASE OwnerStep
    BY <1>2, <2>2 DEF OwnerStep, _spawn, SpawnFails, Accept, Reject, Close, Drained, shutdown, Flushed,
                Exited, ExitTimeout, Stopped, ownerFrame
  <2>3. CASE \E c \in Calls : CallStep(c)
    BY <1>2, <2>3 DEF CallStep, Started, StartFails, Read, Disconnected, Timeout, KillEnds, Cancel,
                callFrame
  <2>4. CASE \E w \in Workers : Acquire(w)
    BY <1>2, <2>4 DEF Acquire, callFrame
  <2>5. CASE \E r \in Requests : Request(r) \/ Refuse(r)
    BY <1>2, <2>5 DEF Request, Refuse
  <2> QED
    BY <1>2, <2>1, <2>2, <2>3, <2>4, <2>5 DEF Next, vars
<1> QED
  BY <1>1, <1>2

LEMMA NextResult ==
  ASSUME BaseInv, AllHushed, ResultInv, [Next]_vars
  PROVE  ResultInv'
<1>1. ran \subseteq ran' /\ \A w \in Workers : Follows(w)
  BY NextRan, NextFollows
<1>2. ASSUME NEW w \in Workers, proc'[w].doing # None
      PROVE  proc'[w].doing \in ran'
  BY <1>1, <1>2, NextRan DEF Follows, ResultInv
<1>3. ASSUME NEW w \in Workers, NEW i \in DOMAIN proc'[w].stdout,
             proc'[w].stdout[i].kind = "result", proc'[w].stdout[i].id \in Calls
      PROVE  proc'[w].stdout[i].id \in ran'
  <2>1. \/ \E j \in DOMAIN proc[w].stdout : proc'[w].stdout[i] = proc[w].stdout[j]
        \/ proc'[w].stdout[i].id = proc[w].doing
    BY <1>1, <1>3 DEF Follows, Speaks
  <2>2. CASE \E j \in DOMAIN proc[w].stdout : proc'[w].stdout[i] = proc[w].stdout[j]
    BY <1>1, <1>3, <2>2 DEF ResultInv
  <2>3. CASE proc'[w].stdout[i].id = proc[w].doing
    BY <1>1, <1>3, <2>3, NamesDiffer DEF ResultInv
  <2> QED
    BY <2>1, <2>2, <2>3
<1>4. ASSUME NEW c \in Calls, call'[c].outcome = "result"
      PROVE  call'[c].got = c /\ c \in ran'
  <2>1. Answered(c)
    BY NextAnswered
  <2>2. CASE call[c].outcome = "result" /\ call'[c].got = call[c].got
    BY <1>1, <2>2 DEF ResultInv, OwnReply
  <2>3. CASE /\ call'[c].got = c
             /\ \E w \in Workers : \E i \in DOMAIN proc[w].stdout :
                  proc[w].stdout[i].kind = "result" /\ proc[w].stdout[i].id = c
    BY <1>1, <2>3 DEF ResultInv
  <2> QED
    BY <1>4, <2>1, <2>2, <2>3 DEF Answered
<1> QED
  BY <1>2, <1>3, <1>4 DEF ResultInv, OwnReply

\* Each result goes to the call it was computed for: a process answers with the id of the
\* line it executes, and call compares the id.
THEOREM RepliesOwned == Spec => []OwnReply
<1>1. Init => ResultInv
  BY DEF Init, ResultInv, OwnReply, NoProcess
<1>2. BaseInv /\ PipeInv /\ ResultInv /\ [Next]_vars => ResultInv'
  BY NextResult DEF PipeInv
<1>3. ResultInv => OwnReply
  BY DEF ResultInv
<1> QED
  BY <1>1, <1>2, <1>3, PipeInvariant, PTL DEF Spec

-----------------------------------------------------------------------------
(* Stopping *)

\* The steps that move the owner on leave no process behind that was asked to leave.
LEMMA OwnerMoves ==
  ASSUME BaseInv, StopReaps, [Next]_vars, ~shutdown, NEW w \in Workers,
         Running(proc'[w]), proc'[w].asked, proc[w].asked, Running(proc[w])
  PROVE  phase' \in Leaving /\ w = Head(rest')
<1>1. phase \in Leaving /\ w = Head(rest) /\ Alive(w)
  BY DEF StopReaps, Running, Live, Alive, Leaving
<1>2. UNCHANGED <<phase, rest>> => phase' \in Leaving /\ w = Head(rest')
  BY <1>1
<1>3. CASE ExitTimeout
  <2>1. proc'[w] = Killed(proc[w]) /\ proc[w] \in Processes
    BY <1>1, <1>3 DEF ExitTimeout, BaseInv, TypeInv, TypeOK
  <2> QED
    BY <2>1, EndedType DEF Running
<1>4. CASE OwnerStep
  BY <1>1, <1>3, <1>4
     DEF OwnerStep, _spawn, SpawnFails, Accept, Reject, Close, Drained, Flushed, Exited, Stopped,
         HandshakeEnded, Leaving
<1>5. CASE \E c \in Calls : CallStep(c)
  BY <1>2, <1>5 DEF CallStep, Started, StartFails, Read, Disconnected, Timeout, KillEnds, Cancel,
                    callFrame, ownerVars
<1>6. CASE \E v \in Workers : Acquire(v)
  BY <1>2, <1>6 DEF Acquire, callFrame, ownerVars
<1>7. CASE \E v \in Workers : ProcessStep(v)
  BY <1>2, <1>7 DEF ProcessStep, Load, LoadFails, Take, Leave, Reply, Crash, Reap,
                    processFrame, ownerVars
<1>8. CASE \E r \in Requests : Request(r) \/ Refuse(r)
  BY <1>2, <1>8 DEF Request, Refuse, ownerVars
<1>9. CASE UNCHANGED vars
  BY <1>2, <1>9 DEF vars, ownerVars
<1> QED
  BY <1>4, <1>5, <1>6, <1>7, <1>8, <1>9 DEF Next

\* Once stop is past a worker, the process it has asked to leave has ended or was killed.
THEOREM StopLeavesNone == Spec => []StopReaps
<1>1. Init => StopReaps
  BY DEF Init, StopReaps, NoProcess
<1>2. ASSUME BaseInv, PipeInv, StopReaps, [Next]_vars
      PROVE  StopReaps'
  <2> SUFFICES ASSUME NEW w \in Workers, proc'[w].asked, Running(proc'[w])
               PROVE  phase' \in Leaving /\ w = Head(rest')
    BY DEF StopReaps, Live, Running, Leaving
  <2>1. \/ proc[w].asked /\ Running(proc[w])
        \/ shutdown /\ w = Head(rest) /\ phase' \in Leaving /\ rest' = rest
    BY <1>2, NextFollows DEF Follows, PipeInv
  <2>2. CASE shutdown /\ w = Head(rest) /\ phase' \in Leaving /\ rest' = rest
    BY <2>2 DEF Leaving
  <2>3. CASE proc[w].asked /\ Running(proc[w])
    <3>1. phase \in Leaving
      BY <1>2, <2>3 DEF StopReaps, Live, Running, Leaving
    <3>2. ~shutdown
      BY <3>1 DEF shutdown, Leaving
    <3> QED
      BY <1>2, <2>3, <3>2, OwnerMoves
  <2> QED
    BY <2>1, <2>2, <2>3
<1> QED
  BY <1>1, <1>2, PipeInvariant, PTL DEF Spec

-----------------------------------------------------------------------------
(* The size of the pool *)

\* The worker a request brings is in the pool only after the request.
PoolInv ==
  /\ PoolBounded
  /\ \A i \in DOMAIN workers : workers[i] \in Requests => call[workers[i]].pc # "idle"

LEMMA PoolFrame ==
  ASSUME PoolInv, UNCHANGED workers, \A r \in Requests : call'[r].pc = "idle" => call[r].pc = "idle"
  PROVE  PoolInv'
BY DEF PoolInv, PoolBounded, IsInjective

LEMMA PoolRequest ==
  ASSUME BaseInv, PoolInv, NEW r \in Requests, Request(r)
  PROVE  PoolInv'
<1> PICK kept \in _prune :
      /\ workers' = IF _pick(kept, r) = r THEN Append(kept, r) ELSE kept
      /\ Ask(_pick(kept, r), r)
  BY DEF Request
<1>0. /\ r \in Calls /\ call[r].pc = "idle" /\ phase' # "spawning" /\ workers \in Seq(Workers)
      /\ r \in Workers
  BY DEF Request, Calls, Workers, BaseInv, TypeInv, TypeOK
<1>1. /\ kept \in Seq(Workers) /\ Len(kept) <= Len(workers)
      /\ \A i \in DOMAIN kept : \E j \in DOMAIN workers : kept[i] = workers[j]
      /\ IsInjective(workers) => IsInjective(kept)
  BY PruneFacts DEF BaseInv
<1>2. IsInjective(kept) /\ Len(workers) <= MaxWorkers
  BY <1>1 DEF PoolInv, PoolBounded
<1>3. \A i \in DOMAIN kept : kept[i] # r /\ (kept[i] \in Requests => call[kept[i]].pc # "idle")
  BY <1>0, <1>1 DEF PoolInv
<1>4. _pick(kept, r) \in Workers /\ (_pick(kept, r) = r => Room(kept))
  BY <1>1, <1>3, PickFacts DEF BaseInv
<1> PICK w \in Workers : Ask(w, r)
  BY <1>4
<1>5. Moves(r, call') /\ call'[r].pc # "idle"
  <2>1. CASE Enter(w, r)
    BY <1>0, <2>1, EnterFacts DEF BaseInv
  <2>2. CASE /\ lock' = [lock EXCEPT ![w].waiters = Append(@, r)]
             /\ call' = [call EXCEPT ![r].pc = "waiting", ![r].at = w]
    BY <1>0, <2>2, QueueBase
  <2> QED
    BY <2>1, <2>2 DEF Ask
<1>6. \A d \in Requests : call[d].pc # "idle" => call'[d].pc # "idle"
  BY <1>5 DEF Moves, Calls
<1>7. MaxWorkers \in Nat /\ Len(kept) \in Nat /\ Len(workers) \in Nat
  BY <1>0, <1>1, PoolAssumption
<1>8. CASE _pick(kept, r) # r
  <2>1. workers' = kept /\ Len(kept) <= MaxWorkers
    BY <1>1, <1>2, <1>7, <1>8
  <2> QED
    BY <1>2, <1>3, <1>6, <2>1 DEF PoolInv, PoolBounded
<1>9. CASE _pick(kept, r) = r
  <2> DEFINE s == Append(kept, r)
  <2>1. workers' = s /\ Len(kept) < MaxWorkers
    BY <1>4, <1>9 DEF Room
  <2>2. /\ s \in Seq(Workers) /\ Len(s) = Len(kept) + 1 /\ s[Len(kept) + 1] = r
        /\ \A i \in 1..Len(kept) : s[i] = kept[i]
    BY <1>0, <1>1
  <2> HIDE DEF s
  <2>3. \A i \in DOMAIN s : \/ i \in DOMAIN kept /\ s[i] = kept[i]
                            \/ i = Len(kept) + 1 /\ s[i] = r
    BY <1>1, <1>7, <2>2
  <2>4. IsInjective(s)
    BY <1>2, <1>3, <2>3 DEF IsInjective
  <2>5. Len(s) <= MaxWorkers
    BY <1>7, <2>1, <2>2
  <2>6. \A i \in DOMAIN s : s[i] \in Requests => call'[s[i]].pc # "idle"
    BY <1>3, <1>5, <1>6, <2>3
  <2> QED
    BY <2>1, <2>4, <2>5, <2>6 DEF PoolInv, PoolBounded
<1> QED
  BY <1>8, <1>9

LEMMA PoolOwner ==
  ASSUME PoolInv, OwnerStep, ~_spawn
  PROVE  PoolInv'
<1>1. UNCHANGED call /\ (workers' = workers \/ workers' = <<>>)
  BY DEF OwnerStep, SpawnFails, Accept, Reject, Close, Drained, shutdown, Flushed, Exited,
         ExitTimeout, Stopped
<1>2. CASE workers' = <<>>
  BY <1>2, PoolAssumption DEF PoolInv, PoolBounded, IsInjective
<1>3. CASE workers' = workers
  BY <1>1, <1>3, PoolFrame
<1> QED
  BY <1>1, <1>2, <1>3

LEMMA NextPool ==
  ASSUME BaseInv, AllHushed, PoolInv, [Next]_vars
  PROVE  PoolInv'
<1>0. TypeInv
  BY DEF BaseInv
<1>1. CASE UNCHANGED <<workers, call>>
  BY <1>1, PoolFrame
<1>2. ASSUME NEW c \in Calls, Moves(c, call'), call'[c].pc # "idle", UNCHANGED workers
      PROVE  PoolInv'
  BY <1>2, PoolFrame DEF Moves, Calls
<1>3. ASSUME NEW r \in Requests, Refuse(r)
      PROVE  PoolInv'
  BY <1>0, <1>2, <1>3, RefuseFacts DEF Refuse, ownerVars, Ends, Calls
<1>4. ASSUME NEW c \in Calls, CallStep(c)
      PROVE  PoolInv'
  <2>1. UNCHANGED workers
    BY <1>4 DEF CallStep, Started, StartFails, Read, Disconnected, Timeout, KillEnds, Cancel,
                callFrame, ownerVars
  <2>2. CASE Started(c)
    BY <1>0, <1>2, <2>1, <2>2, StartedFacts
  <2>3. CASE ~Started(c)
    BY <1>0, <1>2, <1>4, <2>1, <2>3, CallStepPipes DEF Settles
  <2> QED
    BY <2>2, <2>3
<1>5. ASSUME NEW v \in Workers, Acquire(v)
      PROVE  PoolInv'
  <2>1. /\ lock[v].waiters \in Seq(Calls) /\ lock[v].waiters # <<>>
        /\ Enter(v, Head(lock[v].waiters)) /\ UNCHANGED workers
    BY <1>5 DEF Acquire, callFrame, ownerVars, BaseInv, TypeInv, TypeOK, Locks
  <2>2. Head(lock[v].waiters) \in Calls
    BY <2>1
  <2> QED
    BY <1>0, <1>2, <2>1, <2>2, EnterFacts
<1>6. ASSUME NEW v \in Workers, ProcessStep(v)
      PROVE  PoolInv'
  BY <1>1, <1>6 DEF ProcessStep, Load, LoadFails, Take, Leave, Reply, Crash, Reap,
                    processFrame, ownerVars
<1>7. CASE _spawn
  <2>1. workers' = <<First>> /\ First \notin Requests
    BY <1>7, PoolAssumption DEF _spawn
  <2> QED
    BY <2>1, PoolAssumption DEF PoolInv, PoolBounded, IsInjective
<1> QED
  BY <1>1, <1>3, <1>4, <1>5, <1>6, <1>7, PoolRequest, PoolOwner DEF Next, vars, ownerVars

\* The pool holds at most max_workers workers, each once.
THEOREM PoolKeepsBound == Spec => []PoolBounded
<1>1. Init => PoolInv
  BY PoolAssumption DEF Init, PoolInv, PoolBounded, IsInjective
<1>2. BaseInv /\ PipeInv /\ PoolInv /\ [Next]_vars => PoolInv'
  BY NextPool DEF PipeInv
<1>3. PoolInv => PoolBounded
  BY DEF PoolInv
<1> QED
  BY <1>1, <1>2, <1>3, PipeInvariant, PTL DEF Spec

=============================================================================
