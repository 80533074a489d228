------------------------------ MODULE KeyScan ------------------------------
(***************************************************************************)
(* redis_scan_keys (app/asset_types/redis.py): the connection, with its    *)
(* way back from TLS to plain text, and one SCAN iteration for each        *)
(* pattern of the account, with a limit on the keys, a budget on what the  *)
(* server may return and a number of rounds. SCAN returns what it likes in *)
(* what batches it likes, twice if it likes, and promises only that every  *)
(* key has come when the cursor is 0 again.                                *)
(***************************************************************************)
EXTENDS Integers, Sequences, FiniteSets

CONSTANTS
  Keys,     \* the keys of the database
  Patterns, \* the allow-list: a sequence of the sets of keys that each pattern matches
  Limit,    \* limit and max_result_rows
  Budget,   \* max_scan_keys
  Rounds,   \* SCAN calls for one pattern: 100
  Batch     \* bound on the keys of one reply

VARIABLES
  server, \* tls: whether it speaks it; left: the keys that the iteration has yet to return
  conn,   \* the connection of the call
  scan,   \* the local variables of scan_keys
  gave_up \* history: some pattern ended with its rounds

vars == <<server, conn, scan, gave_up>>

Modes == {"PREFERRED", "REQUIRED", "DISABLED"}

TypeOK ==
  /\ server \in [tls : BOOLEAN, left : SUBSET Keys]
  /\ conn \in [mode : Modes, state : {"none", "plain", "encrypted", "failed"}, tried : BOOLEAN]
  /\ scan \in [pattern : 1..(Len(Patterns) + 1), rounds : 0..Rounds, found : SUBSET Keys,
               scanned : 0..(Budget + 1), returned : BOOLEAN, truncated : BOOLEAN]
  /\ gave_up \in BOOLEAN

-----------------------------------------------------------------------------
(* Faulty forms of definitions below: the mistakes the properties exclude. *)

LooksOn(batch, n) == Cardinality(scan.found) < Limit \* limits count between the batches only

-----------------------------------------------------------------------------
(* connect: the mode PREFERRED tries once more without TLS *)

Dial(tls) ==
  /\ conn.state = "none"
  /\ IF conn.mode = "PREFERRED" THEN tls = ~conn.tried ELSE tls = (conn.mode # "DISABLED")
  /\ conn' = [conn EXCEPT
       !.tried = TRUE,
       !.state = IF tls /\ ~server.tls THEN IF conn.mode = "PREFERRED" THEN "none" ELSE "failed"
                 ELSE IF tls THEN "encrypted" ELSE "plain"]
  /\ UNCHANGED <<server, scan, gave_up>>

\* Wrong password, time out, no route: not tried again.
DialFails ==
  /\ conn.state = "none" /\ conn' = [conn EXCEPT !.state = "failed"]
  /\ UNCHANGED <<server, scan, gave_up>>

-----------------------------------------------------------------------------
(* scan_keys *)

Open == conn.state \in {"plain", "encrypted"} /\ ~scan.returned

More == Cardinality(scan.found) < Limit /\ scan.scanned < Budget /\ scan.rounds < Rounds

\* What is found when the first n keys of the batch were looked at.
FoundIn(batch, n) ==
  scan.found \cup {batch[i] : i \in {k \in 1..n : batch[k] \in Patterns[scan.pattern]}}

\* The loop over the batch goes on with its n-th key.
Goes(batch, n) == Cardinality(FoundIn(batch, n - 1)) < Limit /\ scan.scanned + n <= Budget

\* One SCAN, and the loop over what it returns; cursor 0 ends the pattern's iteration.
Scan(batch, over) ==
  LET seen   == {n \in DOMAIN batch : \A k \in 1..n : Goes(batch, k)}
      n      == Cardinality(seen)
      looked == IF n < Len(batch) THEN n + 1 ELSE n
  IN
  /\ Open /\ scan.pattern <= Len(Patterns) /\ More
  /\ over => server.left \subseteq {batch[i] : i \in DOMAIN batch}
  /\ server' = [server EXCEPT !.left = IF over THEN Keys ELSE @ \ {batch[i] : i \in DOMAIN batch}]
  /\ scan' = [scan EXCEPT !.found = FoundIn(batch, n), !.scanned = @ + looked,
                          !.rounds = IF over THEN 0 ELSE @ + 1,
                          !.pattern = IF over THEN @ + 1 ELSE @]
  /\ UNCHANGED <<conn, gave_up>>

\* The while loop ends without cursor 0: the next pattern starts its own iteration.
EndPattern ==
  /\ Open /\ scan.pattern <= Len(Patterns) /\ ~More
  /\ scan' = [scan EXCEPT !.pattern = @ + 1, !.rounds = 0]
  /\ server' = [server EXCEPT !.left = Keys]
  /\ gave_up' = (gave_up \/ scan.rounds = Rounds)
  /\ UNCHANGED conn

Truncated(found, scanned) == Cardinality(found) >= Limit \/ scanned >= Budget

Return ==
  /\ Open /\ scan.pattern > Len(Patterns)
  /\ scan' = [scan EXCEPT !.returned = TRUE, !.truncated = Truncated(scan.found, scan.scanned)]
  /\ UNCHANGED <<server, conn, gave_up>>

\* A time out or a broken connection: an error, and nothing is returned.
Fails ==
  /\ Open /\ conn' = [conn EXCEPT !.state = "failed"]
  /\ UNCHANGED <<server, scan, gave_up>>

-----------------------------------------------------------------------------
Init ==
  /\ \E tls \in BOOLEAN : server = [tls |-> tls, left |-> Keys]
  /\ \E mode \in Modes : conn = [mode |-> mode, state |-> "none", tried |-> FALSE]
  /\ scan = [pattern |-> 1, rounds |-> 0, found |-> {}, scanned |-> 0,
             returned |-> FALSE, truncated |-> FALSE]
  /\ gave_up = FALSE

Next ==
  \/ \E tls \in BOOLEAN : Dial(tls)
  \/ DialFails \/ EndPattern \/ Return \/ Fails
  \/ \E n \in 0..Batch : \E batch \in [1..n -> Keys], over \in BOOLEAN : Scan(batch, over)

Spec == Init /\ [][Next]_vars

-----------------------------------------------------------------------------
(* Properties *)

\* A result that is not marked truncated names every key that a pattern of the account
\* matches, unless a pattern ended with its hundred rounds, which marks nothing.
CutIsMarked ==
  scan.returned /\ ~scan.truncated /\ ~gave_up =>
    scan.found = {k \in Keys : \E p \in DOMAIN Patterns : k \in Patterns[p]}

-----------------------------------------------------------------------------
(* What makes CutIsMarked inductive *)

Matched == {k \in Keys : \E p \in DOMAIN Patterns : k \in Patterns[p]}

\* While no limit was reached, every key is found of the patterns that are done, and of the
\* one in turn every key that its iteration has returned.
FoundSoFar ==
  ~gave_up /\ Cardinality(scan.found) < Limit /\ scan.scanned < Budget =>
    \A p \in DOMAIN Patterns :
      /\ p < scan.pattern => Keys \cap Patterns[p] \subseteq scan.found
      /\ p = scan.pattern => (Keys \ server.left) \cap Patterns[p] \subseteq scan.found

Inv ==
  /\ TypeOK /\ FoundSoFar /\ scan.found \subseteq Matched
  /\ scan.returned => scan.pattern > Len(Patterns)
                      /\ scan.truncated = Truncated(scan.found, scan.scanned)

=============================================================================
