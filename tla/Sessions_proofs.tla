--------------------------- MODULE Sessions_proofs ---------------------------
(***************************************************************************)
(* Theorems about Sessions for any number of requests, rows and passwords. *)
(***************************************************************************)
EXTENDS Sessions, TLAPS

BoundsAssumption ==
  /\ MaxHash \in Nat \ {0} /\ MaxSessions \in Nat /\ MaxTime \in Nat /\ Lifetime \in Nat
  /\ None \notin Hashes

\* A row of admin_sessions.
Row == [verified : Hashes, revoked_at : BOOLEAN, last_seen_at : 0..MaxTime,
        expires_at : 0..(MaxTime + Lifetime)]

\* TypeOK, with the fact that rows and requests are functions; a request that will write
\* carries what it has verified.
Shape ==
  /\ password_hash \in Hashes \cup {None}
  /\ sessions \in [Rows -> Row \cup {None}]
  /\ requests \in [Requests -> [op : {"none", "login", "logout", "password", "change"},
                                session : Rows \cup {None}, hash : Hashes \cup {None}]]
  /\ time \in 0..MaxTime

\* A session that was not revoked was opened with the password now in force, whether or not
\* it has expired; before there is a password, there is nothing.
OpenFollows ==
  /\ \A i \in Rows : Present(i) /\ ~sessions[i].revoked_at => sessions[i].verified = password_hash
  /\ password_hash = None =>
       /\ \A i \in Rows : ~Present(i)
       /\ \A q \in Requests : Free(q)

Inv == Shape /\ OpenFollows

-----------------------------------------------------------------------------
(* The writes of a request *)

LEMMA BeginShape ==
  ASSUME Shape, NEW q \in Requests, NEW i \in Rows \cup {None}, NEW h \in Hashes \cup {None},
         NEW op \in {"login", "logout", "password", "change"}, Begin(q, op, i, h)
  PROVE  /\ requests' \in [Requests -> [op : {"none", "login", "logout", "password", "change"},
                                        session : Rows \cup {None}, hash : Hashes \cup {None}]]
         /\ \A p \in Requests : p # q => requests'[p] = requests[p]
BY DEF Begin, Shape

LEMMA DoneShape ==
  ASSUME Shape, NEW q \in Requests, Done(q)
  PROVE  requests' \in [Requests -> [op : {"none", "login", "logout", "password", "change"},
                                     session : Rows \cup {None}, hash : Hashes \cup {None}]]
BY DEF Done, NoRequest, Shape

\* Revoking some sessions opens none.
LEMMA RevokeKeeps ==
  ASSUME Shape, NEW S, Revoke(S)
  PROVE  /\ sessions' \in [Rows -> Row \cup {None}]
         /\ \A i \in Rows : \/ Present(i) /\ sessions'[i].revoked_at
                            \/ sessions'[i] = sessions[i] /\ i \notin S
                            \/ sessions'[i] = sessions[i] /\ ~Present(i)
<1>1. ASSUME NEW i \in Rows, Present(i)
      PROVE  /\ [sessions[i] EXCEPT !.revoked_at = TRUE] \in Row
             /\ [sessions[i] EXCEPT !.revoked_at = TRUE].revoked_at
  BY <1>1 DEF Shape, Present, Row
<1> QED
  BY <1>1 DEF Revoke, Shape

-----------------------------------------------------------------------------
(* One lemma for each step that opens, ends or judges a session *)

LEMMA LoginVerifiedInv ==
  ASSUME Inv, NEW q \in Requests, LoginVerified(q)
  PROVE  Inv'
<1>1. password_hash \in Hashes \cup {None} /\ password_hash # None
  BY DEF LoginVerified, Inv, Shape
<1>2. Shape'
  BY <1>1, BeginShape DEF LoginVerified, Inv, Shape
<1>3. OpenFollows'
  BY <1>1 DEF LoginVerified, Inv, OpenFollows, Present
<1> QED
  BY <1>2, <1>3 DEF Inv

LEMMA LoginOpensInv ==
  ASSUME BoundsAssumption, Inv, NEW q \in Requests, LoginOpens(q)
  PROVE  Inv'
<1>1. password_hash # None /\ UNCHANGED password_hash
  BY DEF LoginOpens, Inv, OpenFollows, Free
<1>2. CASE UNCHANGED sessions
  BY <1>1, <1>2, DoneShape DEF LoginOpens, Inv, Shape, OpenFollows, Present
<1>3. CASE Unchanged(q) /\ sessions' # sessions
  <2> DEFINE new == [verified |-> requests[q].hash, revoked_at |-> FALSE,
                     last_seen_at |-> time, expires_at |-> time + Lifetime]
  <2>1. PICK i \in Rows : sessions' = [sessions EXCEPT ![i] = new]
    BY <1>3 DEF LoginOpens
  <2>2. requests[q].hash = password_hash /\ password_hash \in Hashes
    BY <1>1, <1>3 DEF Unchanged, Inv, Shape
  <2>3. new \in Row /\ new.verified = password_hash
    <3>1. time \in 0..MaxTime /\ time + Lifetime \in 0..(MaxTime + Lifetime)
      BY DEF BoundsAssumption, Inv, Shape
    <3> QED
      BY <2>2, <3>1 DEF Row
  <2> HIDE DEF new
  <2>4. Shape'
    BY <2>1, <2>3, DoneShape DEF LoginOpens, Inv, Shape
  <2>5. OpenFollows'
    BY <1>1, <2>1, <2>3 DEF Inv, Shape, OpenFollows, Present
  <2> QED
    BY <2>4, <2>5 DEF Inv
<1> QED
  BY <1>2, <1>3 DEF LoginOpens

LEMMA AdmittedInv ==
  ASSUME Inv, NEW q \in Requests, NEW op \in {"logout", "password"}, NEW i \in Rows,
         Admitted(q, op, i)
  PROVE  Inv'
<1>1. Present(i) /\ sessions[i] \in Row /\ password_hash # None
  BY DEF Admitted, Valid, Present, Inv, Shape, OpenFollows
<1>2. /\ sessions' = [sessions EXCEPT ![i] = [sessions[i] EXCEPT !.last_seen_at = time]]
      /\ [sessions[i] EXCEPT !.last_seen_at = time] \in Row
      /\ [sessions[i] EXCEPT !.last_seen_at = time].revoked_at = sessions[i].revoked_at
      /\ [sessions[i] EXCEPT !.last_seen_at = time].verified = sessions[i].verified
  BY <1>1 DEF Admitted, Inv, Shape, Row
<1>3. Shape'
  BY <1>2, BeginShape DEF Admitted, Inv, Shape
<1>4. OpenFollows'
  BY <1>1, <1>2 DEF Admitted, Inv, Shape, OpenFollows, Present
<1> QED
  BY <1>3, <1>4 DEF Inv

LEMMA LogoutInv ==
  ASSUME Inv, NEW q \in Requests, logout(q)
  PROVE  Inv'
<1>1. password_hash # None
  BY DEF logout, Inv, OpenFollows, Free
<1>2. Shape'
  BY DoneShape, RevokeKeeps DEF logout, Inv, Shape
<1>3. OpenFollows'
  BY <1>1, RevokeKeeps DEF logout, Inv, OpenFollows, Present
<1> QED
  BY <1>2, <1>3 DEF Inv

LEMMA OldVerifiedInv ==
  ASSUME Inv, NEW q \in Requests, OldVerified(q)
  PROVE  Inv'
<1>1. password_hash # None
  BY DEF OldVerified, Inv, OpenFollows, Free
<1>2. requests[q].session \in Rows \cup {None} /\ password_hash \in Hashes \cup {None}
  BY DEF Inv, Shape
<1>3. Shape'
  BY <1>2, BeginShape, DoneShape DEF OldVerified, Inv, Shape
<1>4. OpenFollows'
  BY <1>1 DEF OldVerified, Inv, OpenFollows, Present
<1> QED
  BY <1>3, <1>4 DEF Inv

\* All sessions that there are end; none was opened with the password that now comes.
LEMMA PasswordChangedInv ==
  ASSUME BoundsAssumption, Inv, NEW q \in Requests, PasswordChanged(q)
  PROVE  Inv'
<1>1. password_hash # None
  BY DEF PasswordChanged, Inv, OpenFollows, Free
<1>2. CASE UNCHANGED <<password_hash, sessions>>
  BY <1>1, <1>2, DoneShape DEF PasswordChanged, Inv, Shape, OpenFollows, Present
<1>3. CASE /\ password_hash < MaxHash /\ password_hash' = password_hash + 1
           /\ Revoke(Rows)
  <2>1. password_hash \in Hashes /\ password_hash' \in Hashes
    BY <1>1, <1>3 DEF Inv, Shape, Hashes, BoundsAssumption
  <2>2. Shape'
    BY <1>3, <2>1, DoneShape, RevokeKeeps DEF PasswordChanged, Inv, Shape
  <2>3. OpenFollows'
    <3>1. \A i \in Rows : Present(i)' => sessions'[i].revoked_at
      BY <1>3, RevokeKeeps DEF Inv, Present
    <3>2. password_hash' # None
      BY <2>1 DEF BoundsAssumption
    <3> QED
      BY <3>1, <3>2 DEF OpenFollows
  <2> QED
    BY <2>2, <2>3 DEF Inv
<1> QED
  BY <1>2, <1>3 DEF PasswordChanged

-----------------------------------------------------------------------------
LEMMA InvKept ==
  ASSUME BoundsAssumption, Inv, [Next]_vars
  PROVE  Inv'
<1>1. CASE init_admin
  <2>1. \A i \in Rows : ~Present(i)
    BY <1>1 DEF init_admin, Inv, OpenFollows
  <2>2. 1 \in Hashes
    BY DEF Hashes, BoundsAssumption
  <2> QED
    BY <1>1, <2>1, <2>2 DEF init_admin, Inv, Shape, OpenFollows, Present, BoundsAssumption
<1>2. CASE Cleanup
  <2>1. \A i \in Rows : sessions'[i] \in {None, sessions[i]}
    BY <1>2 DEF Cleanup
  <2>2. sessions' \in [Rows -> Row \cup {None}]
    BY <1>2 DEF Cleanup, Inv, Shape
  <2> QED
    BY <1>2, <2>1, <2>2 DEF Cleanup, Inv, Shape, OpenFollows, Present, Free
<1>3. CASE Tick
  <2>1. time' \in 0..MaxTime
    BY <1>3 DEF Tick, Inv, Shape, BoundsAssumption
  <2> QED
    BY <1>3, <2>1 DEF Tick, Inv, Shape, OpenFollows, Present, Free
<1>4. CASE Restart
  BY <1>4 DEF Restart, Inv, Shape, OpenFollows, Present, Free, NoRequest
<1>5. CASE UNCHANGED vars
  BY <1>5 DEF vars, Inv, Shape, OpenFollows, Present, Free
<1> QED
  BY <1>1, <1>2, <1>3, <1>4, <1>5, LoginVerifiedInv, LoginOpensInv, AdmittedInv, LogoutInv,
     OldVerifiedInv, PasswordChangedInv DEF Next

\* However logins, changes of the password and the requests of other sessions interleave, a
\* cookie opens nothing that was not opened with the password now in force: manager.login
\* compares the hash it had verified in the transaction that opens the session, and
\* change_password ends every session in the transaction that changes the hash.
THEOREM PasswordWins ==
  ASSUME BoundsAssumption
  PROVE  Spec => []SessionsFollowPassword
<1>1. Init => Inv
  BY BoundsAssumption
  DEF Init, Inv, Shape, OpenFollows, Present, Free, NoRequest, BoundsAssumption
<1>2. Inv /\ [Next]_vars => Inv'
  BY InvKept
<1>3. Inv => SessionsFollowPassword
  BY DEF Inv, OpenFollows, SessionsFollowPassword, Valid
<1> QED
  BY <1>1, <1>2, <1>3, PTL DEF Spec

=============================================================================
