------------------------------ MODULE Sessions ------------------------------
(***************************************************************************)
(* The administrator's sessions (app/core/manager.py, app/main.py): every  *)
(* request runs its checks and its write in separate database              *)
(* transactions, and other requests come between them.                     *)
(***************************************************************************)
EXTENDS Integers, FiniteSets

CONSTANTS
  Requests,    \* HTTP requests that may be under way at a time
  None,
  Lifetime,    \* of a session, in ticks: 8 h
  Idle,        \* ticks without a request that end it: 30 min
  MaxHash,     \* bound on the passwords ever set
  MaxSessions, \* bound on the rows of admin_sessions
  MaxTime      \* bound on the clock

VARIABLES
  password_hash, \* of the administrator, None before init_admin; every setting has a new salt
  sessions,      \* rows of admin_sessions, with the hash that login had verified (history)
  requests,      \* what each request remembers between its transactions
  time

vars == <<password_hash, sessions, requests, time>>

Hashes == 1..MaxHash
Rows   == 1..MaxSessions

NoRequest == [op |-> "none", session |-> None, hash |-> None]

TypeOK ==
  /\ password_hash \in Hashes \cup {None}
  /\ \A i \in Rows :
       \/ sessions[i] = None
       \/ sessions[i] \in [verified : Hashes, revoked_at : BOOLEAN, last_seen_at : 0..MaxTime,
                           expires_at : 0..(MaxTime + Lifetime)]
  /\ requests \in [Requests -> [op : {"none", "login", "logout", "password", "change"},
                                session : Rows \cup {None}, hash : Hashes \cup {None}]]
  /\ time \in 0..MaxTime

-----------------------------------------------------------------------------
(* Faulty forms of definitions below: the mistakes the properties exclude. *)

AnyHash(q) == TRUE \* what was verified a while ago is trusted

-----------------------------------------------------------------------------
(* app/core/manager.py *)

Present(i) == sessions[i] # None

\* session: what a cookie still opens.
Valid(i) ==
  /\ Present(i) /\ ~sessions[i].revoked_at
  /\ sessions[i].expires_at > time /\ sessions[i].last_seen_at >= time - Idle

Begin(q, op, i, hash) ==
  requests' = [requests EXCEPT ![q] = [op |-> op, session |-> i, hash |-> hash]]

Done(q) == requests' = [requests EXCEPT ![q] = NoRequest]

Free(q) == requests[q].op = "none"

Revoke(S) ==
  sessions' = [i \in Rows |->
                 IF i \in S /\ Present(i) THEN [sessions[i] EXCEPT !.revoked_at = TRUE]
                                          ELSE sessions[i]]

init_admin ==
  /\ password_hash = None /\ password_hash' = 1
  /\ UNCHANGED <<sessions, requests, time>>

\* The password fits the row just read; checking it takes long, outside any transaction.
LoginVerified(q) ==
  /\ Free(q) /\ password_hash # None
  /\ Begin(q, "login", None, password_hash)
  /\ UNCHANGED <<password_hash, sessions, time>>

Unchanged(q) == requests[q].hash = password_hash

\* The row is read again in the transaction that opens the session.
LoginOpens(q) ==
  /\ requests[q].op = "login" /\ Done(q)
  /\ \/ /\ Unchanged(q)
        /\ \E i \in Rows :
             /\ ~Present(i)
             /\ sessions' = [sessions EXCEPT ![i] =
                   [verified |-> requests[q].hash, revoked_at |-> FALSE,
                    last_seen_at |-> time, expires_at |-> time + Lifetime]]
     \/ ~Unchanged(q) /\ UNCHANGED sessions
  /\ UNCHANGED <<password_hash, time>>

\* admin(request): the session is checked, and seen (what is less than 60 s old stays, which
\* no tick tells apart); what the request does comes later.
Admitted(q, op, i) ==
  /\ Free(q) /\ Valid(i)
  /\ sessions' = [sessions EXCEPT ![i].last_seen_at = time]
  /\ Begin(q, op, i, None)
  /\ UNCHANGED <<password_hash, time>>

logout(q) ==
  /\ requests[q].op = "logout" /\ Done(q)
  /\ Revoke({requests[q].session})
  /\ UNCHANGED <<password_hash, time>>

\* change_password: the old password fits, or the request ends there.
OldVerified(q) ==
  /\ requests[q].op = "password"
  /\ \/ Begin(q, "change", requests[q].session, password_hash)
     \/ Done(q)
  /\ UNCHANGED <<password_hash, sessions, time>>

\* All sessions end, the one that made the request too.
PasswordChanged(q) ==
  /\ requests[q].op = "change" /\ Done(q)
  /\ \/ /\ Unchanged(q) /\ password_hash < MaxHash
        /\ password_hash' = password_hash + 1
        /\ Revoke(Rows)
     \/ ~Unchanged(q) /\ UNCHANGED <<password_hash, sessions>>
  /\ UNCHANGED time

\* maintain_db
Cleanup ==
  /\ sessions' = [i \in Rows |->
                    IF Present(i) /\ (sessions[i].revoked_at \/ sessions[i].expires_at < time)
                    THEN None ELSE sessions[i]]
  /\ UNCHANGED <<password_hash, requests, time>>

Tick == time < MaxTime /\ time' = time + 1 /\ UNCHANGED <<password_hash, sessions, requests>>

\* The process ends; the rows are in the database.
Restart ==
  /\ requests' = [q \in Requests |-> NoRequest]
  /\ UNCHANGED <<password_hash, sessions, time>>

-----------------------------------------------------------------------------
Init ==
  /\ password_hash = None
  /\ sessions = [i \in Rows |-> None] /\ requests = [q \in Requests |-> NoRequest]
  /\ time = 0

Next ==
  \/ init_admin \/ Cleanup \/ Tick \/ Restart
  \/ \E q \in Requests :
       \/ LoginVerified(q) \/ LoginOpens(q) \/ logout(q) \/ OldVerified(q) \/ PasswordChanged(q)
       \/ \E op \in {"logout", "password"}, i \in Rows : Admitted(q, op, i)

Spec == Init /\ [][Next]_vars

-----------------------------------------------------------------------------
(* Properties *)

\* Every session that a cookie still opens was opened with the password now in force: a
\* change of the password ends the sessions there are, and no login that verified the
\* former password opens one after it.
SessionsFollowPassword ==
  \A i \in Rows : Valid(i) => sessions[i].verified = password_hash

=============================================================================
