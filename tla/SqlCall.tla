------------------------------ MODULE SqlCall ------------------------------
(***************************************************************************)
(* One call of a MySQL tool (app/asset_types/mysql.py): the connection     *)
(* with its way back from TLS to plain text, a write of one statement, or  *)
(* the queries of the tool one after the other, each read row by row until *)
(* a limit or the output budget cuts it. Other clients change the data     *)
(* between the queries, and the connection may break anywhere.             *)
(***************************************************************************)
EXTENDS Integers, Sequences

CONSTANTS
  None,
  MaxRows,      \* the rows of the answer: max_rows and max_result_rows
  MaxMeta,      \* the rows of a description: 500
  OutputBudget, \* what the rows of a query may measure
  MaxTotal      \* bound on the rows that a query finds

VARIABLES
  server, \* tls: whether it speaks it; total, asked: rows of the query that runs; done: writes
  conn,   \* the connection of the call
  call    \* the tool, its query in turn, the rows read of it, what it has returned

vars == <<server, conn, call>>

Modes  == {"PREFERRED", "REQUIRED", "DISABLED"}
Totals == 0..MaxTotal

\* select and show: execute_query; what a SHOW returns takes no LIMIT.
Tools == {"select", "show", "write", "list_tables", "describe_table"}
Parts == [select |-> 1, show |-> 1, write |-> 0, list_tables |-> 1, describe_table |-> 3]

TypeOK ==
  /\ server \in [tls : BOOLEAN, total : Totals, asked : Totals, done : 0..2]
  /\ conn \in [mode : Modes, state : {"none", "plain", "encrypted", "closed"}, tried : BOOLEAN]
  /\ call \in [tool : Tools, own : Totals \cup {None}, part : 1..4, running : BOOLEAN,
               rows : Totals, size : 0..(OutputBudget + 2), cut : BOOLEAN, missing : BOOLEAN,
               answer : {"none", "rows", "written", "refused", "unclear"}]

-----------------------------------------------------------------------------
(* Faulty forms of definitions below: the mistakes the properties exclude. *)

Exactly(rows) == MaxRows \* LIMIT max_rows leaves no row that would show a cut

-----------------------------------------------------------------------------
Least(m, n) == IF m < n THEN m ELSE n

Answer(code) == call' = [call EXCEPT !.answer = code]

Waits == call.answer = "none"
Open  == Waits /\ conn.state \in {"plain", "encrypted"}

(* connect *)

Dial(tls) ==
  /\ Waits /\ conn.state = "none"
  /\ IF conn.mode = "PREFERRED" THEN tls = ~conn.tried ELSE tls = (conn.mode # "DISABLED")
  /\ conn' = [conn EXCEPT !.tried = TRUE,
                          !.state = IF ~tls THEN "plain"
                                    ELSE IF server.tls THEN "encrypted" ELSE @]
  /\ IF tls /\ ~server.tls /\ conn.mode # "PREFERRED" THEN Answer("refused") ELSE UNCHANGED call
  /\ UNCHANGED server

\* Unreachable, wrong password, time out: not tried again.
DialFails ==
  /\ Waits /\ conn.state = "none" /\ Answer("refused")
  /\ UNCHANGED <<server, conn>>

-----------------------------------------------------------------------------
(* validate_sql and query *)

\* Before the connection is opened a statement may be refused: by its syntax, its kind, the
\* functions it calls, or a LIMIT that is no number.
validate_sql ==
  /\ Waits /\ conn.state = "none" /\ ~conn.tried /\ call.tool \in {"select", "show", "write"}
  /\ Answer("refused") /\ UNCHANGED <<server, conn>>

\* One row more than the answer holds.
LimitOf(rows) == rows + 1

\* The rows the server sends of those that the statement asks for.
Sent(asked) == IF call.tool = "select" THEN Least(asked, LimitOf(MaxRows)) ELSE asked

\* A description reads the comment of the table, its columns, its indexes.
MaxOf(part) == CASE call.tool = "describe_table" /\ part = 1 -> 1
                 [] call.tool = "describe_table" /\ part > 1 -> MaxMeta
                 [] call.tool # "describe_table" -> MaxRows

\* A table that is not there, and columns that do not fit, are errors.
Stops ==
  /\ call.tool = "describe_table" /\ ~call.running
  /\ \/ call.part = 2 /\ call.rows = 0
     \/ call.part = 3 /\ call.cut

Execute(total) ==
  /\ Open /\ ~call.running /\ ~Stops /\ call.part <= Parts[call.tool]
  /\ call.tool = "describe_table" /\ call.part = 1 => total <= 1
  /\ LET asked == IF call.own = None THEN total ELSE Least(total, call.own) IN
       server' = [server EXCEPT !.asked = asked, !.total = Sent(asked)]
  /\ call' = [call EXCEPT !.running = TRUE, !.rows = 0, !.size = 0]
  /\ UNCHANGED conn

\* What is not read of a part is missing (history).
EndsPart(cut) ==
  call' = [call EXCEPT !.running = FALSE, !.part = @ + 1, !.cut = @ \/ cut,
                       !.missing = @ \/ call.rows < server.asked]

\* The connection of a query that was cut is closed, not drained.
Fetch(size) ==
  /\ Open /\ call.running /\ call.rows < server.total
  /\ IF call.rows >= MaxOf(call.part) \/ call.size + size > OutputBudget
     THEN EndsPart(TRUE) /\ conn' = [conn EXCEPT !.state = "closed"]
     ELSE call' = [call EXCEPT !.rows = @ + 1, !.size = @ + size] /\ UNCHANGED conn
  /\ UNCHANGED server

FetchEnds ==
  /\ Open /\ call.running /\ call.rows = server.total
  /\ EndsPart(FALSE) /\ UNCHANGED <<server, conn>>

Return ==
  /\ Waits /\ ~call.running
  /\ \/ Stops /\ Answer("refused")
     \/ call.part > Parts[call.tool] /\ call.tool # "write" /\ Answer("rows")
  /\ UNCHANGED <<server, conn>>

-----------------------------------------------------------------------------
(* execute_write: one statement, committed by the server *)

Write ==
  /\ Open /\ call.tool = "write" /\ server.done < 2
  /\ \/ Answer("written") /\ server' = [server EXCEPT !.done = @ + 1]
     \/ Answer("refused") /\ UNCHANGED server
     \/ Answer("unclear") /\ server' \in {server, [server EXCEPT !.done = @ + 1]}
  /\ UNCHANGED conn

\* Broken, or the deadline of the call passes.
Breaks ==
  /\ Open /\ call.tool # "write" /\ Answer("unclear")
  /\ UNCHANGED <<server, conn>>

-----------------------------------------------------------------------------
Init ==
  /\ \E tls \in BOOLEAN : server = [tls |-> tls, total |-> 0, asked |-> 0, done |-> 0]
  /\ \E mode \in Modes : conn = [mode |-> mode, state |-> "none", tried |-> FALSE]
  /\ \E tool \in Tools, own \in Totals \cup {None} :
       /\ tool # "select" => own = None
       /\ call = [tool |-> tool, own |-> own, part |-> 1, running |-> FALSE, rows |-> 0,
                  size |-> 0, cut |-> FALSE, missing |-> FALSE, answer |-> "none"]

Next ==
  \/ \E tls \in BOOLEAN : Dial(tls)
  \/ \E total \in Totals : Execute(total)
  \/ \E size \in 1..2 : Fetch(size)
  \/ validate_sql \/ DialFails \/ FetchEnds \/ Return \/ Write \/ Breaks

Spec == Init /\ [][Next]_vars

-----------------------------------------------------------------------------
(* Properties *)

\* An answer that is not marked truncated holds every row that the statement, or each query
\* of the tool, asked for when it ran.
CutIsMarked == call.answer = "rows" /\ ~call.cut => ~call.missing

-----------------------------------------------------------------------------
(* What makes CutIsMarked inductive *)

\* Of the query that runs, and of the last one, no more rows are read than its part may
\* have; only a SELECT with more rows than the answer holds is sent less than it asks for,
\* and then one row too many.
RowsOf ==
  /\ call.running => call.part <= Parts[call.tool] /\ call.rows <= server.total
                     /\ call.rows <= MaxOf(call.part)
  /\ call.size <= OutputBudget
  /\ \/ server.total = server.asked
     \/ call.tool = "select" /\ server.total = LimitOf(MaxRows)

Inv == TypeOK /\ RowsOf /\ (call.missing => call.cut)

=============================================================================
