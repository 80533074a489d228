----------------------------- MODULE JenkinsLog -----------------------------
(***************************************************************************)
(* get_build_log (app/asset_types/jenkins_logs.py, JenkinsAssetType.build):*)
(* a client pages through the log of a build that still runs, with cursors *)
(* that count logical lines; every page scans the log from its beginning,  *)
(* within a budget of bytes, and returns as much as the output may hold.   *)
(***************************************************************************)
EXTENDS Integers, Sequences, FiniteSets

CONSTANTS
  None,
  MaxBuild, MaxLines, MaxSize, \* bounds on the builds of the job and their logs
  Limits,                      \* the values of limit
  ScanBudget,                  \* max_log_scan_bytes
  OutputBudget                 \* what the lines of a page may measure

VARIABLES
  last,   \* lastBuild.number of the job
  log,    \* the log of each build: the sizes of its lines; open: the last lacks its newline
  cursor, \* the client's latest cursor, LogCursor signs what it names
  base,   \* history: where the client began to read
  seen    \* history: the size of each line when it was last returned, 0 for never

vars == <<last, log, cursor, base, seen>>

Builds == 1..MaxBuild
Lines  == 1..MaxLines

TypeOK ==
  /\ last \in Builds
  /\ log \in [Builds -> [size : Seq(1..MaxSize), open : BOOLEAN]]
  /\ \A b \in Builds : Len(log[b].size) <= MaxLines /\ (log[b].open => log[b].size # <<>>)
  /\ cursor \in [build : Builds, position : 0..MaxLines] \cup {None}
  /\ base \in 0..MaxLines /\ seen \in [Lines -> 0..MaxSize]

-----------------------------------------------------------------------------
(* Faulty forms of definitions below: the mistakes the properties exclude. *)

KeepPlace(position, scanned, unfinished) == position \* an unfinished line is taken for read

-----------------------------------------------------------------------------
(* lines: what one scan of a log yields *)

Larger(m, n) == IF m > n THEN m ELSE n

\* Lines i to j measure.
Measure(l, i, j) == LET m[k \in (i - 1)..j] == IF k < i THEN 0 ELSE m[k - 1] + l.size[k] IN m[j]

\* The bytes up to the end of line i, with the newlines; the last line may have none.
Offset(l, i) == Measure(l, 1, i) + (IF l.open /\ i = Len(l.size) THEN i - 1 ELSE i)

Whole(l)   == Offset(l, Len(l.size)) <= ScanBudget
Visible(l) == Cardinality({i \in DOMAIN l.size : Offset(l, i) <= ScanBudget
                                                  /\ (l.open /\ i = Len(l.size) => Whole(l))})

-----------------------------------------------------------------------------
(* read_log *)

\* The line being written is read again next time.
Reread(position, scanned, unfinished) ==
  IF unfinished /\ position = scanned THEN Larger(0, position - 1) ELSE position

\* From line skip + 1 on: the lines that fit, and where the scan stopped.
Forward(l, skip, limit) ==
  LET visible == Visible(l)
      count   == Cardinality({i \in (skip + 1)..visible :
                               i - skip <= limit /\ Measure(l, skip + 1, i) <= OutputBudget})
      end     == skip + count
      full    == count = limit
      over    == ~full /\ end < visible
      scanned == IF full \/ over THEN end ELSE visible
      \* With "over" the line that did not fit was looked at, too.
      reached == IF over THEN end + 1 ELSE scanned
  IN [first    |-> skip + 1, end |-> end,
      fails    |-> count = 0 /\ over,
      position |-> Reread(IF count > 0 THEN end ELSE Larger(scanned, skip), scanned,
                          Whole(l) /\ l.open /\ reached = visible)]

\* The last "count" lines that fit, of which the first "limit" are returned.
Backward(l, count, limit) ==
  LET visible == Visible(l)
      start   == Larger(0, visible - count)
      rows    == {i \in (start + 1)..visible :
                    i <= start + limit /\ Measure(l, i, visible) <= OutputBudget}
      first   == IF rows = {} THEN visible + 1 ELSE CHOOSE i \in rows : \A j \in rows : i <= j
      end     == IF rows = {} THEN visible ELSE CHOOSE i \in rows : \A j \in rows : i >= j
  IN [first |-> first, end |-> end, position |-> Reread(end, visible, l.open)]

\* What the client has after a page of build b.
Page(b, page, before) ==
  /\ cursor' = [build |-> b, position |-> page.position]
  /\ seen' = [i \in Lines |-> IF i \in page.first..page.end THEN log[b].size[i] ELSE before[i]]
  /\ UNCHANGED <<last, log>>

Unseen == [i \in Lines |-> 0]

\* A request without a cursor: the build is the last one of the moment.
ReadFrom(skip, limit) ==
  LET page == Forward(log[last], skip, limit) IN
  /\ ~page.fails /\ Page(last, page, Unseen) /\ base' = skip

\* Where the end is not reached, nothing is returned and no cursor.
ReadTail(count, limit) ==
  LET page == Backward(log[last], count, limit) IN
  /\ Whole(log[last])
  /\ Page(last, page, Unseen)
  /\ base' = IF page.first <= page.end THEN page.first - 1 ELSE page.position

\* The cursor names the build, whatever was started since.
ReadOn(limit) ==
  /\ cursor # None
  /\ LET page == Forward(log[cursor.build], cursor.position, limit) IN
       ~page.fails /\ Page(cursor.build, page, seen)
  /\ UNCHANGED base

-----------------------------------------------------------------------------
(* Jenkins *)

Written(b, l) == log' = [log EXCEPT ![b] = l] /\ UNCHANGED <<last, cursor, base, seen>>

StartLine(b) ==
  /\ b <= last /\ ~log[b].open /\ Len(log[b].size) < MaxLines
  /\ Written(b, [size |-> Append(log[b].size, 1), open |-> TRUE])

Extend(b) ==
  LET n == Len(log[b].size) IN
  /\ log[b].open /\ log[b].size[n] < MaxSize
  /\ Written(b, [log[b] EXCEPT !.size[n] = @ + 1])

EndLine(b) == log[b].open /\ Written(b, [log[b] EXCEPT !.open = FALSE])

NewBuild == last < MaxBuild /\ last' = last + 1 /\ UNCHANGED <<log, cursor, base, seen>>

-----------------------------------------------------------------------------
Init ==
  /\ last = 1 /\ log = [b \in Builds |-> [size |-> <<>>, open |-> FALSE]]
  /\ cursor = None /\ base = 0 /\ seen = Unseen

Next ==
  \/ \E limit \in Limits :
       \/ ReadOn(limit)
       \/ \E skip \in 0..1 : ReadFrom(skip, limit)
       \/ \E count \in 1..2 : ReadTail(count, limit)
  \/ \E b \in Builds : StartLine(b) \/ Extend(b) \/ EndLine(b)
  \/ NewBuild

Spec == Init /\ [][Next]_vars

-----------------------------------------------------------------------------
(* Properties *)

\* Whatever is appended between two pages, and wherever a limit cuts one, every line
\* that a cursor has passed was returned as it finally reads.
NothingSkipped ==
  cursor # None =>
    LET l == log[cursor.build] IN
    \A i \in DOMAIN l.size :
      base < i /\ i <= cursor.position => seen[i] = l.size[i] /\ (l.open => i < Len(l.size))

-----------------------------------------------------------------------------
(* What makes NothingSkipped inductive *)

\* A cursor is not ahead of the lines there are, unless the client began there.
NotAhead == cursor # None => cursor.position <= Larger(Len(log[cursor.build].size), base)

Inv == TypeOK /\ NotAhead /\ NothingSkipped

=============================================================================
