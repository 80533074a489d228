----------------------------- MODULE MCToolCall -----------------------------
(***************************************************************************)
(* Small instances of ToolCall: two calls of one client, one call next to  *)
(* one account operation.                                                  *)
(***************************************************************************)
EXTENDS ToolCall

CONSTANTS c1, c2, o1, k1

TwoCalls == {c1, c2}
OneCall  == {c1}
OneOp    == {o1}
NoOp     == {}
TheClient == {k1}

ByTheClient    == [r \in TwoCalls |-> k1]
OneByTheClient == [r \in OneCall |-> k1]

=============================================================================
