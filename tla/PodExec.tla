------------------------------ MODULE PodExec ------------------------------
(***************************************************************************)
(* One k8s_exec call (app/asset_types/k8s_exec.py): a command runs in a    *)
(* container, its output and its exit status come over a WebSocket as      *)
(* messages of three channels, each in fragments; the API server, a proxy  *)
(* or the network may end the connection anywhere.                         *)
(***************************************************************************)
EXTENDS Integers, Sequences

CONSTANTS
  None,
  Maximum,   \* the units of output that an answer may hold
  MaxOutput, \* bound on the units the command writes to each stream
  MaxWire    \* bound on the frames under way

VARIABLES
  command, \* the process in the container, and the API server's side of the connection
  wire,    \* frames under way to the gateway
  link,    \* "eof": closed by the peer after these frames, "reset": broken
  call,    \* the local variables of exec_stream
  answer   \* what it returns or raises

vars == <<command, wire, link, call, answer>>

Streams == {1, 2}
Codes   == {0, 1}
Chans   == Streams \cup {3, None}

\* channel: the first byte of a message, None in its later fragments; fin: its last one.
Frames ==
  [type : {"data"}, channel : Chans, units : 0..1, fin : BOOLEAN]
  \cup [type : {"accept", "refuse", "ping", "text"}]
  \cup [type : {"close"}, code : {1000, 1011}]

TypeOK ==
  /\ command \in [state : {"waiting", "running", "exited", "told"}, code : Codes,
                  wrote : [Streams -> 0..MaxOutput], message : Chans, closed : BOOLEAN]
  /\ wire \in Seq(Frames) /\ Len(wire) <= MaxWire
  /\ link \in {"up", "eof", "reset"}
  /\ call \in [accepted : BOOLEAN, channel : Chans, got : [Streams -> 0..MaxOutput],
               exit_code : Codes \cup {None}, truncated : BOOLEAN, closed : BOOLEAN]
  /\ answer \in [kind : {"none", "result", "refused", "unknown"}, exit_code : Codes \cup {None}]

-----------------------------------------------------------------------------
Data(channel, units, fin) ==
  [type |-> "data", channel |-> channel, units |-> units, fin |-> fin]

\* The units of a fragment that still fit.
Room(units) ==
  LET left == Maximum - call.got[1] - call.got[2] IN IF units < left THEN units ELSE left

-----------------------------------------------------------------------------
(* Faulty forms of definitions below: the mistakes the properties exclude. *)

NeverCut(units) == FALSE \* what does not fit is dropped without a word

-----------------------------------------------------------------------------
(* The command, the API server and what lies between: external *)

Send(frame) == link = "up" /\ Len(wire) < MaxWire /\ wire' = Append(wire, frame)

serverFrame == UNCHANGED <<link, call, answer>>

Accept(code) ==
  /\ command.state = "waiting" /\ Send([type |-> "accept"])
  /\ command' = [command EXCEPT !.state = "running", !.code = code]
  /\ serverFrame

Refuse ==
  /\ command.state = "waiting" /\ ~command.closed /\ Send([type |-> "refuse"])
  /\ command' = [command EXCEPT !.closed = TRUE]
  /\ serverFrame

Speaking == ~command.closed /\ command.state # "waiting"

\* A fragment that begins a message or goes on with one; "units" are new output.
Output(s, units, fin) ==
  /\ Speaking /\ command.state = "running" /\ command.message \in {None, s}
  /\ command.wrote[s] + units <= MaxOutput
  /\ Send(Data(IF command.message = None THEN s ELSE None, units, fin))
  /\ command' = [command EXCEPT !.wrote[s] = @ + units, !.message = IF fin THEN None ELSE s]
  /\ serverFrame

Exit ==
  /\ Speaking /\ command.state = "running" /\ command.message = None
  /\ command' = [command EXCEPT !.state = "exited"]
  /\ UNCHANGED wire /\ serverFrame

Status(fin) ==
  /\ Speaking /\ command.state = "exited" /\ command.message \in {None, 3}
  /\ Send(Data(IF command.message = None THEN 3 ELSE None, 0, fin))
  /\ command' = [command EXCEPT !.state = IF fin THEN "told" ELSE @,
                                !.message = IF fin THEN None ELSE 3]
  /\ serverFrame

\* The API server closes when all is told, a proxy when it likes.
Close(code) ==
  /\ Speaking /\ Send([type |-> "close", code |-> code])
  /\ command' = [command EXCEPT !.closed = TRUE]
  /\ serverFrame

Chatter(type) ==
  /\ Speaking /\ Send([type |-> type])
  /\ UNCHANGED command /\ serverFrame

\* The last frames do not arrive.
Break(how) ==
  /\ link = "up" /\ link' = how
  /\ \E n \in 0..Len(wire) : wire' = SubSeq(wire, 1, n)
  /\ UNCHANGED <<command, call, answer>>

-----------------------------------------------------------------------------
(* exec_stream *)

Reading == answer.kind = "none" /\ ~call.closed /\ ~call.truncated

Raises(kind)   == answer' = [kind |-> kind, exit_code |-> None] /\ UNCHANGED call
Learns(learnt) == call' = learnt /\ UNCHANGED answer

Channel(frame) == IF call.channel = None THEN frame.channel ELSE call.channel

Cut(units) == Room(units) < units

\* Output is kept as far as it fits; the status counts once its message is complete.
BytesMessage(frame) ==
  LET channel == Channel(frame)
      after   == IF frame.fin THEN None ELSE channel
  IN CASE channel \in Streams /\ Cut(frame.units) ->
            Learns([call EXCEPT !.channel = channel, !.truncated = TRUE])
       [] channel \in Streams /\ ~Cut(frame.units) ->
            Learns([call EXCEPT !.channel = after, !.got[channel] = @ + Room(frame.units)])
       [] channel = 3 /\ frame.fin /\ call.exit_code # None -> Raises("unknown")
       [] channel = 3 /\ frame.fin /\ call.exit_code = None ->
            \* exit_status may not understand it
            \/ Learns([call EXCEPT !.channel = None, !.exit_code = command.code])
            \/ Raises("unknown")
       [] channel = 3 /\ ~frame.fin -> Learns([call EXCEPT !.channel = 3])

Receive ==
  /\ Reading /\ wire # <<>>
  /\ wire' = IF Head(wire).type \in {"refuse", "text"} THEN <<>> ELSE Tail(wire)
  /\ LET frame == Head(wire) IN
       CASE frame.type = "accept" -> Learns([call EXCEPT !.accepted = TRUE])
         [] frame.type = "refuse" -> Raises("refused")
         [] frame.type = "text"   -> Raises("unknown")
         [] frame.type = "ping"   -> UNCHANGED <<call, answer>>
         [] frame.type = "data"   -> BytesMessage(frame)
         [] frame.type = "close"  ->
              Learns([call EXCEPT !.closed = TRUE,
                                  !.exit_code = IF frame.code = 1000 THEN @ ELSE None])
  /\ UNCHANGED <<command, link>>

Answered(unknown) ==
  answer' = [kind |-> "result", exit_code |-> IF unknown THEN None ELSE call.exit_code]

Unknown == call.truncated \/ call.exit_code = None \/ ~call.closed \/ call.channel # None

\* The loop ends with a close frame, with the limit, or with the connection.
Return ==
  /\ answer.kind = "none"
  /\ call.closed \/ call.truncated \/ (wire = <<>> /\ link = "eof")
  /\ Answered(Unknown)
  /\ UNCHANGED <<command, wire, link, call>>

\* Frames of all kinds count against a second limit.
Overrun ==
  /\ Reading /\ wire # <<>>
  /\ Learns([call EXCEPT !.truncated = TRUE]) /\ wire' = <<>>
  /\ UNCHANGED <<command, link>>

\* Broken or out of time: an error tells the caller that he cannot know.
Fails ==
  /\ Reading /\ (link = "reset" => wire = <<>>) /\ link # "eof"
  /\ Raises("unknown") /\ wire' = <<>>
  /\ UNCHANGED <<command, link>>

-----------------------------------------------------------------------------
Init ==
  /\ command = [state |-> "waiting", code |-> 0, wrote |-> [s \in Streams |-> 0],
                message |-> None, closed |-> FALSE]
  /\ wire = <<>> /\ link = "up"
  /\ call = [accepted |-> FALSE, channel |-> None, got |-> [s \in Streams |-> 0],
             exit_code |-> None, truncated |-> FALSE, closed |-> FALSE]
  /\ answer = [kind |-> "none", exit_code |-> None]

Server ==
  \/ \E code \in Codes : Accept(code)
  \/ Refuse \/ Exit
  \/ \E s \in Streams, units \in 0..1, fin \in BOOLEAN : Output(s, units, fin)
  \/ \E fin \in BOOLEAN : Status(fin)
  \/ \E code \in {1000, 1011} : Close(code)
  \/ \E type \in {"ping", "text"} : Chatter(type)
  \/ \E how \in {"eof", "reset"} : Break(how)

Next ==
  \/ answer.kind = "none" /\ Server
  \/ Receive \/ Overrun \/ Return \/ Fails

Spec == Init /\ [][Next]_vars

-----------------------------------------------------------------------------
(* Properties *)

\* An exit code is returned only if the command has ended with it and all that it wrote
\* is in the answer, however the messages were cut into fragments and wherever the
\* connection ended.
ExitIsReal ==
  answer.exit_code # None =>
    /\ command.state = "told" /\ answer.exit_code = command.code
    /\ call.got = command.wrote

-----------------------------------------------------------------------------
(* What makes ExitIsReal inductive *)

\* What exec_stream knows of the messages, and will know after a frame if nothing is cut.
Views == [channel : Chans, got : [Streams -> 0..MaxOutput]]

SpokenOn(view, frame) == IF view.channel = None THEN frame.channel ELSE view.channel

Sees(view, frame) ==
  IF frame.type # "data" THEN view
  ELSE [channel |-> IF frame.fin THEN None ELSE SpokenOn(view, frame),
        got     |-> [s \in Streams |->
                       view.got[s] + IF s = SpokenOn(view, frame) THEN frame.units ELSE 0]]

\* A data frame begins a message or continues one; the status follows all output, and its
\* last frame the end of the command ("done").
Follows(done, view, frame) ==
  frame.type = "data" =>
    /\ view.channel = None <=> frame.channel # None
    /\ SpokenOn(view, frame) = 3 =>
         /\ done.state \in {"exited", "told"} /\ view.got = done.wrote
         /\ frame.fin => done.state = "told"

\* The frames under way lead from what is known to what the command has written.
InOrder ==
  \E views \in [0..Len(wire) -> Views] :
    /\ views[0] = [channel |-> call.channel, got |-> call.got]
    /\ \A i \in 1..Len(wire) :
         Follows(command, views[i - 1], wire[i]) /\ views[i] = Sees(views[i - 1], wire[i])
    /\ \A i \in 0..Len(wire), s \in Streams : views[i].got[s] <= command.wrote[s]
    /\ link = "up" =>
         views[Len(wire)] = [channel |-> command.message, got |-> command.wrote]

StatusLast ==
  /\ command.state \in {"waiting", "told"} => command.message = None
  /\ command.state = "running" => command.message # 3
  /\ command.state = "exited" => command.message \in {None, 3}

\* A status that is known is the command's, and all its output came before.
StatusTrue ==
  call.exit_code # None =>
    command.state = "told" /\ call.exit_code = command.code /\ call.got = command.wrote

Inv ==
  /\ TypeOK /\ StatusLast /\ StatusTrue /\ ExitIsReal
  /\ answer.kind = "none" => answer.exit_code = None /\ (~call.truncated => InOrder)

=============================================================================
