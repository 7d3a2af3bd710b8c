------------------------------ MODULE CliFraming ------------------------------
(***************************************************************************)
(* How the bytes of one client become commands: the client, the TCP stream *)
(* that cuts its bytes into arbitrary segments, connection::handle_read    *)
(* and the state machine command_parser::consume.  A character is a member *)
(* of Plain, the delimiter SP, the terminator CR, or HI, a byte outside    *)
(* ASCII.  The loop of command_parser::parse is taken byte by byte: the    *)
(* server thread does nothing else in between, but the client goes on      *)
(* sending.                                                                *)
(***************************************************************************)
EXTENDS Naturals, Sequences, SequencesExt

CONSTANTS Plain,      \* the characters but SP, CR and HI
          Commands,   \* the commands the client may send: [op, data, replies]
          Window,     \* how many unanswered commands the client allows itself
          BufferSize, \* size of connection::buffer_
          MaxCommands \* bound: commands sent on the connection

\* README: an operation code has no space in it and, like the data, no
\* terminator; how many replies a command gets depends on nothing else.
ASSUME FramingAssumption ==
  /\ Window \in Nat \ {0} /\ BufferSize \in Nat \ {0} /\ MaxCommands \in Nat
  /\ Plain \cap {"SP", "CR", "HI"} = {}
  /\ Commands \subseteq [op : Seq(Plain \cup {"HI"}) \ {<<>>},
                         data : Seq(Plain \cup {"SP", "HI"}), replies : {1, 2}]
  /\ \A c, d \in Commands : c.op = d.op /\ c.data = d.data => c = d

VARIABLES sent,     \* the commands the client has sent
          wire,     \* bytes sent and not yet read
          buffer,   \* bytes of the current read that are still to be parsed
          state,    \* command_parser::state_
          command,  \* command_
          executed, \* the commands passed to handle_command, as [op, data]
          replies   \* how many replies have reached the client

framingVars == <<sent, wire, buffer, state, command, executed, replies>>

Empty == [op |-> <<>>, data |-> <<>>]

Request(c) == [op |-> c.op, data |-> c.data]

\* README: an operation code and a data string, separated by a space and
\* terminated by a carriage return.
Encoded(c) ==
  c.op \o (IF c.data = <<>> THEN <<>> ELSE <<"SP">> \o c.data) \o <<"CR">>

FramingTypeOK ==
  /\ sent \in Seq(Commands)
  /\ state \in {"op_start", "op", "data_start", "data"}
  /\ Len(buffer) <= BufferSize
  /\ replies \in Nat

FramingInit ==
  /\ sent = <<>> /\ wire = <<>> /\ buffer = <<>>
  /\ state = "op_start" /\ command = Empty
  /\ executed = <<>> /\ replies = 0

-----------------------------------------------------------------------------
(* The client and the network.                                             *)

ClientSends(c) ==
  /\ Len(sent) < MaxCommands
  /\ Len(sent) < replies + Window
  /\ sent' = Append(sent, c)
  /\ wire' = wire \o Encoded(c)
  /\ UNCHANGED <<buffer, state, command, executed, replies>>

\* async_read_some completes with any number of the bytes sent so far, up
\* to the size of the buffer.
ReadSome ==
  /\ buffer = <<>> /\ wire # <<>>
  /\ \E n \in 1 .. BufferSize :
       /\ n <= Len(wire)
       /\ buffer' = SubSeq(wire, 1, n)
       /\ wire' = SubSeq(wire, n + 1, Len(wire))
  /\ UNCHANGED <<sent, state, command, executed, replies>>

-----------------------------------------------------------------------------
(* command_parser::consume: the state and command after one byte, and      *)
(* whether the byte completes the command ("true"), is invalid ("false")   *)
(* or leaves the command incomplete ("more").                              *)

IsChar(ch) == ch # "HI"

ToOp(ch) == [state |-> "op", result |-> "more", command |-> [command EXCEPT !.op = Append(@, ch)]]
ToData(ch) == [state |-> "data", result |-> "more", command |-> [command EXCEPT !.data = Append(@, ch)]]
ToDataStart == [state |-> "data_start", result |-> "more", command |-> command]
Ends(result) == [state |-> state, result |-> result, command |-> command]

\* The first three forms are mutants: a delimiter in the data starts the
\* data anew; an invalid byte ends the command like its terminator; the
\* terminator is not seen where a delimiter might follow.
ConsumeDelimInData(ch) ==
  IF state # "op_start" /\ ch = "SP" THEN ToDataStart
  ELSE IF ~IsChar(ch) THEN Ends("false")
  ELSE IF state \in {"op", "data"} /\ ch = "CR" THEN Ends("true")
  ELSE IF state \in {"op_start", "op"} THEN ToOp(ch) ELSE ToData(ch)

ConsumeInvalidAsEnd(ch) ==
  IF state = "op" /\ ch = "SP" THEN ToDataStart
  ELSE IF ~IsChar(ch) \/ (state \in {"op", "data"} /\ ch = "CR") THEN Ends("true")
  ELSE IF state \in {"op_start", "op"} THEN ToOp(ch) ELSE ToData(ch)

ConsumeEndInDataOnly(ch) ==
  IF state = "op" /\ ch = "SP" THEN ToDataStart
  ELSE IF ~IsChar(ch) THEN Ends("false")
  ELSE IF state = "data" /\ ch = "CR" THEN Ends("true")
  ELSE IF state \in {"op_start", "op"} THEN ToOp(ch) ELSE ToData(ch)

Consume(ch) ==
  IF state = "op" /\ ch = "SP" THEN ToDataStart
  ELSE IF ~IsChar(ch) THEN Ends("false")
  ELSE IF state \in {"op", "data"} /\ ch = "CR" THEN Ends("true")
  ELSE IF state \in {"op_start", "op"} THEN ToOp(ch) ELSE ToData(ch)

\* handle_command: one reply, or the two that a failing DIR sends, for each
\* command that is one of the client's; ERR for any other.
RepliesTo(request) ==
  IF \E c \in Commands : Request(c) = request
  THEN (CHOOSE c \in Commands : Request(c) = request).replies ELSE 1

\* command_.clear(), command_parser_.reset(); the first form is a mutant
\* without clear().
StartOverKeepsCommand ==
  /\ state' = "op_start" /\ command' = command

StartOver ==
  /\ state' = "op_start" /\ command' = Empty

\* The loop of parse() and what handle_read does with its result.  When a
\* command is complete or a byte invalid, the rest of the read is dropped:
\* handle_read ignores where parse() has stopped.
ParseMore ==
  LET after == Consume(Head(buffer)) IN
    /\ after.result = "more"
    /\ buffer' = Tail(buffer)
    /\ state' = after.state /\ command' = after.command
    /\ UNCHANGED <<sent, wire, executed, replies>>

ParseComplete ==
  /\ Consume(Head(buffer)).result = "true"
  /\ buffer' = <<>>
  /\ executed' = Append(executed, command)
  /\ replies' = replies + RepliesTo(command)
  /\ StartOver
  /\ UNCHANGED <<sent, wire>>

ParseInvalid ==
  /\ Consume(Head(buffer)).result = "false"
  /\ buffer' = <<>>
  /\ StartOver
  /\ UNCHANGED <<sent, wire, executed, replies>>

ParseByte == buffer # <<>> /\ (ParseMore \/ ParseComplete \/ ParseInvalid)

-----------------------------------------------------------------------------

FramingNext == (\E c \in Commands : ClientSends(c)) \/ ReadSome \/ ParseByte

\* TCP delivers what was sent, and the server thread parses what it read.
FramingSpec == FramingInit /\ [][FramingNext]_framingVars
FramingFairSpec == FramingSpec /\ WF_framingVars(ReadSome) /\ WF_framingVars(ParseByte)

-----------------------------------------------------------------------------
(* Properties.                                                             *)

\* The client keeps to ASCII, waits for each reply and gets one for each
\* command.
Ascii(c) == \A ch \in ToSet(c.op \o c.data) : IsChar(ch)
WellBehaved == \A i \in DOMAIN sent : Ascii(sent[i]) /\ sent[i].replies = 1

\* However the network cuts the stream of a well-behaved client, the
\* commands executed are those it sent, in order, none lost, split, merged
\* or repeated (command_parser.cpp:26-88, connection.cpp:674-699).
ExecutedInOrder ==
  WellBehaved => IsPrefix(executed, [i \in DOMAIN sent |-> Request(sent[i])])

\* The parser never holds bytes of an earlier command: what it has gathered
\* and what is still on its way make up the one unanswered command
\* (command.cpp:15-19, command_parser.cpp:21-24).
NothingLeftOver ==
  /\ FramingTypeOK
  /\ WellBehaved =>
       LET gathered ==
             command.op \o (IF state \in {"data_start", "data"} THEN <<"SP">> ELSE <<>>) \o command.data
           unanswered == SubSeq(sent, Len(executed) + 1, Len(sent))
       IN  gathered \o buffer \o wire
             = FlattenSeq([i \in DOMAIN unanswered |-> Encoded(unanswered[i])])

\* A byte outside ASCII may cost a command its answer, but no command of a
\* client that waits for its replies is ever answered twice: replies do not
\* run ahead of the commands (connection.cpp:674-704).
NeverAnsweredTwice ==
  (\A c \in Commands : c.replies = 1) => replies <= Len(sent)

\* Every command of a well-behaved client is executed in the end.
EveryCommandExecuted ==
  \A n \in 1 .. MaxCommands :
    WellBehaved /\ Len(sent) >= n ~> ~WellBehaved \/ Len(executed) >= n

=============================================================================
