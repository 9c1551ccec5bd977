------------------------------ MODULE SseClient ------------------------------
(***************************************************************************)
(* The browser's end of POST /api/chat/send (frontend/src/api/sse.ts) and  *)
(* the connection to it.  A line of the event stream is an event name, a   *)
(* data line or a blank line; a chunk a generator yields is a sequence of  *)
(* lines.  The parser is line by line: how lines are cut into network      *)
(* chunks makes no difference to it.                                       *)
(*                                                                         *)
(* StreamProxy and WorkflowProxy extend this module with the generator     *)
(* that writes the wire.                                                   *)
(***************************************************************************)
EXTENDS Naturals, Sequences

VARIABLES
    wire,    \* lines sent and not yet parsed
    eof,     \* has the server ended the response?
    link,    \* "open", "ended", "stopped" by the client, "broken"
    fEvent,  \* name of the event line of the frame being read, or NoName
    fData,   \* the data lines of the frame being read
    seen,    \* what the handlers were given: <<channel, piece>> pairs
    told     \* which of the other handlers were called

clientVars == <<wire, eof, link, fEvent, fData, seen, told>>

\* A data line is the JSON object it carries: the field the client looks at
\* and, for text, the number of the piece it carries.
Event(name)        == [line |-> "event", name |-> name]
Data(field, piece) == [line |-> "data", field |-> field, piece |-> piece]
Blank              == [line |-> "blank"]

\* No event line has been read: an empty string or None in the code.
NoName == "none"

\* service.py _sse: an event of the proxy's own is always a whole frame.
Sse(name, field, piece) == <<Event(name), Data(field, piece), Blank>>

ClientInit ==
    /\ wire = <<>> /\ eof = FALSE /\ link = "open"
    /\ fEvent = NoName /\ fData = <<>>
    /\ seen = <<>> /\ told = {}

-------------------------------------------------------------------------------
\* The object a frame stands for: JSON.parse of the joined data lines, or {}
\* when there is none or the join of several is not JSON.
Parsed == IF Len(fData) = 1 THEN fData[1] ELSE Data("none", 0)

\* A frame without an event line is a "message".
FrameName == IF fEvent = NoName THEN "message" ELSE fEvent

\* The frame that has been read is dispatched to its handler.  A frame with
\* neither line is skipped; a missing answer or content is the empty text;
\* agent_done is reported without its data.
Dispatch ==
    LET p == Parsed
        some == fEvent # NoName \/ fData # <<>>
        Text(name, field) == FrameName = name /\ p.field = field
    IN  /\ seen' = CASE some /\ Text("message", "answer") ->
                          Append(seen, <<"answer", p.piece>>)
                     [] some /\ Text("reasoning", "content") ->
                          Append(seen, <<"reasoning", p.piece>>)
                     [] OTHER -> seen
        /\ told' = told \cup
              IF some /\ FrameName = "message_end"
              THEN IF p.field = "usage" THEN {"end", "usage"} ELSE {"end"}
              ELSE IF some /\ FrameName \in {"error", "agent_done"}
              THEN {FrameName} ELSE {}
        /\ fEvent' = NoName /\ fData' = <<>>

\* One line is parsed.
Receive ==
    /\ link = "open" /\ wire # <<>>
    /\ wire' = Tail(wire)
    /\ LET l == Head(wire) IN
       \/ /\ l.line = "event"
          /\ fEvent' = l.name
          /\ UNCHANGED <<fData, seen, told>>
       \/ /\ l.line = "data"
          /\ fData' = Append(fData, l)
          /\ UNCHANGED <<fEvent, seen, told>>
       \/ /\ l.line = "blank"
          /\ Dispatch
    /\ UNCHANGED <<eof, link>>

\* The body has been read: a frame that no blank line ended is dispatched too.
StreamEnd ==
    /\ link = "open" /\ wire = <<>> /\ eof
    /\ Dispatch
    /\ link' = "ended"
    /\ UNCHANGED <<wire, eof>>

\* The user stops the answer, leaves the page, or the network fails: the
\* reader is dropped with what it has not dispatched.
Stop ==
    /\ link = "open"
    /\ link' = "stopped"
    /\ wire' = <<>> /\ fEvent' = NoName /\ fData' = <<>>
    /\ UNCHANGED <<eof, seen, told>>

\* What the generator yields reaches the wire while somebody listens.
Send(chunk) == wire' = IF link = "open" THEN wire \o chunk ELSE wire

ClientStep == Receive \/ StreamEnd \/ Stop
===============================================================================
