----------------------------- MODULE StreamProxy -----------------------------
(***************************************************************************)
(* stream_dify_events (backend/app/chat/service.py): a Dify chat stream is *)
(* relayed line by line, with frames of the proxy's own in between.        *)
(***************************************************************************)
EXTENDS TurnGenerator

CONSTANT
    MaxFrames  \* bound: frames the upstream sends

VARIABLES
    headed,    \* upstream: do all its frames have an event line?
    frame,     \* upstream: kind of the frame being sent, or "none"
    inData,    \* upstream: has its data line been sent?
    frames,    \* upstream: frames begun
    cur,       \* current_event
    pend       \* pending_event_line

readVars == <<headed, frame, inData, frames, cur, pend>>
vars     == <<clientVars, genVars, readVars>>

\* The frames of a chat stream.  "thoughtful" is a message that carries
\* reasoning next to its answer, "ping" any event the proxy does not know.
Kind == {"message", "thoughtful", "agent_thought", "message_end", "error",
         "ping"}
EventOf(k) == IF k = "thoughtful" THEN "message" ELSE k

\* What the client could read from the data line of such a frame.
FieldOf(k) == CASE k \in {"message", "thoughtful"} -> "answer"
                [] k = "agent_thought" -> "thought"
                [] k = "message_end"   -> "usage"
                [] k = "error"         -> "message"
                [] OTHER               -> "none"

Init ==
    /\ GenInit
    /\ headed \in BOOLEAN
    /\ frame = "none" /\ inData = FALSE /\ frames = 0
    /\ cur = NoName /\ pend = NoName

\* What a data line adds to the accumulated text when it is read as event
\* ev.  The reasoning of a frame is shown before its answer.
Pieces(ev, k) ==
    CASE ev = "agent_thought" /\ k \in {"agent_thought", "thoughtful"} ->
             <<"reasoning">>
      [] ev = "message" /\ k = "thoughtful" -> <<"reasoning", "answer">>
      [] ev = "message" /\ k = "message" -> <<"answer">>
      [] OTHER -> <<>>

-------------------------------------------------------------------------------
(* Faulty variants of the definitions below, for the sensitivity checks.   *)

\* The event name of a frame is still in force in the next one.
ReadBlankKeepsName ==
    /\ pc = "reading"
    /\ inData \/ frame = "ping"
    /\ out' = (IF pend = NoName THEN <<>> ELSE << <<Event(pend)>> >>)
              \o << <<Blank>> >>
    /\ pc' = "yielding"
    /\ pend' = NoName
    /\ frame' = "none" /\ inData' = FALSE
    /\ UNCHANGED <<clientVars, headed, frames, cur, gen, usage, terminal, saved, held>>

\* Blank lines are not relayed.
ReadBlankSwallows ==
    /\ pc = "reading"
    /\ inData \/ frame = "ping"
    /\ pend' = NoName /\ cur' = NoName
    /\ frame' = "none" /\ inData' = FALSE
    /\ UNCHANGED <<clientVars, headed, pc, out, frames, gen, usage, terminal, saved, held>>

-------------------------------------------------------------------------------
(* The lines of the upstream.                                              *)

Pending == IF pend = NoName THEN <<>> ELSE << <<Event(pend)>> >>

\* The chunks a data line leads to: agent_thought is translated, anything
\* else is relayed behind its event line, reasoning first.
Relay(ev, k) ==
    LET new == Pieces(ev, k)
        own == Len(gen) + (IF k = "thoughtful" THEN 2 ELSE 1)
    IN  (IF new # <<>> /\ Head(new) = "reasoning"
         THEN << Sse("reasoning", "content", Len(gen) + 1) >> ELSE <<>>)
        \o (IF ev = "agent_thought" THEN <<>>
            ELSE Append(Pending, <<Data(FieldOf(k), own)>>))

\* An event line: kept back until its data line shows what it is.
ReadEvent(k) ==
    /\ pc = "reading"
    /\ frame = "none" /\ frames < MaxFrames
    /\ frame' = k /\ frames' = frames + 1
    /\ cur' = EventOf(k) /\ pend' = EventOf(k)
    /\ UNCHANGED <<clientVars, genVars, headed, inData>>

\* A data line: accumulate, translate, relay.
ReadData(k) ==
    /\ pc = "reading"
    /\ IF frame = "none"
       THEN ~headed /\ frames < MaxFrames /\ frames' = frames + 1
       ELSE frame = k /\ ~inData /\ frames' = frames
    /\ frame' = k /\ inData' = TRUE
    /\ LET ev == IF cur = NoName THEN EventOf(k) ELSE cur IN
       /\ gen' = gen \o Pieces(ev, k)
       /\ usage' = (usage \/ (ev = "message_end" /\ k = "message_end"))
       /\ out' = Relay(ev, k)
    /\ pend' = NoName
    /\ pc' = IF out' = <<>> THEN "reading" ELSE "yielding"
    /\ UNCHANGED <<clientVars, headed, cur, terminal, saved, held>>

\* A blank line ends the frame; only a ping has an event line and no data.
ReadBlank ==
    /\ pc = "reading"
    /\ inData \/ frame = "ping"
    /\ out' = Append(Pending, <<Blank>>)
    /\ pc' = "yielding"
    /\ pend' = NoName /\ cur' = NoName
    /\ frame' = "none" /\ inData' = FALSE
    /\ UNCHANGED <<clientVars, headed, frames, gen, usage, terminal, saved, held>>

Read == (\E k \in Kind : ReadEvent(k) \/ ReadData(k)) \/ ReadBlank

\* The upstream ends or fails, between two frames or inside one: an event
\* line still pending is put out at the end of the stream.
Over ==
    /\ EndOfStream(Pending) \/ Fail
    /\ UNCHANGED readVars

Proxy == Read \/ Over \/ ((Connect \/ Ending \/ Disconnect) /\ UNCHANGED readVars)

Next == Proxy \/ (ClientStep /\ UNCHANGED <<genVars, readVars>>)
===============================================================================
