---------------------------- MODULE WorkflowProxy ----------------------------
(***************************************************************************)
(* stream_workflow_events (backend/app/chat/service.py): the events of a   *)
(* Dify workflow run are translated to the events of a chat turn.  Nothing *)
(* is relayed: every chunk is a whole frame.                               *)
(***************************************************************************)
EXTENDS TurnGenerator

CONSTANT
    MaxLines   \* bound: lines the upstream sends

VARIABLES
    lines,     \* upstream: lines sent
    failed,    \* upstream: has it reported the run as failed?
    ended,     \* upstream: has it reported it as finished otherwise?
    cur        \* current_event

readVars == <<lines, failed, ended, cur>>
vars     == <<clientVars, genVars, readVars>>

\* The data lines of a workflow stream: a text_chunk with text or without,
\* workflow_finished with status failed or not, an error event (Dify's, behind
\* status 200), one of the dropped progress events.  In any order and number:
\* no line is the last one for the code.
Kind == {"text_chunk", "empty_chunk", "finished", "failed", "error", "progress"}
EventOf(k) == CASE k \in {"text_chunk", "empty_chunk"} -> "text_chunk"
                [] k \in {"finished", "failed"} -> "workflow_finished"
                [] k = "error" -> "error"
                [] OTHER -> "node_started"

Init ==
    /\ GenInit
    /\ lines = 0 /\ failed = FALSE /\ ended = FALSE /\ cur = NoName

-------------------------------------------------------------------------------
(* Faulty variants of the definitions below, for the sensitivity checks.   *)

\* workflow_finished is reported as an end whatever its status is.
TranslateFailedToo(ev, k) ==
    CASE ev = "text_chunk" /\ k = "text_chunk" ->
             << Sse("message", "answer", Len(gen) + 1) >>
      [] ev = "workflow_finished" /\ k = "failed" ->
             << Sse("error", "message", 0),
                Sse("message_end", "usage", 0) >>
      [] ev = "workflow_finished" /\ k = "finished" ->
             << Sse("message_end", "usage", 0) >>
      [] OTHER -> <<>>

-------------------------------------------------------------------------------
(* The lines of the upstream.                                              *)

\* The chunks a data line read as event ev is translated to; of an error
\* event, as of any the code does not name, nothing is.
Translate(ev, k) ==
    CASE ev = "text_chunk" /\ k = "text_chunk" ->
             << Sse("message", "answer", Len(gen) + 1) >>
      [] ev = "workflow_finished" /\ k = "failed" ->
             << Sse("error", "message", 0) >>
      [] ev = "workflow_finished" /\ k = "finished" ->
             << Sse("message_end", "usage", 0) >>
      [] OTHER -> <<>>

More ==
    /\ pc = "reading" /\ lines < MaxLines
    /\ lines' = lines + 1

\* An event line, of a data line to come or alone (ping).
ReadEvent(k) ==
    /\ More /\ cur = NoName
    /\ cur' = EventOf(k)
    /\ UNCHANGED <<clientVars, genVars, failed, ended>>

\* A data line, with the name of its event line or the one it carries.
ReadData(k) ==
    /\ More
    /\ cur \in {NoName, EventOf(k)}
    /\ LET ev == IF cur = NoName THEN EventOf(k) ELSE cur IN
       /\ out' = Translate(ev, k)
       /\ gen' = IF ev = "text_chunk" /\ k = "text_chunk"
                 THEN Append(gen, "answer") ELSE gen
       /\ usage' = (usage \/ (ev = "workflow_finished" /\ k = "finished"))
    /\ failed' = (failed \/ k = "failed")
    /\ ended' = (ended \/ k = "finished")
    /\ pc' = IF out' = <<>> THEN "reading" ELSE "yielding"
    /\ UNCHANGED <<clientVars, cur, terminal, saved, held>>

\* A blank line ends the event block.
ReadBlank ==
    /\ More
    /\ cur' = NoName
    /\ UNCHANGED <<clientVars, genVars, failed, ended>>

Read == (\E k \in Kind : ReadEvent(k) \/ ReadData(k)) \/ ReadBlank

Proxy ==
    \/ Read
    \/ /\ EndOfStream(<<>>) \/ Fail \/ Connect \/ Ending \/ Disconnect
       /\ UNCHANGED readVars

Next == Proxy \/ (ClientStep /\ UNCHANGED <<genVars, readVars>>)
===============================================================================
