------------------------------- MODULE ChatTurn -------------------------------
(***************************************************************************)
(* One turn from the line the upstream sends to the handler the browser    *)
(* calls: send_message (backend/app/chat/router.py) hands the response to  *)
(* the generator of the app's mode, and the browser (SseClient) reads      *)
(* either with the same parser.                                            *)
(***************************************************************************)
EXTENDS TurnGenerator, FiniteSets

CONSTANTS
    MaxFrames, \* bound: frames a chat upstream sends
    MaxLines   \* bound: lines a workflow upstream sends

VARIABLES
    mode,      \* the mode of the app: "chat" (agents too) or "workflow"
    cur,       \* current_event of either generator
    \* what StreamProxy says of a chat upstream, and its pending_event_line
    headed, frame, inData, frames, pend,
    \* what WorkflowProxy says of a workflow upstream
    lines, failed, ended

chatVars == <<headed, frame, inData, frames, pend>>
runVars  == <<lines, failed, ended>>
readVars == <<mode, cur, chatVars, runVars>>
vars     == <<clientVars, genVars, readVars>>

Chat     == INSTANCE StreamProxy
Workflow == INSTANCE WorkflowProxy

Init ==
    /\ mode \in {"chat", "workflow"}
    /\ Chat!Init /\ Workflow!Init
    /\ mode = "workflow" => headed

\* The generator of the mode, and only it, reads the upstream and writes the
\* response.
Generator ==
    \/ mode = "chat" /\ Chat!Proxy /\ UNCHANGED <<mode, runVars>>
    \/ mode = "workflow" /\ Workflow!Proxy /\ UNCHANGED <<mode, chatVars>>

Browser == ClientStep /\ UNCHANGED <<genVars, readVars>>

Next == Generator \/ Browser

\* Reads end: the upstream sends its next line or ends, or httpx times out.
\* Starlette runs the generator and watches for the disconnect meanwhile.
Fairness ==
    /\ WF_vars(Generator)
    /\ WF_vars(Disconnect /\ UNCHANGED readVars)
    /\ WF_vars((Receive \/ StreamEnd) /\ UNCHANGED <<genVars, readVars>>)

Spec     == Init /\ [][Next]_vars
FairSpec == Spec /\ Fairness

-------------------------------------------------------------------------------
(* What a turn promises.                                                   *)

Channel == {"answer", "reasoning"}

\* The browser is given the accumulated pieces from the first one on, in
\* their order, each once and each in its own panel: reasoning inserted
\* between relayed lines never displaces, doubles or mislabels a piece.
SeenInOrder ==
    /\ gen \in Seq(Channel) /\ Len(seen) <= Len(gen)
    /\ \A i \in 1..Len(seen) : seen[i] = <<gen[i], i>>

\* When the save is done, every piece the browser was or will be shown of an
\* answer is in the mirror, with the reasoning shown on the way.
MirrorHoldsShown ==
    saved # NotKept /\ (\E i \in 1..Len(seen) : seen[i][1] = "answer") =>
        \A i \in 1..Len(seen) :
            seen[i][2] <= Len(saved) /\ saved[seen[i][2]] = seen[i][1]

\* A browser that is told the turn is over has been shown all of it.
DoneMeansShown == "agent_done" \in told => Len(seen) = Len(gen)

\* The usage of the turn, once Dify reported it, is reported to a browser
\* that stayed for agent_done (docs/api-contract.md: event message_end).
UsageReported == "agent_done" \in told /\ usage => "usage" \in told

\* agent_done means shown in full when the upstream ended between two
\* frames, also behind an error of it, of httpx or of the proxy; of a
\* workflow run always, since nothing of it is relayed.  If the upstream also
\* names its frames, and of a workflow, the browser has learned the usage.
WholeMeansTold ==
    frame = "none" => DoneMeansShown /\ (headed => UsageReported)

\* A failed run is reported as an error, and a failure is never told as an
\* end with usage nor stored as one (docstring of stream_workflow_events),
\* whatever comes before and behind it.  Whoever is told of an end, or finds a
\* usage in the mirror, has it from an upstream that also reported the run as
\* finished otherwise: the loop reads on behind the first workflow_finished.
FailureIsNoEnd ==
    mode = "workflow" =>
        /\ "end" \in told \/ usage => ended
        /\ failed /\ "agent_done" \in told => "error" \in told

\* agent_done hands the browser the id of the conversation
\* (docs/api-contract.md, v5), by which a new conversation is claimed.
DoneCarriesConversation == "agent_done" \in told => "conversation" \in told

\* Either generator implements a turn that is made, shown, kept and then
\* done.  A frame torn by the upstream costs one piece of a relayed answer at
\* most, and none of a translated one.
Answers(s) == Cardinality({i \in DOMAIN s : s[i] = "answer"})
Turn == INSTANCE TurnStream WITH
    slack <- IF mode = "chat" THEN 1 ELSE 0,
    made  <- Answers(gen),
    shown <- Cardinality({i \in DOMAIN seen : seen[i][1] = "answer"}),
    kept  <- IF saved = NotKept THEN NotKept ELSE Answers(saved),
    done  <- "agent_done" \in told
TurnRefined == Turn!Spec

\* The generator ends, has tried to save and has given its connection to Dify
\* back, whoever leaves and when (dify/client.py:68); and a browser that
\* stays is told that the turn is over, unless the save fails.
TurnSettles ==
    <>(/\ pc = "closed" /\ ~held
       /\ "agent_done" \in told \/ link \in {"stopped", "broken"})
===============================================================================
