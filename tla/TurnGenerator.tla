---------------------------- MODULE TurnGenerator ----------------------------
(***************************************************************************)
(* What the two stream generators of backend/app/chat/service.py share:    *)
(* yielding chunks, leaving the try block, the shielded save in finally    *)
(* and agent_done after it.  What they promise the browser is in ChatTurn. *)
(* Every yield is a step: the generator may be left at any of them.        *)
(* How the upstream is read is in StreamProxy and WorkflowProxy.           *)
(***************************************************************************)
EXTENDS SseClient

CONSTANT
    NotKept    \* nothing has been mirrored yet

\* That is none of the mirrors there may be, nor a number of pieces.
ASSUME NotKeptAssumption ==
    NotKept \notin Seq({"answer", "reasoning"}) /\ NotKept \notin Nat

VARIABLES
    pc,        \* where the generator is
    out,       \* chunks the generator yields before it reads on
    gen,       \* accumulated answer and reasoning: the channel of each piece
    usage,     \* token_usage is not None
    terminal,  \* the terminal path
    saved,     \* the pieces _persist_assistant stored, or NotKept
    held       \* the upstream's response is open, its connection in use

genVars == <<pc, out, gen, usage, terminal, saved, held>>

GenInit ==
    /\ ClientInit
    /\ pc = "open" /\ out = <<>>
    /\ gen = <<>> /\ usage = FALSE /\ terminal = FALSE
    /\ saved = NotKept /\ held = FALSE

-------------------------------------------------------------------------------
(* Faulty variants of the definitions below, for the sensitivity checks.   *)

\* In a cancelled scope the await of aclose is skipped.
ReleasedUnshielded == held /\ link # "open"

\* Only an answer that was received in full is mirrored.
SaveWholeOnly ==
    /\ pc = "saving"
    /\ saved' = IF terminal THEN gen ELSE <<>>
    /\ pc' = "saved"
    /\ UNCHANGED <<clientVars, out, gen, usage, terminal, held>>

\* agent_done is yielded inside the try block.
LeaveTryDone ==
    /\ pc = "closing" /\ out = <<>>
    /\ Send(Sse("agent_done", "conversation", 0))
    /\ pc' = "saving" /\ held' = FALSE
    /\ UNCHANGED <<eof, link, fEvent, fData, seen, told,
                   out, gen, usage, terminal, saved>>

-------------------------------------------------------------------------------
\* The upstream accepts the request.
Connect ==
    /\ pc = "open"
    /\ pc' = "reading" /\ held' = TRUE
    /\ UNCHANGED <<clientVars, out, gen, usage, terminal, saved>>

\* The response is closed on every way out of its block, shielded.
Released == FALSE

\* The loop over the lines is over; last is what is put out behind it.
Close(last) ==
    /\ out' = last
    /\ pc' = "closing"
    /\ UNCHANGED <<clientVars, gen, usage, terminal, saved>>

\* The loop ran to its end.
EndOfStream(last) == pc = "reading" /\ Close(last) /\ UNCHANGED held

\* A status other than 200, a timeout or any exception: one error frame,
\* for a status while the response is still open.
Fail ==
    /\ pc \in {"open", "reading"}
    /\ Close(<< Sse("error", "message", 0) >>)
    /\ \/ held' = Released
       \/ pc = "open" /\ held' = TRUE

\* One chunk leaves the generator.
Yield ==
    /\ pc \in {"yielding", "closing", "ending"} /\ out # <<>>
    /\ Send(Head(out))
    /\ out' = Tail(out)
    /\ pc' = IF pc = "yielding" /\ out' = <<>> THEN "reading" ELSE pc
    /\ UNCHANGED <<eof, link, fEvent, fData, seen, told,
                   gen, usage, terminal, saved, held>>

\* The try block is left on the terminal path.
LeaveTry ==
    /\ pc = "closing" /\ out = <<>>
    /\ terminal' = TRUE /\ held' = Released
    /\ pc' = "saving"
    /\ UNCHANGED <<clientVars, out, gen, usage, saved>>

\* The client is gone: GeneratorExit or a cancelled scope enters finally.
Disconnect ==
    /\ pc \in {"open", "reading", "yielding", "closing"}
    /\ link # "open"
    /\ out' = <<>>
    /\ pc' = "saving" /\ held' = Released
    /\ UNCHANGED <<clientVars, gen, usage, terminal, saved>>

\* _persist_assistant, shielded: reasoning is stored with an answer only.
Save ==
    /\ pc = "saving"
    /\ saved' = IF \E i \in DOMAIN gen : gen[i] = "answer" THEN gen ELSE <<>>
    /\ pc' = "saved"
    /\ UNCHANGED <<clientVars, out, gen, usage, terminal, held>>

\* The database refuses: the response is cut off, what the browser has not
\* read of it is lost.
SaveFails ==
    /\ pc = "saving"
    /\ pc' = "closed"
    /\ link' = IF link = "open" THEN "broken" ELSE link
    /\ wire' = <<>> /\ fEvent' = NoName /\ fData' = <<>>
    /\ UNCHANGED <<eof, seen, told, out, gen, usage, terminal, saved, held>>

\* After the save the terminal path sends agent_done.
AgentDone ==
    /\ pc = "saved"
    /\ out' = IF terminal THEN << Sse("agent_done", "conversation", 0) >>
              ELSE <<>>
    /\ pc' = "ending"
    /\ UNCHANGED <<clientVars, gen, usage, terminal, saved, held>>

\* The generator returns, the response ends.
Return ==
    /\ pc = "ending" /\ out = <<>>
    /\ pc' = "closed"
    /\ eof' = TRUE
    /\ UNCHANGED <<wire, link, fEvent, fData, seen, told,
                   out, gen, usage, terminal, saved, held>>

\* What happens without a word from the upstream.
Ending == Yield \/ LeaveTry \/ Save \/ SaveFails \/ AgentDone \/ Return

===============================================================================
