----------------------------- MODULE SerialTurns ------------------------------
(***************************************************************************)
(* What the mirror promises of a conversation whose turns never overlapped *)
(* (the composer of the browser is closed while a stream runs).  The code  *)
(* does nothing to keep turns apart, so this is history the module records *)
(* beside ChatMirror.                                                      *)
(***************************************************************************)
EXTENDS ChatMirror

VARIABLE
    crossed    \* the conversations two turns were under way in at once

serialVars == <<vars, crossed>>

Meet(c) ==
    \E t, u \in Turn : /\ t # u
                       /\ at[t] = c /\ pc[t] \in InFlight
                       /\ at[u] = c /\ pc[u] \in InFlight

SerialInit == Init /\ crossed = {}
SerialNext == Next /\ crossed' = crossed \cup {c \in Conv : Meet(c)'}

SerialSpec     == SerialInit /\ [][SerialNext]_serialVars
SerialFairSpec == SerialSpec /\ Fairness

-------------------------------------------------------------------------------
\* message_count is the number of messages, whichever of the turns failed,
\* were left or died (test_chat.py: two after the first turn, four after the
\* second), although every UPDATE writes an absolute value.
CountMatchesMessages ==
    \A c \in Conv \ crossed : count[c] = Len(log[c])

\* The turns of a conversation that were answered were answered in one Dify
\* conversation, the one stored in the row, so the model keeps the context.
OneThread ==
    \A t \in Turn :
        pc[t] \in {"saved", "done"} /\ thread[t] # NONE
          /\ at[t] \notin crossed =>
            thread[t] = dify[at[t]]
===============================================================================
