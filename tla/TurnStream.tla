------------------------------ MODULE TurnStream ------------------------------
(***************************************************************************)
(* What one streamed turn promises, whatever its wire format: the answer   *)
(* is produced piece by piece, shown piece by piece in that order, kept    *)
(* once (all of it, nothing that comes later) and only then declared done. *)
(* ChatTurn implements it, whichever of the two generators runs.           *)
(***************************************************************************)
EXTENDS Naturals

CONSTANT
    NotKept   \* the answer has not been mirrored

VARIABLES
    slack,    \* how many pieces may a turn that is declared done have lost?
    made,     \* pieces of the answer the proxy has received
    shown,    \* pieces the browser has been given
    kept,     \* pieces that are in the mirror, NotKept before the save
    done      \* has the browser been told that the turn is over?

vars == <<slack, made, shown, kept, done>>

Init ==
    /\ slack \in Nat
    /\ made = 0 /\ shown = 0 /\ kept = NotKept /\ done = FALSE

Make ==
    /\ kept = NotKept
    /\ made' = made + 1
    /\ UNCHANGED <<slack, shown, kept, done>>

Show ==
    /\ ~done /\ shown < made
    /\ shown' = shown + 1
    /\ UNCHANGED <<slack, made, kept, done>>

Keep ==
    /\ kept = NotKept
    /\ kept' = made
    /\ UNCHANGED <<slack, made, shown, done>>

Tell ==
    /\ kept # NotKept /\ ~done
    /\ made - shown <= slack
    /\ done' = TRUE
    /\ UNCHANGED <<slack, made, shown, kept>>

Next == Make \/ Show \/ Keep \/ Tell
Spec == Init /\ [][Next]_vars
===============================================================================
