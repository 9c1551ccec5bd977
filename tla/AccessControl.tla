---------------------------- MODULE AccessControl ----------------------------
(***************************************************************************)
(* What authorization promises (backend/app/authz.py, backend/app/auth/    *)
(* deps.py): rights change by the requests of enabled administrators only, *)
(* one user's standing at a time, and a restart takes nothing away and     *)
(* makes nobody an administrator.                                          *)
(***************************************************************************)
EXTENDS FiniteSets

CONSTANTS User, Thing    \* apps and datasets

VARIABLES
    begun,    \* has there been a first start?
    admins,   \* the enabled administrators
    sees,     \* [User -> SUBSET Thing]: what a user may use
    open      \* the administrators whose request has passed the gate

accessVars == <<begun, admins, sees, open>>

Init ==
    /\ begun = FALSE /\ admins = {} /\ open = {}
    /\ sees = [u \in User |-> {}]

Ask(a) ==
    /\ begun /\ a \in admins \ open
    /\ open' = open \cup {a}
    /\ UNCHANGED <<begun, admins, sees>>

\* The request changes what it changes, for one user the standing as well.
Act(a) ==
    /\ a \in open
    /\ open' = open \ {a}
    /\ begun' = begun
    /\ sees' \in [User -> SUBSET Thing]
    /\ \E u \in User : \/ admins' = admins \cup {u}
                       \/ admins' = admins \ {u}

\* The process dies with the requests in progress.
Die ==
    /\ open' = {} /\ UNCHANGED <<begun, admins, sees>>

\* The first start makes the first administrator.
Restart ==
    /\ open = {} /\ open' = {} /\ begun'
    /\ IF begun THEN admins' = admins
       ELSE \E u \in User : admins' = {u}
    /\ sees' \in [User -> SUBSET Thing]
    /\ \A u \in User : sees[u] \subseteq sees'[u]

Next == (\E a \in User : Ask(a) \/ Act(a)) \/ Die \/ Restart

Spec == Init /\ [][Next]_accessVars
===============================================================================
