--------------------------- MODULE MCBrowserSession ---------------------------
(* Instances of BrowserSession for TLC; the bounds are in the .cfg file. *)
EXTENDS BrowserSession

\* Tokens are interchangeable: it is enough to start from one of them.
CONSTANT First
InitFromFirst == BrowserInit /\ jarRefresh = First
FairSpecFromFirst ==
    InitFromFirst /\ [][BrowserNext]_allVars /\ BrowserFairness
===============================================================================
