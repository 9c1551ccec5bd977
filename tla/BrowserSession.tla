---------------------------- MODULE BrowserSession ----------------------------
(***************************************************************************)
(* The session of one browser: its tabs refresh it when a request is       *)
(* answered 401 (frontend/src/api/http.ts), the cookie jar is shared, the  *)
(* server rotates the tokens (RefreshTokens).  Between sending and         *)
(* answering lies the network; the response leaves the server before the   *)
(* rotation is committed.                                                  *)
(***************************************************************************)
EXTENDS RefreshTokens

CONSTANT Tab

VARIABLES
    locks,      \* is navigator.locks there?  Over HTTPS it is, and not over the
                \* plain HTTP the portal is shipped with; it never changes
    jarAccess,  \* access_token_cookie: valid or past its 15 minutes?
    jarRefresh, \* refresh_token_cookie
    tab,        \* [Tab -> TabPhase]
    reqOf,      \* [Tab -> Req \cup {NONE}]: its refresh in flight
    sent,       \* [Req -> Token \cup {NONE}]: the cookie that was sent
    cutOff      \* SUBSET Tab: tabs whose probe failed, kept for the properties

jarVars == <<jarAccess, jarRefresh>>
tabVars == <<locks, tab, reqOf, sent, cutOff>>
allVars == <<vars, jarVars, tabVars>>

TabPhase == {"idle", "denied", "refreshing", "probing", "login"}

\* The browser has logged in: one live token, which it holds.
BrowserInit ==
    \E u \in User, k \in Token :
        /\ status = [x \in User |-> TRUE] /\ era = [x \in User |-> 0]
        /\ holder = [t \in Token |-> IF t = k THEN u ELSE NONE]
        /\ revoked = [t \in Token |-> FALSE]
        /\ expired = [t \in Token |-> FALSE]
        /\ parent = [t \in Token |-> NONE]
        /\ root = [t \in Token |-> IF t = k THEN k ELSE NONE]
        /\ tokenEra = [t \in Token |-> 0]
        /\ crossed = {} /\ late = {} /\ missed = {}
        /\ op = [r \in Req |-> "none"] /\ pc = [r \in Req |-> "idle"]
        /\ who = [r \in Req |-> NONE] /\ old = [r \in Req |-> NONE]
        /\ new = [r \in Req |-> NONE] /\ seenEra = [r \in Req |-> 0]
        /\ jarAccess = TRUE /\ jarRefresh = k
        /\ tab = [t \in Tab |-> "idle"] /\ reqOf = [t \in Tab |-> NONE]
        /\ sent = [r \in Req |-> NONE] /\ cutOff = {} /\ locks \in BOOLEAN

Unsent(r) == sent[r] = NONE

-------------------------------------------------------------------------------
(* Faulty variants of the definitions below, for the sensitivity checks.   *)

\* A 401 to the refresh logs out at once.
RefusedNoProbe(t) ==
    /\ tab[t] = "refreshing" /\ reqOf[t] # NONE
    /\ pc[reqOf[t]] = "refused"
    /\ tab' = [tab EXCEPT ![t] = "login"]
    /\ reqOf' = [reqOf EXCEPT ![t] = NONE]
    /\ UNCHANGED <<vars, jarVars, locks, sent, cutOff>>

\* The lock is kept when the refresh fails.
NetworkFailsHolding(t) ==
    /\ tab[t] = "refreshing" /\ reqOf[t] # NONE
    /\ reqOf' = [reqOf EXCEPT ![t] = NONE]
    /\ UNCHANGED <<vars, jarVars, locks, tab, sent, cutOff>>

-------------------------------------------------------------------------------
(* Tabs.                                                                   *)

\* The access token runs out; refreshing takes seconds, not 15 minutes.
AccessExpires ==
    /\ jarAccess
    /\ \A t \in Tab : tab[t] \in {"idle", "login"}
    /\ \A r \in Req : pc[r] # "read"
    /\ jarAccess' = FALSE
    /\ UNCHANGED <<vars, jarRefresh, tabVars>>

\* A request of the tab is answered 401 (the tab may go on to refresh as
\* long as the bound on requests allows).
Denied(t) ==
    /\ tab[t] = "idle" /\ ~jarAccess
    /\ Cardinality({r \in Req : Unsent(r)}) >
          Cardinality({x \in Tab : tab[x] = "denied"})
    /\ tab' = [tab EXCEPT ![t] = "denied"]
    /\ UNCHANGED <<vars, jarVars, locks, reqOf, sent, cutOff>>

\* refreshOnce: one refresh per tab, with locks one per browser; the request
\* takes the cookie the jar holds when it is sent.
SendRefresh(t, r) ==
    /\ tab[t] = "denied" /\ Unsent(r)
    /\ locks => \A x \in Tab : tab[x] # "refreshing"
    /\ tab' = [tab EXCEPT ![t] = "refreshing"]
    /\ reqOf' = [reqOf EXCEPT ![t] = r]
    /\ sent' = [sent EXCEPT ![r] = jarRefresh]
    /\ UNCHANGED <<vars, jarVars, locks, cutOff>>

\* The new cookies arrive and the denied request is repeated.
Refreshed(t) ==
    /\ tab[t] = "refreshing" /\ reqOf[t] # NONE
    /\ pc[reqOf[t]] \in {"read", "done", "lost"}
    /\ jarAccess' = TRUE /\ jarRefresh' = new[reqOf[t]]
    /\ tab' = [tab EXCEPT ![t] = "idle"]
    /\ reqOf' = [reqOf EXCEPT ![t] = NONE]
    /\ UNCHANGED <<vars, locks, sent, cutOff>>

\* The refresh is answered 401: /auth/me is probed before giving up.
Refused(t) ==
    /\ tab[t] = "refreshing" /\ reqOf[t] # NONE
    /\ pc[reqOf[t]] = "refused"
    /\ tab' = [tab EXCEPT ![t] = "probing"]
    /\ reqOf' = [reqOf EXCEPT ![t] = NONE]
    /\ UNCHANGED <<vars, jarVars, locks, sent, cutOff>>

\* The refresh or its response is lost: the error is handed to the caller.
NetworkFails(t) ==
    /\ tab[t] = "refreshing" /\ reqOf[t] # NONE
    /\ tab' = [tab EXCEPT ![t] = "idle"]
    /\ reqOf' = [reqOf EXCEPT ![t] = NONE]
    /\ UNCHANGED <<vars, jarVars, locks, sent, cutOff>>

\* The probe is answered: with a valid access token the tab goes on.
Probed(t) ==
    /\ tab[t] = "probing"
    /\ tab' = [tab EXCEPT ![t] = IF jarAccess THEN "idle" ELSE "login"]
    /\ UNCHANGED <<vars, jarVars, locks, reqOf, sent, cutOff>>

\* The probe fails (no answer, a 5xx): that counts as not being logged in,
\* whatever the session is like.
ProbeFails(t) ==
    /\ tab[t] = "probing"
    /\ tab' = [tab EXCEPT ![t] = "login"]
    /\ cutOff' = cutOff \cup {t}
    /\ UNCHANGED <<vars, jarVars, locks, reqOf, sent>>

\* The server receives a refresh, and commits or loses what it did.
Serve(r) ==
    /\ \/ \E k \in Token : RotateRead(r, sent[r], k)
       \/ RotateRefused(r, sent[r])
    /\ UNCHANGED <<jarVars, tabVars>>

Commit(r) ==
    /\ CommitRotation(r) \/ CommitFails(r)
    /\ UNCHANGED <<jarVars, tabVars>>

Reset(u) == ResetPassword(u) /\ UNCHANGED <<jarVars, tabVars>>

TabStep(t) ==
    \/ Denied(t) \/ (\E r \in Req : SendRefresh(t, r)) \/ Refreshed(t)
    \/ Refused(t) \/ NetworkFails(t) \/ Probed(t) \/ ProbeFails(t)

BrowserNext ==
    \/ AccessExpires
    \/ \E t \in Tab : TabStep(t)
    \/ \E r \in Req : Unsent(r) = FALSE /\ (Serve(r) \/ Commit(r))
    \/ \E u \in User : Reset(u)

\* A tab goes on, and a refresh that was sent is answered or fails.
BrowserFairness ==
    \A t \in Tab :
        /\ WF_allVars(\E r \in Req : SendRefresh(t, r))
        /\ WF_allVars(Refreshed(t) \/ Refused(t) \/ NetworkFails(t))
        /\ WF_allVars(Probed(t) \/ ProbeFails(t))

BrowserSpec     == BrowserInit /\ [][BrowserNext]_allVars
BrowserFairSpec == BrowserSpec /\ BrowserFairness

-------------------------------------------------------------------------------
(* What the browser promises.                                              *)

\* The variables have their types.
BrowserTypeOK ==
    /\ TypeOK
    /\ jarAccess \in BOOLEAN /\ jarRefresh \in Token
    /\ tab \in [Tab -> TabPhase] /\ reqOf \in [Tab -> Maybe(Req)]
    /\ sent \in [Req -> Maybe(Token)] /\ locks \in BOOLEAN /\ cutOff \subseteq Tab

\* The session can be carried on: the token in the jar is good, or a tab
\* waits for the answer to a rotation that is.
CarriesOn ==
    \/ Accepted(jarRefresh)
    \/ \E t \in Tab :
          /\ tab[t] = "refreshing" /\ reqOf[t] # NONE
          /\ pc[reqOf[t]] \in {"read", "done"}
          /\ revoked[new[reqOf[t]]] = FALSE

\* A tab whose probe is answered is sent to the login page only when the
\* token in the jar is dead: the rotation of another tab is not taken for the
\* end of the session (http.ts: the probe is there to prevent it).  With locks
\* no rotation is under way either that would carry the session on.
KickedOnlyWhenDead ==
    [][\A t \in Tab : tab[t] # "login" /\ tab'[t] = "login" /\ t \notin cutOff'
         => ~Accepted(jarRefresh) /\ (locks => ~CarriesOn)]_allVars

\* A tab whose request was denied goes on or is sent to the login page.
TabSettles == \A t \in Tab : tab[t] = "denied" ~> tab[t] \in {"idle", "login"}
===============================================================================
