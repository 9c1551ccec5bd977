---------------------------- MODULE RefreshTokens ----------------------------
(***************************************************************************)
(* Refresh tokens on the server (backend/app/auth/service.py and           *)
(* reset_password, update_user in backend/app/admin/service.py).           *)
(*                                                                         *)
(* A request reads at READ COMMITTED and commits in a later step: get_db   *)
(* commits after the endpoint has returned, when the response with the new *)
(* cookies has been sent.  The administrator's operations are decided by   *)
(* one UPDATE each and are one step.  Any number of requests may be under  *)
(* way at once; what that did to a session is kept for the properties in   *)
(* crossed, late and missed.                                               *)
(***************************************************************************)
EXTENDS Naturals, FiniteSets

CONSTANTS
    Req,       \* login, refresh and logout requests
    Token,     \* refresh tokens, random and never drawn twice
    User,
    NONE,
    MaxEra     \* bound: passwords a user may have, one after another

ASSUME TokensAssumption ==
    /\ MaxEra \in Nat
    /\ NONE \notin Req \cup Token \cup User

VARIABLES
    \* users table
    status,    \* [User -> BOOLEAN]: status = 1
    era,       \* [User -> Nat]: which password is in force
    \* refresh_tokens table
    holder,    \* [Token -> User \cup {NONE}]: user_id, NONE: no row
    revoked,   \* [Token -> BOOLEAN]: revoked_at is not NULL
    expired,   \* [Token -> BOOLEAN]: expires_at has passed
    \* how a row came to be, which no column tells
    parent,    \* [Token -> Token \cup {NONE}]: the token it was rotated from
    root,      \* [Token -> Token \cup {NONE}]: the token of its login
    tokenEra,  \* [Token -> Nat]: the password that was checked at that login
    \* which requests met, of which nothing is recorded either
    crossed,   \* SUBSET Token: logins of which two requests rotated one token,
               \* both having read it before either had committed
    late,      \* SUBSET (Token \X Nat): logins of which a request was between
               \* its reads and its commit when that password came into force
    missed,    \* SUBSET Req: logouts that came before the row of their token
    \* requests
    op,        \* [Req -> {"none", "login", "rotate", "logout"}]
    pc,        \* [Req -> {"idle", "read", "done", "refused", "lost"}]
    who,       \* [Req -> User \cup {NONE}]: the user found
    old,       \* [Req -> Token \cup {NONE}]: the token presented
    new,       \* [Req -> Token \cup {NONE}]: the token issued
    seenEra    \* [Req -> Nat]: the password the login checked

userVars  == <<status, era>>
rowVars   == <<holder, revoked, expired>>
ghostVars == <<parent, root, tokenEra>>
metVars   == <<crossed, late, missed>>
reqVars   == <<op, pc, who, old, new, seenEra>>
vars      == <<userVars, rowVars, ghostVars, metVars, reqVars>>

Init ==
    /\ status = [u \in User |-> TRUE] /\ era = [u \in User |-> 0]
    /\ holder = [t \in Token |-> NONE]
    /\ revoked = [t \in Token |-> FALSE] /\ expired = [t \in Token |-> FALSE]
    /\ parent = [t \in Token |-> NONE] /\ root = [t \in Token |-> NONE]
    /\ tokenEra = [t \in Token |-> 0]
    /\ crossed = {} /\ late = {} /\ missed = {}
    /\ op = [r \in Req |-> "none"] /\ pc = [r \in Req |-> "idle"]
    /\ who = [r \in Req |-> NONE] /\ old = [r \in Req |-> NONE]
    /\ new = [r \in Req |-> NONE] /\ seenEra = [r \in Req |-> 0]

Live(t)  == holder[t] # NONE /\ ~revoked[t] /\ ~expired[t]
Fresh(t) == holder[t] = NONE /\ \A r \in Req : new[r] # t

\* The requests between their reads and their commit, and the login each
\* works for.
Underway   == {r \in Req : pc[r] = "read"}
LoginOf(r) == IF op[r] = "login" THEN new[r] ELSE root[old[r]]

-------------------------------------------------------------------------------
(* Faulty variants of the definitions below, for the sensitivity checks.   *)

\* revoked_at is not looked at.
AcceptedRevoked(t) == holder[t] # NONE /\ ~expired[t] /\ status[holder[t]]

\* A password reset leaves the tokens alone.
ResetOnlyPassword(u) ==
    /\ era[u] < MaxEra
    /\ era' = [era EXCEPT ![u] = @ + 1]
    /\ UNCHANGED <<status, rowVars, ghostVars, metVars, reqVars>>

\* Logout forgets the cookie only.
CommitLogoutNot(r) ==
    /\ op[r] = "logout" /\ pc[r] = "read"
    /\ pc' = [pc EXCEPT ![r] = "done"]
    /\ UNCHANGED <<userVars, rowVars, ghostVars, metVars, op, who, old, new,
                   seenEra>>

-------------------------------------------------------------------------------
(* Requests.                                                               *)

\* rotate_refresh accepts the token: known, not revoked, not expired, and of
\* a user who is enabled.
Accepted(t) == Live(t) /\ status[holder[t]]

\* login: the user is enabled and the password is the one in force.
LoginRead(r, u, t) ==
    /\ pc[r] = "idle" /\ Fresh(t)
    /\ status[u]
    /\ op' = [op EXCEPT ![r] = "login"] /\ pc' = [pc EXCEPT ![r] = "read"]
    /\ who' = [who EXCEPT ![r] = u] /\ new' = [new EXCEPT ![r] = t]
    /\ seenEra' = [seenEra EXCEPT ![r] = era[u]]
    /\ UNCHANGED <<userVars, rowVars, ghostVars, metVars, old>>

CommitLogin(r) ==
    /\ op[r] = "login" /\ pc[r] = "read"
    /\ LET t == new[r] IN
       /\ holder' = [holder EXCEPT ![t] = who[r]]
       /\ root' = [root EXCEPT ![t] = t]
       /\ tokenEra' = [tokenEra EXCEPT ![t] = seenEra[r]]
    /\ pc' = [pc EXCEPT ![r] = "done"]
    /\ UNCHANGED <<userVars, revoked, expired, parent, metVars, op, who, old,
                   new, seenEra>>

\* refresh: the row and the user are read, the new token is drawn.
RotateRead(r, o, t) ==
    /\ pc[r] = "idle" /\ Fresh(t)
    /\ Accepted(o)
    /\ op' = [op EXCEPT ![r] = "rotate"] /\ pc' = [pc EXCEPT ![r] = "read"]
    /\ who' = [who EXCEPT ![r] = holder[o]]
    /\ old' = [old EXCEPT ![r] = o] /\ new' = [new EXCEPT ![r] = t]
    /\ UNCHANGED <<userVars, rowVars, ghostVars, metVars, seenEra>>

\* The old row is revoked and the new one inserted, in one transaction.
CommitRotation(r) ==
    /\ op[r] = "rotate" /\ pc[r] = "read"
    /\ LET t == new[r] IN
       /\ holder' = [holder EXCEPT ![t] = who[r]]
       /\ revoked' = [revoked EXCEPT ![old[r]] = TRUE]
       /\ parent' = [parent EXCEPT ![t] = old[r]]
       /\ root' = [root EXCEPT ![t] = root[old[r]]]
       /\ tokenEra' = [tokenEra EXCEPT ![t] = tokenEra[old[r]]]
    /\ crossed' = crossed \cup
          {root[old[r]] : x \in {x \in Underway \ {r} :
                                op[x] = "rotate" /\ old[x] = old[r]}}
    /\ pc' = [pc EXCEPT ![r] = "done"]
    /\ UNCHANGED <<userVars, expired, late, missed, op, who, old, new, seenEra>>

\* 401: the token is not accepted.
RotateRefused(r, o) ==
    /\ pc[r] = "idle"
    /\ ~Accepted(o)
    /\ op' = [op EXCEPT ![r] = "rotate"] /\ pc' = [pc EXCEPT ![r] = "refused"]
    /\ old' = [old EXCEPT ![r] = o]
    /\ UNCHANGED <<userVars, rowVars, ghostVars, metVars, who, new, seenEra>>

\* logout: the row is read, and revoked at the commit.
LogoutRead(r, o) ==
    /\ pc[r] = "idle"
    /\ holder[o] # NONE /\ ~revoked[o]
    /\ op' = [op EXCEPT ![r] = "logout"] /\ pc' = [pc EXCEPT ![r] = "read"]
    /\ old' = [old EXCEPT ![r] = o]
    /\ UNCHANGED <<userVars, rowVars, ghostVars, metVars, who, new, seenEra>>

\* A token that is revoked already, or that the database does not know (yet):
\* nothing is revoked, and the answer is 200 all the same.
LogoutVoid(r, o) ==
    /\ pc[r] = "idle" /\ ~Fresh(o)
    /\ holder[o] = NONE \/ revoked[o]
    /\ op' = [op EXCEPT ![r] = "logout"] /\ pc' = [pc EXCEPT ![r] = "done"]
    /\ old' = [old EXCEPT ![r] = o]
    /\ missed' = IF holder[o] = NONE THEN missed \cup {r} ELSE missed
    /\ UNCHANGED <<userVars, rowVars, ghostVars, crossed, late, who, new, seenEra>>

CommitLogout(r) ==
    /\ op[r] = "logout" /\ pc[r] = "read"
    /\ revoked' = [revoked EXCEPT ![old[r]] = TRUE]
    /\ pc' = [pc EXCEPT ![r] = "done"]
    /\ UNCHANGED <<userVars, holder, expired, ghostVars, metVars, op, who, old,
                   new, seenEra>>

\* The commit raises after the response has been sent, or the server dies.
CommitFails(r) ==
    /\ pc[r] = "read"
    /\ pc' = [pc EXCEPT ![r] = "lost"]
    /\ UNCHANGED <<userVars, rowVars, ghostVars, metVars, op, who, old, new,
                   seenEra>>

-------------------------------------------------------------------------------
(* The administrator, and time.                                            *)

\* reset_password: a new password, and every live token is revoked.
ResetPassword(u) ==
    /\ era[u] < MaxEra
    /\ era' = [era EXCEPT ![u] = @ + 1]
    /\ revoked' = [t \in Token |-> revoked[t] \/ holder[t] = u]
    /\ late' = late \cup {<<LoginOf(x), era'[u]>> :
                              x \in {x \in Underway : who[x] = u}}
    /\ UNCHANGED <<status, holder, expired, ghostVars, crossed, missed, reqVars>>

\* update_user: an account is disabled or enabled again.
SetStatus(u) ==
    /\ status' = [status EXCEPT ![u] = ~@]
    /\ UNCHANGED <<era, rowVars, ghostVars, metVars, reqVars>>

Expire(t) ==
    /\ holder[t] # NONE /\ ~expired[t]
    /\ expired' = [expired EXCEPT ![t] = TRUE]
    /\ UNCHANGED <<userVars, holder, revoked, ghostVars, metVars, reqVars>>

Admin == \E u \in User : ResetPassword(u) \/ SetStatus(u)

Request(r) ==
    \/ \E u \in User, t \in Token : LoginRead(r, u, t)
    \/ \E o, t \in Token : RotateRead(r, o, t)
    \/ \E o \in Token : RotateRefused(r, o) \/ LogoutRead(r, o) \/ LogoutVoid(r, o)
    \/ CommitLogin(r) \/ CommitRotation(r) \/ CommitLogout(r) \/ CommitFails(r)

Next == Admin \/ (\E t \in Token : Expire(t)) \/ (\E r \in Req : Request(r))

Spec == Init /\ [][Next]_vars

-------------------------------------------------------------------------------
(* What the tokens promise.                                                *)

Maybe(S) == S \cup {NONE}

\* The variables have their types.
TypeOK ==
    /\ status \in [User -> BOOLEAN] /\ era \in [User -> 0..MaxEra]
    /\ holder \in [Token -> Maybe(User)]
    /\ revoked \in [Token -> BOOLEAN] /\ expired \in [Token -> BOOLEAN]
    /\ parent \in [Token -> Maybe(Token)] /\ root \in [Token -> Maybe(Token)]
    /\ tokenEra \in [Token -> 0..MaxEra]
    /\ op \in [Req -> {"none", "login", "rotate", "logout"}]
    /\ pc \in [Req -> {"idle", "read", "done", "refused", "lost"}]
    /\ who \in [Req -> Maybe(User)] /\ old \in [Req -> Maybe(Token)]
    /\ new \in [Req -> Maybe(Token)] /\ seenEra \in [Req -> 0..MaxEra]
    /\ crossed \subseteq Token /\ late \subseteq Token \X (0..MaxEra)
    /\ missed \subseteq Req

\* A token that was rotated is dead and stays on record, whatever requests
\* overlap: its heir belongs to the same user and the same login, so a
\* replayed token is recognised and never opens another account.
RotatedIsRevoked ==
    \A t \in Token : parent[t] # NONE =>
        /\ revoked[parent[t]]
        /\ holder[parent[t]] = holder[t] /\ holder[t] # NONE
        /\ root[parent[t]] = root[t] /\ root[t] # NONE

\* A refresh token is good for one rotation (docs/api-contract.md: the old
\* refresh token is void once it has been rotated), but for rotations that
\* all read it before the first of them had committed.
OneHeir ==
    \A s, t \in Token :
        parent[s] # NONE /\ parent[s] = parent[t] => s = t \/ root[s] \in crossed

\* One login is one session: of all tokens that descend from it one is live,
\* whatever other requests overlap, unless two rotations of the same token
\* did.
OneLivePerLogin ==
    \A s, t \in Token :
        Live(s) /\ Live(t) /\ root[s] = root[t] => s = t \/ root[s] \in crossed

\* After reset_password nobody goes on with a session that was opened with
\* an earlier password (admin/service.py: reset_password logs the user out),
\* but for a login or a refresh that had read and not yet committed when the
\* password now in force was set.
ResetEndsSessions ==
    \A t \in Token : Live(t) =>
        \/ tokenEra[t] = era[holder[t]]
        \/ <<root[t], era[holder[t]]>> \in late

\* After a logout no token that descends from the same login is live, unless
\* the cookie held a token that has an heir, rotated by a request whose
\* answer did not arrive in time, or no row yet; or the session had been
\* doubled before.
LogoutEndsSession ==
    \A r \in Req \ missed : op[r] = "logout" /\ pc[r] = "done" =>
        \A t \in Token :
            Live(t) /\ root[t] = root[old[r]] =>
                \/ \E h \in Token : parent[h] = old[r]
                \/ root[t] \in crossed
===============================================================================
