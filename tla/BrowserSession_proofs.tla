------------------------- MODULE BrowserSession_proofs -------------------------
(***************************************************************************)
(* Proofs about RefreshTokens and BrowserSession, for any sets of tabs,    *)
(* requests, tokens and users, and however requests overlap.  Of the       *)
(* tokens: the types and rows (TokensInv), and that a session goes on or   *)
(* ends as it should (SessionInv).  Of the browser: the types, and when a  *)
(* tab is sent to the login page, with and without navigator.locks.        *)
(***************************************************************************)
EXTENDS BrowserSession, TLAPS

\* A row has a login it descends from, which has a row; no row, no descent.
RowsDescend ==
    \A t \in Token :
        /\ holder[t] # NONE => root[t] \in Token /\ holder[root[t]] # NONE
        /\ holder[t] = NONE => root[t] = NONE /\ parent[t] = NONE

\* What a request has read is still there when it commits, and the token it
\* drew belongs to nobody else.
ReadsStand ==
    \A r \in Req :
        /\ pc[r] = "read" =>
              /\ op[r] # "none"
              /\ op[r] \in {"login", "rotate"} =>
                    who[r] \in User /\ new[r] \in Token /\ holder[new[r]] = NONE
              /\ op[r] = "rotate" => old[r] \in Token /\ holder[old[r]] = who[r]
              /\ op[r] = "logout" => old[r] \in Token /\ holder[old[r]] # NONE
        /\ op[r] = "logout" /\ pc[r] = "done" /\ r \notin missed =>
              old[r] \in Token /\ holder[old[r]] # NONE

NewIsOwn == \A r, s \in Req : new[r] # NONE /\ new[r] = new[s] => r = s

\* The inductive invariant, whatever requests overlap.
TokensInv ==
    /\ TypeOK
    /\ RowsDescend
    /\ ReadsStand
    /\ NewIsOwn
    /\ RotatedIsRevoked

-------------------------------------------------------------------------------
LEMMA InitTokens == Init => TokensInv
<1> SUFFICES ASSUME Init PROVE TokensInv
  OBVIOUS
<1> USE TokensAssumption
<1>1. TypeOK
  BY DEF Init, TypeOK, Maybe
<1>2. RowsDescend /\ ReadsStand /\ NewIsOwn /\ RotatedIsRevoked
  BY DEF Init, RowsDescend, ReadsStand, NewIsOwn, RotatedIsRevoked
<1> QED
  BY <1>1, <1>2 DEF TokensInv

LEMMA LoginReadTokens ==
    ASSUME TokensInv, NEW r \in Req, NEW u \in User, NEW t \in Token,
           LoginRead(r, u, t)
    PROVE  TokensInv'
<1> USE TokensAssumption DEF TokensInv, userVars, rowVars, ghostVars, metVars, reqVars,
                             LoginRead, Fresh
<1>1. TypeOK'
  BY DEF TypeOK, Maybe
<1>2. RowsDescend' /\ RotatedIsRevoked'
  BY DEF TypeOK, RowsDescend, RotatedIsRevoked
<1>3. ReadsStand'
  BY DEF TypeOK, Maybe, ReadsStand
<1>4. NewIsOwn'
  BY DEF TypeOK, Maybe, NewIsOwn
<1> QED
  BY <1>1, <1>2, <1>3, <1>4

LEMMA RotateReadTokens ==
    ASSUME TokensInv, NEW r \in Req, NEW o \in Token, NEW t \in Token,
           RotateRead(r, o, t)
    PROVE  TokensInv'
<1> USE TokensAssumption DEF TokensInv, userVars, rowVars, ghostVars, metVars, reqVars,
                             RotateRead, Fresh
<1>0. holder[o] \in User
  BY DEF TypeOK, Maybe, Accepted, Live
<1>1. TypeOK'
  BY DEF TypeOK, Maybe
<1>2. RowsDescend' /\ RotatedIsRevoked'
  BY DEF TypeOK, RowsDescend, RotatedIsRevoked
<1>3. ReadsStand'
  BY <1>0 DEF TypeOK, Maybe, ReadsStand
<1>4. NewIsOwn'
  BY DEF TypeOK, Maybe, NewIsOwn
<1> QED
  BY <1>1, <1>2, <1>3, <1>4

LEMMA CommitLoginTokens ==
    ASSUME TokensInv, NEW r \in Req, CommitLogin(r)
    PROVE  TokensInv'
<1> USE TokensAssumption DEF TokensInv, userVars, rowVars, ghostVars, metVars, reqVars,
                             CommitLogin
<1>0. new[r] \in Token /\ who[r] \in User /\ holder[new[r]] = NONE
  BY DEF ReadsStand
<1>1. TypeOK'
  BY <1>0 DEF TypeOK, Maybe
<1>2. RowsDescend'
  BY <1>0 DEF TypeOK, Maybe, RowsDescend
<1>3. ReadsStand'
  BY <1>0 DEF TypeOK, Maybe, ReadsStand, NewIsOwn
<1>4. NewIsOwn'
  BY DEF NewIsOwn
<1>5. RotatedIsRevoked'
  <2> SUFFICES ASSUME NEW t \in Token, parent'[t] # NONE
               PROVE  /\ revoked'[parent'[t]]
                      /\ holder'[parent'[t]] = holder'[t] /\ holder'[t] # NONE
                      /\ root'[parent'[t]] = root'[t] /\ root'[t] # NONE
    BY DEF RotatedIsRevoked
  <2>1. parent'[t] = parent[t] /\ parent[t] \in Token
    BY DEF TypeOK, Maybe
  <2>2. t # new[r] /\ parent[t] # new[r]
    BY <2>1, <1>0 DEF RowsDescend, RotatedIsRevoked
  <2> QED
    BY <2>1, <2>2 DEF RotatedIsRevoked, TypeOK
<1> QED
  BY <1>1, <1>2, <1>3, <1>4, <1>5

LEMMA CommitRotationTokens ==
    ASSUME TokensInv, NEW r \in Req, CommitRotation(r)
    PROVE  TokensInv'
<1> USE TokensAssumption DEF TokensInv, userVars, rowVars, ghostVars, metVars, reqVars,
                             CommitRotation
<1>0. /\ new[r] \in Token /\ who[r] \in User /\ holder[new[r]] = NONE
      /\ old[r] \in Token /\ holder[old[r]] = who[r] /\ who[r] # NONE
      /\ old[r] # new[r] /\ root[old[r]] \in Token
  BY DEF ReadsStand, RowsDescend
<1>1. TypeOK'
  BY <1>0 DEF TypeOK, Maybe
<1>2. RowsDescend'
  BY <1>0 DEF TypeOK, Maybe, RowsDescend
<1>3. ReadsStand'
  BY <1>0 DEF TypeOK, Maybe, ReadsStand, NewIsOwn
<1>4. NewIsOwn'
  BY DEF NewIsOwn
<1>5. RotatedIsRevoked'
  <2> SUFFICES ASSUME NEW t \in Token, parent'[t] # NONE
               PROVE  /\ revoked'[parent'[t]]
                      /\ holder'[parent'[t]] = holder'[t] /\ holder'[t] # NONE
                      /\ root'[parent'[t]] = root'[t] /\ root'[t] # NONE
    BY DEF RotatedIsRevoked
  <2>1. CASE t = new[r]
    BY <2>1, <1>0 DEF TypeOK
  <2>2. CASE t # new[r]
    <3>1. parent'[t] = parent[t] /\ parent[t] \in Token
      BY <2>2 DEF TypeOK, Maybe
    <3>2. parent[t] # new[r]
      BY <3>1, <1>0 DEF RotatedIsRevoked
    <3> QED
      BY <2>2, <3>1, <3>2 DEF RotatedIsRevoked, TypeOK
  <2> QED
    BY <2>1, <2>2
<1> QED
  BY <1>1, <1>2, <1>3, <1>4, <1>5

\* The steps that change no token, one after another.
LEMMA OtherTokens ==
    ASSUME TokensInv, NEW r \in Req,
           \/ \E o \in Token : RotateRefused(r, o) \/ LogoutRead(r, o) \/ LogoutVoid(r, o)
           \/ CommitFails(r)
    PROVE  TokensInv'
<1> USE TokensAssumption DEF TokensInv, userVars, rowVars, ghostVars, metVars
<1>1. CASE \E o \in Token : RotateRefused(r, o)
  BY <1>1 DEF RotateRefused, TypeOK, Maybe, RowsDescend, ReadsStand,
              NewIsOwn, RotatedIsRevoked
<1>2. CASE \E o \in Token : LogoutRead(r, o)
  BY <1>2 DEF LogoutRead, TypeOK, Maybe, RowsDescend, ReadsStand,
              NewIsOwn, RotatedIsRevoked
<1>4. CASE \E o \in Token : LogoutVoid(r, o)
  BY <1>4 DEF LogoutVoid, TypeOK, Maybe, RowsDescend, ReadsStand,
              NewIsOwn, RotatedIsRevoked
<1>3. CASE CommitFails(r)
  BY <1>3 DEF CommitFails, TypeOK, Maybe, RowsDescend, ReadsStand,
              NewIsOwn, RotatedIsRevoked
<1> QED
  BY <1>1, <1>2, <1>3, <1>4

\* The steps that revoke or expire tokens, or change an account.
LEMMA EndingTokens ==
    ASSUME TokensInv,
           \/ \E r \in Req : CommitLogout(r)
           \/ \E t \in Token : Expire(t)
           \/ Admin
    PROVE  TokensInv'
<1> USE TokensAssumption DEF TokensInv, userVars, rowVars, ghostVars, metVars, reqVars
<1>1. ASSUME NEW r \in Req, CommitLogout(r) PROVE TokensInv'
  <2>0. old[r] \in Token /\ holder[old[r]] # NONE
    BY <1>1 DEF CommitLogout, ReadsStand
  <2>1. TypeOK' /\ NewIsOwn' /\ RowsDescend'
    BY <1>1, <2>0 DEF CommitLogout, TypeOK, Maybe, NewIsOwn, RowsDescend
  <2>2. ReadsStand'
    BY <1>1, <2>0 DEF CommitLogout, TypeOK, ReadsStand
  <2>3. RotatedIsRevoked'
    BY <1>1, <2>0 DEF CommitLogout, TypeOK, Maybe, RotatedIsRevoked
  <2> QED
    BY <2>1, <2>2, <2>3
<1>2. ASSUME NEW t \in Token, Expire(t) PROVE TokensInv'
  BY <1>2 DEF Expire, TypeOK, Maybe, RowsDescend, ReadsStand, NewIsOwn,
              RotatedIsRevoked
<1>3. ASSUME NEW u \in User, ResetPassword(u) PROVE TokensInv'
  <2>1. TypeOK'
    <3>1. ASSUME NEW x \in Underway PROVE LoginOf(x) \in Token
      BY <3>1 DEF Underway, LoginOf, TypeOK, Maybe, ReadsStand, RowsDescend
    <3>2. era[u] + 1 \in 0..MaxEra /\ era'[u] = era[u] + 1
      BY <1>3 DEF ResetPassword, TypeOK
    <3>3. late' \subseteq Token \X (0..MaxEra)
      BY <1>3, <3>1, <3>2 DEF ResetPassword, TypeOK
    <3> QED
      BY <1>3, <3>3 DEF ResetPassword, TypeOK, Maybe
  <2>2. RowsDescend' /\ ReadsStand' /\ NewIsOwn'
    BY <1>3 DEF ResetPassword, RowsDescend, ReadsStand, NewIsOwn
  <2>3. RotatedIsRevoked'
    BY <1>3 DEF ResetPassword, TypeOK, Maybe, RotatedIsRevoked
  <2> QED
    BY <2>1, <2>2, <2>3
<1>4. ASSUME NEW u \in User, SetStatus(u) PROVE TokensInv'
  BY <1>4 DEF SetStatus, TypeOK, Maybe, RowsDescend, ReadsStand, NewIsOwn,
              RotatedIsRevoked
<1> QED
  BY <1>1, <1>2, <1>3, <1>4 DEF Admin

LEMMA NextTokens == TokensInv /\ [Next]_vars => TokensInv'
<1> SUFFICES ASSUME TokensInv, [Next]_vars PROVE TokensInv'
  OBVIOUS
<1>1. CASE Admin \/ \E t \in Token : Expire(t)
  BY <1>1, EndingTokens
<1>2. ASSUME NEW r \in Req, Request(r) PROVE TokensInv'
  BY <1>2, LoginReadTokens, RotateReadTokens, CommitLoginTokens,
     CommitRotationTokens, OtherTokens, EndingTokens DEF Request
<1>3. CASE UNCHANGED vars
  BY <1>3 DEF vars, userVars, rowVars, ghostVars, metVars, reqVars, TokensInv, TypeOK,
     RowsDescend, ReadsStand, NewIsOwn, RotatedIsRevoked
<1> QED
  BY <1>1, <1>2, <1>3 DEF Next

\* What the server's rows and its open requests satisfy at every moment,
\* however logins, refreshes, logouts and resets overlap.
THEOREM TokensInvariance == Spec => []TokensInv
BY InitTokens, NextTokens, PTL DEF Spec

\* The variables keep their types.
THEOREM TokensTypes == Spec => []TypeOK
BY TokensInvariance, PTL DEF TokensInv

\* A token that was rotated stays revoked and on record, and its heir stays
\* with its user and its login, also when two requests rotate it at once.
THEOREM RotatedStaysRevoked == Spec => []RotatedIsRevoked
BY TokensInvariance, PTL DEF TokensInv

-------------------------------------------------------------------------------
(* Sessions.                                                               *)

InForce(t) == holder[t] # NONE /\ ~revoked[t]
Rotating   == {r \in Req : pc[r] = "read" /\ op[r] = "rotate"}
HasHeir(o) == \E h \in Token : parent[h] = o

\* A token in force, and one that a request is about to issue, goes back to
\* the password in force, but for the requests a reset has overtaken.
ErasMatch ==
    /\ \A t \in Token : InForce(t) =>
          \/ tokenEra[t] = era[holder[t]]
          \/ <<root[t], era[holder[t]]>> \in late
    /\ \A x \in Req : pc[x] = "read" /\ op[x] = "login" =>
          \/ seenEra[x] = era[who[x]]
          \/ <<new[x], era[who[x]]>> \in late
    /\ \A x \in Rotating :
          \/ tokenEra[old[x]] = era[who[x]]
          \/ <<root[old[x]], era[who[x]]>> \in late

\* A token that is being rotated has no heir yet.
NoHeirYet == \A x \in Rotating : HasHeir(old[x]) => root[old[x]] \in crossed

\* One token of a login is in force, and it is the one that is being rotated.
OneInForce ==
    \A s, t \in Token :
        InForce(s) /\ InForce(t) /\ root[s] = root[t] => s = t \/ root[s] \in crossed

RotatesTheOne ==
    \A x \in Rotating : root[old[x]] \notin crossed =>
        /\ \A t \in Token : InForce(t) /\ root[t] = root[old[x]] => t = old[x]
        /\ \A y \in Rotating : root[old[y]] = root[old[x]] => old[y] = old[x]

\* A revoked token without an heir is where its login ends: only a rotation
\* that had read it before can go on from there.
DeadEnd ==
    \A o \in Token :
        holder[o] # NONE /\ revoked[o] /\ ~HasHeir(o) /\ root[o] \notin crossed =>
            /\ \A t \in Token : InForce(t) => root[t] # root[o]
            /\ \A x \in Rotating : root[old[x]] = root[o] => old[x] = o

\* A logout that is done has revoked its token, or found it revoked.
LoggedOut ==
    \A r \in Req \ missed : op[r] = "logout" /\ pc[r] = "done" => revoked[old[r]]

Sessions ==
    /\ ErasMatch
    /\ OneHeir /\ NoHeirYet
    /\ OneInForce /\ RotatesTheOne
    /\ DeadEnd /\ LoggedOut

\* The inductive invariant of the sessions.
SessionInv == TokensInv /\ Sessions

LEMMA InitSessions == Init => SessionInv
<1> SUFFICES ASSUME Init PROVE SessionInv
  OBVIOUS
<1>1. TokensInv
  BY InitTokens
<1>2. Sessions
  BY DEF Init, Sessions, ErasMatch, OneHeir, NoHeirYet, OneInForce, RotatesTheOne,
         DeadEnd, LoggedOut, InForce, Rotating
<1> QED
  BY <1>1, <1>2 DEF SessionInv

\* Steps that leave the rows and what requests have met alone, start no
\* rotation and end no logout.
LEMMA QuietSessions ==
    ASSUME SessionInv,
           UNCHANGED <<era, holder, revoked, parent, root, tokenEra, crossed, late>>,
           Rotating' \subseteq Rotating,
           \A x \in Rotating' : old'[x] = old[x] /\ who'[x] = who[x],
           \A x \in Req : pc'[x] = "read" /\ op'[x] = "login" =>
              \/ /\ pc[x] = "read" /\ op[x] = "login"
                 /\ seenEra'[x] = seenEra[x] /\ who'[x] = who[x] /\ new'[x] = new[x]
              \/ seenEra'[x] = era[who'[x]],
           \A x \in Req \ missed' : op'[x] = "logout" /\ pc'[x] = "done" =>
              \/ x \notin missed /\ op[x] = "logout" /\ pc[x] = "done" /\ old'[x] = old[x]
              \/ revoked[old'[x]]
    PROVE  Sessions'
<1> USE DEF SessionInv, Sessions, InForce, HasHeir
<1>1. ErasMatch'
  BY DEF ErasMatch
<1>2. OneHeir' /\ OneInForce'
  BY DEF OneHeir, OneInForce
<1>3. NoHeirYet'
  BY DEF NoHeirYet
<1>4. RotatesTheOne'
  BY DEF RotatesTheOne
<1>5. DeadEnd'
  BY DEF DeadEnd
<1>6. LoggedOut'
  BY DEF LoggedOut
<1> QED
  BY <1>1, <1>2, <1>3, <1>4, <1>5, <1>6

LEMMA OtherSessions ==
    ASSUME SessionInv, NEW r \in Req,
           \/ \E u \in User, t \in Token : LoginRead(r, u, t)
           \/ \E o \in Token : RotateRefused(r, o) \/ LogoutRead(r, o) \/ LogoutVoid(r, o)
           \/ CommitFails(r)
    PROVE  Sessions'
<1> USE DEF SessionInv, TokensInv, TypeOK, userVars, rowVars, ghostVars, metVars, Rotating
<1>1. CASE \E u \in User, t \in Token : LoginRead(r, u, t)
  BY <1>1, QuietSessions DEF LoginRead
<1>2. CASE \E o \in Token : RotateRefused(r, o)
  BY <1>2, QuietSessions DEF RotateRefused
<1>3. CASE \E o \in Token : LogoutRead(r, o)
  BY <1>3, QuietSessions DEF LogoutRead
<1>4. CASE \E o \in Token : LogoutVoid(r, o)
  BY <1>4, QuietSessions DEF LogoutVoid
<1>5. CASE CommitFails(r)
  BY <1>5, QuietSessions DEF CommitFails
<1> QED
  BY <1>1, <1>2, <1>3, <1>4, <1>5

\* A rotation starts from a token in force.
LEMMA RotateReadSessions ==
    ASSUME SessionInv, NEW r \in Req, NEW o \in Token, NEW k \in Token,
           RotateRead(r, o, k)
    PROVE  Sessions'
<1> USE DEF SessionInv, TokensInv, userVars, rowVars, ghostVars, metVars
<1>1. /\ UNCHANGED <<era, holder, revoked, parent, root, tokenEra, crossed, late,
                     missed, seenEra>>
      /\ InForce(o) /\ ~HasHeir(o)
      /\ old'[r] = o /\ who'[r] = holder[o]
  <2>1. InForce(o)
    BY DEF RotateRead, Accepted, Live, InForce
  <2>2. ~HasHeir(o)
    BY <2>1, TokensAssumption DEF HasHeir, RotatedIsRevoked, InForce
  <2> QED
    BY <2>1, <2>2 DEF RotateRead, TypeOK
<1>2. /\ Rotating' = Rotating \cup {r} /\ r \notin Rotating
      /\ \A x \in Rotating : old'[x] = old[x] /\ who'[x] = who[x]
      /\ \A x \in Req : pc'[x] = "read" /\ op'[x] = "login" =>
            /\ pc[x] = "read" /\ op[x] = "login"
            /\ who'[x] = who[x] /\ new'[x] = new[x]
      /\ \A x \in Req : op'[x] = "logout" /\ pc'[x] = "done" =>
            op[x] = "logout" /\ pc[x] = "done" /\ old'[x] = old[x]
  BY DEF RotateRead, Rotating, TypeOK
<1>3. ErasMatch'
  BY <1>1, <1>2 DEF ErasMatch, Sessions, InForce
<1>4. OneHeir' /\ OneInForce' /\ LoggedOut'
  BY <1>1, <1>2 DEF OneHeir, OneInForce, LoggedOut, Sessions, InForce
<1>5. NoHeirYet'
  BY <1>1, <1>2 DEF NoHeirYet, HasHeir, Sessions
<1>6. \A t \in Token : InForce(t)' <=> InForce(t)
  BY <1>1 DEF InForce
<1>7. root[o] \notin crossed =>
        /\ \A t \in Token : InForce(t) /\ root[t] = root[o] => t = o
        /\ \A x \in Rotating : root[old[x]] = root[o] => old[x] = o
  BY <1>1 DEF Sessions, OneInForce, RotatesTheOne
<1>8. RotatesTheOne'
  BY <1>1, <1>2, <1>6, <1>7 DEF Sessions, RotatesTheOne
<1>9. \A t \in Token : HasHeir(t)' <=> HasHeir(t)
  BY <1>1 DEF HasHeir
<1>10. DeadEnd'
  BY <1>1, <1>2, <1>6, <1>9 DEF Sessions, DeadEnd
<1> QED
  BY <1>3, <1>4, <1>5, <1>8, <1>10 DEF Sessions

\* A login opens a session that no row belongs to yet.
LEMMA CommitLoginSessions ==
    ASSUME SessionInv, NEW r \in Req, CommitLogin(r)
    PROVE  Sessions'
<1> USE TokensAssumption DEF SessionInv, TokensInv, userVars, metVars
<1> DEFINE k == new[r]
<1>0. /\ k \in Token /\ who[r] \in User /\ holder[k] = NONE
      /\ pc[r] = "read" /\ op[r] = "login" /\ who[r] # NONE
  BY DEF CommitLogin, ReadsStand
<1>1. /\ UNCHANGED <<era, revoked, parent, crossed, late, missed, seenEra, who, new,
                     old, op>>
      /\ holder'[k] = who[r] /\ root'[k] = k /\ tokenEra'[k] = seenEra[r]
      /\ \A t \in Token : t # k => /\ holder'[t] = holder[t] /\ root'[t] = root[t]
                                   /\ tokenEra'[t] = tokenEra[t]
      /\ pc'[r] = "done" /\ \A x \in Req : x # r => pc'[x] = pc[x]
  BY <1>0 DEF CommitLogin, TypeOK
<1>2. /\ \A t \in Token : root[t] # k /\ parent[t] # k
      /\ \A x \in Rotating : old[x] # k /\ old[x] \in Token
  BY <1>0 DEF RowsDescend, RotatedIsRevoked, Rotating, ReadsStand
<1>3. Rotating' = Rotating
  BY <1>0, <1>1 DEF Rotating
<1>4. \A t \in Token : t # k => (InForce(t)' <=> InForce(t))
  BY <1>1 DEF InForce
<1>5. \A t \in Token : HasHeir(t)' <=> HasHeir(t)
  BY <1>1 DEF HasHeir
<1>6. ErasMatch'
  <2>1. \A t \in Token : InForce(t)' =>
           \/ tokenEra'[t] = era'[holder'[t]]
           \/ <<root'[t], era'[holder'[t]]>> \in late'
    BY <1>0, <1>1, <1>4 DEF Sessions, ErasMatch
  <2>2. \A x \in Rotating : tokenEra'[old[x]] = tokenEra[old[x]] /\ root'[old[x]] = root[old[x]]
    BY <1>1, <1>2
  <2> QED
    BY <1>1, <1>3, <2>1, <2>2 DEF Sessions, ErasMatch
<1>7. OneHeir'
  <2> SUFFICES ASSUME NEW s \in Token, NEW t \in Token, parent[s] # NONE,
                      parent[s] = parent[t], s # t
               PROVE  root'[s] \in crossed
    BY <1>1 DEF OneHeir
  <2>1. s # k
    BY <1>0 DEF RowsDescend
  <2> QED
    BY <1>1, <2>1 DEF Sessions, OneHeir
<1>8. NoHeirYet'
  BY <1>1, <1>2, <1>3, <1>5 DEF Sessions, NoHeirYet
<1>9. OneInForce'
  BY <1>1, <1>2, <1>4 DEF Sessions, OneInForce
<1>10. RotatesTheOne'
  <2>1. \A x \in Rotating : root'[old[x]] = root[old[x]] /\ root[old[x]] # k
    BY <1>1, <1>2
  <2>2. \A t \in Token, x \in Rotating :
           InForce(t)' /\ root'[t] = root[old[x]] => InForce(t) /\ root[t] = root[old[x]]
    BY <1>1, <1>4, <2>1
  <2> QED
    BY <1>1, <1>3, <2>1, <2>2 DEF Sessions, RotatesTheOne
<1>11. DeadEnd'
  <2> SUFFICES ASSUME NEW o \in Token, holder'[o] # NONE, revoked[o], ~HasHeir(o),
                      root'[o] \notin crossed
               PROVE  /\ \A t \in Token : InForce(t)' => root'[t] # root'[o]
                      /\ \A x \in Rotating : root'[old[x]] = root'[o] => old[x] = o
    BY <1>1, <1>3, <1>5 DEF DeadEnd
  <2>1. CASE o = k
    <3>1. \A t \in Token : root'[t] = k => t = k
      BY <1>1, <1>2
    <3>2. ~InForce(k)'
      BY <1>1, <2>1 DEF InForce
    <3>3. \A x \in Rotating : root'[old[x]] # k
      BY <1>2, <3>1
    <3> QED
      BY <1>1, <2>1, <3>1, <3>2, <3>3
  <2>2. CASE o # k
    <3>1. holder[o] # NONE /\ root'[o] = root[o]
      BY <1>1, <2>2
    <3>2. /\ \A t \in Token : InForce(t) => root[t] # root[o]
          /\ \A x \in Rotating : root[old[x]] = root[o] => old[x] = o
      BY <3>1 DEF Sessions, DeadEnd
    <3> QED
      BY <1>1, <1>2, <1>4, <3>1, <3>2
  <2> QED
    BY <2>1, <2>2
<1>12. LoggedOut'
  BY <1>0, <1>1 DEF Sessions, LoggedOut
<1> QED
  BY <1>6, <1>7, <1>8, <1>9, <1>10, <1>11, <1>12 DEF Sessions

\* A rotation replaces the one token of its login that is in force; a second
\* rotation of that token is what crossed is about.
LEMMA CommitRotationSessions ==
    ASSUME SessionInv, NEW r \in Req, CommitRotation(r)
    PROVE  Sessions'
<1> USE TokensAssumption DEF SessionInv, TokensInv, userVars
<1> DEFINE k == new[r]
           o == old[r]
<1>0. /\ k \in Token /\ who[r] \in User /\ holder[k] = NONE
      /\ o \in Token /\ holder[o] = who[r] /\ who[r] # NONE /\ o # k
      /\ root[o] \in Token /\ r \in Rotating
  BY DEF CommitRotation, ReadsStand, RowsDescend, Rotating
<1>1. /\ UNCHANGED <<era, late, missed, seenEra, who, new, old, op>>
      /\ holder'[k] = who[r] /\ root'[k] = root[o] /\ tokenEra'[k] = tokenEra[o]
      /\ parent'[k] = o /\ revoked'[o] /\ revoked'[k] = revoked[k]
      /\ \A t \in Token : t # k => /\ holder'[t] = holder[t] /\ root'[t] = root[t]
                                   /\ tokenEra'[t] = tokenEra[t]
                                   /\ parent'[t] = parent[t]
      /\ \A t \in Token : t # o => revoked'[t] = revoked[t]
      /\ pc'[r] = "done" /\ \A x \in Req : x # r => pc'[x] = pc[x]
  BY <1>0 DEF CommitRotation, TypeOK
<1>2. /\ \A t \in Token : root[t] # k /\ parent[t] # k
      /\ \A x \in Rotating : old[x] # k /\ old[x] \in Token
      /\ parent[k] = NONE
  BY <1>0 DEF RowsDescend, RotatedIsRevoked, Rotating, ReadsStand
<1>3. Rotating' = Rotating \ {r}
  BY <1>0, <1>1 DEF Rotating
<1>4. /\ crossed \subseteq crossed'
      /\ \A x \in Rotating \ {r} : old[x] = o => root[o] \in crossed'
      /\ \A t \in Token : t # root[o] /\ t \in crossed' => t \in crossed
  BY DEF CommitRotation, Underway, Rotating
<1>5. /\ \A t \in Token : t # k /\ t # o => (InForce(t)' <=> InForce(t))
      /\ ~InForce(o)'
  BY <1>0, <1>1 DEF InForce
<1>6. \A t \in Token : HasHeir(t)' <=> HasHeir(t) \/ t = o
  BY <1>0, <1>1, <1>2 DEF HasHeir
<1>7. \A x \in Rotating : /\ root'[old[x]] = root[old[x]]
                          /\ tokenEra'[old[x]] = tokenEra[old[x]]
  BY <1>1, <1>2
<1>8. ErasMatch'
  <2>1. \A t \in Token : InForce(t)' =>
           \/ tokenEra'[t] = era'[holder'[t]]
           \/ <<root'[t], era'[holder'[t]]>> \in late'
    BY <1>0, <1>1, <1>5 DEF Sessions, ErasMatch
  <2> QED
    BY <1>1, <1>3, <1>7, <2>1 DEF Sessions, ErasMatch
<1>9. OneHeir'
  <2> SUFFICES ASSUME NEW s \in Token, NEW t \in Token, parent'[s] # NONE,
                      parent'[s] = parent'[t], s # t
               PROVE  root'[s] \in crossed'
    BY DEF OneHeir
  <2>1. CASE s # k /\ t # k
    BY <1>1, <1>4, <2>1 DEF Sessions, OneHeir
  <2>2. CASE s = k \/ t = k
    <3>1. PICK x \in Token : x # k /\ parent[x] = o
      BY <1>1, <2>2
    <3>2. root[o] \in crossed
      BY <1>0, <3>1 DEF Sessions, NoHeirYet, HasHeir
    <3>3. root'[s] = root[o]
      BY <1>0, <1>1, <2>2 DEF RotatedIsRevoked
    <3> QED
      BY <1>4, <3>2, <3>3
  <2> QED
    BY <2>1, <2>2
<1>10. NoHeirYet'
  <2> SUFFICES ASSUME NEW x \in Rotating \ {r}, HasHeir(old[x])'
               PROVE  root[old[x]] \in crossed'
    BY <1>1, <1>3, <1>7 DEF NoHeirYet
  <2>1. CASE HasHeir(old[x])
    BY <1>4, <2>1 DEF Sessions, NoHeirYet
  <2>2. CASE old[x] = o
    BY <1>4, <2>2
  <2>3. old[x] \in Token
    BY <1>2
  <2> QED
    BY <1>1, <1>6, <2>1, <2>2, <2>3
<1>11. root[o] \notin crossed' =>
         /\ \A t \in Token : InForce(t)' /\ root'[t] = root[o] => t = k
         /\ \A x \in Rotating \ {r} : root[old[x]] # root[o]
  <2> SUFFICES ASSUME root[o] \notin crossed'
               PROVE  /\ \A t \in Token : InForce(t)' /\ root'[t] = root[o] => t = k
                      /\ \A x \in Rotating \ {r} : root[old[x]] # root[o]
    OBVIOUS
  <2>1. /\ \A t \in Token : InForce(t) /\ root[t] = root[o] => t = o
        /\ \A x \in Rotating : root[old[x]] = root[o] => old[x] = o
    BY <1>0, <1>4 DEF Sessions, RotatesTheOne
  <2> QED
    BY <1>1, <1>4, <1>5, <2>1
<1>12. OneInForce'
  <2> SUFFICES ASSUME NEW s \in Token, NEW t \in Token, InForce(s)', InForce(t)',
                      root'[s] = root'[t], root'[s] \notin crossed'
               PROVE  s = t
    BY DEF OneInForce
  <2>1. CASE root'[s] = root[o]
    BY <1>11, <2>1
  <2>2. CASE root'[s] # root[o]
    BY <1>1, <1>4, <1>5, <2>2 DEF Sessions, OneInForce
  <2> QED
    BY <2>1, <2>2
<1>13. RotatesTheOne'
  <2> SUFFICES ASSUME NEW x \in Rotating \ {r}, root[old[x]] \notin crossed'
               PROVE  /\ \A t \in Token : InForce(t)' /\ root'[t] = root[old[x]] => t = old[x]
                      /\ \A y \in Rotating \ {r} : root[old[y]] = root[old[x]] => old[y] = old[x]
    BY <1>1, <1>3, <1>7 DEF RotatesTheOne
  <2>1. root[old[x]] # root[o]
    BY <1>11
  <2>2. /\ \A t \in Token : InForce(t) /\ root[t] = root[old[x]] => t = old[x]
        /\ \A y \in Rotating : root[old[y]] = root[old[x]] => old[y] = old[x]
    BY <1>4 DEF Sessions, RotatesTheOne
  <2> QED
    BY <1>1, <1>5, <2>1, <2>2
<1>14. DeadEnd'
  <2> SUFFICES ASSUME NEW d \in Token, holder'[d] # NONE, revoked'[d], ~HasHeir(d)',
                      root'[d] \notin crossed'
               PROVE  /\ \A t \in Token : InForce(t)' => root'[t] # root'[d]
                      /\ \A x \in Rotating \ {r} : root[old[x]] = root'[d] => old[x] = d
    BY <1>1, <1>3, <1>7 DEF DeadEnd
  <2>1. d # o /\ ~HasHeir(d) /\ revoked[d]
    BY <1>1, <1>6
  <2>2. CASE d = k
    <3>1. \A t \in Token : InForce(t)' /\ root'[t] = root[o] => FALSE
      <4>1. ~InForce(k)'
        BY <1>1, <2>1, <2>2 DEF InForce
      <4> QED
        BY <1>1, <1>11, <2>2, <4>1
    <3> QED
      BY <1>1, <1>11, <2>2, <3>1
  <2>3. CASE d # k
    <3>1. holder[d] # NONE /\ root'[d] = root[d] /\ root[d] \notin crossed
      BY <1>1, <1>4, <2>3
    <3>2. /\ \A t \in Token : InForce(t) => root[t] # root[d]
          /\ \A x \in Rotating : root[old[x]] = root[d] => old[x] = d
      BY <2>1, <3>1 DEF Sessions, DeadEnd
    <3>3. root[d] # root[o]
      BY <1>0, <2>1, <3>2
    <3> QED
      BY <1>1, <1>5, <3>1, <3>2, <3>3
  <2> QED
    BY <2>2, <2>3
<1>15. LoggedOut'
  BY <1>0, <1>1 DEF Sessions, LoggedOut, ReadsStand
<1> QED
  BY <1>8, <1>9, <1>10, <1>12, <1>13, <1>14, <1>15 DEF Sessions

\* Tokens go out of force: those of a logout or of a reset.
LEMMA RevokedSessions ==
    ASSUME SessionInv, UNCHANGED <<holder, parent, root, tokenEra, crossed>>,
           Rotating' = Rotating, UNCHANGED <<old, who>>,
           revoked' \in [Token -> BOOLEAN],
           \A t \in Token : revoked[t] => revoked'[t]
    PROVE  (OneHeir /\ NoHeirYet /\ OneInForce /\ RotatesTheOne /\ DeadEnd)'
<1>1. \A t \in Token : InForce(t)' => InForce(t)
  BY DEF InForce
<1>2. OneHeir' /\ NoHeirYet'
  BY DEF SessionInv, Sessions, OneHeir, NoHeirYet, HasHeir
<1>3. OneInForce' /\ RotatesTheOne'
  BY <1>1 DEF SessionInv, Sessions, OneInForce, RotatesTheOne
<1>4. DeadEnd'
  <2> SUFFICES ASSUME NEW o \in Token, holder[o] # NONE, revoked'[o], ~HasHeir(o),
                      root[o] \notin crossed
               PROVE  /\ \A t \in Token : InForce(t)' => root[t] # root[o]
                      /\ \A x \in Rotating : root[old[x]] = root[o] => old[x] = o
    BY DEF DeadEnd, HasHeir
  <2>1. CASE revoked[o]
    BY <1>1, <2>1 DEF SessionInv, Sessions, DeadEnd
  <2>2. CASE ~revoked[o]
    <3>1. InForce(o) /\ ~InForce(o)'
      BY <2>2 DEF InForce
    <3>2. \A t \in Token : InForce(t) /\ root[t] = root[o] => t = o
      BY <3>1 DEF SessionInv, Sessions, OneInForce
    <3>3. \A x \in Rotating : root[old[x]] = root[o] => o = old[x]
      BY <3>1 DEF SessionInv, Sessions, RotatesTheOne
    <3> QED
      BY <1>1, <3>1, <3>2, <3>3
  <2> QED
    BY <2>1, <2>2
<1> QED
  BY <1>2, <1>3, <1>4

LEMMA CommitLogoutSessions ==
    ASSUME SessionInv, NEW r \in Req, CommitLogout(r)
    PROVE  Sessions'
<1> USE TokensAssumption DEF SessionInv, TokensInv, userVars, ghostVars, metVars
<1>0. /\ old[r] \in Token /\ pc[r] = "read" /\ op[r] = "logout"
      /\ UNCHANGED <<era, holder, parent, root, tokenEra, crossed, late, missed,
                     seenEra, old, who, new, op>>
      /\ revoked' = [revoked EXCEPT ![old[r]] = TRUE]
      /\ pc'[r] = "done" /\ \A x \in Req : x # r => pc'[x] = pc[x]
  BY DEF CommitLogout, ReadsStand, TypeOK
<1>1. /\ revoked' \in [Token -> BOOLEAN] /\ revoked'[old[r]]
      /\ \A t \in Token : revoked[t] => revoked'[t]
  BY <1>0 DEF TypeOK
<1>2. Rotating' = Rotating
  BY <1>0 DEF Rotating
<1>3. (OneHeir /\ NoHeirYet /\ OneInForce /\ RotatesTheOne /\ DeadEnd)'
  BY <1>0, <1>1, <1>2, RevokedSessions
<1>4. ErasMatch'
  BY <1>0, <1>1, <1>2 DEF Sessions, ErasMatch, InForce
<1>5. LoggedOut'
  BY <1>0, <1>1 DEF Sessions, LoggedOut, ReadsStand
<1> QED
  BY <1>3, <1>4, <1>5 DEF Sessions

\* A reset takes the rows it finds; a request it cannot see is noted in late.
LEMMA ResetSessions ==
    ASSUME SessionInv, NEW u \in User, ResetPassword(u)
    PROVE  Sessions'
<1> USE TokensAssumption DEF SessionInv, TokensInv, reqVars, ghostVars
<1>0. /\ UNCHANGED <<holder, parent, root, tokenEra, crossed, missed, seenEra, old,
                     who, new, op, pc>>
      /\ \A t \in Token : revoked'[t] = (revoked[t] \/ holder[t] = u)
      /\ \A v \in User : v # u => era'[v] = era[v]
      /\ late \subseteq late'
      /\ \A x \in Underway : who[x] = u => <<LoginOf(x), era'[u]>> \in late'
  BY DEF ResetPassword, TypeOK
<1>1. /\ revoked' \in [Token -> BOOLEAN]
      /\ \A t \in Token : revoked[t] => revoked'[t]
  BY <1>0 DEF ResetPassword, TypeOK
<1>2. Rotating' = Rotating
  BY <1>0 DEF Rotating
<1>3. (OneHeir /\ NoHeirYet /\ OneInForce /\ RotatesTheOne /\ DeadEnd)'
  BY <1>0, <1>1, <1>2, RevokedSessions
<1>4. LoggedOut'
  BY <1>0, <1>1 DEF Sessions, LoggedOut, ReadsStand
<1>5. \A t \in Token : InForce(t)' => InForce(t) /\ holder[t] # u /\ holder[t] \in User
  BY <1>0 DEF InForce, TypeOK, Maybe
<1>6. ErasMatch'
  <2>1. \A t \in Token : InForce(t)' =>
           \/ tokenEra'[t] = era'[holder'[t]]
           \/ <<root'[t], era'[holder'[t]]>> \in late'
    BY <1>0, <1>5 DEF Sessions, ErasMatch
  <2>2. ASSUME NEW x \in Req, pc[x] = "read", op[x] = "login"
        PROVE  \/ seenEra[x] = era'[who[x]]
               \/ <<new[x], era'[who[x]]>> \in late'
    <3>1. who[x] \in User
      BY <2>2 DEF ReadsStand
    <3>2. CASE who[x] = u
      BY <1>0, <2>2, <3>2 DEF Underway, LoginOf
    <3>3. CASE who[x] # u
      BY <1>0, <2>2, <3>1, <3>3 DEF Sessions, ErasMatch
    <3> QED
      BY <3>2, <3>3
  <2>3. ASSUME NEW x \in Rotating
        PROVE  \/ tokenEra[old[x]] = era'[who[x]]
               \/ <<root[old[x]], era'[who[x]]>> \in late'
    <3>1. who[x] \in User
      BY DEF ReadsStand, Rotating
    <3>2. CASE who[x] = u
      BY <1>0, <3>2 DEF Underway, LoginOf, Rotating
    <3>3. CASE who[x] # u
      BY <1>0, <3>1, <3>3 DEF Sessions, ErasMatch
    <3> QED
      BY <3>2, <3>3
  <2> QED
    BY <1>0, <1>2, <2>1, <2>2, <2>3 DEF ErasMatch
<1> QED
  BY <1>3, <1>4, <1>6 DEF Sessions

LEMMA NextSessions == SessionInv /\ [Next]_vars => SessionInv'
<1> SUFFICES ASSUME SessionInv, [Next]_vars PROVE SessionInv'
  OBVIOUS
<1>0. TokensInv'
  BY NextTokens DEF SessionInv
<1>1. ASSUME NEW t \in Token, Expire(t) PROVE Sessions'
  BY <1>1, QuietSessions DEF Expire, userVars, ghostVars, metVars, reqVars, Rotating
<1>2. ASSUME NEW u \in User, SetStatus(u) PROVE Sessions'
  BY <1>2, QuietSessions DEF SetStatus, rowVars, ghostVars, metVars, reqVars, Rotating
<1>3. ASSUME Admin \/ \E t \in Token : Expire(t) PROVE Sessions'
  BY <1>1, <1>2, <1>3, ResetSessions DEF Admin
<1>4. ASSUME NEW r \in Req, Request(r) PROVE Sessions'
  BY <1>4, OtherSessions, RotateReadSessions, CommitLoginSessions,
     CommitRotationSessions, CommitLogoutSessions DEF Request
<1>5. ASSUME UNCHANGED vars PROVE Sessions'
  BY <1>5, QuietSessions DEF vars, userVars, rowVars, ghostVars, metVars, reqVars,
     Rotating
<1> QED
  BY <1>0, <1>3, <1>4, <1>5 DEF Next, SessionInv

\* What the sessions satisfy at every moment, however logins, refreshes,
\* logouts and resets overlap.
THEOREM SessionsInvariance == Spec => []SessionInv
BY InitSessions, NextSessions, PTL DEF Spec

\* A token is rotated once, but for rotations that had all read it before the
\* first of them committed (OneHeir: UPDATE does not look at revoked_at again).
THEOREM RotatedOnce == Spec => []OneHeir
<1>1. SessionInv => OneHeir
  BY DEF SessionInv, Sessions
<1> QED
  BY SessionsInvariance, <1>1, PTL

\* One token of a login is live, whatever overlaps, unless two rotations of
\* the same token did (OneLivePerLogin).
THEOREM OneSession == Spec => []OneLivePerLogin
<1>1. SessionInv => OneLivePerLogin
  BY DEF SessionInv, Sessions, OneInForce, OneLivePerLogin, InForce, Live
<1> QED
  BY SessionsInvariance, <1>1, PTL

\* A password reset ends every session that was opened before, but for those
\* of which a request was between its reads and its commit just then
\* (ResetEndsSessions).
THEOREM ResetEnds == Spec => []ResetEndsSessions
<1>1. SessionInv => ResetEndsSessions
  BY DEF SessionInv, Sessions, ErasMatch, ResetEndsSessions, InForce, Live
<1> QED
  BY SessionsInvariance, <1>1, PTL

\* A logout ends its session, unless its token was rotated before or meanwhile
\* or its row had not been committed (LogoutEndsSession).
THEOREM LogoutEnds == Spec => []LogoutEndsSession
<1>1. SessionInv => LogoutEndsSession
  <2> SUFFICES ASSUME SessionInv, NEW r \in Req \ missed, op[r] = "logout",
                      pc[r] = "done", NEW t \in Token, Live(t),
                      root[t] = root[old[r]], ~HasHeir(old[r])
               PROVE  root[t] \in crossed
    BY DEF LogoutEndsSession, HasHeir
  <2>1. old[r] \in Token /\ holder[old[r]] # NONE /\ revoked[old[r]]
    BY DEF SessionInv, TokensInv, ReadsStand, Sessions, LoggedOut
  <2>2. InForce(t)
    BY DEF Live, InForce
  <2> QED
    BY <2>1, <2>2 DEF SessionInv, Sessions, DeadEnd
<1> QED
  BY SessionsInvariance, <1>1, PTL

-------------------------------------------------------------------------------
\* A request of a browser is a refresh; once served it has a token to show.
OnlyRefreshes ==
    \A r \in Req :
        /\ pc[r] = "idle" => new[r] = NONE
        /\ Unsent(r) => pc[r] = "idle"
        /\ pc[r] \in {"read", "done", "lost"} =>
              op[r] = "rotate" /\ new[r] \in Token

\* A tab that refreshes waits for a request that was sent.
TabsWait ==
    \A t \in Tab :
        /\ tab[t] = "refreshing" => reqOf[t] \in Req /\ ~Unsent(reqOf[t])
        /\ tab[t] # "refreshing" => reqOf[t] = NONE

\* What holds with and without locks.
TabsInv == BrowserTypeOK /\ TokensInv /\ OnlyRefreshes /\ TabsWait

-------------------------------------------------------------------------------
LEMMA InitTabs == BrowserInit => TabsInv
<1> SUFFICES ASSUME BrowserInit PROVE TabsInv
  OBVIOUS
<1> USE TokensAssumption
<1>1. PICK u \in User, k \in Token :
        /\ status = [x \in User |-> TRUE] /\ era = [x \in User |-> 0]
        /\ holder = [t \in Token |-> IF t = k THEN u ELSE NONE]
        /\ revoked = [t \in Token |-> FALSE]
        /\ expired = [t \in Token |-> FALSE]
        /\ parent = [t \in Token |-> NONE]
        /\ root = [t \in Token |-> IF t = k THEN k ELSE NONE]
        /\ tokenEra = [t \in Token |-> 0]
        /\ crossed = {} /\ late = {} /\ missed = {}
        /\ op = [r \in Req |-> "none"] /\ pc = [r \in Req |-> "idle"]
        /\ who = [r \in Req |-> NONE] /\ old = [r \in Req |-> NONE]
        /\ new = [r \in Req |-> NONE] /\ seenEra = [r \in Req |-> 0]
        /\ jarAccess = TRUE /\ jarRefresh = k
        /\ tab = [t \in Tab |-> "idle"] /\ reqOf = [t \in Tab |-> NONE]
        /\ sent = [r \in Req |-> NONE] /\ cutOff = {} /\ locks \in BOOLEAN
  BY DEF BrowserInit
<1>2. TypeOK
  BY <1>1 DEF TypeOK, Maybe
<1>3. RowsDescend /\ ReadsStand /\ NewIsOwn /\ RotatedIsRevoked
  BY <1>1 DEF RowsDescend, ReadsStand, NewIsOwn, RotatedIsRevoked
<1>4. BrowserTypeOK
  BY <1>1, <1>2 DEF BrowserTypeOK, TabPhase, Maybe
<1>5. OnlyRefreshes /\ TabsWait
  BY <1>1 DEF OnlyRefreshes, TabsWait, Unsent
<1> QED
  BY <1>2, <1>3, <1>4, <1>5 DEF TabsInv, TokensInv

\* A step of the browser is one of the tokens, or leaves them alone.
LEMMA BrowserTokens ==
    TabsInv /\ [BrowserNext]_allVars => [Next]_vars
<1> SUFFICES ASSUME TabsInv, [BrowserNext]_allVars PROVE [Next]_vars
  OBVIOUS
<1>1. CASE AccessExpires \/ (\E t \in Tab : TabStep(t)) \/ UNCHANGED allVars
  BY <1>1 DEF AccessExpires, TabStep, Denied, SendRefresh, Refreshed, Refused,
              NetworkFails, Probed, ProbeFails, allVars
<1>2. ASSUME NEW r \in Req, ~Unsent(r), Serve(r) \/ Commit(r) PROVE Next
  <2>1. sent[r] \in Token
    BY <1>2 DEF TabsInv, BrowserTypeOK, Unsent, Maybe
  <2> QED
    BY <1>2, <2>1 DEF Serve, Commit, Next, Request
<1>3. ASSUME NEW u \in User, Reset(u) PROVE Next
  BY <1>3 DEF Reset, Next, Admin
<1> QED
  BY <1>1, <1>2, <1>3 DEF BrowserNext

LEMMA TabStepTabs ==
    ASSUME TabsInv, NEW t \in Tab, TabStep(t)
    PROVE  BrowserTypeOK' /\ OnlyRefreshes' /\ TabsWait'
<1> USE TokensAssumption DEF TabsInv, jarVars
<1>0. UNCHANGED vars /\ TypeOK'
  BY DEF TabStep, Denied, SendRefresh, Refreshed, Refused, NetworkFails,
         Probed, ProbeFails, BrowserTypeOK, TypeOK, vars, userVars, rowVars,
         ghostVars, metVars, reqVars
<1> USE <1>0 DEF vars, reqVars
<1>1. CASE Denied(t) \/ Probed(t) \/ ProbeFails(t) \/ Refused(t) \/ NetworkFails(t)
  BY <1>1 DEF Denied, Probed, ProbeFails, Refused, NetworkFails, BrowserTypeOK, TabPhase,
              Maybe, OnlyRefreshes, TabsWait, Unsent
<1>2. ASSUME NEW r \in Req, SendRefresh(t, r)
      PROVE  BrowserTypeOK' /\ OnlyRefreshes' /\ TabsWait'
  <2>1. BrowserTypeOK'
    BY <1>2 DEF SendRefresh, BrowserTypeOK, TabPhase, Maybe
  <2>2. OnlyRefreshes' /\ TabsWait'
    BY <1>2 DEF SendRefresh, BrowserTypeOK, Maybe, OnlyRefreshes, TabsWait,
                Unsent
  <2> QED
    BY <2>1, <2>2
<1>3. CASE Refreshed(t)
  <2>1. new[reqOf[t]] \in Token
    BY <1>3 DEF Refreshed, OnlyRefreshes, TabsWait
  <2> QED
    BY <1>3, <2>1 DEF Refreshed, BrowserTypeOK, TabPhase, Maybe, OnlyRefreshes,
                      TabsWait, Unsent
<1> QED
  BY <1>1, <1>2, <1>3 DEF TabStep

LEMMA ServerTabs ==
    ASSUME TabsInv, TypeOK',
           \/ \E r \in Req : ~Unsent(r) /\ (Serve(r) \/ Commit(r))
           \/ \E u \in User : Reset(u)
           \/ AccessExpires
           \/ UNCHANGED allVars
    PROVE  BrowserTypeOK' /\ OnlyRefreshes' /\ TabsWait'
<1> USE TokensAssumption DEF TabsInv
<1>1. BrowserTypeOK' /\ TabsWait'
  BY DEF Serve, Commit, Reset, AccessExpires, BrowserTypeOK, TabsWait, Unsent,
         allVars, jarVars, tabVars
<1>2. OnlyRefreshes'
  <2>1. ASSUME NEW r \in Req, ~Unsent(r), Serve(r) PROVE OnlyRefreshes'
    <3>1. ASSUME NEW k \in Token, RotateRead(r, sent[r], k)
          PROVE  OnlyRefreshes'
      BY <2>1, <3>1 DEF Serve, tabVars, RotateRead, BrowserTypeOK, TypeOK,
                        OnlyRefreshes, Unsent
    <3>2. CASE RotateRefused(r, sent[r])
      BY <2>1, <3>2 DEF Serve, tabVars, RotateRefused, BrowserTypeOK, TypeOK,
                        OnlyRefreshes, Unsent
    <3> QED
      BY <2>1, <3>1, <3>2 DEF Serve
  <2>2. ASSUME NEW r \in Req, ~Unsent(r), Commit(r) PROVE OnlyRefreshes'
    BY <2>2 DEF Commit, tabVars, CommitRotation, CommitFails, BrowserTypeOK,
                TypeOK, OnlyRefreshes, Unsent
  <2>3. CASE (\E u \in User : Reset(u)) \/ AccessExpires \/ UNCHANGED allVars
    BY <2>3 DEF Reset, ResetPassword, AccessExpires, allVars, vars, tabVars,
                reqVars, OnlyRefreshes, Unsent
  <2> QED
    BY <2>1, <2>2, <2>3
<1> QED
  BY <1>1, <1>2

LEMMA NextTabs == TabsInv /\ [BrowserNext]_allVars => TabsInv'
<1> SUFFICES ASSUME TabsInv, [BrowserNext]_allVars PROVE TabsInv'
  OBVIOUS
<1>1. TokensInv' /\ TypeOK'
  BY BrowserTokens, NextTokens DEF TabsInv, TokensInv
<1>2. BrowserTypeOK' /\ OnlyRefreshes' /\ TabsWait'
  BY <1>1, TabStepTabs, ServerTabs DEF BrowserNext
<1> QED
  BY <1>1, <1>2 DEF TabsInv

\* The variables keep their types, with and without locks (http.ts).
THEOREM BrowserTypes == BrowserSpec => []BrowserTypeOK
<1>1. TabsInv => BrowserTypeOK
  BY DEF TabsInv
<1> QED
  BY <1>1, InitTabs, NextTabs, PTL DEF BrowserSpec

-------------------------------------------------------------------------------
(* Who is sent to the login page.                                          *)

\* A refresh carries the token the jar holds, or the jar has been renewed
\* since: then the access token is good.
JarSent ==
    \A t \in Tab : tab[t] = "refreshing" =>
        sent[reqOf[t]] = jarRefresh \/ jarAccess

\* The token in the jar has been drawn; while its row waits for the commit
\* the access token that came with it is good.
JarKnown ==
    /\ holder[jarRefresh] # NONE \/ \E r \in Req : new[r] = jarRefresh
    /\ \A r \in Req : pc[r] = "read" /\ new[r] = jarRefresh => jarAccess

\* A refresh is refused, and a tab probes, when the access token is good or
\* the session is dead.
RefusedIsDead ==
    \A t \in Tab :
        tab[t] = "refreshing" /\ pc[reqOf[t]] = "refused" =>
            jarAccess \/ ~Accepted(jarRefresh)

ProbesAreFair ==
    \A t \in Tab : tab[t] = "probing" => jarAccess \/ ~Accepted(jarRefresh)

\* What holds with and without locks.
FairInv == TabsInv /\ JarSent /\ JarKnown /\ RefusedIsDead /\ ProbesAreFair

\* With locks there is one refresh at a time, and no rotation is under way
\* while a tab probes.
OneRefresh ==
    \A s, t \in Tab : tab[s] = "refreshing" /\ tab[t] = "refreshing" => s = t

ProbesAlone == \A t \in Tab : tab[t] = "probing" => jarAccess \/ ~CarriesOn

LockInv == locks => OneRefresh /\ ProbesAlone

LEMMA InitFair == BrowserInit => FairInv /\ LockInv
<1> SUFFICES ASSUME BrowserInit PROVE FairInv /\ LockInv
  OBVIOUS
<1> USE TokensAssumption
<1>1. TabsInv
  BY InitTabs
<1>2. /\ \A t \in Tab : tab[t] = "idle"
      /\ \A r \in Req : pc[r] = "idle"
      /\ holder[jarRefresh] # NONE
  BY DEF BrowserInit
<1> QED
  BY <1>1, <1>2 DEF FairInv, LockInv, JarSent, JarKnown, RefusedIsDead,
     ProbesAreFair, OneRefresh, ProbesAlone

LEMMA TabStepFair ==
    ASSUME FairInv, LockInv, NEW t \in Tab, TabStep(t)
    PROVE  (JarSent /\ JarKnown /\ RefusedIsDead /\ ProbesAreFair)' /\ LockInv'
<1> USE TokensAssumption DEF FairInv, jarVars
<1>0. /\ UNCHANGED <<status, holder, revoked, expired, pc, new, locks>>
      /\ tab \in [Tab -> TabPhase] /\ reqOf \in [Tab -> Maybe(Req)]
      /\ sent \in [Req -> Maybe(Token)] /\ jarRefresh \in Token
  BY DEF TabStep, Denied, SendRefresh, Refreshed, Refused, NetworkFails, Probed,
         ProbeFails, vars, userVars, rowVars, reqVars, TabsInv, BrowserTypeOK
<1>1. CASE Denied(t) \/ Probed(t) \/ ProbeFails(t) \/ NetworkFails(t)
  <2>1. /\ UNCHANGED <<jarAccess, jarRefresh, sent>>
        /\ \A x \in Tab : tab'[x] = "refreshing" =>
              tab[x] = "refreshing" /\ reqOf'[x] = reqOf[x]
        /\ \A x \in Tab : tab'[x] = "probing" => tab[x] = "probing"
    BY <1>0, <1>1 DEF Denied, Probed, ProbeFails, NetworkFails
  <2>2. (Accepted(jarRefresh)' <=> Accepted(jarRefresh)) /\ (CarriesOn' => CarriesOn)
    BY <1>0, <2>1 DEF CarriesOn, Accepted, Live
  <2>3. (JarSent /\ JarKnown /\ RefusedIsDead /\ ProbesAreFair)'
    BY <1>0, <2>1, <2>2 DEF JarSent, JarKnown, RefusedIsDead, ProbesAreFair
  <2>4. LockInv'
    BY <1>0, <2>1, <2>2 DEF LockInv, OneRefresh, ProbesAlone
  <2> QED
    BY <2>3, <2>4
<1>2. ASSUME NEW r \in Req, SendRefresh(t, r)
      PROVE  (JarSent /\ JarKnown /\ RefusedIsDead /\ ProbesAreFair)' /\ LockInv'
  <2>1. /\ UNCHANGED <<jarAccess, jarRefresh>>
        /\ pc[r] = "idle" /\ sent[r] = NONE /\ sent'[r] = jarRefresh
        /\ \A x \in Req : x # r => sent'[x] = sent[x]
        /\ tab'[t] = "refreshing" /\ reqOf'[t] = r
        /\ locks => \A x \in Tab : tab[x] # "refreshing"
        /\ \A x \in Tab : x # t => tab'[x] = tab[x] /\ reqOf'[x] = reqOf[x]
    BY <1>0, <1>2 DEF SendRefresh, TabsInv, OnlyRefreshes, Unsent
  <2>2. \A x \in Tab : tab[x] = "refreshing" => reqOf[x] \in Req /\ sent[reqOf[x]] # NONE
    BY DEF TabsInv, TabsWait, Unsent
  <2>3. Accepted(jarRefresh)' <=> Accepted(jarRefresh)
    BY <1>0, <2>1 DEF Accepted, Live
  <2>4. (JarSent /\ JarKnown /\ RefusedIsDead /\ ProbesAreFair)'
    <3>1. JarSent'
      BY <1>0, <2>1, <2>2 DEF JarSent
    <3>2. JarKnown' /\ RefusedIsDead' /\ ProbesAreFair'
      BY <1>0, <2>1, <2>2, <2>3 DEF JarKnown, RefusedIsDead, ProbesAreFair
    <3> QED
      BY <3>1, <3>2
  <2>5. ASSUME locks PROVE (OneRefresh /\ ProbesAlone)'
    <3>1. CarriesOn' => CarriesOn
      BY <1>0, <2>1, <2>3, <2>5 DEF CarriesOn
    <3> QED
      BY <1>0, <2>1, <2>5, <3>1 DEF LockInv, OneRefresh, ProbesAlone
  <2> QED
    BY <1>0, <2>4, <2>5 DEF LockInv
<1>3. CASE Refreshed(t)
  <2>1. /\ jarAccess' = TRUE /\ jarRefresh' = new[reqOf[t]] /\ reqOf[t] \in Req
        /\ \A x \in Tab : x # t => tab'[x] = tab[x] /\ reqOf'[x] = reqOf[x]
        /\ tab[t] = "refreshing" /\ tab'[t] = "idle"
    BY <1>0, <1>3 DEF Refreshed, TabsInv, TabsWait
  <2>2. (JarSent /\ JarKnown /\ RefusedIsDead /\ ProbesAreFair)'
    BY <1>0, <2>1 DEF JarSent, JarKnown, RefusedIsDead, ProbesAreFair
  <2> QED
    BY <1>0, <2>1, <2>2 DEF LockInv, OneRefresh, ProbesAlone
<1>4. CASE Refused(t)
  <2>1. /\ UNCHANGED <<jarAccess, jarRefresh, sent>>
        /\ jarAccess \/ ~Accepted(jarRefresh)
        /\ \A x \in Tab : x # t => tab'[x] = tab[x] /\ reqOf'[x] = reqOf[x]
        /\ tab[t] = "refreshing" /\ tab'[t] = "probing"
    BY <1>0, <1>4 DEF Refused, RefusedIsDead
  <2>2. Accepted(jarRefresh)' <=> Accepted(jarRefresh)
    BY <1>0, <2>1 DEF Accepted, Live
  <2>3. (JarSent /\ JarKnown /\ RefusedIsDead /\ ProbesAreFair)'
    BY <1>0, <2>1, <2>2 DEF JarSent, JarKnown, RefusedIsDead, ProbesAreFair
  <2>4. ASSUME locks PROVE (OneRefresh /\ ProbesAlone)'
    <3>1. \A x \in Tab : tab'[x] # "refreshing"
      BY <2>1, <2>4 DEF LockInv, OneRefresh
    <3>2. jarAccess' \/ ~CarriesOn'
      BY <1>0, <2>1, <2>2, <3>1 DEF CarriesOn
    <3> QED
      BY <3>1, <3>2 DEF OneRefresh, ProbesAlone
  <2> QED
    BY <1>0, <2>3, <2>4 DEF LockInv
<1> QED
  BY <1>1, <1>2, <1>3, <1>4 DEF TabStep

\* The jar and the tabs stand while the server works.
LEMMA ServeFair ==
    ASSUME FairInv, LockInv, NEW r \in Req, ~Unsent(r), Serve(r)
    PROVE  (JarSent /\ JarKnown /\ RefusedIsDead /\ ProbesAreFair)' /\ LockInv'
<1> USE TokensAssumption DEF FairInv
<1>0. /\ UNCHANGED <<jarAccess, jarRefresh, tab, reqOf, sent, locks>>
      /\ pc \in [Req -> {"idle", "read", "done", "refused", "lost"}]
      /\ new \in [Req -> Maybe(Token)] /\ jarRefresh \in Token
      /\ \A t \in Tab : tab[t] = "refreshing" => reqOf[t] \in Req
  BY DEF Serve, jarVars, tabVars, TabsInv, BrowserTypeOK, TypeOK, TabsWait
<1>1. JarSent' /\ (OneRefresh => OneRefresh')
  BY <1>0 DEF JarSent, OneRefresh
<1>2. ASSUME NEW k \in Token, RotateRead(r, sent[r], k)
      PROVE  (JarKnown /\ RefusedIsDead /\ ProbesAreFair)' /\ LockInv'
  <2>1. /\ UNCHANGED <<status, holder, revoked, expired>>
        /\ pc[r] = "idle" /\ new[r] = NONE /\ pc'[r] = "read" /\ new'[r] = k
        /\ \A x \in Req : x # r => pc'[x] = pc[x] /\ new'[x] = new[x]
        /\ holder[k] = NONE /\ \A x \in Req : new[x] # k
        /\ Accepted(sent[r])
    BY <1>0, <1>2 DEF RotateRead, Fresh, userVars, rowVars, TabsInv, OnlyRefreshes
  <2>2. k # jarRefresh
    BY <1>0, <2>1 DEF JarKnown
  <2>3. Accepted(jarRefresh)' <=> Accepted(jarRefresh)
    BY <1>0, <2>1 DEF Accepted, Live
  <2>4. (JarKnown /\ RefusedIsDead /\ ProbesAreFair)'
    BY <1>0, <2>1, <2>2, <2>3 DEF JarKnown, RefusedIsDead, ProbesAreFair
  <2>5. ASSUME NEW t \in Tab, tab[t] = "refreshing", reqOf[t] = r
        PROVE  jarAccess \/ Accepted(jarRefresh)
    BY <2>1, <2>5 DEF JarSent
  <2>6. CarriesOn' => CarriesOn \/ jarAccess
    <3>1. CASE \E t \in Tab : tab[t] = "refreshing" /\ reqOf[t] = r
      BY <2>5, <3>1 DEF CarriesOn
    <3>2. CASE ~ \E t \in Tab : tab[t] = "refreshing" /\ reqOf[t] = r
      BY <1>0, <2>1, <2>3, <3>2 DEF CarriesOn
    <3> QED
      BY <3>1, <3>2
  <2> QED
    BY <1>0, <1>1, <2>4, <2>6 DEF LockInv, ProbesAlone
<1>3. ASSUME RotateRefused(r, sent[r])
      PROVE  (JarKnown /\ RefusedIsDead /\ ProbesAreFair)' /\ LockInv'
  <2>1. /\ UNCHANGED <<status, holder, revoked, expired, new>>
        /\ pc'[r] = "refused" /\ ~Accepted(sent[r])
        /\ \A x \in Req : x # r => pc'[x] = pc[x]
    BY <1>0, <1>3 DEF RotateRefused, userVars, rowVars
  <2>2. Accepted(jarRefresh)' <=> Accepted(jarRefresh)
    BY <1>0, <2>1 DEF Accepted, Live
  <2>3. JarKnown' /\ ProbesAreFair'
    BY <1>0, <2>1, <2>2 DEF JarKnown, ProbesAreFair
  <2>4. RefusedIsDead'
    BY <1>0, <2>1, <2>2 DEF RefusedIsDead, JarSent
  <2>5. CarriesOn' => CarriesOn
    <3>1. \A t \in Tab :
             tab[t] = "refreshing" /\ pc'[reqOf[t]] \in {"read", "done"}
                => pc[reqOf[t]] = pc'[reqOf[t]]
      BY <1>0, <2>1
    <3> QED
      BY <1>0, <2>1, <2>2, <3>1 DEF CarriesOn
  <2> QED
    BY <1>0, <1>1, <2>3, <2>4, <2>5 DEF LockInv, ProbesAlone
<1> QED
  BY <1>1, <1>2, <1>3 DEF Serve

LEMMA CommitFair ==
    ASSUME FairInv, LockInv, NEW r \in Req, Commit(r)
    PROVE  (JarSent /\ JarKnown /\ RefusedIsDead /\ ProbesAreFair)' /\ LockInv'
<1> USE TokensAssumption DEF FairInv
<1>0. /\ UNCHANGED <<jarAccess, jarRefresh, tab, reqOf, sent, status, expired,
                     new, locks>>
      /\ pc[r] = "read" /\ pc'[r] \in {"done", "lost"}
      /\ \A x \in Req : x # r => pc'[x] = pc[x]
      /\ \A t \in Tab : tab[t] = "refreshing" => reqOf[t] \in Req
      /\ jarRefresh \in Token /\ new[r] \in Token
  BY DEF Commit, CommitRotation, CommitFails, jarVars, tabVars, userVars,
         rowVars, TabsInv, BrowserTypeOK, TypeOK, TabsWait, OnlyRefreshes
<1>1. /\ \A k \in Token : holder[k] # NONE => holder'[k] = holder[k]
      /\ \A k \in Token : revoked[k] => revoked'[k]
      /\ \A k \in Token : k # new[r] => holder'[k] = holder[k]
  <2>1. CASE CommitRotation(r)
    <3>1. holder[new[r]] = NONE /\ old[r] \in Token
      BY <2>1 DEF CommitRotation, TabsInv, TokensInv, ReadsStand
    <3> QED
      BY <2>1, <3>1 DEF CommitRotation, TabsInv, BrowserTypeOK, TypeOK
  <2>2. CASE CommitFails(r)
    BY <2>2 DEF CommitFails, rowVars
  <2> QED
    BY <2>1, <2>2 DEF Commit
<1>2. Accepted(jarRefresh)' => Accepted(jarRefresh) \/ jarAccess
  BY <1>0, <1>1 DEF Accepted, Live, JarKnown
<1>3. CarriesOn' => CarriesOn \/ jarAccess
  <2>1. ASSUME NEW t \in Tab, tab[t] = "refreshing", reqOf[t] # NONE,
               pc'[reqOf[t]] \in {"read", "done"},
               revoked'[new[reqOf[t]]] = FALSE
        PROVE  CarriesOn
    <3>1. reqOf[t] \in Req /\ pc[reqOf[t]] \in {"read", "done"}
      BY <1>0, <2>1
    <3>2. new[reqOf[t]] \in Token
      BY <3>1 DEF TabsInv, OnlyRefreshes
    <3>3. revoked[new[reqOf[t]]] = FALSE
      BY <1>1, <2>1, <3>2 DEF TabsInv, BrowserTypeOK, TypeOK
    <3> QED
      BY <2>1, <3>1, <3>3 DEF CarriesOn
  <2> QED
    BY <1>0, <1>2, <2>1 DEF CarriesOn
<1>4. JarSent'
  BY <1>0 DEF JarSent
<1>5. JarKnown'
  BY <1>0, <1>1 DEF JarKnown
<1>6. RefusedIsDead' /\ ProbesAreFair'
  BY <1>0, <1>2 DEF RefusedIsDead, ProbesAreFair
<1>7. LockInv'
  BY <1>0, <1>3 DEF LockInv, OneRefresh, ProbesAlone
<1> QED
  BY <1>4, <1>5, <1>6, <1>7

\* A password reset, the end of the access token, and nothing.
LEMMA OtherFair ==
    ASSUME FairInv, LockInv,
           (\E u \in User : Reset(u)) \/ AccessExpires \/ UNCHANGED allVars
    PROVE  (JarSent /\ JarKnown /\ RefusedIsDead /\ ProbesAreFair)' /\ LockInv'
<1> USE TokensAssumption DEF FairInv
<1>1. CASE AccessExpires
  BY <1>1 DEF AccessExpires, vars, userVars, rowVars, reqVars, tabVars, JarSent,
              JarKnown, RefusedIsDead, ProbesAreFair, LockInv, OneRefresh,
              ProbesAlone
<1>2. CASE (\E u \in User : Reset(u)) \/ UNCHANGED allVars
  <2>1. /\ UNCHANGED <<jarAccess, jarRefresh, tab, reqOf, sent, status, holder,
                       expired, pc, new, locks>>
        /\ \A k \in Token : revoked[k] => revoked'[k]
    BY <1>2 DEF Reset, ResetPassword, allVars, vars, userVars, rowVars, reqVars,
                jarVars, tabVars, TabsInv, BrowserTypeOK, TypeOK
  <2>2. Accepted(jarRefresh)' => Accepted(jarRefresh)
    BY <2>1 DEF Accepted, Live, TabsInv, BrowserTypeOK
  <2>3. CarriesOn' => CarriesOn
    <3>1. ASSUME NEW t \in Tab, tab[t] = "refreshing", reqOf[t] # NONE,
                 pc[reqOf[t]] \in {"read", "done"},
                 revoked'[new[reqOf[t]]] = FALSE
          PROVE  revoked[new[reqOf[t]]] = FALSE
      <4>1. new[reqOf[t]] \in Token
        BY <3>1 DEF TabsInv, TabsWait, OnlyRefreshes
      <4> QED
        BY <2>1, <3>1, <4>1 DEF TabsInv, BrowserTypeOK, TypeOK
    <3> QED
      BY <2>1, <2>2, <3>1 DEF CarriesOn
  <2>4. (JarSent /\ JarKnown /\ RefusedIsDead /\ ProbesAreFair)'
    BY <2>1, <2>2 DEF JarSent, JarKnown, RefusedIsDead, ProbesAreFair
  <2> QED
    BY <2>1, <2>3, <2>4 DEF LockInv, OneRefresh, ProbesAlone
<1> QED
  BY <1>1, <1>2

LEMMA NextFair == FairInv /\ LockInv /\ [BrowserNext]_allVars => FairInv' /\ LockInv'
<1> SUFFICES ASSUME FairInv, LockInv, [BrowserNext]_allVars PROVE FairInv' /\ LockInv'
  OBVIOUS
<1>1. TabsInv'
  BY NextTabs DEF FairInv
<1>2. (JarSent /\ JarKnown /\ RefusedIsDead /\ ProbesAreFair)' /\ LockInv'
  BY TabStepFair, ServeFair, CommitFair, OtherFair DEF BrowserNext
<1> QED
  BY <1>1, <1>2 DEF FairInv

\* However refreshes, lost answers, late commits and resets interleave, with
\* and without locks: a tab whose probe is answered is sent to login only when
\* the token in the jar is no longer accepted, and with locks only when no tab
\* waits for a rotation either (http.ts: the probe of /auth/me).
THEOREM NoTabKickedAlive == BrowserSpec => KickedOnlyWhenDead
<1>1. ASSUME FairInv, LockInv, [BrowserNext]_allVars
      PROVE  [\A t \in Tab : tab[t] # "login" /\ tab'[t] = "login" /\ t \notin cutOff'
                => ~Accepted(jarRefresh) /\ (locks => ~CarriesOn)]_allVars
  <2> SUFFICES ASSUME NEW t \in Tab, tab[t] # "login", tab'[t] = "login",
                      t \notin cutOff'
               PROVE  ~Accepted(jarRefresh) /\ (locks => ~CarriesOn)
    OBVIOUS
  <2>1. Probed(t) /\ ~jarAccess
    BY <1>1 DEF BrowserNext, AccessExpires, TabStep, Denied, SendRefresh,
       Refreshed, Refused, NetworkFails, Probed, ProbeFails, Serve, Commit, Reset,
       allVars, tabVars, FairInv, TabsInv, BrowserTypeOK
  <2> QED
    BY <1>1, <2>1 DEF FairInv, LockInv, ProbesAreFair, ProbesAlone, Probed
<1>2. FairInv /\ LockInv /\ [BrowserNext]_allVars => FairInv' /\ LockInv'
  BY NextFair
<1> QED
  BY <1>1, <1>2, InitFair, PTL DEF BrowserSpec, KickedOnlyWhenDead
===============================================================================
