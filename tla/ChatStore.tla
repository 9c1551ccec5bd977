------------------------------ MODULE ChatStore ------------------------------
(***************************************************************************)
(* The chat store of the browser (frontend/src/stores/chat.ts): one store, *)
(* the callbacks of the streams that were started on it, the flush timers, *)
(* the requests of resumeLatest, and the user, who clicks what Chat.tsx    *)
(* and History.tsx leave enabled.                                          *)
(*                                                                         *)
(* Turns are numbered in the order they are sent.  The conversation a turn *)
(* opens has the turn's number for an id.  A message is a pair of a turn   *)
(* and a part; text is a number of pieces.                                 *)
(***************************************************************************)
EXTENDS Naturals, FiniteSets

CONSTANTS
    App,       \* the apps of the user
    FirstApp,  \* the first of them in the list of GET /apps/me
    Old,       \* his conversations from before
    OldApp,    \* [Old -> App]
    MaxTurns,  \* bound: questions sent
    MaxText,   \* bound: pieces of an answer
    NONE,      \* null
    DRAFT      \* DRAFT_KEY

Turn == 1..MaxTurns
Conv == Turn \cup Old
Key  == Conv \cup {DRAFT}
Part == {"user", "assistant"}
Phase == {"unsent", "asking", "refreshing", "reading", "told", "settled"}

ASSUME StoreAssumption ==
    /\ MaxTurns \in Nat /\ MaxText \in Nat
    /\ OldApp \in [Old -> App] /\ FirstApp \in App
    /\ Old \cap Turn = {} /\ {NONE, DRAFT} \cap (Conv \cup App) = {}
    /\ NONE # DRAFT

VARIABLES
    app,        \* activeAppId
    active,     \* activeConversationId
    streaming,
    ctl,        \* abortController: the turn it aborts
    bucket,     \* [Key -> SUBSET (Turn \X Part)]: messagesByConv
    listed,     \* [App -> SUBSET Conv]: conversationsByApp
    phase,      \* [Turn -> Phase]: its sendChatStream
    seat,       \* [Turn -> Key]: its conversationId
    appOf,      \* [Turn -> App]
    stopped,    \* [Turn -> BOOLEAN]: its signal is aborted
    status,     \* [Turn -> {"streaming", "done", "error"}]
    shown,      \* [Turn -> Nat]: pieces of text in its content
    pend,       \* [Turn -> Nat]: pieces in its buffer
    timer,      \* [Turn -> BOOLEAN]: is flushTimer running?
    asked,      \* turns whose question the server has committed
    resume,     \* a resumeLatest under way: its app and conversation
    due,        \* history: pieces received since an error replaced the text
    left,       \* history: did the user go elsewhere while the turn ran?
    alone       \* history: had every other stream settled when it was sent?

uiVars   == <<app, active>>
busyVars == <<streaming, ctl>>
convVars == <<bucket, listed>>
callVars == <<phase, seat, appOf, stopped>>
textVars == <<status, shown, pend, timer, due>>
srvVars  == <<asked, resume>>
ghostVars == <<left, alone>>
vars == <<uiVars, busyVars, convVars, callVars, textVars, srvVars, ghostVars>>

Running == {"asking", "refreshing", "reading"}
NoResume == [app |-> NONE, conv |-> NONE]

TypeOK ==
    /\ app \in App \cup {NONE} /\ active \in Conv \cup {NONE}
    /\ streaming \in BOOLEAN /\ ctl \in Turn \cup {NONE}
    /\ bucket \in [Key -> SUBSET (Turn \X Part)]
    /\ listed \in [App -> SUBSET Conv]
    /\ phase \in [Turn -> Phase]
    /\ seat \in [Turn -> Key] /\ appOf \in [Turn -> App \cup {NONE}]
    /\ stopped \in [Turn -> BOOLEAN]
    /\ status \in [Turn -> {"streaming", "done", "error"}]
    /\ shown \in [Turn -> 0..MaxText] /\ pend \in [Turn -> 0..MaxText]
    /\ timer \in [Turn -> BOOLEAN] /\ due \in [Turn -> 0..MaxText]
    /\ asked \subseteq Turn
    /\ left \in [Turn -> BOOLEAN] /\ alone \in [Turn -> BOOLEAN]
    /\ resume \in [app : App \cup {NONE}, conv : Conv \cup {NONE}]

Init ==
    /\ app = NONE /\ active = NONE /\ streaming = FALSE /\ ctl = NONE
    /\ bucket = [k \in Key |-> {}] /\ listed = [a \in App |-> {}]
    /\ phase = [t \in Turn |-> "unsent"] /\ seat = [t \in Turn |-> DRAFT]
    /\ appOf = [t \in Turn |-> NONE]
    /\ stopped = [t \in Turn |-> FALSE]
    /\ status = [t \in Turn |-> "streaming"]
    /\ shown = [t \in Turn |-> 0] /\ pend = [t \in Turn |-> 0]
    /\ timer = [t \in Turn |-> FALSE] /\ due = [t \in Turn |-> 0]
    /\ asked = {} /\ resume = NoResume
    /\ left = [t \in Turn |-> FALSE] /\ alone = [t \in Turn |-> FALSE]

-------------------------------------------------------------------------------
(* The server, as the store meets it.                                      *)

\* The conversation a turn belongs to, and the app a conversation belongs to.
ConvOf(t)  == IF seat[t] = DRAFT THEN t ELSE seat[t]
ConvApp(c) == IF c \in Old THEN OldApp[c] ELSE appOf[c]

\* send_message takes a conversation of the app that is named only.
Accepted(t) == ConvApp(ConvOf(t)) = appOf[t]

\* GET /conversations of an app, and its newest one by updated_at.
Remote(a) == {c \in Old : OldApp[c] = a}
                 \cup {ConvOf(t) : t \in {u \in asked : appOf[u] = a}}
Newest(a) ==
    LET ts == {t \in asked : appOf[t] = a} IN
    IF ts = {} THEN Remote(a)
    ELSE {ConvOf(t) : t \in {u \in ts : \A v \in ts : v <= u}}

-------------------------------------------------------------------------------
(* The pieces sendMessage is made of.                                      *)

\* patchAssistant finds the message in whatever bucket it is in.
Present(t) == \E k \in Key : <<t, "assistant">> \in bucket[k]
Mark(t, s) == status' = [status EXCEPT ![t] = IF Present(t) THEN s ELSE @]
Show(t, n) == shown' = [shown EXCEPT ![t] = IF Present(t) THEN n ELSE @]

\* A summary is recorded under the reported id, else under the conversation
\* that is active by now; a draft whose id was not reported is left out.
Summarised(t, id) ==
    IF id = NONE /\ seat[t] = DRAFT THEN listed
    ELSE LET c == CASE id # NONE -> id
                    [] id = NONE /\ active # NONE -> active
                    [] OTHER -> seat[t]
         IN  [listed EXCEPT ![appOf[t]] = @ \cup {c}]

-------------------------------------------------------------------------------
(* Faulty variants of the definitions below, for the sensitivity checks.   *)

\* finish forgets the rest of the buffer.
NoRest(t) == 0

\* Only onAgentDone and the catch finish.
NoFallback(t) == UNCHANGED <<busyVars, listed, shown, pend, timer>>

\* sendMessage does not look at streaming.
CanAlwaysSend == app # NONE

\* onAgentDone marks the message done whatever it was.
MarkDoneAnyway(t) == Mark(t, "done")

\* adopt compares the app only.
StillInApp(t) == app = appOf[t]

-------------------------------------------------------------------------------
(* The pieces of sendMessage, continued.                                   *)

ClearBuffer(t) == pend' = [pend EXCEPT ![t] = 0]

\* What the last flush adds.
Rest(t) == pend[t]

\* finish: timer off, buffer flushed behind the n pieces that are there, the
\* store set idle, whichever turn it is busy with.
Finish(t, n, id) ==
    /\ Show(t, n + Rest(t))
    /\ ClearBuffer(t)
    /\ timer' = [timer EXCEPT ![t] = FALSE]
    /\ ctl' = NONE /\ streaming' = FALSE
    /\ listed' = Summarised(t, id)

\* The fallback when the stream is over: finish unless nothing is streaming.
FinishIfBusy(t) ==
    IF streaming THEN Finish(t, shown[t], NONE)
    ELSE UNCHANGED <<busyVars, listed, shown, pend, timer>>

\* The user has left the turns that are running.
Leave == left' = [t \in Turn |-> left[t] \/ phase[t] \in Running]

\* No stream is under way, although the store may have been idle before.
AllSettled == \A t \in Turn : phase[t] \in {"unsent", "settled"}

-------------------------------------------------------------------------------
(* What the user does.                                                     *)

\* loadApps has its answer: the first app is selected if none was.
LoadApps ==
    /\ app = NONE
    /\ app' = FirstApp
    /\ UNCHANGED <<active, busyVars, convVars, callVars, ghostVars, textVars,
                   srvVars>>

\* loadConversations merges the answer with what is listed already.
LoadConversations(a) ==
    /\ app # NONE
    /\ listed' = [listed EXCEPT ![a] = @ \cup Remote(a)]
    /\ UNCHANGED <<uiVars, busyVars, bucket, callVars, ghostVars, textVars,
                   srvVars>>

\* History.tsx: resumeConversation, of any listed one, at any time.
ResumeConversation(a, c) ==
    /\ c \in listed[a]
    /\ app' = a /\ active' = c
    /\ Leave
    /\ UNCHANGED <<busyVars, convVars, phase, seat, appOf, stopped, alone,
                   textVars, srvVars>>

\* Chat.tsx: the selection of an app and the button for a new conversation
\* are disabled while streaming.
SetActiveApp(a) ==
    /\ app # NONE /\ ~streaming
    /\ app' = a /\ active' = NONE
    /\ Leave
    /\ UNCHANGED <<busyVars, convVars, phase, seat, appOf, stopped, alone,
                   textVars, srvVars>>

\* The early return of sendMessage.
CanSend == app # NONE /\ ~streaming

\* sendMessage up to sendChatStream; base is messagesByConv.
SendOn(t, base) ==
    /\ CanSend
    /\ phase[t] = "unsent" /\ \A u \in 1..(t - 1) : phase[u] # "unsent"
    /\ LET k == IF active = NONE THEN DRAFT ELSE active IN
       /\ seat' = [seat EXCEPT ![t] = k]
       /\ bucket' = [base EXCEPT ![k] = @ \cup {<<t, "user">>,
                                                <<t, "assistant">>}]
    /\ appOf' = [appOf EXCEPT ![t] = app]
    /\ phase' = [phase EXCEPT ![t] = "asking"]
    /\ streaming' = TRUE /\ ctl' = t
    /\ alone' = [alone EXCEPT ![t] = AllSettled]
    /\ UNCHANGED <<uiVars, listed, stopped, left, textVars, srvVars>>

SendMessage(t) == SendOn(t, bucket)

\* retryLast, clicked on an error card of the active conversation: its error
\* cards go, and unless something is streaming its last question is sent.
RetryLast(t) ==
    /\ active # NONE
    /\ LET cards == {m \in bucket[active] : m[2] = "assistant" /\
                                            status[m[1]] = "error"}
           base  == [bucket EXCEPT ![active] = @ \ cards]
       IN  /\ cards # {}
           /\ \E m \in base[active] : m[2] = "user"
           /\ \/ SendOn(t, base)
              \/ /\ streaming
                 /\ bucket' = base
                 /\ UNCHANGED <<uiVars, busyVars, listed, callVars, ghostVars,
                                textVars, srvVars>>

\* stopStreaming, the button Composer.tsx shows while streaming.
StopStreaming ==
    /\ streaming
    /\ stopped' = [t \in Turn |-> stopped[t] \/ t = ctl]
    /\ ctl' = NONE /\ streaming' = FALSE
    /\ UNCHANGED <<uiVars, convVars, phase, seat, appOf, ghostVars, textVars,
                   srvVars>>

-------------------------------------------------------------------------------
(* resumeLatest, started when Chat.tsx mounts with no active conversation. *)

MountChat ==
    /\ app # NONE /\ active = NONE /\ resume = NoResume
    /\ resume' = [app |-> app, conv |-> NONE]
    /\ UNCHANGED <<uiVars, busyVars, convVars, callVars, ghostVars, textVars,
                   asked>>

\* The list is answered: the newest conversation is asked for.
ListAnswered ==
    /\ resume.app # NONE /\ resume.conv = NONE
    /\ \E c \in Newest(resume.app) : resume' = [resume EXCEPT !.conv = c]
    /\ UNCHANGED <<uiVars, busyVars, convVars, callVars, ghostVars, textVars,
                   asked>>

\* Its messages are answered: they replace the bucket, and it is activated.
\* No call writes to a message that was loaded, so the bucket leaves them out.
ResumeAnswered ==
    /\ resume.conv # NONE
    /\ app' = resume.app /\ active' = resume.conv
    /\ bucket' = [bucket EXCEPT ![resume.conv] = {}]
    /\ resume' = NoResume
    /\ UNCHANGED <<busyVars, listed, callVars, ghostVars, textVars, asked>>

\* There is no conversation, or a request fails.
ResumeFails ==
    /\ resume # NoResume
    /\ resume' = NoResume
    /\ UNCHANGED <<uiVars, busyVars, convVars, callVars, ghostVars, textVars,
                   asked>>

-------------------------------------------------------------------------------
(* What sendChatStream does in a turn.                                     *)

Goes(t, p) == phase' = [phase EXCEPT ![t] = p]

\* The call returns: its signal is of no more use.
Return(t) ==
    /\ Goes(t, "settled")
    /\ stopped' = [stopped EXCEPT ![t] = FALSE]
    /\ left' = [left EXCEPT ![t] = FALSE]
    /\ UNCHANGED alone

\* The server may have committed the question of a request that failed.
MaybeAsked(t) ==
    asked' \in {asked} \cup (IF Accepted(t) THEN {asked \cup {t}} ELSE {})

\* 401: the session is refreshed and the request sent once more; the refresh
\* does not know the signal.
Unauthorized(t) ==
    /\ phase[t] = "asking" /\ ~stopped[t]
    /\ Goes(t, "refreshing")
    /\ UNCHANGED <<uiVars, busyVars, convVars, seat, appOf, stopped, ghostVars,
                   textVars, srvVars>>

\* The response begins: the server has the question.
Accept(t) ==
    /\ phase[t] \in {"asking", "refreshing"} /\ ~stopped[t] /\ Accepted(t)
    /\ Goes(t, "reading")
    /\ asked' = asked \cup {t}
    /\ UNCHANGED <<uiVars, busyVars, convVars, seat, appOf, stopped, ghostVars,
                   textVars, resume>>

\* onError and return: a refusal or, once the session was to be refreshed,
\* anything that failed, an abort too.
Refuse(t) ==
    /\ \/ phase[t] = "asking" /\ ~stopped[t] /\ UNCHANGED asked
       \/ phase[t] = "refreshing" /\ MaybeAsked(t)
    /\ Mark(t, "error")
    /\ FinishIfBusy(t)
    /\ Return(t)
    /\ UNCHANGED <<uiVars, bucket, seat, appOf, due, resume>>

\* onMessage and onReasoning.
Delta(t) ==
    /\ phase[t] = "reading" /\ ~stopped[t] /\ due[t] < MaxText
    /\ pend' = [pend EXCEPT ![t] = @ + 1]
    /\ due' = [due EXCEPT ![t] = @ + 1]
    /\ timer' = [timer EXCEPT ![t] = TRUE]
    /\ UNCHANGED <<uiVars, busyVars, convVars, callVars, ghostVars, status,
                   shown, srvVars>>

\* flushNow, by the timer.
Flush(t) ==
    /\ timer[t] /\ pend[t] > 0
    /\ Show(t, shown[t] + pend[t])
    /\ ClearBuffer(t)
    /\ UNCHANGED <<uiVars, busyVars, convVars, callVars, ghostVars, status,
                   timer, due, srvVars>>

\* onError: the text is replaced, the buffer dropped.  The stream goes on.
ErrorEvent(t) ==
    /\ phase[t] = "reading" /\ ~stopped[t]
    /\ Mark(t, "error") /\ Show(t, 0)
    /\ ClearBuffer(t)
    /\ due' = [due EXCEPT ![t] = 0]
    /\ UNCHANGED <<uiVars, busyVars, convVars, callVars, ghostVars, timer,
                   srvVars>>

\* A3: an error is not overwritten, if the message is where it was put.
MarkDone(t) ==
    IF <<t, "assistant">> \in bucket[seat[t]] /\ status[t] = "error"
    THEN UNCHANGED status ELSE Mark(t, "done")

\* stillHere: the user is where he sent a first question from.
StillHere(t) == app = appOf[t] /\ active = NONE

\* adopt: the draft bucket becomes the one of the reported conversation,
\* which is activated if the user is still there.
Adopt(t, id) ==
    IF seat[t] # DRAFT \/ id = NONE THEN UNCHANGED <<active, bucket>>
    ELSE /\ bucket' = [bucket EXCEPT ![DRAFT] = {}, ![id] = bucket[DRAFT]]
         /\ active' = IF StillHere(t) THEN id ELSE active

\* onAgentDone, with the id of the conversation or without it.
AgentDone(t, id) ==
    /\ phase[t] = "reading" /\ ~stopped[t]
    /\ Goes(t, "told")
    /\ MarkDone(t)
    /\ Adopt(t, id)
    /\ Finish(t, shown[t], id)
    /\ UNCHANGED <<app, seat, appOf, stopped, ghostVars, due, srvVars>>

\* The end of the body: behind agent_done or, where the connection of the
\* server is closed early, without it.  Then the message stays "streaming",
\* and if another turn has set the store idle nothing is finished: the timer
\* runs on and goes on flushing.
EndOfBody(t) ==
    /\ phase[t] \in {"reading", "told"} /\ ~stopped[t]
    /\ Return(t)
    /\ FinishIfBusy(t)
    /\ UNCHANGED <<uiVars, bucket, seat, appOf, status, due, srvVars>>

\* sendChatStream rejects: stopped by the user, the text stays; otherwise an
\* error card replaces it.
Reject(t) ==
    /\ phase[t] \in {"asking", "reading", "told"}
    /\ Return(t)
    /\ IF stopped[t] THEN Mark(t, "done") /\ Finish(t, shown[t], NONE)
       ELSE Mark(t, "error") /\ Finish(t, 0, NONE)
    /\ IF phase[t] = "asking" THEN MaybeAsked(t) ELSE UNCHANGED asked
    /\ UNCHANGED <<uiVars, bucket, seat, appOf, due, resume>>

-------------------------------------------------------------------------------
User ==
    \/ LoadApps \/ StopStreaming
    \/ \E a \in App : \/ LoadConversations(a) \/ SetActiveApp(a)
                      \/ \E c \in Conv : ResumeConversation(a, c)
    \/ \E t \in Turn : SendMessage(t) \/ RetryLast(t)

Resuming == MountChat \/ ListAnswered \/ ResumeAnswered \/ ResumeFails

\* What brings a turn to its end.
Settling(t) ==
    \/ Accept(t) \/ Refuse(t) \/ EndOfBody(t) \/ Reject(t)
    \/ \E id \in {NONE, ConvOf(t)} : AgentDone(t, id)

\* Bound: nobody clicks any more when the last turn is over.
Unfinished == \E t \in Turn : phase[t] # "settled"

Next ==
    \/ Unfinished /\ (User \/ Resuming)
    \/ \E t \in Turn : \/ Unauthorized(t) \/ Delta(t) \/ Flush(t)
                       \/ ErrorEvent(t) \/ Settling(t)

Spec == Init /\ [][Next]_vars

\* Every response ends: the generator does (TurnSettles of ChatTurn), the
\* requests have time-outs, and an abort is heard.
FairSpec == Spec /\ \A t \in Turn : WF_vars(Settling(t))

-------------------------------------------------------------------------------
(* What has to hold.                                                       *)

\* However flush, stop, error and end of stream interleave, no text is lost on
\* its way to the message: what is not shown yet is in a buffer that a timer
\* goes on flushing, and an answer marked done shows every piece.  A turn that
\* is over has left no timer running, if it is marked done or if no other
\* stream was under way when it was sent.  Otherwise the body may have ended
\* without agent_done while another turn had set the store idle, and the timer
\* is never stopped (stores/chat.ts:302).
WholeShown ==
    \A t \in Turn :
        /\ pend[t] > 0 => timer[t]
        /\ Present(t) /\ status[t] = "streaming" => shown[t] + pend[t] = due[t]
        /\ phase[t] \in {"told", "settled"} =>
              /\ Present(t) /\ status[t] = "done" => shown[t] = due[t]
              /\ status[t] = "done" \/ alone[t] => ~timer[t]

\* A turn that was sent when no other stream was under way is the one the
\* stop button aborts, and the composer is closed while it runs, until it is
\* stopped.
StopReaches ==
    \A t \in Turn : phase[t] \in Running /\ alone[t] /\ ~stopped[t] =>
        streaming /\ ctl = t

\* A8: the end of a turn the user has left does not take him back to it, if
\* no other stream was under way when it was sent.
NotDraggedBack ==
    [][\A t \in Turn : phase[t] \in Running /\ phase'[t] = "told"
                      /\ left[t] /\ alone[t]
           => UNCHANGED uiVars]_vars

\* A3: agent_done does not turn an error card into an answer, if no other
\* stream was under way when the question was sent, or if it was not the
\* first of its conversation.  Otherwise another turn may have taken the
\* draft bucket with it, and onAgentDone looks for the card where it was.
ErrorStays ==
    [][\A t \in Turn : phase[t] \in Running /\ phase'[t] = "told"
                      /\ (alone[t] \/ seat[t] # DRAFT)
           => (status[t] = "error" => status'[t] = "error")]_vars

\* The composer does not stay closed.
ComposerOpens == streaming ~> ~streaming
===============================================================================
