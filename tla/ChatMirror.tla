------------------------------ MODULE ChatMirror ------------------------------
(***************************************************************************)
(* The conversation mirror behind POST /api/chat/send                      *)
(* (backend/app/chat/router.py, backend/app/chat/service.py).              *)
(*                                                                         *)
(* A turn is one request: it loads or creates the conversation row, stores *)
(* the question, streams the answer from Dify and, in the generator's      *)
(* finally block, mirrors the answer in a session of its own.  Every       *)
(* database access is a step: PostgreSQL runs at READ COMMITTED, so a row  *)
(* read before an await is a snapshot and an UPDATE writes the value that  *)
(* was computed from it.                                                   *)
(***************************************************************************)
EXTENDS Naturals, Sequences

CONSTANTS
    Turn,      \* the send requests
    Conv,      \* the ids of conversation rows (UUIDs)
    Seat,      \* the <<user, app>> pairs requests are made for
    NONE,      \* a NULL column, an empty id
    MaxText    \* bound: text frames one stream may carry

ASSUME MirrorAssumption ==
    /\ MaxText \in Nat \ {0}
    /\ NONE \notin Turn \cup Conv \cup Seat

VARIABLES
    \* the conversations and messages tables, committed contents
    owner,     \* [Conv -> Seat \cup {NONE}]: user_id and app_id, NONE: no row
    count,     \* [Conv -> Nat]: message_count
    dify,      \* [Conv -> Turn \cup {NONE}]: dify_conversation_id
    usage,     \* [Conv -> Turn \cup {NONE}]: whose usage token_usage holds
    log,       \* [Conv -> Seq(Message)]: the messages, in commit order
    \* one send request each
    pc,        \* [Turn -> Phase]
    seatOf,    \* [Turn -> Seat]: the authenticated user and the app asked
    at,        \* [Turn -> Conv \cup {NONE}]: the conversation of the turn
    snapCount, \* [Turn -> Nat]: message_count as this session last read it
    snapDify,  \* [Turn -> Turn \cup {NONE}]: dify_conversation_id likewise
    \* its stream generator
    text,      \* [Turn -> Nat]: text frames accumulated
    thread,    \* [Turn -> Turn \cup {NONE}]: Dify conversation id captured
    used,      \* [Turn -> BOOLEAN]: did message_end bring the usage?
    terminal   \* [Turn -> BOOLEAN]: ended by the upstream, not by the client

dbVars     == <<owner, count, dify, usage, log>>
reqVars    == <<seatOf, at, snapCount, snapDify>>
streamVars == <<text, thread, used, terminal>>
vars       == <<dbVars, pc, reqVars, streamVars>>

Phase == {"idle", "loaded", "refused", "asked", "unread", "streaming",
          "saving", "writing", "saved", "done", "failed", "crashed"}

\* The phases in which a turn still holds a snapshot it may write back.
InFlight == {"loaded", "asked", "streaming", "saving", "writing"}

\* A message row; text is the length of the content of an answer.
Message == [turn : Turn, role : {"user", "assistant"}, text : Nat]

Question(t) == [turn |-> t, role |-> "user", text |-> 0]
Answer(t)   == [turn |-> t, role |-> "assistant", text |-> text[t]]

Rows(c)     == {log[c][i] : i \in DOMAIN log[c]}

Init ==
    /\ owner = [c \in Conv |-> NONE]
    /\ count = [c \in Conv |-> 0]
    /\ dify  = [c \in Conv |-> NONE]
    /\ usage = [c \in Conv |-> NONE]
    /\ log   = [c \in Conv |-> <<>>]
    /\ pc = [t \in Turn |-> "idle"]
    /\ seatOf \in [Turn -> Seat]
    /\ at = [t \in Turn |-> NONE]
    /\ snapCount = [t \in Turn |-> 0]
    /\ snapDify  = [t \in Turn |-> NONE]
    /\ text   = [t \in Turn |-> 0]
    /\ thread = [t \in Turn |-> NONE]
    /\ used   = [t \in Turn |-> FALSE]
    /\ terminal = [t \in Turn |-> FALSE]

-------------------------------------------------------------------------------
(* Faulty variants of the definitions below, for the sensitivity checks.   *)

\* No ownership check on the conversation that is continued.
LoadAnyConversation(t, c) ==
    /\ pc[t] = "idle"
    /\ owner[c] # NONE
    /\ pc' = [pc EXCEPT ![t] = "loaded"]
    /\ at' = [at EXCEPT ![t] = c]
    /\ snapCount' = [snapCount EXCEPT ![t] = count[c]]
    /\ snapDify'  = [snapDify EXCEPT ![t] = dify[c]]
    /\ UNCHANGED <<dbVars, seatOf, streamVars>>

\* The payload never names a Dify conversation.
ForwardNoThread(t) == NONE

\* agent_done is sent inside the try block: leaving there saves again.
DisconnectAfterSave(t) ==
    /\ pc[t] \in {"streaming", "saved"}
    /\ pc' = [pc EXCEPT ![t] = "saving"]
    /\ UNCHANGED <<dbVars, reqVars, streamVars>>

\* The mirror is not shielded: in a cancelled scope its first await is
\* skipped and the generator is over.
DisconnectUnshielded(t) ==
    /\ pc[t] = "streaming"
    /\ pc' = [pc EXCEPT ![t] = "saved"]
    /\ UNCHANGED <<dbVars, reqVars, streamVars>>

\* The generator goes on with the row the request loaded.
PersistStaleRow(t) ==
    /\ pc[t] = "saving"
    /\ pc' = [pc EXCEPT ![t] = "writing"]
    /\ UNCHANGED <<dbVars, reqVars, streamVars>>

\* message_count is incremented for an empty answer too.
PersistCountsEmpty(t) ==
    /\ pc[t] = "writing"
    /\ LET c == at[t] IN
       /\ log' = IF text[t] > 0
                 THEN [log EXCEPT ![c] = Append(@, Answer(t))] ELSE log
       /\ count' = [count EXCEPT ![c] = snapCount[t] + 1]
       /\ usage' = IF used[t] THEN [usage EXCEPT ![c] = t] ELSE usage
       /\ dify' = IF thread[t] # NONE /\ snapDify[t] = NONE
                  THEN [dify EXCEPT ![c] = thread[t]] ELSE dify
    /\ pc' = [pc EXCEPT ![t] = "saved"]
    /\ UNCHANGED <<owner, reqVars, streamVars>>

\* Usage and Dify conversation id are written whether or not they are known.
PersistBlindly(t) ==
    /\ pc[t] = "writing"
    /\ LET c == at[t] IN
       /\ log' = IF text[t] > 0
                 THEN [log EXCEPT ![c] = Append(@, Answer(t))] ELSE log
       /\ count' = IF text[t] > 0
                   THEN [count EXCEPT ![c] = snapCount[t] + 1] ELSE count
       /\ usage' = [usage EXCEPT ![c] = t]
       /\ dify' = [dify EXCEPT ![c] = thread[t]]
    /\ pc' = [pc EXCEPT ![t] = "saved"]
    /\ UNCHANGED <<owner, reqVars, streamVars>>

-------------------------------------------------------------------------------
(* send_message: the request up to the commit that precedes the stream.    *)

\* A conversation id is given: the row must exist, be of this user and app.
LoadConversation(t, c) ==
    /\ pc[t] = "idle"
    /\ owner[c] = seatOf[t]
    /\ pc' = [pc EXCEPT ![t] = "loaded"]
    /\ at' = [at EXCEPT ![t] = c]
    /\ snapCount' = [snapCount EXCEPT ![t] = count[c]]
    /\ snapDify'  = [snapDify EXCEPT ![t] = dify[c]]
    /\ UNCHANGED <<dbVars, seatOf, streamVars>>

\* No conversation id: a new row is flushed, visible only once committed.
CreateConversation(t, c) ==
    /\ pc[t] = "idle"
    /\ owner[c] = NONE
    /\ \A u \in Turn : at[u] # c
    /\ pc' = [pc EXCEPT ![t] = "loaded"]
    /\ at' = [at EXCEPT ![t] = c]
    /\ UNCHANGED <<dbVars, seatOf, snapCount, snapDify, streamVars>>

\* 404, 403 or 400: an unknown or foreign conversation, app or file, or a
\* missing query.  Nothing has been written.
Refuse(t) ==
    /\ pc[t] = "idle"
    /\ pc' = [pc EXCEPT ![t] = "refused"]
    /\ UNCHANGED <<dbVars, reqVars, streamVars>>

\* The question and the incremented message_count are committed before the
\* response starts.
CommitQuestion(t) ==
    /\ pc[t] = "loaded"
    /\ LET c == at[t] IN
       /\ owner' = [owner EXCEPT ![c] = seatOf[t]]
       /\ log' = [log EXCEPT ![c] = Append(@, Question(t))]
       /\ count' = [count EXCEPT ![c] = snapCount[t] + 1]
    /\ pc' = [pc EXCEPT ![t] = "asked"]
    /\ UNCHANGED <<dify, usage, reqVars, streamVars>>

\* The commit raises: get_db rolls the session back.
RollBack(t) ==
    /\ pc[t] = "loaded"
    /\ pc' = [pc EXCEPT ![t] = "refused"]
    /\ UNCHANGED <<dbVars, reqVars, streamVars>>

-------------------------------------------------------------------------------
(* The stream generators.                                                  *)

\* The first pull of the generator posts the question to Dify.
OpenStream(t) ==
    /\ pc[t] = "asked"
    /\ pc' = [pc EXCEPT ![t] = "streaming"]
    /\ UNCHANGED <<dbVars, reqVars, streamVars>>

\* The client left before the first pull: a generator that never ran has no
\* finally block to run.
NeverPulled(t) ==
    /\ pc[t] = "asked"
    /\ pc' = [pc EXCEPT ![t] = "unread"]
    /\ UNCHANGED <<dbVars, reqVars, streamVars>>

\* The Dify conversation the payload names: the id of the snapshot, NONE for
\* conversation_id "".
PayloadThread(t) == snapDify[t]

\* Dify answers in the conversation the payload named, in a new one when it
\* named none.
UpstreamThread(t) == IF PayloadThread(t) = NONE THEN t ELSE PayloadThread(t)

\* One frame of the upstream: it may carry text, the Dify conversation id
\* and, as message_end, the usage.
Frame(t, hasText, hasThread, hasUsage) ==
    /\ pc[t] = "streaming"
    /\ hasText => text[t] < MaxText
    /\ text' = [text EXCEPT ![t] = IF hasText THEN @ + 1 ELSE @]
    /\ thread' = [thread EXCEPT ![t] =
                     IF hasThread THEN UpstreamThread(t) ELSE @]
    /\ used' = [used EXCEPT ![t] = @ \/ hasUsage]
    /\ UNCHANGED <<dbVars, pc, reqVars, terminal>>

\* End of stream, a status other than 200, a timeout or any exception: the
\* terminal path.
EndStream(t) ==
    /\ pc[t] = "streaming"
    /\ pc' = [pc EXCEPT ![t] = "saving"]
    /\ terminal' = [terminal EXCEPT ![t] = TRUE]
    /\ UNCHANGED <<dbVars, reqVars, text, thread, used>>

\* The client disconnects: GeneratorExit or a cancelled scope enters finally.
Disconnect(t) ==
    /\ pc[t] = "streaming"
    /\ pc' = [pc EXCEPT ![t] = "saving"]
    /\ UNCHANGED <<dbVars, reqVars, streamVars>>

-------------------------------------------------------------------------------
(* _persist_assistant, shielded from cancellation, in a new session.       *)

PersistRead(t) ==
    /\ pc[t] = "saving"
    /\ pc' = [pc EXCEPT ![t] = "writing"]
    /\ snapCount' = [snapCount EXCEPT ![t] = count[at[t]]]
    /\ snapDify'  = [snapDify EXCEPT ![t] = dify[at[t]]]
    /\ UNCHANGED <<dbVars, seatOf, at, streamVars>>

\* Only columns that changed in the session are written.
PersistCommit(t) ==
    /\ pc[t] = "writing"
    /\ LET c == at[t] IN
       /\ log' = IF text[t] > 0
                 THEN [log EXCEPT ![c] = Append(@, Answer(t))] ELSE log
       /\ count' = IF text[t] > 0
                   THEN [count EXCEPT ![c] = snapCount[t] + 1] ELSE count
       /\ usage' = IF used[t] THEN [usage EXCEPT ![c] = t] ELSE usage
       /\ dify' = IF thread[t] # NONE /\ snapDify[t] = NONE
                  THEN [dify EXCEPT ![c] = thread[t]] ELSE dify
    /\ pc' = [pc EXCEPT ![t] = "saved"]
    /\ UNCHANGED <<owner, reqVars, streamVars>>

\* The database refuses: the exception leaves the generator, no agent_done.
PersistFail(t) ==
    /\ pc[t] \in {"saving", "writing"}
    /\ pc' = [pc EXCEPT ![t] = "failed"]
    /\ UNCHANGED <<dbVars, reqVars, streamVars>>

\* agent_done follows the mirror, on the terminal path only.
AgentDone(t) ==
    /\ pc[t] = "saved" /\ terminal[t]
    /\ pc' = [pc EXCEPT ![t] = "done"]
    /\ UNCHANGED <<dbVars, reqVars, streamVars>>

-------------------------------------------------------------------------------
\* The server process dies: open transactions vanish, streams are cut.
Crash ==
    /\ \E t \in Turn : pc[t] \in InFlight
    /\ pc' = [t \in Turn |->
                CASE pc[t] = "loaded" -> "refused"
                  [] pc[t] \in InFlight \ {"loaded"} -> "crashed"
                  [] OTHER -> pc[t]]
    /\ UNCHANGED <<dbVars, reqVars, streamVars>>

Step(t) ==
    \/ \E c \in Conv : LoadConversation(t, c) \/ CreateConversation(t, c)
    \/ Refuse(t) \/ CommitQuestion(t) \/ RollBack(t)
    \/ OpenStream(t) \/ NeverPulled(t)
    \/ \E x, y, z \in BOOLEAN : Frame(t, x, y, z)
    \/ EndStream(t) \/ Disconnect(t)
    \/ PersistRead(t) \/ PersistCommit(t) \/ PersistFail(t) \/ AgentDone(t)

Next == Crash \/ \E t \in Turn : Step(t)

\* A stream that is open ends: the upstream closes it or httpx times out.
\* A generator that entered finally is run to its end.
Fairness ==
    \A t \in Turn : /\ WF_vars(EndStream(t))
                    /\ WF_vars(PersistRead(t) \/ PersistCommit(t))

Spec     == Init /\ [][Next]_vars
FairSpec == Spec /\ Fairness

-------------------------------------------------------------------------------
(* What the mirror promises.                                               *)

\* Every variable has the type its declaration states.
TypeOK ==
    /\ owner \in [Conv -> Seat \cup {NONE}]
    /\ count \in [Conv -> Nat]
    /\ dify  \in [Conv -> Turn \cup {NONE}]
    /\ usage \in [Conv -> Turn \cup {NONE}]
    /\ log   \in [Conv -> Seq(Message)]
    /\ pc \in [Turn -> Phase]
    /\ seatOf \in [Turn -> Seat]
    /\ at \in [Turn -> Conv \cup {NONE}]
    /\ snapCount \in [Turn -> Nat]
    /\ snapDify \in [Turn -> Turn \cup {NONE}]
    /\ text \in [Turn -> 0..MaxText]
    /\ thread \in [Turn -> Turn \cup {NONE}]
    /\ used \in [Turn -> BOOLEAN]
    /\ terminal \in [Turn -> BOOLEAN]

\* A question whose stream was reached is on record whatever became of the
\* stream: never pulled, cut by the client, failed, or lost in a crash
\* (router.py commits the question before it returns the generator).
QuestionOnRecord ==
    \A t \in Turn :
        pc[t] \notin {"idle", "loaded", "refused"} =>
            Question(t) \in Rows(at[t])

\* Read in commit order, every answer stands after its own question, in the
\* same conversation, and no message is mirrored twice: neither the finally
\* block nor a disconnect racing the end of the stream saves a second copy.
AnswersFollowQuestions ==
    \A c \in Conv : \A i \in 1..Len(log[c]) :
        /\ \A j \in 1..Len(log[c]) :
              /\ log[c][j].turn = log[c][i].turn
              /\ log[c][j].role = log[c][i].role
              => j = i
        /\ log[c][i].role = "assistant" =>
              \E j \in 1..(i - 1) : log[c][j] = Question(log[c][i].turn)

\* The log is a dialogue that can be read back: no question is lost, no
\* answer stands before its question, nothing is there twice.
LogIsDialogue == QuestionOnRecord /\ AnswersFollowQuestions

\* agent_done tells the browser that the turn is over and may be read back:
\* by then the whole accumulated answer is in the mirror.  A generator that
\* reached its end without agent_done (disconnect) has mirrored it as well.
DoneMeansMirrored ==
    \A t \in Turn :
        pc[t] \in {"saved", "done"} /\ text[t] > 0 => Answer(t) \in Rows(at[t])

\* The rows of a conversation come from requests of its own user and app,
\* although ownership is checked on a row read before the commit.
OwnRowsOnly ==
    \A c \in Conv : \A i \in 1..Len(log[c]) :
        seatOf[log[c][i].turn] = owner[c]

\* message_count never overstates the messages, whatever turns overlap: the
\* absolute value an UPDATE writes is at most one more than what was counted.
CountNeverOverstates ==
    \A c \in Conv : count[c] <= Len(log[c])

\* The usage shown for a conversation was reported to some turn whose question
\* is in it, and there is one when a turn that was told of it has ended.  Of
\* turns that overlap it may be that of another than the last one mirrored.
UsageOfATurn ==
    /\ \A c \in Conv :
          usage[c] # NONE => used[usage[c]] /\ Question(usage[c]) \in Rows(c)
    /\ \A t \in Turn :
          pc[t] \in {"saved", "done"} /\ used[t] => usage[at[t]] # NONE

\* Text that was streamed ends up in the mirror, unless the database refuses
\* it or the process dies: also when the client disconnects.
TextGetsMirrored ==
    \A t \in Turn :
        pc[t] = "streaming" /\ text[t] > 0 ~>
            \/ \E c \in Conv : Answer(t) \in Rows(c)
            \/ pc[t] \in {"failed", "crashed"}

===============================================================================
