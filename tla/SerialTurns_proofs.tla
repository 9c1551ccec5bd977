-------------------------- MODULE SerialTurns_proofs --------------------------
(***************************************************************************)
(* Proofs about ChatMirror and SerialTurns, for any sets of turns,         *)
(* conversations and seats and any bound on the text: the type invariant   *)
(* and the safety invariants that hold when turns overlap; and that a      *)
(* conversation whose turns never overlapped counts its messages exactly   *)
(* and stays in one Dify conversation.                                     *)
(***************************************************************************)
EXTENDS SerialTurns, TLAPS

\* The phases in which the question of a turn is committed.
Asked == Phase \ {"idle", "loaded", "refused"}

\* Where a turn stands: it has a conversation once it has loaded one.
Located ==
    \A t \in Turn : pc[t] \in Asked \cup {"loaded"} => at[t] \in Conv

\* Every row belongs to a turn of its conversation, and a turn's rows are
\* its question and, once it is saved, its answer.
RowsOfTurns ==
    \A c \in Conv : \A i \in 1..Len(log[c]) :
        LET m == log[c][i] IN
        /\ at[m.turn] = c
        /\ m.role = "user" => m = Question(m.turn) /\ pc[m.turn] \in Asked
        /\ m.role = "assistant" =>
              m = Answer(m.turn) /\ pc[m.turn] \in {"saved", "done"}

\* What a turn counted cannot exceed what its conversation holds.
SnapshotsAreOld ==
    \A t \in Turn :
        /\ pc[t] = "idle" => snapCount[t] = 0
        /\ pc[t] \in {"loaded", "writing"} => snapCount[t] <= Len(log[at[t]])

\* A row that is not committed has one turn, and no messages; a committed
\* one belongs to the user and app of each turn that uses it.
Ownership ==
    /\ \A c \in Conv : owner[c] = NONE => log[c] = <<>>
    /\ \A t, u \in Turn :
          at[t] \in Conv /\ at[t] = at[u] /\ owner[at[t]] = NONE => t = u
    /\ \A t \in Turn :
          pc[t] \in Asked \cup {"loaded"} => owner[at[t]] \in {NONE, seatOf[t]}

\* The inductive invariant.
MirrorInv ==
    /\ TypeOK
    /\ Located
    /\ RowsOfTurns
    /\ SnapshotsAreOld
    /\ Ownership
    /\ QuestionOnRecord
    /\ AnswersFollowQuestions
    /\ DoneMeansMirrored
    /\ OwnRowsOnly
    /\ CountNeverOverstates
    /\ UsageOfATurn

-------------------------------------------------------------------------------
\* What Append does to a log.
LEMMA AppendRow ==
    ASSUME NEW S, NEW s \in Seq(S), NEW e \in S
    PROVE  /\ Append(s, e) \in Seq(S)
           /\ Len(Append(s, e)) = Len(s) + 1
           /\ DOMAIN Append(s, e) = 1..(Len(s) + 1)
           /\ \A i \in 1..Len(s) : Append(s, e)[i] = s[i]
           /\ Append(s, e)[Len(s) + 1] = e
OBVIOUS

LEMMA InitInv == Init => MirrorInv
<1> SUFFICES ASSUME Init PROVE MirrorInv
  OBVIOUS
<1> USE MirrorAssumption
<1>1. TypeOK
  BY DEF Init, TypeOK, Phase
<1>2. Located /\ SnapshotsAreOld /\ QuestionOnRecord /\ DoneMeansMirrored
  BY DEF Init, Located, SnapshotsAreOld, QuestionOnRecord, DoneMeansMirrored,
         Asked, Phase
<1>3. \A c \in Conv : log[c] = <<>> /\ Len(log[c]) = 0 /\ DOMAIN log[c] = {}
  BY DEF Init
<1>4. RowsOfTurns /\ AnswersFollowQuestions /\ OwnRowsOnly
  BY <1>3 DEF RowsOfTurns, AnswersFollowQuestions, OwnRowsOnly
<1>5. Ownership /\ CountNeverOverstates /\ UsageOfATurn
  BY <1>3 DEF Init, Ownership, CountNeverOverstates, UsageOfATurn, Asked,
              Phase
<1>6. QED
  BY <1>1, <1>2, <1>4, <1>5 DEF MirrorInv

\* The steps that leave the tables alone.
Quiet(t) ==
    \/ \E c \in Conv : LoadConversation(t, c) \/ CreateConversation(t, c)
    \/ Refuse(t) \/ RollBack(t) \/ OpenStream(t) \/ NeverPulled(t)
    \/ \E x, y, z \in BOOLEAN : Frame(t, x, y, z)
    \/ EndStream(t) \/ Disconnect(t)
    \/ PersistRead(t) \/ PersistFail(t) \/ AgentDone(t)

LEMMA QuietType ==
    ASSUME TypeOK, Located, NEW t \in Turn, Quiet(t)
    PROVE  TypeOK'
<1> USE MirrorAssumption
    DEF TypeOK, Located, Asked, Phase, dbVars, reqVars, streamVars
<1>1. ASSUME NEW c \in Conv, LoadConversation(t, c) PROVE TypeOK'
  BY <1>1 DEF LoadConversation
<1>2. ASSUME NEW c \in Conv, CreateConversation(t, c) PROVE TypeOK'
  BY <1>2 DEF CreateConversation
<1>3. ASSUME NEW x \in BOOLEAN, NEW y \in BOOLEAN, NEW z \in BOOLEAN,
             Frame(t, x, y, z)
      PROVE  TypeOK'
  <2>1. text' \in [Turn -> 0..MaxText]
    BY <1>3 DEF Frame
  <2>2. thread' \in [Turn -> Turn \cup {NONE}]
    BY <1>3 DEF Frame, UpstreamThread, PayloadThread
  <2>3. used' \in [Turn -> BOOLEAN]
    BY <1>3 DEF Frame
  <2>4. QED
    BY <1>3, <2>1, <2>2, <2>3 DEF Frame
<1>4. ASSUME Refuse(t) \/ RollBack(t) \/ OpenStream(t) \/ NeverPulled(t)
             \/ Disconnect(t) \/ PersistFail(t) \/ AgentDone(t)
      PROVE  TypeOK'
  BY <1>4 DEF Refuse, RollBack, OpenStream, NeverPulled, Disconnect,
              PersistFail, AgentDone
<1>5. CASE EndStream(t)
  BY <1>5 DEF EndStream
<1>6. CASE PersistRead(t)
  BY <1>6 DEF PersistRead
<1>7. QED
  BY <1>1, <1>2, <1>3, <1>4, <1>5, <1>6 DEF Quiet

\* What the rest of the proof needs to know of a step that leaves the tables
\* alone: it moves one turn, and not across a commit.
QuietEffect(t) ==
    /\ UNCHANGED <<owner, count, dify, usage, log, seatOf>>
    /\ \A u \in Turn \ {t} :
          /\ pc'[u] = pc[u] /\ at'[u] = at[u]
          /\ snapCount'[u] = snapCount[u]
          /\ text'[u] = text[u] /\ used'[u] = used[u]
    /\ pc[t] # "idle" => at'[t] = at[t]
    /\ pc'[t] \in Asked <=> pc[t] \in Asked
    /\ pc'[t] \in {"saved", "done"} <=> pc[t] \in {"saved", "done"}
    /\ pc[t] # "streaming" => text'[t] = text[t] /\ used'[t] = used[t]
    /\ used[t] => used'[t]

LEMMA QuietHasEffect ==
    ASSUME TypeOK, NEW t \in Turn, Quiet(t)
    PROVE  QuietEffect(t)
<1> USE DEF TypeOK, Asked, Phase, dbVars, reqVars, streamVars, QuietEffect
<1>1. ASSUME NEW c \in Conv, LoadConversation(t, c) PROVE QuietEffect(t)
  BY <1>1 DEF LoadConversation
<1>2. ASSUME NEW c \in Conv, CreateConversation(t, c) PROVE QuietEffect(t)
  BY <1>2 DEF CreateConversation
<1>3. ASSUME NEW x \in BOOLEAN, NEW y \in BOOLEAN, NEW z \in BOOLEAN,
             Frame(t, x, y, z)
      PROVE  QuietEffect(t)
  BY <1>3 DEF Frame
<1>4. ASSUME Refuse(t) \/ RollBack(t) \/ OpenStream(t) \/ NeverPulled(t)
             \/ Disconnect(t) \/ PersistFail(t)
      PROVE  QuietEffect(t)
  BY <1>4 DEF Refuse, RollBack, OpenStream, NeverPulled, Disconnect,
              PersistFail
<1>5. CASE EndStream(t)
  BY <1>5 DEF EndStream
<1>6. CASE PersistRead(t)
  BY <1>6 DEF PersistRead
<1>7. CASE AgentDone(t)
  BY <1>7 DEF AgentDone
<1>8. QED
  BY <1>1, <1>2, <1>3, <1>4, <1>5, <1>6, <1>7 DEF Quiet

LEMMA QuietInv ==
    ASSUME MirrorInv, NEW t \in Turn, Quiet(t)
    PROVE  MirrorInv'
<1> USE MirrorAssumption
<1>1. TypeOK /\ TypeOK' /\ QuietEffect(t)
  BY QuietType, QuietHasEffect DEF MirrorInv
<1>2. /\ RowsOfTurns /\ QuestionOnRecord /\ AnswersFollowQuestions /\ Located
      /\ OwnRowsOnly /\ CountNeverOverstates /\ DoneMeansMirrored /\ Ownership
      /\ UsageOfATurn /\ SnapshotsAreOld
  BY DEF MirrorInv
<1>3. Located'
  <2>1. CASE \E c \in Conv : LoadConversation(t, c) \/ CreateConversation(t, c)
    BY <1>1, <1>2, <2>1
       DEF Located, QuietEffect, LoadConversation, CreateConversation, TypeOK
  <2>2. CASE pc'[t] = "loaded" => pc[t] \in Asked \cup {"loaded"}
    BY <1>1, <1>2, <2>2 DEF Located, QuietEffect, TypeOK, Asked
  <2>3. QED
    BY <2>1, <2>2, <1>1
       DEF Quiet, TypeOK, Asked, Refuse, RollBack, OpenStream, NeverPulled,
           Frame, EndStream, Disconnect, PersistRead, PersistFail, AgentDone
<1>4. RowsOfTurns'
  <2>0. log' = log
    BY <1>1 DEF QuietEffect
  <2> SUFFICES ASSUME NEW c \in Conv, NEW i \in 1..Len(log[c])
               PROVE  LET m == log[c][i] IN
                      /\ at'[m.turn] = c
                      /\ m.role = "user" =>
                            m = Question(m.turn) /\ pc'[m.turn] \in Asked
                      /\ m.role = "assistant" =>
                            /\ m = Answer(m.turn)'
                            /\ pc'[m.turn] \in {"saved", "done"}
    BY <2>0, SMTT(30) DEF RowsOfTurns, Question, Answer
  <2> DEFINE m == log[c][i]
  <2>1. m \in Message
    BY <1>1 DEF TypeOK
  <2>2. m.turn \in Turn /\ m.role \in {"user", "assistant"}
    BY <2>1 DEF Message
  <2>3. /\ at[m.turn] = c
        /\ m.role = "user" => m = Question(m.turn) /\ pc[m.turn] \in Asked
        /\ m.role = "assistant" =>
              m = Answer(m.turn) /\ pc[m.turn] \in {"saved", "done"}
    BY <1>2 DEF RowsOfTurns
  <2>4. pc[m.turn] \in Asked
    BY <2>2, <2>3 DEF Asked, Phase
  <2>5. at'[m.turn] = c
    BY <1>1, <2>2, <2>3, <2>4 DEF QuietEffect, Asked
  <2>6. pc'[m.turn] \in Asked
    BY <1>1, <2>2, <2>4 DEF QuietEffect
  <2>7. m.role = "assistant" =>
           m = Answer(m.turn)' /\ pc'[m.turn] \in {"saved", "done"}
    BY <1>1, <2>2, <2>3 DEF QuietEffect, Answer
  <2>8. QED
    BY <2>3, <2>5, <2>6, <2>7
<1>5. AnswersFollowQuestions' /\ CountNeverOverstates' /\ OwnRowsOnly'
  BY <1>1, <1>2
     DEF QuietEffect, AnswersFollowQuestions, CountNeverOverstates,
         OwnRowsOnly, Question
<1>6. QuestionOnRecord'
  <2> SUFFICES ASSUME NEW u \in Turn, pc'[u] \in Asked
               PROVE  Question(u) \in Rows(at[u])'
    BY <1>1 DEF QuestionOnRecord, Asked, TypeOK, Question
  <2>1. pc[u] \in Asked /\ at'[u] = at[u]
    BY <1>1 DEF QuietEffect, Asked
  <2>2. Question(u) \in Rows(at[u])
    BY <1>2, <2>1 DEF QuestionOnRecord, Asked
  <2>3. QED
    BY <1>1, <2>1, <2>2 DEF QuietEffect, Rows
<1>7. DoneMeansMirrored'
  BY <1>1, <1>2 DEF QuietEffect, DoneMeansMirrored, Answer, Rows
<1>8. UsageOfATurn'
  <2>1. ASSUME NEW c \in Conv, usage'[c] # NONE
        PROVE  used'[usage'[c]] /\ (Question(usage[c]) \in Rows(c))'
    <3>1. usage[c] \in Turn /\ usage'[c] = usage[c]
      BY <1>1, <2>1 DEF QuietEffect, TypeOK
    <3>2. used[usage[c]] /\ Question(usage[c]) \in Rows(c)
      BY <1>2, <2>1, <3>1 DEF UsageOfATurn
    <3>3. used'[usage[c]]
      BY <1>1, <3>1, <3>2 DEF QuietEffect
    <3>4. QED
      BY <1>1, <3>1, <3>2, <3>3 DEF QuietEffect, Rows, Question
  <2>2. ASSUME NEW u \in Turn, pc'[u] \in {"saved", "done"}, used'[u]
        PROVE  usage'[at'[u]] # NONE
    <3>1. pc[u] \in {"saved", "done"}
      BY <1>1, <2>2 DEF QuietEffect
    <3>2. used[u] /\ at'[u] = at[u]
      BY <1>1, <2>2, <3>1 DEF QuietEffect
    <3>3. QED
      BY <1>1, <1>2, <3>1, <3>2 DEF QuietEffect, UsageOfATurn
  <2>3. QED
    BY <2>1, <2>2 DEF UsageOfATurn
<1>9. Ownership'
  <2>1. CASE \E c \in Conv : LoadConversation(t, c)
    BY <1>1, <1>2, <2>1 DEF QuietEffect, Ownership, LoadConversation, TypeOK,
       Asked, Phase
  <2>2. CASE \E c \in Conv : CreateConversation(t, c)
    BY <1>1, <1>2, <2>2 DEF QuietEffect, Ownership, CreateConversation, TypeOK,
       Asked, Phase
  <2>3. CASE at' = at /\ (pc'[t] = "loaded" => pc[t] = "loaded")
    BY <1>1, <1>2, <2>3 DEF QuietEffect, Ownership, TypeOK, Asked, Phase
  <2>4. QED
    BY <2>1, <2>2, <2>3, <1>1
       DEF Quiet, TypeOK, Asked, Refuse, RollBack, OpenStream, NeverPulled,
           Frame, EndStream, Disconnect, PersistRead, PersistFail, AgentDone,
           reqVars
<1>10. SnapshotsAreOld'
  <2>1. ASSUME NEW c \in Conv, LoadConversation(t, c)
        PROVE  SnapshotsAreOld'
    <3>1. at'[t] = c /\ snapCount'[t] = count[c] /\ pc'[t] = "loaded"
      BY <1>1, <2>1 DEF LoadConversation, TypeOK
    <3>2. snapCount'[t] <= Len(log'[at'[t]])
      BY <1>1, <1>2, <3>1 DEF QuietEffect, CountNeverOverstates
    <3>3. QED
      BY <1>1, <1>2, <3>1, <3>2 DEF QuietEffect, SnapshotsAreOld
  <2>2. ASSUME NEW c \in Conv, CreateConversation(t, c)
        PROVE  SnapshotsAreOld'
    <3>1. at'[t] = c /\ snapCount' = snapCount /\ pc[t] = "idle"
      BY <1>1, <2>2 DEF CreateConversation, TypeOK
    <3>2. snapCount'[t] = 0 /\ Len(log'[c]) \in Nat /\ pc'[t] = "loaded"
      BY <1>1, <1>2, <2>2, <3>1
         DEF QuietEffect, SnapshotsAreOld, CreateConversation, TypeOK
    <3>3. QED
      BY <1>1, <1>2, <3>1, <3>2 DEF QuietEffect, SnapshotsAreOld
  <2>3. CASE PersistRead(t)
    BY <1>1, <1>2, <2>3 DEF QuietEffect, SnapshotsAreOld, PersistRead,
       TypeOK, CountNeverOverstates, Located, Asked, Phase
  <2>4. CASE /\ at' = at /\ snapCount' = snapCount
             /\ pc'[t] \in {"idle", "loaded", "writing"} => pc'[t] = pc[t]
    BY <1>1, <1>2, <2>4 DEF QuietEffect, SnapshotsAreOld, TypeOK
  <2>5. QED
    BY <2>1, <2>2, <2>3, <2>4, <1>1
       DEF Quiet, TypeOK, Refuse, RollBack, OpenStream, NeverPulled,
           Frame, EndStream, Disconnect, PersistFail, AgentDone, reqVars
<1>11. QED
  BY <1>1, <1>3, <1>4, <1>5, <1>6, <1>7, <1>8, <1>9, <1>10 DEF MirrorInv

-------------------------------------------------------------------------------
(* The two commits.                                                        *)

LEMMA CommitQuestionInv ==
    ASSUME MirrorInv, NEW t \in Turn, CommitQuestion(t)
    PROVE  MirrorInv'
<1> USE MirrorAssumption
<1> DEFINE d == at[t]
<1>1. /\ TypeOK /\ Located /\ RowsOfTurns /\ SnapshotsAreOld /\ Ownership
      /\ QuestionOnRecord /\ AnswersFollowQuestions /\ DoneMeansMirrored
      /\ OwnRowsOnly /\ CountNeverOverstates /\ UsageOfATurn
  BY DEF MirrorInv
<1>2. d \in Conv /\ pc[t] = "loaded" /\ log[d] \in Seq(Message)
      /\ Len(log[d]) \in Nat
  BY <1>1 DEF CommitQuestion, Located, TypeOK
<1>3. Question(t) \in Message
  BY DEF Question, Message
<1>4. /\ UNCHANGED <<dify, usage, seatOf, at, snapCount, snapDify,
                     text, thread, used, terminal>>
      /\ log' = [log EXCEPT ![d] = Append(log[d], Question(t))]
      /\ owner' = [owner EXCEPT ![d] = seatOf[t]]
      /\ count' = [count EXCEPT ![d] = snapCount[t] + 1]
      /\ pc' = [pc EXCEPT ![t] = "asked"]
  BY DEF CommitQuestion, reqVars, streamVars
<1>5. TypeOK'
  <2>1. Append(log[d], Question(t)) \in Seq(Message)
    BY <1>2, <1>3, AppendRow
  <2>2. log' \in [Conv -> Seq(Message)]
    BY <1>1, <1>4, <2>1 DEF TypeOK
  <2>3. QED
    BY <1>1, <1>2, <1>4, <2>2 DEF TypeOK, Phase
\* The rows after the step: those before it, and the question at the end.
<1>6. /\ \A c \in Conv \ {d} : log'[c] = log[c]
      /\ Len(log'[d]) = Len(log[d]) + 1
      /\ \A i \in 1..Len(log[d]) : log'[d][i] = log[d][i]
      /\ log'[d][Len(log[d]) + 1] = Question(t)
      /\ \A c \in Conv : DOMAIN log[c] = 1..Len(log[c])
                         /\ DOMAIN log'[c] = 1..Len(log'[c])
                         /\ Len(log[c]) \in Nat /\ Len(log'[c]) \in Nat
  BY <1>1, <1>2, <1>3, <1>4, <1>5, AppendRow DEF TypeOK
<1>7. \A c \in Conv : \A i \in 1..Len(log'[c]) :
         \/ i \in 1..Len(log[c]) /\ log'[c][i] = log[c][i]
         \/ c = d /\ i = Len(log[d]) + 1 /\ log'[c][i] = Question(t)
  BY <1>6, <1>2
<1>8. \A c \in Conv : \A i \in 1..Len(log[c]) :
         /\ i \in 1..Len(log'[c]) /\ log'[c][i] = log[c][i]
         /\ log[c][i].turn \in Turn \ {t}
         /\ log[c][i].role \in {"user", "assistant"}
  <2> SUFFICES ASSUME NEW c \in Conv, NEW i \in 1..Len(log[c])
               PROVE  /\ i \in 1..Len(log'[c]) /\ log'[c][i] = log[c][i]
                      /\ log[c][i].turn \in Turn \ {t}
                      /\ log[c][i].role \in {"user", "assistant"}
    OBVIOUS
  <2>1. i \in 1..Len(log'[c]) /\ log'[c][i] = log[c][i]
    BY <1>6
  <2>2. log[c][i] \in Message
    BY <1>1, <1>6 DEF TypeOK
  <2>3. pc[log[c][i].turn] \in Asked
    BY <1>1, <2>2 DEF RowsOfTurns, Message, Asked, Phase
  <2>4. QED
    BY <2>1, <2>2, <2>3, <1>2 DEF Message, Asked
<1>9. \A c \in Conv : Rows(c) \subseteq Rows(c)'
  BY <1>6, <1>8 DEF Rows
<1>10. Question(t) \in Rows(d)'
  BY <1>2, <1>4, <1>6 DEF Rows, Question
<1>11. Located'
  BY <1>1, <1>2, <1>4 DEF Located, TypeOK, Asked, Phase
<1>12. RowsOfTurns'
  <2> SUFFICES ASSUME NEW c \in Conv, NEW i \in 1..Len(log'[c])
               PROVE  LET m == log'[c][i] IN
                      /\ at[m.turn] = c
                      /\ m.role = "user" =>
                            m = Question(m.turn) /\ pc'[m.turn] \in Asked
                      /\ m.role = "assistant" =>
                            /\ m = Answer(m.turn)
                            /\ pc'[m.turn] \in {"saved", "done"}
    BY <1>4 DEF RowsOfTurns, Question, Answer
  <2>1. CASE i \in 1..Len(log[c]) /\ log'[c][i] = log[c][i]
    BY <1>1, <1>4, <1>8, <2>1 DEF RowsOfTurns, TypeOK
  <2>2. CASE c = d /\ i = Len(log[d]) + 1 /\ log'[c][i] = Question(t)
    <3>1. Question(t).turn = t /\ Question(t).role = "user"
      BY DEF Question
    <3>2. pc'[t] \in Asked
      BY <1>1, <1>4 DEF TypeOK, Asked, Phase
    <3>3. QED
      BY <2>2, <3>1, <3>2
  <2>3. QED
    BY <1>7, <2>1, <2>2
<1>13. SnapshotsAreOld'
  <2> SUFFICES ASSUME NEW u \in Turn
               PROVE  /\ pc'[u] = "idle" => snapCount[u] = 0
                      /\ pc'[u] \in {"loaded", "writing"} =>
                            snapCount[u] <= Len(log'[at[u]])
    BY <1>4 DEF SnapshotsAreOld
  <2>1. CASE u = t
    BY <2>1, <1>1, <1>4 DEF TypeOK
  <2>2. CASE u # t /\ pc[u] \notin {"loaded", "writing"}
    BY <2>2, <1>1, <1>4 DEF TypeOK, SnapshotsAreOld
  <2>3. CASE u # t /\ pc[u] \in {"loaded", "writing"}
    <3>1. at[u] \in Conv /\ snapCount[u] <= Len(log[at[u]])
      BY <1>1, <2>3 DEF Located, SnapshotsAreOld, Asked, Phase
    <3>2. Len(log[at[u]]) <= Len(log'[at[u]])
      BY <1>2, <1>6, <3>1
    <3>3. QED
      BY <1>1, <1>4, <1>6, <2>3, <3>1, <3>2 DEF TypeOK
  <2>4. QED
    BY <2>1, <2>2, <2>3
<1>14. Ownership'
  <2>1. \A c \in Conv : owner'[c] = NONE => log'[c] = <<>>
    BY <1>1, <1>2, <1>4, <1>6 DEF Ownership, TypeOK
  <2>2. \A u, v \in Turn : at'[u] \in Conv /\ at'[u] = at'[v]
                           /\ owner'[at'[u]] = NONE => u = v
    BY <1>1, <1>2, <1>4 DEF Ownership, TypeOK
  <2>3. ASSUME NEW u \in Turn, pc'[u] \in Asked \cup {"loaded"}
        PROVE  owner'[at'[u]] \in {NONE, seatOf'[u]}
    <3>1. pc[u] \in Asked \cup {"loaded"} /\ at[u] \in Conv
      BY <1>1, <1>2, <1>4, <2>3 DEF TypeOK, Located, Asked, Phase
    <3>2. owner[at[u]] \in {NONE, seatOf[u]}
      BY <1>1, <3>1 DEF Ownership
    <3>3. CASE at[u] # d
      BY <1>1, <1>4, <3>1, <3>2, <3>3 DEF TypeOK
    <3>4. CASE at[u] = d /\ owner[d] = NONE
      <4>1. u = t
        BY <1>1, <1>2, <3>4 DEF Ownership
      <4>2. QED
        BY <1>1, <1>2, <1>4, <4>1 DEF TypeOK
    <3>5. CASE at[u] = d /\ owner[d] # NONE
      BY <1>1, <1>2, <1>4, <3>2, <3>5 DEF TypeOK, Ownership
    <3>6. QED
      BY <3>3, <3>4, <3>5
  <2>4. QED
    BY <2>1, <2>2, <2>3 DEF Ownership
<1>15. QuestionOnRecord'
  BY <1>1, <1>4, <1>9, <1>10, <1>11
     DEF QuestionOnRecord, Question, TypeOK, Located, Asked, Phase
<1>16. AnswersFollowQuestions'
  <2> SUFFICES ASSUME NEW c \in Conv, NEW i \in 1..Len(log'[c])
               PROVE  /\ \A j \in 1..Len(log'[c]) :
                            /\ log'[c][j].turn = log'[c][i].turn
                            /\ log'[c][j].role = log'[c][i].role
                            => j = i
                      /\ log'[c][i].role = "assistant" =>
                            \E j \in 1..(i - 1) :
                               log'[c][j] = Question(log'[c][i].turn)
    BY DEF AnswersFollowQuestions, Question
  <2>1. CASE i \in 1..Len(log[c]) /\ log'[c][i] = log[c][i]
    <3>1. \A j \in 1..Len(log[c]) : log[c][j].turn = log[c][i].turn
             /\ log[c][j].role = log[c][i].role => j = i
      BY <1>1, <1>6, <2>1 DEF AnswersFollowQuestions
    <3>2. log[c][i].role = "assistant" =>
             \E j \in 1..(i - 1) : log[c][j] = Question(log[c][i].turn)
      BY <1>1, <1>6, <2>1 DEF AnswersFollowQuestions
    <3>3. Question(t).turn = t /\ log[c][i].turn # t
      BY <1>8, <2>1 DEF Question
    <3>4. \A j \in 1..(i - 1) : j \in 1..Len(log[c])
      BY <1>6, <2>1
    <3>5. \A j \in 1..(i - 1) : log'[c][j] = log[c][j]
      BY <1>8, <3>4
    <3>6. \A j \in 1..Len(log'[c]) :
             \/ j \in 1..Len(log[c]) /\ log'[c][j] = log[c][j]
             \/ log'[c][j].turn = t
      BY <1>7, <3>3
    <3>7. QED
      BY <2>1, <3>1, <3>2, <3>3, <3>5, <3>6
  <2>2. CASE c = d /\ i = Len(log[d]) + 1 /\ log'[c][i] = Question(t)
    <3>1. log'[c][i].turn = t /\ log'[c][i].role = "user"
      BY <2>2 DEF Question
    <3>2. \A j \in 1..Len(log'[c]) : log'[c][j].turn = t => j = i
      BY <1>7, <1>8, <2>2
    <3>3. QED
      BY <3>1, <3>2
  <2>3. QED
    BY <1>7, <2>1, <2>2
<1>17. DoneMeansMirrored'
  BY <1>1, <1>2, <1>4, <1>9
     DEF DoneMeansMirrored, Answer, TypeOK, Located, Asked, Phase
<1>18. OwnRowsOnly'
  <2> SUFFICES ASSUME NEW c \in Conv, NEW i \in 1..Len(log'[c])
               PROVE  seatOf[log'[c][i].turn] = owner'[c]
    BY <1>4, <1>6 DEF OwnRowsOnly
  <2>1. CASE i \in 1..Len(log[c]) /\ log'[c][i] = log[c][i]
    <3>1. seatOf[log[c][i].turn] = owner[c] /\ log[c] # <<>>
      BY <1>1, <1>6, <2>1 DEF OwnRowsOnly
    <3>2. owner[c] # NONE
      BY <1>1, <3>1 DEF Ownership
    <3>3. c = d => owner[c] = seatOf[t]
      BY <1>1, <1>2, <3>2 DEF Ownership
    <3>4. QED
      BY <1>1, <1>4, <2>1, <3>1, <3>3 DEF TypeOK
  <2>2. CASE c = d /\ i = Len(log[d]) + 1 /\ log'[c][i] = Question(t)
    BY <1>1, <1>4, <2>2 DEF TypeOK, Question
  <2>3. QED
    BY <1>7, <2>1, <2>2
<1>19. CountNeverOverstates'
  <2>1. snapCount[t] <= Len(log[d])
    BY <1>1, <1>2 DEF SnapshotsAreOld
  <2>2. QED
    BY <1>1, <1>2, <1>4, <1>6, <2>1 DEF CountNeverOverstates, TypeOK
<1>20. UsageOfATurn'
  BY <1>1, <1>2, <1>4, <1>9 DEF UsageOfATurn, Question, TypeOK
<1>21. QED
  BY <1>5, <1>11, <1>12, <1>13, <1>14, <1>15, <1>16, <1>17, <1>18, <1>19,
     <1>20 DEF MirrorInv

\* Without text the commit only touches usage and dify; with text it appends
\* the answer of a turn whose question is already in the log.
LEMMA PersistCommitInv ==
    ASSUME MirrorInv, NEW t \in Turn, PersistCommit(t)
    PROVE  MirrorInv'
<1> USE MirrorAssumption
<1> DEFINE d == at[t]
           n == Len(log[d])
<1>1. /\ TypeOK /\ Located /\ RowsOfTurns /\ SnapshotsAreOld /\ Ownership
      /\ QuestionOnRecord /\ AnswersFollowQuestions /\ DoneMeansMirrored
      /\ OwnRowsOnly /\ CountNeverOverstates /\ UsageOfATurn
  BY DEF MirrorInv
<1>2. /\ d \in Conv /\ pc[t] = "writing" /\ log[d] \in Seq(Message)
      /\ n \in Nat /\ text[t] \in Nat
  <2>1. pc[t] = "writing" /\ d \in Conv
    BY <1>1 DEF PersistCommit, Located, Asked, Phase
  <2>2. text[t] \in Nat
    BY <1>1, MirrorAssumption DEF TypeOK
  <2>3. QED
    BY <1>1, <2>1, <2>2 DEF TypeOK
<1>3. Answer(t) \in Message
  BY <1>2 DEF Answer, Message
<1>4. /\ UNCHANGED <<owner, seatOf, at, snapCount, snapDify,
                     text, thread, used, terminal>>
      /\ pc' = [pc EXCEPT ![t] = "saved"]
      /\ usage' = IF used[t] THEN [usage EXCEPT ![d] = t] ELSE usage
      /\ dify' = IF thread[t] # NONE /\ snapDify[t] = NONE
                 THEN [dify EXCEPT ![d] = thread[t]] ELSE dify
      /\ text[t] > 0 =>
            /\ log' = [log EXCEPT ![d] = Append(log[d], Answer(t))]
            /\ count' = [count EXCEPT ![d] = snapCount[t] + 1]
      /\ ~(text[t] > 0) => log' = log /\ count' = count
  BY DEF PersistCommit, reqVars, streamVars
<1>5. TypeOK'
  <2>1. Append(log[d], Answer(t)) \in Seq(Message)
    BY <1>2, <1>3, AppendRow
  <2>2. log' \in [Conv -> Seq(Message)]
    <3>1. CASE text[t] > 0
      BY <1>1, <1>4, <2>1, <3>1 DEF TypeOK
    <3>2. CASE ~(text[t] > 0)
      BY <1>1, <1>4, <3>2 DEF TypeOK
    <3>3. QED
      BY <3>1, <3>2
  <2>3. count' \in [Conv -> Nat]
    <3>1. CASE text[t] > 0
      <4>1. snapCount[t] + 1 \in Nat
        BY <1>1 DEF TypeOK
      <4>2. QED
        BY <1>1, <1>4, <3>1, <4>1 DEF TypeOK
    <3>2. CASE ~(text[t] > 0)
      BY <1>1, <1>4, <3>2 DEF TypeOK
    <3>3. QED
      BY <3>1, <3>2
  <2>4. usage' \in [Conv -> Turn \cup {NONE}]
        /\ dify' \in [Conv -> Turn \cup {NONE}]
    BY <1>1, <1>4 DEF TypeOK
  <2>5. pc' \in [Turn -> Phase]
    BY <1>1, <1>4 DEF TypeOK, Phase
  <2>6. QED
    BY <1>1, <1>4, <2>2, <2>3, <2>4, <2>5 DEF TypeOK
\* The rows after the step.
<1>6. /\ \A c \in Conv \ {d} : log'[c] = log[c]
      /\ \A c \in Conv : Len(log[c]) \in Nat /\ Len(log'[c]) \in Nat
                         /\ Len(log[c]) <= Len(log'[c])
      /\ \A c \in Conv : DOMAIN log[c] = 1..Len(log[c])
                         /\ DOMAIN log'[c] = 1..Len(log'[c])
      /\ text[t] > 0 => /\ Len(log'[d]) = n + 1
                        /\ \A i \in 1..n : log'[d][i] = log[d][i]
                        /\ log'[d][n + 1] = Answer(t)
      /\ ~(text[t] > 0) => log' = log
  <2>1. \A c \in Conv : /\ log[c] \in Seq(Message) /\ log'[c] \in Seq(Message)
                        /\ Len(log[c]) \in Nat /\ Len(log'[c]) \in Nat
                        /\ DOMAIN log[c] = 1..Len(log[c])
                        /\ DOMAIN log'[c] = 1..Len(log'[c])
    BY <1>1, <1>5 DEF TypeOK
  <2>2. CASE text[t] > 0
    <3>1. /\ log'[d] = Append(log[d], Answer(t))
          /\ \A c \in Conv \ {d} : log'[c] = log[c]
      BY <1>1, <1>2, <1>4, <2>2 DEF TypeOK
    <3>2. /\ Len(log'[d]) = n + 1
          /\ \A i \in 1..n : log'[d][i] = log[d][i]
          /\ log'[d][n + 1] = Answer(t)
      BY <1>2, <1>3, <3>1, AppendRow
    <3>3. \A c \in Conv : Len(log[c]) <= Len(log'[c])
      BY <1>2, <2>1, <3>1, <3>2
    <3>4. QED
      BY <2>1, <2>2, <3>1, <3>2, <3>3
  <2>3. CASE ~(text[t] > 0)
    BY <1>4, <2>1, <2>3
  <2>4. QED
    BY <2>2, <2>3
<1>7. \A c \in Conv : \A i \in 1..Len(log'[c]) :
         \/ i \in 1..Len(log[c]) /\ log'[c][i] = log[c][i]
         \/ c = d /\ i = n + 1 /\ log'[c][i] = Answer(t) /\ text[t] > 0
  <2>1. CASE text[t] > 0
    BY <1>2, <1>6, <2>1
  <2>2. CASE ~(text[t] > 0)
    BY <1>6, <2>2
  <2>3. QED
    BY <2>1, <2>2
<1>8. \A c \in Conv : \A i \in 1..Len(log[c]) :
         /\ i \in 1..Len(log'[c]) /\ log'[c][i] = log[c][i]
         /\ log[c][i].turn \in Turn
         /\ log[c][i].role \in {"user", "assistant"}
         /\ log[c][i].turn = t => log[c][i].role = "user"
  <2> SUFFICES ASSUME NEW c \in Conv, NEW i \in 1..Len(log[c])
               PROVE  /\ i \in 1..Len(log'[c]) /\ log'[c][i] = log[c][i]
                      /\ log[c][i].turn \in Turn
                      /\ log[c][i].role \in {"user", "assistant"}
                      /\ log[c][i].turn = t => log[c][i].role = "user"
    OBVIOUS
  <2>1. i \in 1..Len(log'[c]) /\ log'[c][i] = log[c][i]
    BY <1>2, <1>4, <1>6
  <2>2. log[c][i] \in Message
    BY <1>1, <1>6 DEF TypeOK
  <2>3. log[c][i].role = "assistant" => pc[log[c][i].turn] \in {"saved", "done"}
    BY <1>1 DEF RowsOfTurns
  <2>4. QED
    BY <2>1, <2>2, <2>3, <1>2 DEF Message
<1>9. \A c \in Conv : Rows(c) \subseteq Rows(c)'
  BY <1>6, <1>8 DEF Rows
<1>10. text[t] > 0 => Answer(t) \in Rows(d)'
  BY <1>2, <1>4, <1>6 DEF Rows, Answer
<1>11. Located'
  BY <1>1, <1>2, <1>4 DEF Located, TypeOK, Asked, Phase
<1>12. RowsOfTurns'
  <2> SUFFICES ASSUME NEW c \in Conv, NEW i \in 1..Len(log'[c])
               PROVE  LET m == log'[c][i] IN
                      /\ at[m.turn] = c
                      /\ m.role = "user" =>
                            m = Question(m.turn) /\ pc'[m.turn] \in Asked
                      /\ m.role = "assistant" =>
                            /\ m = Answer(m.turn)
                            /\ pc'[m.turn] \in {"saved", "done"}
    <3>1. at' = at /\ text' = text
      BY <1>4
    <3>2. \A u : Answer(u)' = Answer(u)
      BY <3>1 DEF Answer
    <3>3. QED
      BY <3>1, <3>2, Zenon DEF RowsOfTurns, Question
  <2>1. CASE i \in 1..Len(log[c]) /\ log'[c][i] = log[c][i]
    <3>1. pc'[log[c][i].turn] \in {pc[log[c][i].turn], "saved"}
          /\ log[c][i].turn \in Turn
      BY <1>1, <1>4, <1>8, <2>1 DEF TypeOK
    <3>2. QED
      BY <1>1, <2>1, <3>1 DEF RowsOfTurns, Asked, Phase
  <2>2. CASE c = d /\ log'[c][i] = Answer(t)
    <3>1. Answer(t).turn = t /\ Answer(t).role = "assistant"
      BY DEF Answer
    <3>2. pc'[t] = "saved"
      BY <1>1, <1>4 DEF TypeOK
    <3>3. QED
      BY <2>2, <3>1, <3>2
  <2>3. QED
    BY <1>7, <2>1, <2>2
<1>13. SnapshotsAreOld'
  <2> SUFFICES ASSUME NEW u \in Turn
               PROVE  /\ pc'[u] = "idle" => snapCount[u] = 0
                      /\ pc'[u] \in {"loaded", "writing"} =>
                            snapCount[u] <= Len(log'[at[u]])
    BY <1>4 DEF SnapshotsAreOld
  <2>1. CASE u = t
    BY <2>1, <1>1, <1>4 DEF TypeOK
  <2>2. CASE u # t /\ pc[u] \notin {"loaded", "writing"}
    BY <2>2, <1>1, <1>4 DEF TypeOK, SnapshotsAreOld
  <2>3. CASE u # t /\ pc[u] \in {"loaded", "writing"}
    <3>1. at[u] \in Conv /\ snapCount[u] <= Len(log[at[u]])
      BY <1>1, <2>3 DEF Located, SnapshotsAreOld, Asked, Phase
    <3>2. Len(log[at[u]]) <= Len(log'[at[u]])
      BY <1>6, <3>1
    <3>3. QED
      BY <1>1, <1>4, <1>6, <2>3, <3>1, <3>2 DEF TypeOK
  <2>4. QED
    BY <2>1, <2>2, <2>3
<1>14. owner[d] # NONE
  BY <1>1, <1>2, <1>6 DEF Ownership, QuestionOnRecord, Rows
<1>15. Ownership'
  <2>1. \A c \in Conv : owner'[c] = NONE => log'[c] = <<>>
    BY <1>1, <1>4, <1>6, <1>14 DEF Ownership
  <2>2. QED
    BY <1>1, <1>2, <1>4, <2>1 DEF Ownership, TypeOK, Asked, Phase
<1>16. QuestionOnRecord'
  BY <1>1, <1>2, <1>4, <1>9, <1>11
     DEF QuestionOnRecord, Question, TypeOK, Located, Asked, Phase
<1>17. AnswersFollowQuestions'
  <2> SUFFICES ASSUME NEW c \in Conv, NEW i \in 1..Len(log'[c])
               PROVE  /\ \A j \in 1..Len(log'[c]) :
                            /\ log'[c][j].turn = log'[c][i].turn
                            /\ log'[c][j].role = log'[c][i].role
                            => j = i
                      /\ log'[c][i].role = "assistant" =>
                            \E j \in 1..(i - 1) :
                               log'[c][j] = Question(log'[c][i].turn)
    BY DEF AnswersFollowQuestions, Question
  <2>1. Answer(t).turn = t /\ Answer(t).role = "assistant"
    BY DEF Answer
  <2>2. CASE i \in 1..Len(log[c]) /\ log'[c][i] = log[c][i]
    <3>1. \A j \in 1..Len(log[c]) : log[c][j].turn = log[c][i].turn
             /\ log[c][j].role = log[c][i].role => j = i
      BY <1>1, <2>2 DEF AnswersFollowQuestions
    <3>2. log[c][i].role = "assistant" =>
             \E j \in 1..(i - 1) : log[c][j] = Question(log[c][i].turn)
      BY <1>1, <2>2 DEF AnswersFollowQuestions
    <3>3. log[c][i].turn = t => log[c][i].role = "user"
      BY <1>8, <2>2
    <3>4. \A j \in 1..(i - 1) : j \in 1..Len(log[c])
      BY <1>6, <2>2
    <3>5. \A j \in 1..(i - 1) : log'[c][j] = log[c][j]
      BY <1>8, <3>4
    <3>6. \A j \in 1..Len(log'[c]) :
             \/ j \in 1..Len(log[c]) /\ log'[c][j] = log[c][j]
             \/ log'[c][j].turn = t /\ log'[c][j].role = "assistant"
      BY <1>7, <2>1
    <3>7. QED
      BY <2>2, <3>1, <3>2, <3>3, <3>5, <3>6
  <2>3. CASE c = d /\ i = n + 1 /\ log'[c][i] = Answer(t) /\ text[t] > 0
    <3>1. \A j \in 1..Len(log'[c]) :
             log'[c][j].turn = t /\ log'[c][j].role = "assistant" => j = i
      BY <1>7, <1>8, <2>3
    <3>2. Question(t) \in Rows(d)
      BY <1>1, <1>2 DEF QuestionOnRecord
    <3>3. PICK j \in 1..n : log[d][j] = Question(t)
      BY <3>2, <1>2, <1>6 DEF Rows
    <3>4. j \in 1..(i - 1) /\ log'[c][j] = Question(t)
      BY <1>2, <1>8, <2>3, <3>3
    <3>5. QED
      BY <2>1, <2>3, <3>1, <3>4
  <2>4. QED
    BY <1>7, <2>2, <2>3
<1>18. DoneMeansMirrored'
  <2> SUFFICES ASSUME NEW u \in Turn, pc'[u] \in {"saved", "done"}, text[u] > 0
               PROVE  (Answer(u) \in Rows(at[u]))'
    BY <1>4 DEF DoneMeansMirrored
  <2>1. CASE u = t
    BY <1>10, <1>4, <2>1 DEF Answer, Rows
  <2>2. CASE u # t
    <3>1. pc[u] \in {"saved", "done"} /\ at[u] \in Conv
      BY <1>1, <1>4, <2>2 DEF TypeOK, Located, Asked, Phase
    <3>2. Answer(u) \in Rows(at[u])
      BY <1>1, <3>1 DEF DoneMeansMirrored
    <3>3. Answer(u)' = Answer(u) /\ at'[u] = at[u]
      BY <1>4 DEF Answer
    <3>4. Answer(u) \in {log'[at[u]][i] : i \in DOMAIN log'[at[u]]}
      BY <1>9, <3>1, <3>2 DEF Rows
    <3>5. QED
      BY <3>3, <3>4 DEF Rows
  <2>3. QED
    BY <2>1, <2>2
<1>19. OwnRowsOnly'
  <2> SUFFICES ASSUME NEW c \in Conv, NEW i \in 1..Len(log'[c])
               PROVE  seatOf[log'[c][i].turn] = owner[c]
    BY <1>4 DEF OwnRowsOnly
  <2>1. CASE i \in 1..Len(log[c]) /\ log'[c][i] = log[c][i]
    BY <1>1, <2>1 DEF OwnRowsOnly
  <2>2. CASE c = d /\ log'[c][i] = Answer(t)
    BY <1>1, <1>2, <1>14, <2>2 DEF Ownership, Asked, Phase, Answer
  <2>3. QED
    BY <1>7, <2>1, <2>2
<1>20. CountNeverOverstates'
  <2>1. snapCount[t] <= Len(log[d]) /\ snapCount[t] \in Nat
    BY <1>1, <1>2 DEF SnapshotsAreOld, TypeOK
  <2>2. QED
    BY <1>1, <1>2, <1>4, <1>6, <2>1 DEF CountNeverOverstates, TypeOK
<1>21. UsageOfATurn'
  <2>1. ASSUME NEW c \in Conv, usage'[c] # NONE
        PROVE  used[usage'[c]] /\ Question(usage'[c]) \in Rows(c)'
    <3>1. CASE usage'[c] = usage[c]
      BY <1>1, <1>9, <2>1, <3>1 DEF UsageOfATurn
    <3>2. CASE usage'[c] = t /\ used[t] /\ c = d
      BY <1>1, <1>2, <1>9, <3>2 DEF QuestionOnRecord
    <3>3. QED
      BY <1>1, <1>4, <3>1, <3>2 DEF TypeOK
  <2>2. ASSUME NEW u \in Turn, pc'[u] \in {"saved", "done"}, used[u]
        PROVE  usage'[at[u]] # NONE
    <3>1. CASE u = t
      BY <1>1, <1>2, <1>4, <2>2, <3>1 DEF TypeOK
    <3>2. CASE u # t
      BY <1>1, <1>2, <1>4, <2>2, <3>2
         DEF UsageOfATurn, TypeOK, Located, Asked, Phase
    <3>3. QED
      BY <3>1, <3>2
  <2>3. QED
    BY <1>4, <2>1, <2>2 DEF UsageOfATurn, Question
<1>22. QED
  BY <1>5, <1>11, <1>12, <1>13, <1>15, <1>16, <1>17, <1>18, <1>19, <1>20,
     <1>21 DEF MirrorInv

-------------------------------------------------------------------------------
\* A crash only closes turns: it neither writes nor forgets a row.
LEMMA CrashInv == ASSUME MirrorInv, Crash PROVE MirrorInv'
<1> USE MirrorAssumption
<1>1. /\ TypeOK /\ Located /\ RowsOfTurns /\ SnapshotsAreOld /\ Ownership
      /\ QuestionOnRecord /\ AnswersFollowQuestions /\ DoneMeansMirrored
      /\ OwnRowsOnly /\ CountNeverOverstates /\ UsageOfATurn
  BY DEF MirrorInv
<1>2. UNCHANGED <<owner, count, dify, usage, log, seatOf, at, snapCount,
                  snapDify, text, thread, used, terminal>>
  BY DEF Crash, dbVars, reqVars, streamVars
<1>3. /\ pc' \in [Turn -> Phase]
      /\ \A u \in Turn :
            /\ pc'[u] \in Asked <=> pc[u] \in Asked
            /\ pc'[u] \in {"saved", "done"} <=> pc[u] \in {"saved", "done"}
            /\ pc'[u] \in {"idle", "loaded", "writing"} => pc'[u] = pc[u]
  BY <1>1 DEF Crash, TypeOK, Asked, Phase, InFlight
<1>4. TypeOK'
  BY <1>1, <1>2, <1>3 DEF TypeOK
<1>5. Located' /\ SnapshotsAreOld'
  BY <1>1, <1>2, <1>3 DEF Located, SnapshotsAreOld
<1>6. RowsOfTurns'
  <2> SUFFICES ASSUME NEW c \in Conv, NEW i \in 1..Len(log[c])
               PROVE  LET m == log[c][i] IN
                      /\ at[m.turn] = c
                      /\ m.role = "user" =>
                            m = Question(m.turn) /\ pc'[m.turn] \in Asked
                      /\ m.role = "assistant" =>
                            /\ m = Answer(m.turn)
                            /\ pc'[m.turn] \in {"saved", "done"}
    <3>1. \A u : Answer(u)' = Answer(u)
      BY <1>2 DEF Answer
    <3>2. log' = log /\ at' = at
      BY <1>2
    <3>3. QED
      BY <3>1, <3>2 DEF RowsOfTurns, Question
  <2>1. log[c][i].turn \in Turn
    <3>1. log[c] \in Seq(Message)
      BY <1>1 DEF TypeOK
    <3>2. log[c][i] \in Message
      BY <3>1
    <3>3. QED
      BY <3>2 DEF Message
  <2>2. QED
    BY <1>1, <1>3, <2>1 DEF RowsOfTurns
<1>7. Ownership' /\ AnswersFollowQuestions' /\ OwnRowsOnly'
      /\ CountNeverOverstates'
  <2>1. Ownership'
    BY <1>1, <1>2, <1>3 DEF Ownership
  <2>2. AnswersFollowQuestions'
    BY <1>1, <1>2 DEF AnswersFollowQuestions, Question
  <2>3. OwnRowsOnly' /\ CountNeverOverstates'
    BY <1>1, <1>2 DEF OwnRowsOnly, CountNeverOverstates
  <2>4. QED
    BY <2>1, <2>2, <2>3
<1>8. QuestionOnRecord'
  <2>1. \A u \in Turn : pc[u] \in Asked => Question(u) \in Rows(at[u])
    BY <1>1 DEF QuestionOnRecord, Asked
  <2>2. ASSUME NEW u \in Turn, pc'[u] \in Asked
        PROVE  (Question(u) \in Rows(at[u]))'
    BY <1>2, <1>3, <2>1, <2>2 DEF Rows, Question
  <2>3. \A u \in Turn : pc'[u] \notin {"idle", "loaded", "refused"} =>
           pc'[u] \in Asked
    BY <1>3 DEF Asked
  <2>4. QED
    BY <2>2, <2>3 DEF QuestionOnRecord, Question
<1>9. DoneMeansMirrored' /\ UsageOfATurn'
  BY <1>1, <1>2, <1>3
     DEF DoneMeansMirrored, UsageOfATurn, Answer, Question, Rows
<1>10. QED
  BY <1>4, <1>5, <1>6, <1>7, <1>8, <1>9 DEF MirrorInv

LEMMA StutterInv == ASSUME MirrorInv, UNCHANGED vars PROVE MirrorInv'
<1> USE DEF vars, dbVars, reqVars, streamVars
<1>1. (TypeOK /\ Located /\ SnapshotsAreOld /\ Ownership)'
  BY DEF MirrorInv, TypeOK, Located, SnapshotsAreOld, Ownership
<1>2. (RowsOfTurns /\ AnswersFollowQuestions /\ OwnRowsOnly)'
  BY DEF MirrorInv, RowsOfTurns, AnswersFollowQuestions, OwnRowsOnly,
         Question, Answer
<1>3. (QuestionOnRecord /\ DoneMeansMirrored /\ CountNeverOverstates
       /\ UsageOfATurn)'
  BY DEF MirrorInv, QuestionOnRecord, DoneMeansMirrored, CountNeverOverstates,
         UsageOfATurn, Question, Answer, Rows
<1>4. QED
  BY <1>1, <1>2, <1>3 DEF MirrorInv

-------------------------------------------------------------------------------
(* The theorems.                                                           *)

\* The inductive invariant holds in every reachable state, whatever turns
\* overlap, whoever disconnects and whenever the process dies.
THEOREM MirrorInvariance == Spec => []MirrorInv
<1>1. MirrorInv /\ [Next]_vars => MirrorInv'
  <2> SUFFICES ASSUME MirrorInv, [Next]_vars PROVE MirrorInv'
    OBVIOUS
  <2>1. CASE Crash
    BY <2>1, CrashInv
  <2>2. ASSUME NEW t \in Turn, Step(t) PROVE MirrorInv'
    <3>1. Quiet(t) \/ CommitQuestion(t) \/ PersistCommit(t)
      BY <2>2 DEF Step, Quiet
    <3>2. QED
      BY <3>1, QuietInv, CommitQuestionInv, PersistCommitInv
  <2>3. CASE UNCHANGED vars
    BY <2>3, StutterInv
  <2>4. QED
    BY <2>1, <2>2, <2>3 DEF Next
<1>2. QED
  BY InitInv, <1>1, PTL DEF Spec

\* Type correctness of the mirror.
THEOREM MirrorTypes == Spec => []TypeOK
<1>1. MirrorInv => TypeOK
  BY DEF MirrorInv
<1>2. QED
  BY MirrorInvariance, <1>1, PTL

\* The question of every turn that got as far as its stream is on record.
THEOREM QuestionsAreKept == Spec => []QuestionOnRecord
<1>1. MirrorInv => QuestionOnRecord
  BY DEF MirrorInv
<1>2. QED
  BY MirrorInvariance, <1>1, PTL

\* At most one answer per turn, after its question, in its conversation.
THEOREM AnswersAreMirroredOnce == Spec => []AnswersFollowQuestions
<1>1. MirrorInv => AnswersFollowQuestions
  BY DEF MirrorInv
<1>2. QED
  BY MirrorInvariance, <1>1, PTL

\* Both together: the log is a dialogue that can be read back.
THEOREM LogReadsAsDialogue == Spec => []LogIsDialogue
<1>1. MirrorInv => LogIsDialogue
  BY DEF MirrorInv, LogIsDialogue
<1>2. QED
  BY MirrorInvariance, <1>1, PTL

\* The browser never hears agent_done before the whole answer is mirrored.
THEOREM DoneFollowsMirror == Spec => []DoneMeansMirrored
<1>1. MirrorInv => DoneMeansMirrored
  BY DEF MirrorInv
<1>2. QED
  BY MirrorInvariance, <1>1, PTL

\* No conversation holds a row of another user or another app.
THEOREM ConversationsAreSeparate == Spec => []OwnRowsOnly
<1>1. MirrorInv => OwnRowsOnly
  BY DEF MirrorInv
<1>2. QED
  BY MirrorInvariance, <1>1, PTL

\* Lost updates of message_count only ever lose: it never overstates.
THEOREM CountIsLowerBound == Spec => []CountNeverOverstates
<1>1. MirrorInv => CountNeverOverstates
  BY DEF MirrorInv
<1>2. QED
  BY MirrorInvariance, <1>1, PTL

\* The stored usage was reported to some turn whose question is in the
\* conversation, if turns overlapped possibly not the last one mirrored; and
\* there is one once a turn that was told of it has been mirrored.
THEOREM UsageIsReported == Spec => []UsageOfATurn
<1>1. MirrorInv => UsageOfATurn
  BY DEF MirrorInv
<1>2. QED
  BY MirrorInvariance, <1>1, PTL

-------------------------------------------------------------------------------
\* What a turn has read of an uncrossed conversation is what is there now,
\* and the Dify conversation it is answered in is the one it has read.
ReadsAreCurrent ==
    \A t \in Turn : at[t] \notin crossed =>
        /\ pc[t] \in {"loaded", "writing"} => snapCount[t] = count[at[t]]
        /\ pc[t] \in {"loaded", "asked", "streaming", "writing"} =>
              snapDify[t] = dify[at[t]]
        /\ pc[t] \in {"streaming", "saving", "writing"} /\ thread[t] # NONE =>
              thread[t] = IF dify[at[t]] = NONE THEN t ELSE dify[at[t]]

\* Before a row is committed it names no Dify conversation, and before a turn
\* is answered it knows of none.
NothingYet ==
    /\ \A c \in Conv : owner[c] = NONE => dify[c] = NONE
    /\ \A t \in Turn :
          /\ pc[t] = "idle" => snapDify[t] = NONE
          /\ pc[t] \in {"idle", "loaded", "asked"} => thread[t] = NONE

Recorded == \A c \in Conv : Meet(c) => c \in crossed

SerialInv ==
    /\ Recorded
    /\ NothingYet
    /\ ReadsAreCurrent
    /\ CountMatchesMessages
    /\ OneThread

-------------------------------------------------------------------------------
LEMMA SerialInitInv == SerialInit => SerialInv
<1> SUFFICES ASSUME SerialInit PROVE SerialInv
  OBVIOUS
<1>1. \A c \in Conv : count[c] = Len(log[c])
  BY DEF SerialInit, Init
<1>2. QED
  BY <1>1 DEF SerialInit, Init, SerialInv, Recorded, Meet, InFlight, NothingYet,
              ReadsAreCurrent, CountMatchesMessages, OneThread

\* A step of one turn does not change what another turn has read of an
\* uncrossed conversation.
LEMMA OthersStay ==
    ASSUME MirrorInv, SerialInv, NEW t \in Turn, Step(t),
           NEW u \in Turn \ {t}
    PROVE  /\ pc'[u] = pc[u] /\ at'[u] = at[u] /\ snapCount'[u] = snapCount[u]
           /\ snapDify'[u] = snapDify[u] /\ thread'[u] = thread[u]
           /\ pc[u] \in InFlight /\ at[u] \notin crossed =>
                 count'[at[u]] = count[at[u]] /\ dify'[at[u]] = dify[at[u]]
<1> USE DEF TypeOK, dbVars, reqVars, streamVars
<1>1. TypeOK
  BY DEF MirrorInv
<1>2. ASSUME NEW c \in Conv, LoadConversation(t, c) \/ CreateConversation(t, c)
      PROVE  /\ pc'[u] = pc[u] /\ at'[u] = at[u]
             /\ snapCount'[u] = snapCount[u]
             /\ snapDify'[u] = snapDify[u] /\ thread'[u] = thread[u]
             /\ count' = count /\ dify' = dify
  BY <1>1, <1>2 DEF LoadConversation, CreateConversation
<1>3. ASSUME NEW x \in BOOLEAN, NEW y \in BOOLEAN, NEW z \in BOOLEAN,
             Frame(t, x, y, z)
      PROVE  /\ pc'[u] = pc[u] /\ at'[u] = at[u]
             /\ snapCount'[u] = snapCount[u]
             /\ snapDify'[u] = snapDify[u] /\ thread'[u] = thread[u]
             /\ count' = count /\ dify' = dify
  BY <1>1, <1>3 DEF Frame
<1>4. ASSUME \/ Refuse(t) \/ RollBack(t) \/ OpenStream(t) \/ NeverPulled(t)
             \/ EndStream(t) \/ Disconnect(t) \/ PersistRead(t)
             \/ PersistFail(t) \/ AgentDone(t)
      PROVE  /\ pc'[u] = pc[u] /\ at'[u] = at[u]
             /\ snapCount'[u] = snapCount[u]
             /\ snapDify'[u] = snapDify[u] /\ thread'[u] = thread[u]
             /\ count' = count /\ dify' = dify
  BY <1>1, <1>4 DEF Refuse, RollBack, OpenStream, NeverPulled, EndStream,
                    Disconnect, PersistRead, PersistFail, AgentDone
<1>5. ASSUME CommitQuestion(t) \/ PersistCommit(t)
      PROVE  /\ pc'[u] = pc[u] /\ at'[u] = at[u]
             /\ snapCount'[u] = snapCount[u]
             /\ snapDify'[u] = snapDify[u] /\ thread'[u] = thread[u]
             /\ at[u] # at[t] =>
                   count'[at[u]] = count[at[u]] /\ dify'[at[u]] = dify[at[u]]
  <2>1. CASE CommitQuestion(t)
    BY <1>1, <2>1 DEF CommitQuestion
  <2>2. CASE PersistCommit(t)
    BY <1>1, <2>2 DEF PersistCommit
  <2>3. QED
    BY <1>5, <2>1, <2>2
<1>6. ASSUME CommitQuestion(t) \/ PersistCommit(t),
             pc[u] \in InFlight, at[u] \notin crossed
      PROVE  at[u] # at[t]
  <2>1. pc[t] \in InFlight
    BY <1>6 DEF CommitQuestion, PersistCommit, InFlight
  <2>2. at[u] \in Conv
    BY <1>6 DEF MirrorInv, Located, InFlight, Asked, Phase
  <2>3. at[u] = at[t] => Meet(at[u])
    BY <1>6, <2>1 DEF Meet
  <2>4. QED
    BY <1>6, <2>2, <2>3 DEF SerialInv, Recorded
<1>7. QED
  BY <1>2, <1>3, <1>4, <1>5, <1>6 DEF Step

\* What the steps of turn t do with its conversation, its reads and the two
\* columns: by kind of step.
LEMMA OwnStep ==
    ASSUME MirrorInv, NEW t \in Turn, Step(t)
    PROVE  \/ /\ pc[t] = "idle" /\ pc'[t] = "loaded" /\ at'[t] \in Conv
              /\ UNCHANGED <<owner, count, dify, log, thread>>
              /\ \/ /\ snapCount'[t] = count[at'[t]]
                    /\ snapDify'[t] = dify[at'[t]]
                 \/ /\ owner[at'[t]] = NONE
                    /\ snapCount'[t] = snapCount[t]
                    /\ snapDify'[t] = snapDify[t]
           \/ /\ pc[t] = "loaded" /\ pc'[t] = "asked"
              /\ UNCHANGED <<at, dify, snapCount, snapDify, thread>>
              /\ owner' = [owner EXCEPT ![at[t]] = seatOf[t]]
              /\ count' = [count EXCEPT ![at[t]] = snapCount[t] + 1]
              /\ log' = [log EXCEPT ![at[t]] = Append(@, Question(t))]
           \/ /\ pc[t] = "saving" /\ pc'[t] = "writing"
              /\ UNCHANGED <<at, owner, count, dify, log, thread>>
              /\ snapCount'[t] = count[at[t]] /\ snapDify'[t] = dify[at[t]]
           \/ PersistCommit(t)
           \/ /\ pc[t] = "streaming" /\ pc'[t] = "streaming"
              /\ UNCHANGED <<at, owner, count, dify, log, snapCount, snapDify>>
              /\ thread'[t] \in {thread[t], UpstreamThread(t)}
           \/ /\ UNCHANGED <<at, owner, count, dify, log, snapCount, snapDify,
                             thread>>
              /\ \/ pc[t] = "asked" /\ pc'[t] \in {"streaming", "unread"}
                 \/ pc[t] = "streaming" /\ pc'[t] = "saving"
                 \/ pc[t] = "saved" /\ pc'[t] = "done"
                 \/ pc'[t] \in {"refused", "failed"}
<1> USE DEF TypeOK, dbVars, reqVars, streamVars
<1>1. TypeOK
  BY DEF MirrorInv
<1>2. CASE \E c \in Conv : LoadConversation(t, c) \/ CreateConversation(t, c)
  BY <1>1, <1>2 DEF LoadConversation, CreateConversation
<1>3. CASE \E x, y, z \in BOOLEAN : Frame(t, x, y, z)
  BY <1>1, <1>3 DEF Frame
<1>4. CASE CommitQuestion(t)
  BY <1>1, <1>4 DEF CommitQuestion
<1>5. CASE PersistRead(t)
  BY <1>1, <1>5 DEF PersistRead
<1>6. CASE \/ Refuse(t) \/ RollBack(t) \/ OpenStream(t) \/ NeverPulled(t)
           \/ EndStream(t) \/ Disconnect(t) \/ PersistFail(t) \/ AgentDone(t)
  BY <1>1, <1>6 DEF Refuse, RollBack, OpenStream, NeverPulled, EndStream,
                    Disconnect, PersistFail, AgentDone
<1>7. QED
  BY <1>2, <1>3, <1>4, <1>5, <1>6 DEF Step

\* What MirrorInv says of the conversation of a turn that writes.
LEMMA Writes ==
    ASSUME MirrorInv, NEW t \in Turn, Step(t)
    PROVE  /\ pc[t] \in {"loaded", "writing"} =>
                 /\ at[t] \in Conv /\ Len(log[at[t]]) \in Nat
                 /\ Len(Append(log[at[t]], Question(t))) = Len(log[at[t]]) + 1
                 /\ Len(Append(log[at[t]], Answer(t))) = Len(log[at[t]]) + 1
           /\ pc[t] = "writing" => owner[at[t]] # NONE
           /\ pc[t] = "idle" => snapCount[t] = 0
           /\ \A c \in Conv : owner[c] = NONE => count[c] = 0
<1>1. /\ TypeOK /\ Located /\ SnapshotsAreOld /\ Ownership
      /\ QuestionOnRecord /\ CountNeverOverstates
  BY DEF MirrorInv
<1>2. pc[t] \in {"loaded", "writing"} =>
          at[t] \in Conv /\ log[at[t]] \in Seq(Message)
  BY <1>1 DEF Located, TypeOK, Asked, Phase
<1>3. Question(t) \in Message /\ Answer(t) \in Message
  <2>1. text[t] \in Nat
    BY <1>1, MirrorAssumption DEF TypeOK
  <2>2. QED
    BY <2>1 DEF Question, Answer, Message
<1>4. pc[t] = "writing" => owner[at[t]] # NONE
  <2>1. pc[t] = "writing" => log[at[t]] # <<>>
    BY <1>1 DEF QuestionOnRecord, Rows
  <2>2. QED
    BY <1>1, <1>2, <2>1 DEF Ownership
<1>5. \A c \in Conv : owner[c] = NONE => count[c] = 0
  <2> SUFFICES ASSUME NEW c \in Conv, owner[c] = NONE PROVE count[c] = 0
    OBVIOUS
  <2>1. log[c] = <<>> /\ count[c] <= Len(log[c]) /\ count[c] \in Nat
    BY <1>1 DEF Ownership, CountNeverOverstates, TypeOK
  <2>2. QED
    BY <2>1
<1>6. pc[t] = "idle" => snapCount[t] = 0
  BY <1>1 DEF SnapshotsAreOld
<1>7. pc[t] \in {"loaded", "writing"} =>
          /\ Len(log[at[t]]) \in Nat
          /\ Len(Append(log[at[t]], Question(t))) = Len(log[at[t]]) + 1
          /\ Len(Append(log[at[t]], Answer(t))) = Len(log[at[t]]) + 1
  BY <1>2, <1>3, AppendRow
<1>8. QED
  BY <1>2, <1>4, <1>5, <1>6, <1>7

LEMMA SerialStepInv ==
    ASSUME MirrorInv, SerialInv, NEW t \in Turn, Step(t),
           crossed' = crossed \cup {c \in Conv : Meet(c)'}
    PROVE  SerialInv'
<1>1. /\ TypeOK /\ Recorded /\ NothingYet /\ ReadsAreCurrent
      /\ CountMatchesMessages /\ OneThread
  BY DEF MirrorInv, SerialInv
<1>2. crossed \subseteq crossed' /\ Recorded'
  BY DEF Recorded, Meet, InFlight
<1>3. NothingYet'
  <2>1. \A c \in Conv : owner'[c] = NONE => owner[c] = NONE /\ dify'[c] = NONE
    <3>1. CASE PersistCommit(t)
      BY <1>1, <3>1, Writes DEF PersistCommit, NothingYet, TypeOK
    <3>2. CASE ~PersistCommit(t)
      <4>1. /\ dify' = dify
            /\ \/ owner' = owner
               \/ owner' = [owner EXCEPT ![at[t]] = seatOf[t]]
        BY <3>2, OwnStep
      <4>2. seatOf[t] # NONE
        BY <1>1, MirrorAssumption DEF TypeOK
      <4>3. QED
        BY <1>1, <4>1, <4>2 DEF NothingYet, TypeOK
    <3>3. QED
      BY <3>1, <3>2
  <2>2. ASSUME NEW u \in Turn
        PROVE  /\ pc'[u] = "idle" => snapDify'[u] = NONE
               /\ pc'[u] \in {"idle", "loaded", "asked"} => thread'[u] = NONE
    <3>1. CASE u = t
      <4>1. CASE PersistCommit(t)
        BY <1>1, <3>1, <4>1 DEF PersistCommit, TypeOK
      <4>2. CASE ~PersistCommit(t)
        BY <1>1, <3>1, <4>2, OwnStep DEF NothingYet
      <4>3. QED
        BY <4>1, <4>2
    <3>2. CASE u # t
      BY <1>1, <3>2, OthersStay DEF NothingYet
    <3>3. QED
      BY <3>1, <3>2
  <2>3. QED
    BY <2>1, <2>2 DEF NothingYet
<1>4. ReadsAreCurrent'
  <2> SUFFICES ASSUME NEW u \in Turn, at'[u] \notin crossed'
      PROVE  /\ pc'[u] \in {"loaded", "writing"} =>
                   snapCount'[u] = count'[at'[u]]
             /\ pc'[u] \in {"loaded", "asked", "streaming", "writing"} =>
                   snapDify'[u] = dify'[at'[u]]
             /\ pc'[u] \in {"streaming", "saving", "writing"}
                  /\ thread'[u] # NONE =>
                   thread'[u] = IF dify'[at'[u]] = NONE THEN u
                                ELSE dify'[at'[u]]
    BY DEF ReadsAreCurrent
  <2>1. CASE u = t
    <3>1. CASE PersistCommit(t)
      BY <1>1, <2>1, <3>1 DEF PersistCommit, TypeOK
    <3>2. CASE ~PersistCommit(t)
      BY <1>1, <1>2, <2>1, <3>2, OwnStep, Writes
         DEF ReadsAreCurrent, NothingYet, UpstreamThread, PayloadThread
    <3>3. QED
      BY <3>1, <3>2
  <2>2. CASE u # t
    BY <1>1, <1>2, <2>2, OthersStay DEF ReadsAreCurrent, InFlight
  <2>3. QED
    BY <2>1, <2>2
<1>5. CountMatchesMessages'
  <2> SUFFICES ASSUME NEW c \in Conv, c \notin crossed'
               PROVE  count'[c] = Len(log'[c])
    BY DEF CountMatchesMessages
  <2>1. c \notin crossed /\ count[c] = Len(log[c])
    BY <1>1, <1>2 DEF CountMatchesMessages
  <2>2. CASE PersistCommit(t)
    BY <1>1, <2>1, <2>2, Writes DEF PersistCommit, ReadsAreCurrent, TypeOK
  <2>3. CASE ~PersistCommit(t)
    <3>1. CASE count' = count /\ log' = log
      BY <2>1, <3>1
    <3>2. CASE /\ pc[t] = "loaded"
               /\ count' = [count EXCEPT ![at[t]] = snapCount[t] + 1]
               /\ log' = [log EXCEPT ![at[t]] = Append(@, Question(t))]
      <4>1. CASE c = at[t]
        BY <1>1, <2>1, <3>2, <4>1, Writes DEF ReadsAreCurrent, TypeOK
      <4>2. CASE c # at[t]
        BY <1>1, <2>1, <3>2, <4>2 DEF TypeOK
      <4>3. QED
        BY <4>1, <4>2
    <3>3. QED
      BY <2>3, <3>1, <3>2, OwnStep
  <2>4. QED
    BY <2>2, <2>3
<1>6. OneThread'
  <2> SUFFICES ASSUME NEW u \in Turn, pc'[u] \in {"saved", "done"},
                      thread'[u] # NONE, at'[u] \notin crossed'
               PROVE  thread'[u] = dify'[at'[u]]
    BY DEF OneThread
  <2>1. CASE u = t
    <3>1. CASE PersistCommit(t)
      BY <1>1, <1>2, <2>1, <3>1, Writes
         DEF PersistCommit, ReadsAreCurrent, TypeOK, reqVars, streamVars
    <3>2. CASE ~PersistCommit(t)
      BY <1>1, <1>2, <2>1, <3>2, OwnStep DEF OneThread
    <3>3. QED
      BY <3>1, <3>2
  <2>2. CASE u # t
    <3>1. /\ pc[u] \in {"saved", "done"} /\ thread[u] # NONE
          /\ at'[u] = at[u] /\ thread'[u] = thread[u]
          /\ thread[u] = dify[at[u]]
      BY <1>1, <1>2, <2>2, OthersStay DEF OneThread
    <3>2. CASE PersistCommit(t)
      <4>1. at[t] = at[u] => snapDify[t] = dify[at[t]]
        BY <1>1, <1>2, <3>1, <3>2 DEF PersistCommit, ReadsAreCurrent
      <4>2. QED
        BY <1>1, <3>1, <3>2, <4>1, Writes DEF PersistCommit, TypeOK
    <3>3. CASE ~PersistCommit(t)
      BY <3>1, <3>3, OwnStep
    <3>4. QED
      BY <3>2, <3>3
  <2>3. QED
    BY <2>1, <2>2
<1>7. QED
  BY <1>2, <1>3, <1>4, <1>5, <1>6 DEF SerialInv

LEMMA SerialCrashInv ==
    ASSUME TypeOK, SerialInv, Crash,
           crossed' = crossed \cup {c \in Conv : Meet(c)'}
    PROVE  SerialInv'
<1>1. /\ UNCHANGED <<dbVars, reqVars, streamVars>> /\ crossed \subseteq crossed'
      /\ \A t \in Turn :
            /\ pc'[t] \notin InFlight \ {"saving"}
            /\ pc'[t] \in {"idle", "saved", "done"} => pc'[t] = pc[t]
            /\ pc'[t] # "saving"
  BY DEF Crash, TypeOK, Phase, InFlight
<1>2. QED
  BY <1>1 DEF SerialInv, Recorded, Meet, NothingYet, ReadsAreCurrent, InFlight,
              CountMatchesMessages, OneThread, dbVars, reqVars, streamVars

-------------------------------------------------------------------------------
(* The theorems.                                                           *)

\* Recording which conversations were crossed constrains no behaviour.
THEOREM OnlyHistory == SerialSpec => Spec
<1>1. SerialInit => Init
  BY DEF SerialInit
<1>2. [SerialNext]_serialVars => [Next]_vars
  BY DEF SerialNext, serialVars
<1>3. QED
  BY <1>1, <1>2, PTL DEF SerialSpec, Spec

\* The inductive invariant: what a turn has read of an uncrossed conversation
\* is still so, and what was counted and captured there is right.
THEOREM SerialInvariance == SerialSpec => [](MirrorInv /\ SerialInv)
<1>1. MirrorInv /\ SerialInv /\ [SerialNext]_serialVars => SerialInv'
  <2> SUFFICES ASSUME MirrorInv, SerialInv, [SerialNext]_serialVars
               PROVE  SerialInv'
    OBVIOUS
  <2>1. CASE Crash /\ crossed' = crossed \cup {c \in Conv : Meet(c)'}
    BY <2>1, SerialCrashInv DEF MirrorInv
  <2>2. ASSUME NEW t \in Turn, Step(t),
               crossed' = crossed \cup {c \in Conv : Meet(c)'}
        PROVE  SerialInv'
    BY <2>2, SerialStepInv
  <2>3. CASE UNCHANGED serialVars
    BY <2>3 DEF serialVars, vars, dbVars, reqVars, streamVars, SerialInv,
       Recorded, Meet, NothingYet, ReadsAreCurrent, CountMatchesMessages,
       OneThread
  <2>4. QED
    BY <2>1, <2>2, <2>3 DEF SerialNext, Next
<1>2. QED
  BY OnlyHistory, MirrorInvariance, SerialInitInv, <1>1, PTL DEF SerialSpec

\* message_count of a conversation whose turns never overlapped is exact, for
\* any number of turns, failing or dying anywhere.
THEOREM SerialCountIsExact == SerialSpec => []CountMatchesMessages
<1>1. SerialInv => CountMatchesMessages
  BY DEF SerialInv
<1>2. QED
  BY SerialInvariance, <1>1, PTL

\* All its answers come from the one Dify conversation that is stored.
THEOREM SerialThreadIsOne == SerialSpec => []OneThread
<1>1. SerialInv => OneThread
  BY DEF SerialInv
<1>2. QED
  BY SerialInvariance, <1>1, PTL
===============================================================================
