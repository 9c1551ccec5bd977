-------------------------- MODULE ChatStore_proofs --------------------------
(***************************************************************************)
(* Proofs about ChatStore, for any apps, conversations and bounds: types,  *)
(* what is shown of an answer, that the stop button reaches a turn that    *)
(* was sent when no other stream was under way, that its end does not move *)
(* a user who has left it, and that error cards stay.                      *)
(***************************************************************************)
EXTENDS ChatStore, TLAPS

\* The text of a turn: nothing before it is read; while it is read or a timer
\* has been left running, what is shown and what is buffered is what is due,
\* if the message is in a bucket; only the end of the body without agent_done
\* leaves a timer.
Text(t) ==
    /\ phase[t] \in {"unsent", "asking", "refreshing"} =>
          /\ shown[t] = 0 /\ pend[t] = 0 /\ due[t] = 0 /\ ~timer[t]
          /\ status[t] = "streaming"
    /\ phase[t] = "reading" => status[t] # "done"
    /\ pend[t] <= due[t] /\ (pend[t] > 0 => timer[t])
    /\ Present(t) /\ (phase[t] = "reading" \/ timer[t] \/ status[t] = "streaming")
          => shown[t] + pend[t] = due[t]
    /\ phase[t] \in {"unsent", "told"} => ~stopped[t]
    /\ phase[t] = "told" => ~timer[t]
    /\ phase[t] \in {"told", "settled"} =>
          /\ Present(t) /\ status[t] = "done" => shown[t] = due[t]
          /\ status[t] = "done" => ~timer[t]

TextInv == \A t \in Turn : Text(t)

\* The controller is there exactly while the store is streaming, and is that
\* of a turn that runs.
CtlInv ==
    /\ streaming <=> ctl # NONE
    /\ ctl # NONE => phase[ctl] \in Running /\ ~stopped[ctl]

\* The inductive invariant.
StoreInv == TypeOK /\ TextInv /\ CtlInv

\* While a turn that was sent alone runs and is not stopped, the store is
\* busy with it, and no other stream has begun or is still under way.
Idle(t) == phase[t] \in {"unsent", "settled"}
Holds(t) == phase[t] \in Running /\ alone[t] /\ ~stopped[t]
AloneInv ==
    \A t \in Turn : Holds(t) =>
        streaming /\ ctl = t /\ \A u \in Turn \ {t} : Idle(u)

-------------------------------------------------------------------------------
LEMMA InitInv == Init => StoreInv /\ AloneInv
<1> SUFFICES ASSUME Init PROVE StoreInv /\ AloneInv
  OBVIOUS
<1> USE StoreAssumption DEF Init
<1>1. TypeOK
  <2>1. /\ app \in App \cup {NONE} /\ active \in Conv \cup {NONE}
        /\ streaming \in BOOLEAN /\ ctl \in Turn \cup {NONE}
        /\ asked \subseteq Turn
    OBVIOUS
  <2>2. /\ bucket \in [Key -> SUBSET (Turn \X Part)]
        /\ listed \in [App -> SUBSET Conv]
    OBVIOUS
  <2>3. /\ phase \in [Turn -> Phase] /\ seat \in [Turn -> Key]
        /\ appOf \in [Turn -> App \cup {NONE}]
    BY DEF Phase, Key
  <2>4. /\ shown \in [Turn -> 0..MaxText] /\ pend \in [Turn -> 0..MaxText]
        /\ due \in [Turn -> 0..MaxText]
    OBVIOUS
  <2>5. resume \in [app : App \cup {NONE}, conv : Conv \cup {NONE}]
    BY DEF NoResume
  <2>6. QED
    BY <2>1, <2>2, <2>3, <2>4, <2>5 DEF TypeOK
<1>2. TextInv
  BY DEF TextInv, Text
<1>3. CtlInv /\ AloneInv
  BY DEF CtlInv, AloneInv, Holds, Running
<1>4. QED
  BY <1>1, <1>2, <1>3 DEF StoreInv

\* Ids and conversations have their types.
LEMMA ConvType ==
    ASSUME TypeOK, NEW t \in Turn
    PROVE  ConvOf(t) \in Conv
BY StoreAssumption DEF TypeOK, ConvOf, Conv, Key

LEMMA RemoteType ==
    ASSUME TypeOK, NEW a
    PROVE  Remote(a) \subseteq Conv /\ Newest(a) \subseteq Conv
<1>1. \A t \in asked : ConvOf(t) \in Conv
  BY ConvType DEF TypeOK
<1>2. Remote(a) \subseteq Conv
  BY <1>1 DEF Remote, Conv
<1>3. QED
  BY <1>1, <1>2 DEF Newest

LEMMA SummarisedType ==
    ASSUME TypeOK, NEW t \in Turn, NEW id \in Conv \cup {NONE}
    PROVE  Summarised(t, id) \in [App -> SUBSET Conv]
<1>1. CASE id = NONE /\ seat[t] = DRAFT
  BY <1>1 DEF Summarised, TypeOK
<1>2. CASE ~(id = NONE /\ seat[t] = DRAFT)
  <2> DEFINE c == CASE id # NONE -> id
                    [] id = NONE /\ active # NONE -> active
                    [] OTHER -> seat[t]
  <2>1. c \in Conv
    <3>1. CASE id # NONE
      BY <3>1
    <3>2. CASE id = NONE /\ active # NONE
      BY <3>2 DEF TypeOK
    <3>3. CASE id = NONE /\ active = NONE
      BY <1>2, <3>3 DEF TypeOK, Key
    <3>4. QED
      BY <3>1, <3>2, <3>3
  <2>2. Summarised(t, id) = [listed EXCEPT ![appOf[t]] = @ \cup {c}]
    BY <1>2 DEF Summarised
  <2> HIDE DEF c
  <2>3. listed \in [App -> SUBSET Conv]
    BY DEF TypeOK
  <2>4. QED
    BY <2>1, <2>2, <2>3
<1>3. QED
  BY <1>1, <1>2

\* What finish does to the types, and to the store.
LEMMA FinishType ==
    ASSUME TypeOK, NEW t \in Turn, NEW id \in Conv \cup {NONE}, NEW n \in Nat,
           n <= MaxText, Present(t) => n + pend[t] <= MaxText,
           Finish(t, n, id)
    PROVE  /\ listed' \in [App -> SUBSET Conv]
           /\ shown' \in [Turn -> 0..MaxText]
           /\ pend' \in [Turn -> 0..MaxText] /\ timer' \in [Turn -> BOOLEAN]
           /\ streaming' = FALSE /\ ctl' = NONE
<1> USE StoreAssumption
<1>1. listed' \in [App -> SUBSET Conv]
  BY SummarisedType DEF Finish
<1>2. Present(t) => n + pend[t] \in 0..MaxText
  BY DEF TypeOK
<1>3. shown' \in [Turn -> 0..MaxText]
  <2>1. shown' = [shown EXCEPT ![t] = IF Present(t) THEN n + pend[t] ELSE @]
    BY DEF Finish, Show, Rest
  <2>2. shown \in [Turn -> 0..MaxText]
    BY DEF TypeOK
  <2>3. QED
    BY <1>2, <2>1, <2>2
<1>4. pend' \in [Turn -> 0..MaxText] /\ timer' \in [Turn -> BOOLEAN]
  BY DEF Finish, ClearBuffer, TypeOK
<1>5. QED
  BY <1>1, <1>3, <1>4 DEF Finish

\* A turn whose text and phase stay, and whose message at most vanishes.
LEMMA TextStays ==
    ASSUME NEW t \in Turn, Text(t),
           phase'[t] = phase[t], shown'[t] = shown[t], pend'[t] = pend[t],
           due'[t] = due[t], timer'[t] = timer[t], status'[t] = status[t],
           phase[t] \in {"unsent", "told"} => ~stopped'[t],
           Present(t)' => Present(t)
    PROVE  Text(t)'
BY DEF Text

-------------------------------------------------------------------------------
\* The steps that start or end no call and touch no text.
Aside ==
    \/ LoadApps \/ StopStreaming \/ Resuming
    \/ \E a \in App : \/ LoadConversations(a) \/ SetActiveApp(a)
                      \/ \E c \in Conv : ResumeConversation(a, c)

\* They take no message into a bucket.
LEMMA AsidePresent ==
    ASSUME TypeOK, Aside, NEW t \in Turn
    PROVE  Present(t)' => Present(t)
<1>1. CASE UNCHANGED bucket
  BY <1>1 DEF Present
<1>2. CASE ResumeAnswered
  <2>1. bucket' = [bucket EXCEPT ![resume.conv] = {}]
    BY <1>2 DEF ResumeAnswered
  <2>2. bucket \in [Key -> SUBSET (Turn \X Part)]
    BY DEF TypeOK
  <2>3. \A k \in Key : <<t, "assistant">> \in bucket'[k]
            => <<t, "assistant">> \in bucket[k]
    BY <2>1, <2>2
  <2>4. QED
    BY <2>3 DEF Present
<1>3. QED
  BY <1>1, <1>2 DEF Aside, Resuming, LoadApps, StopStreaming, MountChat,
     ListAnswered, ResumeFails, LoadConversations, SetActiveApp,
     ResumeConversation, convVars

\* No text and no phase is touched, and only StopStreaming aborts.
LEMMA AsideFrame ==
    ASSUME Aside
    PROVE  /\ UNCHANGED <<phase, seat, appOf, textVars, asked>>
           /\ StopStreaming \/ UNCHANGED <<stopped, busyVars>>
BY DEF Aside, Resuming, LoadApps, StopStreaming, MountChat, ListAnswered,
   ResumeAnswered, ResumeFails, LoadConversations, SetActiveApp,
   ResumeConversation, callVars, ghostVars, textVars, srvVars, busyVars

LEMMA AsideType ==
    ASSUME TypeOK, Aside
    PROVE  TypeOK'
<1> USE StoreAssumption
<1>1. UNCHANGED <<phase, seat, appOf, textVars, asked>>
  BY AsideFrame
<1>2. /\ phase' \in [Turn -> Phase] /\ seat' \in [Turn -> Key]
      /\ appOf' \in [Turn -> App \cup {NONE}] /\ asked' \subseteq Turn
      /\ status' \in [Turn -> {"streaming", "done", "error"}]
      /\ shown' \in [Turn -> 0..MaxText] /\ pend' \in [Turn -> 0..MaxText]
      /\ timer' \in [Turn -> BOOLEAN] /\ due' \in [Turn -> 0..MaxText]
  BY <1>1 DEF TypeOK, textVars
<1>3. CASE LoadApps
  BY <1>2, <1>3
     DEF LoadApps, TypeOK, busyVars, convVars, callVars, ghostVars, srvVars
<1>4. CASE StopStreaming
  <2>1. stopped' \in [Turn -> BOOLEAN]
    BY <1>4 DEF StopStreaming, TypeOK
  <2>2. QED
    BY <1>2, <1>4, <2>1
       DEF StopStreaming, TypeOK, uiVars, convVars, srvVars, ghostVars
<1>5. ASSUME NEW a \in App, LoadConversations(a) PROVE TypeOK'
  <2>1. listed' \in [App -> SUBSET Conv]
    BY <1>5, RemoteType DEF LoadConversations, TypeOK
  <2>2. QED
    BY <1>2, <1>5, <2>1
       DEF LoadConversations, TypeOK, uiVars, busyVars, callVars, ghostVars,
           srvVars
<1>6. ASSUME NEW a \in App, SetActiveApp(a) PROVE TypeOK'
  <2>1. left' \in [Turn -> BOOLEAN]
    BY <1>6 DEF SetActiveApp, Leave, TypeOK
  <2>2. QED
    BY <1>2, <1>6, <2>1 DEF SetActiveApp, TypeOK, busyVars, convVars, srvVars
<1>7. ASSUME NEW a \in App, NEW c \in Conv, ResumeConversation(a, c)
      PROVE  TypeOK'
  <2>1. left' \in [Turn -> BOOLEAN]
    BY <1>7 DEF ResumeConversation, Leave, TypeOK
  <2>2. QED
    BY <1>2, <1>7, <2>1
       DEF ResumeConversation, TypeOK, busyVars, convVars, srvVars
<1>8. CASE MountChat
  <2>1. resume' \in [app : App \cup {NONE}, conv : Conv \cup {NONE}]
    BY <1>8 DEF MountChat, TypeOK
  <2>2. QED
    BY <1>2, <1>8, <2>1
       DEF MountChat, TypeOK, uiVars, busyVars, convVars, callVars, ghostVars
<1>9. CASE ListAnswered
  <2>1. resume' \in [app : App \cup {NONE}, conv : Conv \cup {NONE}]
    BY <1>9, RemoteType DEF ListAnswered, TypeOK
  <2>2. QED
    BY <1>2, <1>9, <2>1
       DEF ListAnswered, TypeOK, uiVars, busyVars, convVars, callVars,
           ghostVars
<1>10. CASE ResumeAnswered
  <2>1. bucket' \in [Key -> SUBSET (Turn \X Part)]
    BY <1>10 DEF ResumeAnswered, TypeOK
  <2>2. resume' \in [app : App \cup {NONE}, conv : Conv \cup {NONE}]
    BY <1>10 DEF ResumeAnswered, NoResume
  <2>3. app' \in App \cup {NONE} /\ active' \in Conv \cup {NONE}
    BY <1>10 DEF ResumeAnswered, TypeOK
  <2>4. QED
    BY <1>2, <1>10, <2>1, <2>2, <2>3
       DEF ResumeAnswered, TypeOK, busyVars, callVars, ghostVars
<1>11. CASE ResumeFails
  <2>1. resume' \in [app : App \cup {NONE}, conv : Conv \cup {NONE}]
    BY <1>11 DEF ResumeFails, NoResume
  <2>2. QED
    BY <1>2, <1>11, <2>1
       DEF ResumeFails, TypeOK, uiVars, busyVars, convVars, callVars, ghostVars
<1>12. QED
  BY <1>3, <1>4, <1>5, <1>6, <1>7, <1>8, <1>9, <1>10, <1>11
     DEF Aside, Resuming

LEMMA AsideInv ==
    ASSUME StoreInv, Aside
    PROVE  StoreInv'
<1> USE DEF StoreInv
<1>1. UNCHANGED <<phase, textVars>>
  BY AsideFrame
<1>2. ASSUME NEW t \in Turn 
      PROVE  phase[t] \in {"unsent", "told"} => ~stopped'[t]
  <2>1. CASE UNCHANGED stopped
    BY <2>1 DEF TextInv, Text
  <2>2. CASE StopStreaming
    BY <2>2 DEF StopStreaming, TextInv, Text, CtlInv, Running, TypeOK
  <2>3. QED
    BY <2>1, <2>2, AsideFrame
<1>3. TextInv'
  BY <1>1, <1>2, AsidePresent, TextStays DEF TextInv, textVars
<1>4. CtlInv'
  <2>1. CASE UNCHANGED <<stopped, busyVars>>
    BY <1>1, <2>1 DEF CtlInv, busyVars
  <2>2. CASE StopStreaming
    BY <2>2 DEF CtlInv, StopStreaming
  <2>3. QED
    BY <2>1, <2>2, AsideFrame
<1>5. QED
  BY <1>3, <1>4, AsideType

-------------------------------------------------------------------------------
\* A step of turn t, for the other turns.
Apart(t) ==
    \A u \in Turn \ {t} :
        /\ phase'[u] = phase[u] /\ shown'[u] = shown[u] /\ pend'[u] = pend[u]
        /\ due'[u] = due[u] /\ timer'[u] = timer[u] /\ status'[u] = status[u]
        /\ stopped'[u] = stopped[u]
        /\ Present(u)' => Present(u)

LEMMA ApartText ==
    ASSUME TextInv, NEW t \in Turn, Apart(t), Text(t)'
    PROVE  TextInv'
<1>1. ASSUME NEW u \in Turn, u # t PROVE Text(u)'
  <2>1. Text(u)
    BY DEF TextInv
  <2>2. phase[u] \in {"unsent", "told"} => ~stopped'[u]
    BY <1>1, <2>1 DEF Apart, Text
  <2>3. QED
    BY <1>1, <2>1, <2>2, TextStays DEF Apart
<1>2. QED
  BY <1>1 DEF TextInv

\* A question is sent from buckets some messages may have been taken out of.
LEMMA SendInv ==
    ASSUME StoreInv, NEW t \in Turn,
           NEW base \in [Key -> SUBSET (Turn \X Part)], SendOn(t, base),
           \A k \in Key : base[k] \subseteq bucket[k]
    PROVE  StoreInv'
<1> USE StoreAssumption DEF StoreInv
<1> DEFINE k == IF active = NONE THEN DRAFT ELSE active
           pair == {<<t, "user">>, <<t, "assistant">>}
<1>1. k \in Key /\ pair \subseteq Turn \X Part
  BY DEF TypeOK, Key, Part
<1>2. bucket' = [base EXCEPT ![k] = @ \cup pair]
  BY DEF SendOn
<1>3. seat' = [seat EXCEPT ![t] = k]
  BY DEF SendOn
<1>4. phase' = [phase EXCEPT ![t] = "asking"] /\ phase[t] = "unsent"
  BY DEF SendOn
<1>5. TypeOK'
  <2>1. bucket' \in [Key -> SUBSET (Turn \X Part)]
    BY <1>1, <1>2
  <2>2. seat' \in [Turn -> Key]
    BY <1>1, <1>3 DEF TypeOK
  <2>3. phase' \in [Turn -> Phase]
    BY <1>4 DEF TypeOK, Phase
  <2>4. /\ appOf' \in [Turn -> App \cup {NONE}]
        /\ alone' \in [Turn -> BOOLEAN]
    BY DEF SendOn, TypeOK, AllSettled
  <2>5. QED
    BY <2>1, <2>2, <2>3, <2>4 DEF SendOn, TypeOK, uiVars, textVars, srvVars
<1>6. \A u \in Turn \ {t} : Present(u)' => Present(u)
  <2>1. ASSUME NEW u \in Turn, u # t, NEW j \in Key,
               <<u, "assistant">> \in bucket'[j]
        PROVE  <<u, "assistant">> \in bucket[j]
    <3>1. <<u, "assistant">> \notin pair
      BY <2>1
    <3>2. QED
      BY <1>1, <1>2, <2>1, <3>1
  <2>2. QED
    BY <2>1 DEF Present
<1>7. Apart(t)
  BY <1>4, <1>6 DEF Apart, SendOn, TypeOK, textVars
<1>8. Text(t)'
  <2>1. Text(t)
    BY DEF TextInv
  <2>2. QED
    BY <1>4, <2>1 DEF Text, SendOn, TypeOK, textVars
<1>9. CtlInv'
  <2>1. ~stopped[t]
    BY <1>4 DEF TextInv, Text
  <2>2. t # NONE
    BY DEF Conv
  <2>3. phase'[t] = "asking" /\ ~stopped'[t] /\ ctl' = t /\ streaming'
    BY <1>4, <2>1 DEF SendOn, TypeOK
  <2>4. QED
    BY <2>2, <2>3 DEF CtlInv, Running
<1>10. QED
  BY <1>5, <1>7, <1>8, <1>9, ApartText

\* sendMessage and retryLast.
LEMMA SubmitInv ==
    ASSUME StoreInv, NEW t \in Turn, SendMessage(t) \/ RetryLast(t)
    PROVE  StoreInv'
<1>1. CASE SendMessage(t)
  BY <1>1, SendInv DEF SendMessage, StoreInv, TypeOK
<1>2. CASE RetryLast(t)
  <2> DEFINE cards == {m \in bucket[active] : m[2] = "assistant" /\
                                              status[m[1]] = "error"}
             base  == [bucket EXCEPT ![active] = @ \ cards]
  <2>1. bucket \in [Key -> SUBSET (Turn \X Part)]
    BY DEF StoreInv, TypeOK
  <2>2. base \in [Key -> SUBSET (Turn \X Part)]
    BY <2>1
  <2>3. \A k \in Key : base[k] \subseteq bucket[k]
    BY <2>1
  <2>4. CASE SendOn(t, base)
    <3> HIDE DEF base
    <3>1. QED
      BY <2>2, <2>3, <2>4, SendInv
  <2>5. CASE /\ bucket' = base
             /\ UNCHANGED <<uiVars, busyVars, listed, callVars, ghostVars,
                            textVars, srvVars>>
    <3> HIDE DEF base
    <3>1. TypeOK'
      BY <2>2, <2>5 DEF StoreInv, TypeOK, uiVars, busyVars, callVars,
                        ghostVars, textVars, srvVars
    <3>2. ASSUME NEW u \in Turn PROVE Present(u)' => Present(u)
      BY <2>3, <2>5 DEF Present
    <3>3. TextInv'
      <4>1. ASSUME NEW u \in Turn PROVE Text(u)'
        <5>1. Text(u)
          BY DEF StoreInv, TextInv
        <5>2. QED
          BY <2>5, <3>2, <5>1, TextStays
             DEF callVars, ghostVars, textVars, Text
      <4>2. QED
        BY <4>1 DEF TextInv
    <3>4. CtlInv'
      BY <2>5 DEF StoreInv, CtlInv, busyVars, callVars, ghostVars
    <3>5. QED
      BY <3>1, <3>3, <3>4 DEF StoreInv
  <2>6. QED
    BY <1>2, <2>4, <2>5 DEF RetryLast
<1>3. QED
  BY <1>1, <1>2

-------------------------------------------------------------------------------
\* Messages stay where they are when the buckets do.
LEMMA PresentKept ==
    ASSUME UNCHANGED bucket, NEW t \in Turn
    PROVE  Present(t)' = Present(t)
BY DEF Present

\* The request is answered or sent again.
LEMMA RequestInv ==
    ASSUME StoreInv, NEW t \in Turn, Unauthorized(t) \/ Accept(t)
    PROVE  StoreInv'
<1> USE DEF StoreInv
<1>1. /\ phase[t] \in {"asking", "refreshing"}
      /\ \E p \in {"refreshing", "reading"} :
            phase' = [phase EXCEPT ![t] = p]
      /\ UNCHANGED <<uiVars, busyVars, convVars, seat, appOf, stopped,
                     ghostVars, textVars, resume>>
      /\ asked' \subseteq asked \cup {t}
  BY DEF Unauthorized, Accept, Goes, srvVars
<1>2. TypeOK'
  <2>1. phase' \in [Turn -> Phase]
    BY <1>1 DEF TypeOK, Phase
  <2>2. QED
    BY <1>1, <2>1 DEF TypeOK, uiVars, busyVars, convVars, textVars, ghostVars
<1>3. Apart(t)
  BY <1>1, PresentKept DEF Apart, TypeOK, textVars, convVars
<1>4. Text(t)'
  <2>1. Text(t)
    BY DEF TextInv
  <2>2. phase'[t] \in {"refreshing", "reading"}
    BY <1>1 DEF TypeOK
  <2>3. QED
    BY <1>1, <2>1, <2>2 DEF Text, textVars
<1>5. CtlInv'
  BY <1>1 DEF CtlInv, Running, TypeOK, busyVars
<1>6. QED
  BY <1>2, <1>3, <1>4, <1>5, ApartText

\* A piece arrives, or the buffer is shown.
LEMMA PieceInv ==
    ASSUME StoreInv, NEW t \in Turn, Delta(t) \/ Flush(t)
    PROVE  StoreInv'
<1> USE StoreAssumption DEF StoreInv
<1>1. Text(t)
  BY DEF TextInv
<1>2. /\ Delta(t) => phase[t] = "reading"
      /\ Flush(t) => timer[t] /\ phase[t] \in {"reading", "settled"}
                              /\ status[t] # "done"
  BY <1>1 DEF Delta, Flush, Text, TypeOK, Phase
<1>3. UNCHANGED <<uiVars, busyVars, convVars, callVars, ghostVars, status,
                  srvVars>>
  BY DEF Delta, Flush
<1>4. pend[t] <= due[t] /\ (Present(t) => shown[t] + pend[t] <= due[t])
  BY <1>1, <1>2 DEF Text, TypeOK
<1>5. CASE Delta(t)
  <2>1. /\ pend' = [pend EXCEPT ![t] = @ + 1]
        /\ due' = [due EXCEPT ![t] = @ + 1]
        /\ timer' = [timer EXCEPT ![t] = TRUE]
        /\ shown' = shown /\ due[t] < MaxText
    BY <1>5 DEF Delta
  <2>2. /\ pend' \in [Turn -> 0..MaxText] /\ due' \in [Turn -> 0..MaxText]
        /\ timer' \in [Turn -> BOOLEAN]
    BY <1>4, <2>1 DEF TypeOK
  <2>3. TypeOK'
    BY <1>3, <2>1, <2>2
       DEF TypeOK, uiVars, busyVars, convVars, callVars, ghostVars, srvVars
  <2>4. Apart(t)
    BY <1>3, <2>1, PresentKept DEF Apart, TypeOK, convVars, callVars, ghostVars
  <2>5. Text(t)'
    BY <1>1, <1>2, <1>3, <2>1, PresentKept
       DEF Text, TypeOK, convVars, callVars, ghostVars
  <2>6. CtlInv'
    BY <1>3 DEF CtlInv, busyVars, callVars, ghostVars
  <2>7. QED
    BY <2>3, <2>4, <2>5, <2>6, ApartText
<1>6. CASE Flush(t)
  <2>1. /\ shown' = [shown EXCEPT ![t] = IF Present(t) THEN shown[t] + pend[t]
                                          ELSE @]
        /\ pend' = [pend EXCEPT ![t] = 0]
        /\ timer' = timer /\ due' = due
    BY <1>6 DEF Flush, Show, ClearBuffer
  <2>2. shown' \in [Turn -> 0..MaxText] /\ pend' \in [Turn -> 0..MaxText]
    BY <1>4, <2>1 DEF TypeOK
  <2>3. TypeOK'
    BY <1>3, <2>1, <2>2
       DEF TypeOK, uiVars, busyVars, convVars, callVars, ghostVars, srvVars
  <2>4. Apart(t)
    BY <1>3, <2>1, PresentKept DEF Apart, TypeOK, convVars, callVars, ghostVars
  <2>5. Text(t)'
    BY <1>1, <1>2, <1>3, <2>1, PresentKept
       DEF Text, TypeOK, convVars, callVars, ghostVars
  <2>6. CtlInv'
    BY <1>3 DEF CtlInv, busyVars, callVars, ghostVars
  <2>7. QED
    BY <2>3, <2>4, <2>5, <2>6, ApartText
<1>7. QED
  BY <1>5, <1>6

\* The error event.
LEMMA ErrorInv ==
    ASSUME StoreInv, NEW t \in Turn, ErrorEvent(t)
    PROVE  StoreInv'
<1> USE StoreAssumption DEF StoreInv
<1>1. Text(t)
  BY DEF TextInv
<1>2. /\ phase[t] = "reading" /\ ~stopped[t]
      /\ status' = [status EXCEPT ![t] = IF Present(t) THEN "error" ELSE @]
      /\ shown' = [shown EXCEPT ![t] = IF Present(t) THEN 0 ELSE @]
      /\ pend' = [pend EXCEPT ![t] = 0]
      /\ due' = [due EXCEPT ![t] = 0]
      /\ UNCHANGED <<uiVars, busyVars, convVars, callVars, ghostVars, timer,
                     srvVars>>
  BY DEF ErrorEvent, Mark, Show, ClearBuffer
<1>3. TypeOK'
  <2>1. status' \in [Turn -> {"streaming", "done", "error"}]
    BY <1>2 DEF TypeOK
  <2>2. /\ shown' \in [Turn -> 0..MaxText] /\ pend' \in [Turn -> 0..MaxText]
        /\ due' \in [Turn -> 0..MaxText]
    BY <1>2 DEF TypeOK
  <2>3. QED
    BY <1>2, <2>1, <2>2
       DEF TypeOK, uiVars, busyVars, convVars, callVars, srvVars, ghostVars
<1>4. Apart(t)
  BY <1>2, PresentKept DEF Apart, TypeOK, convVars, callVars
<1>5. Text(t)'
  BY <1>1, <1>2, PresentKept DEF Text, TypeOK, convVars, callVars
<1>6. CtlInv'
  BY <1>2 DEF CtlInv, busyVars, callVars
<1>7. QED
  BY <1>3, <1>4, <1>5, <1>6, ApartText

-------------------------------------------------------------------------------
\* The text of a turn that runs or is over leaves room for what is buffered.
LEMMA RestFits ==
    ASSUME StoreInv, NEW t \in Turn
    PROVE  /\ shown[t] \in Nat /\ pend[t] \in Nat
           /\ shown[t] <= MaxText
           /\ Present(t) => shown[t] + pend[t] <= MaxText
<1> USE StoreAssumption DEF StoreInv
<1>1. Text(t)
  BY DEF TextInv
<1>2. /\ phase[t] \in Phase /\ shown[t] \in 0..MaxText
      /\ pend[t] \in 0..MaxText /\ due[t] \in 0..MaxText
  BY DEF TypeOK
<1>3. QED
  BY <1>1, <1>2 DEF Text, Phase

\* What finish makes of the fields of the turn.
LEMMA FinishFields ==
    ASSUME TypeOK, NEW t \in Turn, NEW n, NEW id, Finish(t, n, id)
    PROVE  /\ shown'[t] = IF Present(t) THEN n + pend[t] ELSE shown[t]
           /\ pend'[t] = 0 /\ ~timer'[t]
           /\ \A u \in Turn \ {t} : /\ shown'[u] = shown[u]
                                    /\ pend'[u] = pend[u]
                                    /\ timer'[u] = timer[u]
BY DEF Finish, Show, Rest, ClearBuffer, TypeOK

\* The text of a turn that has been finished.
LEMMA TextOver ==
    ASSUME NEW t \in Turn, phase'[t] \in {"told", "settled"},
           pend'[t] = 0, ~timer'[t], shown'[t] \in Nat, due'[t] \in Nat,
           phase'[t] = "told" => ~stopped'[t],
           Present(t)' /\ status'[t] # "error" => shown'[t] = due'[t]
    PROVE  Text(t)'
BY DEF Text

\* A call of turn t is over, or its answer is: the store is finished with it,
\* or was idle.
Ends(t, p) ==
    /\ p \in {"told", "settled"} /\ phase' = [phase EXCEPT ![t] = p]
    /\ \/ \E n \in {0, shown[t]}, id \in Conv \cup {NONE} : Finish(t, n, id)
       \/ ~streaming /\ UNCHANGED <<busyVars, listed, shown, pend, timer>>
    /\ \E s \in {"streaming", "done", "error"} :
          status' = [status EXCEPT ![t] = s]
    /\ p = "told" => ~stopped'[t]
    /\ \E b \in BOOLEAN : stopped' = [stopped EXCEPT ![t] = b]
    /\ left' \in [Turn -> BOOLEAN] /\ alone' \in [Turn -> BOOLEAN]
    /\ \E q \in SUBSET {t} : asked' = asked \cup q
    /\ UNCHANGED <<app, seat, appOf, due, resume>>

LEMMA EndInv ==
    ASSUME StoreInv, NEW t \in Turn, NEW p, Ends(t, p),
           active' \in Conv \cup {NONE},
           bucket' \in [Key -> SUBSET (Turn \X Part)],
           \A u \in Turn : Present(u)' => Present(u), Text(t)'
    PROVE  StoreInv'
<1> USE StoreAssumption DEF StoreInv
<1>1. /\ listed' \in [App -> SUBSET Conv]
      /\ shown' \in [Turn -> 0..MaxText] /\ pend' \in [Turn -> 0..MaxText]
      /\ timer' \in [Turn -> BOOLEAN]
      /\ streaming' = FALSE /\ ctl' = NONE
      /\ \A u \in Turn \ {t} : /\ shown'[u] = shown[u] /\ pend'[u] = pend[u]
                               /\ timer'[u] = timer[u]
  <2>1. CASE \E n \in {0, shown[t]}, id \in Conv \cup {NONE} : Finish(t, n, id)
    <3>1. PICK n \in {0, shown[t]}, id \in Conv \cup {NONE} : Finish(t, n, id)
      BY <2>1
    <3>2. /\ n \in Nat /\ n <= MaxText
          /\ Present(t) => n + pend[t] <= MaxText
      BY RestFits
    <3>3. QED
      BY <3>1, <3>2, FinishType, FinishFields
  <2>2. CASE ~streaming /\ UNCHANGED <<busyVars, listed, shown, pend, timer>>
    BY <2>2 DEF TypeOK, CtlInv, busyVars
  <2>3. QED
    BY <2>1, <2>2 DEF Ends
<1>2. TypeOK'
  <2>1. phase' \in [Turn -> Phase]
    BY DEF Ends, TypeOK, Phase
  <2>2. status' \in [Turn -> {"streaming", "done", "error"}]
    BY DEF Ends, TypeOK
  <2>3. stopped' \in [Turn -> BOOLEAN]
    BY DEF Ends, TypeOK
  <2>4. asked' \subseteq Turn
    BY DEF Ends, TypeOK
  <2>5. QED
    BY <1>1, <2>1, <2>2, <2>3, <2>4 DEF Ends, TypeOK
<1>3. Apart(t)
  BY <1>1 DEF Ends, Apart, TypeOK
<1>4. CtlInv'
  BY <1>1 DEF CtlInv
<1>5. QED
  BY <1>2, <1>3, <1>4, ApartText

\* The fallback finishes, or there is nothing to finish.
LEMMA FallbackEnds ==
    ASSUME NEW t \in Turn, FinishIfBusy(t)
    PROVE  \/ \E n \in {0, shown[t]}, id \in Conv \cup {NONE} :
                 Finish(t, n, id)
           \/ ~streaming /\ UNCHANGED <<busyVars, listed, shown, pend, timer>>
<1>1. CASE streaming
  BY <1>1 DEF FinishIfBusy
<1>2. CASE ~streaming
  BY <1>2 DEF FinishIfBusy
<1>3. QED
  BY <1>1, <1>2

LEMMA MaybeAskedAdds ==
    ASSUME NEW t \in Turn, MaybeAsked(t) \/ UNCHANGED asked
    PROVE  \E q \in SUBSET {t} : asked' = asked \cup q
<1>1. CASE asked' = asked
  <2>1. {} \in SUBSET {t} /\ asked' = asked \cup {}
    BY <1>1
  <2>2. QED
    BY <2>1
<1>2. CASE asked' = asked \cup {t}
  <2>1. {t} \in SUBSET {t}
    OBVIOUS
  <2>2. QED
    BY <1>2, <2>1
<1>3. QED
  BY <1>1, <1>2 DEF MaybeAsked

LEMMA ReturnEnds ==
    ASSUME TypeOK, NEW t \in Turn, Return(t)
    PROVE  /\ phase' = [phase EXCEPT ![t] = "settled"]
           /\ \E b \in BOOLEAN : stopped' = [stopped EXCEPT ![t] = b]
           /\ left' \in [Turn -> BOOLEAN] /\ alone' \in [Turn -> BOOLEAN]
BY DEF Return, Goes, TypeOK

LEMMA MarkEnds ==
    ASSUME TypeOK, NEW t \in Turn, NEW s \in {"done", "error"}, Mark(t, s)
    PROVE  /\ \E r \in {"streaming", "done", "error"} :
                 status' = [status EXCEPT ![t] = r]
           /\ Present(t) => status'[t] = s
BY DEF Mark, TypeOK

\* A refusal, or anything that fails once the session was to be refreshed.
LEMMA RefuseInv ==
    ASSUME StoreInv, NEW t \in Turn, Refuse(t)
    PROVE  StoreInv'
<1> USE StoreAssumption
<1>1. TypeOK /\ Text(t)
  BY DEF StoreInv, TextInv
<1>2. pend[t] = 0 /\ ~timer[t]
  BY <1>1 DEF Refuse, Text
<1>3. /\ FinishIfBusy(t) /\ Return(t) /\ Mark(t, "error")
      /\ MaybeAsked(t) \/ UNCHANGED asked
      /\ UNCHANGED <<uiVars, bucket, seat, appOf, due, resume>>
  BY DEF Refuse
<1>4. Ends(t, "settled")
  BY <1>1, <1>3, FallbackEnds, MaybeAskedAdds, ReturnEnds, MarkEnds
     DEF Ends, uiVars
<1>5. Present(t)' => status'[t] = "error"
  BY <1>1, <1>3, MarkEnds, PresentKept
<1>6. /\ pend'[t] = 0 /\ ~timer'[t]
      /\ shown'[t] \in Nat /\ due'[t] \in Nat /\ phase'[t] = "settled"
  <2>1. phase'[t] = "settled" /\ due'[t] \in Nat
    BY <1>1, <1>3 DEF Return, Goes, TypeOK
  <2>2. CASE streaming
    <3>1. Finish(t, shown[t], NONE)
      BY <1>3, <2>2 DEF FinishIfBusy
    <3>2. QED
      BY <1>1, <1>2, <2>1, <3>1, FinishFields DEF TypeOK
  <2>3. CASE ~streaming
    BY <1>1, <1>2, <1>3, <2>1, <2>3 DEF FinishIfBusy, TypeOK
  <2>4. QED
    BY <2>2, <2>3
<1>7. Text(t)'
  BY <1>5, <1>6, TextOver
<1>8. QED
  BY <1>1, <1>3, <1>4, <1>7, EndInv, PresentKept DEF TypeOK, uiVars

\* The body ends, behind agent_done or without it.
LEMMA EndOfBodyInv ==
    ASSUME StoreInv, NEW t \in Turn, EndOfBody(t)
    PROVE  StoreInv'
<1> USE StoreAssumption
<1>1. TypeOK /\ Text(t)
  BY DEF StoreInv, TextInv
<1>2. /\ phase[t] \in {"reading", "told"}
      /\ FinishIfBusy(t) /\ Return(t)
      /\ UNCHANGED <<uiVars, bucket, seat, appOf, status, due, asked, resume>>
  BY DEF EndOfBody, srvVars
<1>3. \E r \in {"streaming", "done", "error"} :
         status' = [status EXCEPT ![t] = r]
  <2>1. status' = [status EXCEPT ![t] = status[t]]
    BY <1>1, <1>2 DEF TypeOK
  <2>2. QED
    BY <1>1, <2>1 DEF TypeOK
<1>4. Ends(t, "settled")
  <2>1. \E q \in SUBSET {t} : asked' = asked \cup q
    BY <1>2, MaybeAskedAdds
  <2>2. QED
    BY <1>1, <1>2, <1>3, <2>1, FallbackEnds, ReturnEnds DEF Ends, uiVars
<1>5. /\ phase'[t] = "settled" /\ Present(t)' = Present(t)
      /\ status'[t] = status[t] /\ due'[t] = due[t]
  BY <1>1, <1>2, PresentKept DEF Return, Goes, TypeOK
<1>6. Text(t)'
  <2>1. CASE streaming
    <3>1. Finish(t, shown[t], NONE)
      BY <1>2, <2>1 DEF FinishIfBusy
    <3>2. /\ pend'[t] = 0 /\ ~timer'[t]
          /\ shown'[t] = IF Present(t) THEN shown[t] + pend[t] ELSE shown[t]
      BY <1>1, <3>1, FinishFields
    <3>3. /\ shown[t] \in Nat /\ pend[t] \in Nat /\ due[t] \in Nat
          /\ status[t] \in {"streaming", "done", "error"}
      BY <1>1 DEF TypeOK
    <3>4. Present(t) /\ status[t] # "error" => shown[t] + pend[t] = due[t]
      BY <1>1, <1>2, <3>3 DEF Text
    <3>5. QED
      BY <1>5, <3>2, <3>3, <3>4, TextOver
  <2>2. CASE ~streaming
    <3>1. UNCHANGED <<shown, pend, timer>>
      BY <1>2, <2>2 DEF FinishIfBusy
    <3>2. QED
      BY <1>1, <1>2, <1>5, <3>1 DEF Text
  <2>3. QED
    BY <2>1, <2>2
<1>7. QED
  BY <1>1, <1>2, <1>4, <1>6, EndInv, PresentKept DEF TypeOK, uiVars

\* The call is aborted or the connection breaks.
LEMMA RejectInv ==
    ASSUME StoreInv, NEW t \in Turn, Reject(t)
    PROVE  StoreInv'
<1> USE StoreAssumption
<1>1. TypeOK /\ Text(t)
  BY DEF StoreInv, TextInv
<1>2. /\ Return(t)
      /\ MaybeAsked(t) \/ UNCHANGED asked
      /\ UNCHANGED <<uiVars, bucket, seat, appOf, due, resume>>
      /\ \E n \in {0, shown[t]} : Finish(t, n, NONE)
  BY DEF Reject
<1>3. /\ pend'[t] = 0 /\ ~timer'[t]
      /\ shown'[t] \in Nat /\ due'[t] \in Nat /\ phase'[t] = "settled"
  <2>1. PICK n \in {0, shown[t]} : Finish(t, n, NONE)
    BY <1>2
  <2>2. n \in Nat /\ shown[t] \in Nat /\ pend[t] \in Nat /\ due[t] \in Nat
    BY <1>1 DEF TypeOK
  <2>3. phase'[t] = "settled" /\ due'[t] = due[t]
    BY <1>1, <1>2 DEF Return, Goes, TypeOK
  <2>4. QED
    BY <1>1, <2>1, <2>2, <2>3, FinishFields
<1>4. CASE stopped[t]
  <2>1. Mark(t, "done") /\ Finish(t, shown[t], NONE)
    BY <1>4 DEF Reject
  <2>2. Ends(t, "settled")
    <3>1. \E q \in SUBSET {t} : asked' = asked \cup q
      BY <1>2, MaybeAskedAdds
    <3>2. \E n \in {0, shown[t]}, id \in Conv \cup {NONE} : Finish(t, n, id)
      BY <2>1
    <3>3. \E r \in {"streaming", "done", "error"} :
             status' = [status EXCEPT ![t] = r]
      BY <1>1, <2>1, MarkEnds
    <3>4. QED
      BY <1>1, <1>2, <3>1, <3>2, <3>3, ReturnEnds DEF Ends, uiVars
  <2>3. phase[t] \in {"asking", "reading"}
    BY <1>1, <1>4 DEF Reject, Text
  <2>4. Present(t)' => shown'[t] = shown[t] + pend[t]
    BY <1>1, <1>2, <2>1, FinishFields, PresentKept
  <2>5. Present(t)' => shown'[t] = due[t]
    BY <1>1, <1>2, <2>3, <2>4, PresentKept DEF Text, TypeOK
  <2>6. Text(t)'
    BY <1>2, <1>3, <2>5, TextOver
  <2>7. QED
    BY <1>1, <1>2, <2>2, <2>6, EndInv, PresentKept DEF TypeOK, uiVars
<1>5. CASE ~stopped[t]
  <2>1. Mark(t, "error") /\ Finish(t, 0, NONE)
    BY <1>5 DEF Reject
  <2>2. Ends(t, "settled")
    <3>1. \E q \in SUBSET {t} : asked' = asked \cup q
      BY <1>2, MaybeAskedAdds
    <3>2. \E n \in {0, shown[t]}, id \in Conv \cup {NONE} : Finish(t, n, id)
      BY <2>1
    <3>3. \E r \in {"streaming", "done", "error"} :
             status' = [status EXCEPT ![t] = r]
      BY <1>1, <2>1, MarkEnds
    <3>4. QED
      BY <1>1, <1>2, <3>1, <3>2, <3>3, ReturnEnds DEF Ends, uiVars
  <2>3. Present(t)' => status'[t] = "error"
    BY <1>1, <1>2, <2>1, MarkEnds, PresentKept
  <2>4. Text(t)'
    BY <1>3, <2>3, TextOver
  <2>5. QED
    BY <1>1, <1>2, <2>2, <2>4, EndInv, PresentKept DEF TypeOK, uiVars
<1>6. QED
  BY <1>4, <1>5

\* adopt moves messages and brings no new ones.
LEMMA AdoptMoves ==
    ASSUME TypeOK, NEW t \in Turn, NEW id \in Conv \cup {NONE}, Adopt(t, id)
    PROVE  /\ bucket' \in [Key -> SUBSET (Turn \X Part)]
           /\ active' \in Conv \cup {NONE}
           /\ \A u \in Turn : Present(u)' => Present(u)
<1> USE StoreAssumption
<1>1. bucket \in [Key -> SUBSET (Turn \X Part)] /\ active \in Conv \cup {NONE}
  BY DEF TypeOK
<1>2. CASE UNCHANGED <<bucket, active>>
  BY <1>1, <1>2, PresentKept
<1>3. CASE /\ bucket' = [bucket EXCEPT ![DRAFT] = {}, ![id] = bucket[DRAFT]]
           /\ active' = IF StillHere(t) THEN id ELSE active
           /\ id # NONE
  <2>1. bucket' \in [Key -> SUBSET (Turn \X Part)]
    BY <1>1, <1>3 DEF Key
  <2>2. active' \in Conv \cup {NONE}
    BY <1>1, <1>3
  <2>3. \A k \in Key : bucket'[k] \subseteq bucket[k]
                       \/ bucket'[k] \subseteq bucket[DRAFT]
    BY <1>1, <1>3 DEF Key
  <2>4. DRAFT \in Key
    BY DEF Key
  <2>5. \A u \in Turn : Present(u)' => Present(u)
    BY <2>3, <2>4 DEF Present
  <2>6. QED
    BY <2>1, <2>2, <2>5
<1>4. QED
  BY <1>2, <1>3 DEF Adopt

\* agent_done.
LEMMA DoneInv ==
    ASSUME StoreInv, NEW t \in Turn, NEW id \in {NONE, ConvOf(t)},
           AgentDone(t, id)
    PROVE  StoreInv'
<1> USE StoreAssumption
<1>1. TypeOK /\ Text(t) /\ id \in Conv \cup {NONE}
  BY ConvType DEF StoreInv, TextInv
<1>2. /\ phase[t] = "reading" /\ ~stopped[t]
      /\ Goes(t, "told") /\ MarkDone(t) /\ Adopt(t, id)
      /\ Finish(t, shown[t], id)
      /\ UNCHANGED <<app, seat, appOf, stopped, ghostVars, due, asked, resume>>
  BY DEF AgentDone, srvVars
<1>3. \E r \in {"streaming", "done", "error"} :
         status' = [status EXCEPT ![t] = r]
  <2>1. CASE UNCHANGED status
    <3>1. status' = [status EXCEPT ![t] = status[t]]
      BY <1>1, <2>1 DEF TypeOK
    <3>2. QED
      BY <1>1, <3>1 DEF TypeOK
  <2>2. CASE Mark(t, "done")
    BY <1>1, <2>2, MarkEnds
  <2>3. QED
    BY <1>2, <2>1, <2>2 DEF MarkDone
<1>4. \E b \in BOOLEAN : stopped' = [stopped EXCEPT ![t] = b]
  <2>1. stopped' = [stopped EXCEPT ![t] = FALSE]
    BY <1>1, <1>2 DEF TypeOK
  <2>2. QED
    BY <2>1
<1>5. Ends(t, "told")
  <2>1. \E q \in SUBSET {t} : asked' = asked \cup q
    BY <1>2, MaybeAskedAdds
  <2>2. \E n \in {0, shown[t]}, i \in Conv \cup {NONE} : Finish(t, n, i)
    BY <1>1, <1>2
  <2>3. left' \in [Turn -> BOOLEAN] /\ alone' \in [Turn -> BOOLEAN]
    BY <1>1, <1>2 DEF TypeOK, ghostVars
  <2>4. QED
    BY <1>2, <1>3, <1>4, <2>1, <2>2, <2>3 DEF Ends, Goes
<1>6. Present(t)' => shown'[t] = due[t]
  <2>1. Present(t) => shown[t] + pend[t] = due[t]
    BY <1>1, <1>2 DEF Text, TypeOK
  <2>2. QED
    BY <1>1, <1>2, <2>1, FinishFields, AdoptMoves
<1>7. Text(t)'
  <2>1. /\ pend'[t] = 0 /\ ~timer'[t] /\ due'[t] = due[t] /\ due[t] \in Nat
        /\ phase'[t] = "told" /\ ~stopped'[t]
    BY <1>1, <1>2, FinishFields DEF Goes, TypeOK
  <2>2. shown'[t] \in Nat
    <3>1. shown[t] \in Nat /\ pend[t] \in Nat
      BY <1>1 DEF TypeOK
    <3>2. QED
      BY <1>1, <1>2, <3>1, FinishFields
  <2>3. QED
    BY <1>6, <2>1, <2>2, TextOver
<1>8. QED
  BY <1>1, <1>2, <1>5, <1>7, EndInv, AdoptMoves

LEMMA StepInv == StoreInv /\ [Next]_vars => StoreInv'
<1> SUFFICES ASSUME StoreInv, [Next]_vars PROVE StoreInv'
  OBVIOUS
<1>1. CASE UNCHANGED vars
  <2>1. ASSUME NEW t \in Turn PROVE Text(t)'
    <3>1. Text(t)
      BY DEF StoreInv, TextInv
    <3>2. QED
      BY <1>1, <3>1, TextStays, PresentKept
         DEF vars, convVars, callVars, ghostVars, textVars, Text
  <2>2. TypeOK' /\ CtlInv'
    BY <1>1 DEF StoreInv, TypeOK, CtlInv, vars, uiVars, busyVars, convVars,
                callVars, ghostVars, textVars, srvVars
  <2>3. QED
    BY <2>1, <2>2 DEF StoreInv, TextInv
<1>2. CASE Aside
  BY <1>2, AsideInv
<1>3. ASSUME NEW t \in Turn, SendMessage(t) \/ RetryLast(t) PROVE StoreInv'
  BY <1>3, SubmitInv
<1>4. ASSUME NEW t \in Turn, Unauthorized(t) \/ Accept(t) PROVE StoreInv'
  BY <1>4, RequestInv
<1>5. ASSUME NEW t \in Turn, Delta(t) \/ Flush(t) PROVE StoreInv'
  BY <1>5, PieceInv
<1>6. ASSUME NEW t \in Turn, ErrorEvent(t) PROVE StoreInv'
  BY <1>6, ErrorInv
<1>7. ASSUME NEW t \in Turn, Refuse(t) PROVE StoreInv'
  BY <1>7, RefuseInv
<1>8. ASSUME NEW t \in Turn, EndOfBody(t) PROVE StoreInv'
  BY <1>8, EndOfBodyInv
<1>9. ASSUME NEW t \in Turn, Reject(t) PROVE StoreInv'
  BY <1>9, RejectInv
<1>10. ASSUME NEW t \in Turn, NEW id \in {NONE, ConvOf(t)}, AgentDone(t, id)
       PROVE  StoreInv'
  BY <1>10, DoneInv
<1>11. QED
  BY <1>1, <1>2, <1>3, <1>4, <1>5, <1>6, <1>7, <1>8, <1>9, <1>10
     DEF Next, User, Settling, Aside

-------------------------------------------------------------------------------
\* Every variable of the store has its type, whatever the bounds.
THEOREM TypeCorrect == Spec => []TypeOK
<1>1. Init => StoreInv
  BY InitInv
<1>2. StoreInv => TypeOK
  BY DEF StoreInv
<1>3. QED
  BY <1>1, <1>2, StepInv, PTL DEF Spec

-------------------------------------------------------------------------------
\* The steps that end a call or an answer leave the store idle.
LEMMA EndsIdle ==
    ASSUME TypeOK, NEW t \in Turn,
           Refuse(t) \/ EndOfBody(t) \/ Reject(t)
               \/ \E id \in {NONE, ConvOf(t)} : AgentDone(t, id)
    PROVE  /\ ~streaming' /\ phase'[t] \notin Running /\ ~Idle(t)
           /\ \A u \in Turn \ {t} : /\ phase'[u] = phase[u]
                                    /\ stopped'[u] = stopped[u]
<1>1. FinishIfBusy(t) \/ (\E n, id : Finish(t, n, id)) => ~streaming'
  BY DEF FinishIfBusy, Finish, busyVars, TypeOK
<1>2. CASE Refuse(t) \/ EndOfBody(t) \/ Reject(t)
  <2>1. /\ Return(t) /\ ~Idle(t)
        /\ FinishIfBusy(t) \/ \E n, id : Finish(t, n, id)
    BY <1>2 DEF Refuse, EndOfBody, Reject, Idle
  <2>2. QED
    BY <1>1, <2>1 DEF Return, Goes, TypeOK, Running
<1>3. CASE \E id \in {NONE, ConvOf(t)} : AgentDone(t, id)
  <2>1. /\ Goes(t, "told") /\ UNCHANGED stopped /\ ~Idle(t)
        /\ \E n, id : Finish(t, n, id)
    BY <1>3 DEF AgentDone, Idle
  <2>2. QED
    BY <1>1, <2>1 DEF Goes, TypeOK, Running
<1>4. QED
  BY <1>2, <1>3

\* The bookkeeping of a turn that is sent, and of one that is over.
LEMMA AloneKept ==
    ASSUME TypeOK, NEW t \in Turn,
           SendMessage(t) \/ RetryLast(t) \/ Unauthorized(t) \/ Accept(t)
               \/ Delta(t) \/ Flush(t) \/ ErrorEvent(t) \/ Settling(t)
    PROVE  \A u \in Turn \ {t} : alone'[u] = alone[u]
<1>1. ASSUME NEW base, SendOn(t, base)
      PROVE  \A u \in Turn \ {t} : alone'[u] = alone[u]
  BY <1>1 DEF SendOn, TypeOK
<1>2. CASE UNCHANGED ghostVars
  BY <1>2 DEF ghostVars
<1>3. CASE Return(t)
  BY <1>3 DEF Return, TypeOK
<1>4. QED
  BY <1>1, <1>2, <1>3
     DEF SendMessage, RetryLast, Unauthorized, Accept, Delta, Flush,
         ErrorEvent, Settling, Refuse, EndOfBody, Reject, AgentDone

\* Once a call or an answer is over nothing that was sent alone runs.
LEMMA EndsHold ==
    ASSUME StoreInv, AloneInv, NEW t \in Turn,
           Refuse(t) \/ EndOfBody(t) \/ Reject(t)
               \/ \E id \in {NONE, ConvOf(t)} : AgentDone(t, id)
    PROVE  \A u \in Turn : ~Holds(u)'
<1>1. /\ phase'[t] \notin Running /\ ~Idle(t)
      /\ \A u \in Turn \ {t} : /\ phase'[u] = phase[u]
                               /\ stopped'[u] = stopped[u]
                               /\ alone'[u] = alone[u]
  BY EndsIdle, AloneKept DEF Settling, StoreInv
<1>2. QED
  BY <1>1 DEF AloneInv, Holds

\* The step of a turn that is not sent alone, or is sent no more, concerns no
\* turn that is.
LEMMA AloneStep ==
    ASSUME StoreInv, AloneInv, [Next]_vars
    PROVE  AloneInv'
<1> USE StoreAssumption
<1>0. TypeOK /\ CtlInv
  BY DEF StoreInv
<1>1. CASE UNCHANGED <<phase, stopped, streaming, ctl, alone>>
  BY <1>1 DEF AloneInv, Holds, Idle
<1>2. CASE Aside
  <2>1. UNCHANGED <<phase, alone>>
    BY <1>2, AsideFrame DEF Aside, Resuming, LoadApps, StopStreaming,
       MountChat, ListAnswered, ResumeAnswered, ResumeFails,
       LoadConversations, SetActiveApp, ResumeConversation, ghostVars
  <2>2. CASE StopStreaming
    <3>1. stopped' = [t \in Turn |-> stopped[t] \/ t = ctl]
      BY <2>2 DEF StopStreaming
    <3>2. \A t \in Turn : ~Holds(t)'
      BY <2>1, <3>1 DEF AloneInv, Holds
    <3>3. QED
      BY <3>2 DEF AloneInv
  <2>3. CASE UNCHANGED <<stopped, busyVars>>
    BY <1>1, <2>1, <2>3 DEF busyVars
  <2>4. QED
    BY <1>2, <2>2, <2>3, AsideFrame
<1>3. ASSUME NEW t \in Turn, SendMessage(t) \/ RetryLast(t) PROVE AloneInv'
  <2>1. CASE \E base : SendOn(t, base)
    <3>1. /\ ~streaming /\ streaming' /\ ctl' = t
          /\ phase' = [phase EXCEPT ![t] = "asking"] /\ UNCHANGED stopped
          /\ alone' = [alone EXCEPT ![t] = AllSettled]
      BY <2>1 DEF SendOn, CanSend
    <3>2. \A u \in Turn : ~Holds(u)
      BY <3>1 DEF AloneInv
    <3>3. \A u \in Turn \ {t} : ~Holds(u)'
      BY <1>0, <3>1, <3>2 DEF Holds, TypeOK
    <3>4. Holds(t)' => \A u \in Turn \ {t} : Idle(u)'
      BY <1>0, <3>1 DEF Holds, AllSettled, Idle, TypeOK
    <3>5. QED
      BY <3>1, <3>3, <3>4 DEF AloneInv
  <2>2. CASE UNCHANGED <<busyVars, callVars, ghostVars>>
    BY <1>1, <2>2 DEF busyVars, callVars, ghostVars
  <2>3. QED
    BY <1>3, <2>1, <2>2 DEF SendMessage, RetryLast
<1>4. ASSUME NEW t \in Turn, Unauthorized(t) \/ Accept(t) \/ ErrorEvent(t)
      PROVE  AloneInv'
  <2>1. /\ phase[t] \in Running /\ phase'[t] \in Running
        /\ \A u \in Turn \ {t} : phase'[u] = phase[u]
        /\ UNCHANGED <<stopped, streaming, ctl, alone>>
    BY <1>0, <1>4 DEF Unauthorized, Accept, ErrorEvent, Goes, Running, TypeOK,
                      busyVars, callVars, ghostVars
  <2>2. QED
    BY <2>1 DEF AloneInv, Holds, Idle, Running
<1>5. ASSUME NEW t \in Turn, Delta(t) \/ Flush(t) PROVE AloneInv'
  BY <1>1, <1>5 DEF Delta, Flush, busyVars, callVars, ghostVars
<1>6. ASSUME NEW t \in Turn,
             Refuse(t) \/ EndOfBody(t) \/ Reject(t)
                 \/ \E id \in {NONE, ConvOf(t)} : AgentDone(t, id)
      PROVE  AloneInv'
  BY <1>6, EndsHold DEF AloneInv
<1>7. CASE UNCHANGED vars
  BY <1>1, <1>7 DEF vars, busyVars, callVars, ghostVars
<1>8. QED
  BY <1>2, <1>3, <1>4, <1>5, <1>6, <1>7 DEF Next, User, Settling, Aside

\* A turn that was sent when no other stream was under way has left no timer.
NoLeak == \A t \in Turn : phase[t] = "settled" /\ alone[t] => ~timer[t]

LEMMA LeakStep ==
    ASSUME StoreInv, AloneInv, NoLeak, [Next]_vars
    PROVE  NoLeak'
<1>0. TypeOK
  BY DEF StoreInv
<1>1. CASE UNCHANGED <<phase, alone, timer>>
  BY <1>1 DEF NoLeak
<1>2. CASE Aside
  <2>1. UNCHANGED <<phase, alone, timer>>
    BY <1>2, AsideFrame DEF Aside, Resuming, LoadApps, StopStreaming,
       MountChat, ListAnswered, ResumeAnswered, ResumeFails,
       LoadConversations, SetActiveApp, ResumeConversation, ghostVars, textVars
  <2>2. QED
    BY <1>1, <2>1
<1>3. ASSUME NEW t \in Turn, SendMessage(t) \/ RetryLast(t) PROVE NoLeak'
  <2>1. CASE \E base : SendOn(t, base)
    <3>1. /\ phase' = [phase EXCEPT ![t] = "asking"] /\ UNCHANGED timer
          /\ alone' = [alone EXCEPT ![t] = AllSettled]
      BY <2>1 DEF SendOn, textVars
    <3>2. QED
      BY <1>0, <3>1 DEF NoLeak, TypeOK
  <2>2. CASE UNCHANGED <<callVars, ghostVars, textVars>>
    BY <1>1, <2>2 DEF callVars, ghostVars, textVars
  <2>3. QED
    BY <1>3, <2>1, <2>2 DEF SendMessage, RetryLast
<1>4. ASSUME NEW t \in Turn, Unauthorized(t) \/ Accept(t) PROVE NoLeak'
  BY <1>0, <1>4 DEF Unauthorized, Accept, Goes, NoLeak, TypeOK, ghostVars, textVars
<1>5. ASSUME NEW t \in Turn, Delta(t) PROVE NoLeak'
  BY <1>0, <1>5 DEF Delta, NoLeak, TypeOK, callVars, ghostVars
<1>6. ASSUME NEW t \in Turn, Flush(t) \/ ErrorEvent(t) PROVE NoLeak'
  BY <1>1, <1>6 DEF Flush, ErrorEvent, callVars, ghostVars
<1>7. ASSUME NEW t \in Turn,
             Refuse(t) \/ EndOfBody(t) \/ Reject(t)
                 \/ \E id \in {NONE, ConvOf(t)} : AgentDone(t, id)
      PROVE  NoLeak'
  <2>1. /\ \A u \in Turn \ {t} : phase'[u] = phase[u] /\ alone'[u] = alone[u]
        /\ UNCHANGED alone
    BY <1>0, <1>7, EndsIdle
       DEF Refuse, EndOfBody, Reject, AgentDone, Return, ghostVars
  <2>2. \A n, id : Finish(t, n, id) =>
           ~timer'[t] /\ \A u \in Turn \ {t} : timer'[u] = timer[u]
    BY <1>0 DEF Finish, TypeOK
  <2>3. CASE \E n, id : Finish(t, n, id)
    BY <2>1, <2>2, <2>3 DEF NoLeak
  <2>4. CASE ~streaming /\ UNCHANGED timer
    <3>1. phase[t] \in {"asking", "refreshing", "told"} => ~timer[t]
      BY DEF StoreInv, TextInv, Text
    <3>2. EndOfBody(t) /\ phase[t] = "reading" => ~alone[t]
      BY <2>4 DEF EndOfBody, AloneInv, Holds, Running
    <3>3. CASE Refuse(t) \/ EndOfBody(t)
      BY <2>1, <2>4, <3>1, <3>2, <3>3 DEF NoLeak, Refuse, EndOfBody
    <3>4. CASE ~(Refuse(t) \/ EndOfBody(t))
      BY <1>7, <2>3, <3>4 DEF Reject, AgentDone
    <3>5. QED
      BY <3>3, <3>4
  <2>5. (\E n, id : Finish(t, n, id)) \/ (~streaming /\ UNCHANGED timer)
    BY <1>7 DEF Refuse, EndOfBody, Reject, AgentDone, FinishIfBusy
  <2>6. QED
    BY <2>3, <2>4, <2>5
<1>8. CASE UNCHANGED vars
  BY <1>1, <1>8 DEF vars, callVars, ghostVars, textVars
<1>9. QED
  BY <1>2, <1>3, <1>4, <1>5, <1>6, <1>7, <1>8 DEF Next, User, Settling, Aside

\* No text is lost on its way to the message: what is not shown is buffered
\* under a running timer and an answer that is done shows every piece, even
\* for a user who does not wait for a stream to settle; and a turn that is
\* over has left no timer running if it is marked done, or if no other stream
\* was under way when it was sent (WholeShown).
THEOREM AnswersWhole == Spec => []WholeShown
<1> DEFINE Inv == StoreInv /\ AloneInv /\ NoLeak
<1>1. Init => Inv
  <2>1. Init => NoLeak
    BY DEF Init, NoLeak
  <2>2. QED
    BY <2>1, InitInv
<1>2. Inv /\ [Next]_vars => Inv'
  BY StepInv, AloneStep, LeakStep
<1>3. Inv => WholeShown
  <2> SUFFICES ASSUME Inv, NEW t \in Turn
               PROVE  /\ pend[t] > 0 => timer[t]
                      /\ Present(t) /\ status[t] = "streaming" =>
                            shown[t] + pend[t] = due[t]
                      /\ phase[t] \in {"told", "settled"} =>
                            /\ Present(t) /\ status[t] = "done" =>
                                  shown[t] = due[t]
                            /\ status[t] = "done" \/ alone[t] => ~timer[t]
    BY DEF WholeShown
  <2>1. Text(t) /\ (phase[t] = "settled" /\ alone[t] => ~timer[t])
    BY DEF StoreInv, TextInv, NoLeak
  <2>2. QED
    BY <2>1 DEF Text
<1>4. QED
  BY <1>1, <1>2, <1>3, PTL DEF Spec

\* The button stops the turn that runs, however the streams, the requests and
\* the user interleave, if that turn was sent when no other was under way.
THEOREM StopButton == Spec => []StopReaches
<1>1. Init => StoreInv /\ AloneInv
  BY InitInv
<1>2. StoreInv /\ AloneInv /\ [Next]_vars => (StoreInv /\ AloneInv)'
  BY StepInv, AloneStep
<1>3. StoreInv /\ AloneInv => StopReaches
  BY DEF AloneInv, Holds, StopReaches
<1>4. QED
  BY <1>1, <1>2, <1>3, PTL DEF Spec

-------------------------------------------------------------------------------
\* Where a turn that tells its end is: it is being read, and not stopped.
LEMMA OnlyDoneTells ==
    ASSUME TypeOK, [Next]_vars, NEW t \in Turn, phase[t] \in Running,
           phase'[t] = "told"
    PROVE  \E id \in {NONE, ConvOf(t)} : AgentDone(t, id)
<1> USE DEF Running
<1>1. phase'[t] # phase[t]
  OBVIOUS
<1>2. ~(UNCHANGED phase)
  BY <1>1
<1>3. ~Aside /\ ~(UNCHANGED vars)
  BY <1>2, AsideFrame DEF vars, callVars
<1>4. ASSUME NEW u \in Turn, NEW p,
             phase' = [phase EXCEPT ![u] = p]
      PROVE  u = t /\ p = "told"
  BY <1>1, <1>4 DEF TypeOK
<1>5. ASSUME NEW u \in Turn PROVE ~SendMessage(u) /\ ~RetryLast(u)
  BY <1>2, <1>4 DEF SendMessage, RetryLast, SendOn, callVars
<1>6. ASSUME NEW u \in Turn
      PROVE  /\ ~Unauthorized(u) /\ ~Accept(u)
             /\ ~Delta(u) /\ ~Flush(u) /\ ~ErrorEvent(u)
  BY <1>2, <1>4 DEF Unauthorized, Accept, Delta, Flush, ErrorEvent, Goes,
     callVars
<1>7. ASSUME NEW u \in Turn PROVE ~Refuse(u) /\ ~EndOfBody(u) /\ ~Reject(u)
  BY <1>4 DEF Refuse, EndOfBody, Reject, Return, Goes
<1>8. PICK u \in Turn : \E id \in {NONE, ConvOf(u)} : AgentDone(u, id)
  BY <1>3, <1>5, <1>6, <1>7 DEF Next, User, Settling, Aside
<1>9. u = t
  BY <1>4, <1>8 DEF AgentDone, Goes
<1>10. QED
  BY <1>8, <1>9

\* The steps of a running turn that neither begin nor end anything.
LEMMA GoesOn ==
    ASSUME TypeOK, NEW t \in Turn,
           Unauthorized(t) \/ Accept(t) \/ Delta(t) \/ Flush(t)
               \/ ErrorEvent(t)
    PROVE  /\ UNCHANGED <<uiVars, busyVars, convVars, seat, appOf, stopped,
                          ghostVars>>
           /\ \A u \in Turn : /\ phase'[u] = "unsent" => phase[u] = "unsent"
                              /\ phase'[u] \in Running => phase[u] \in Running
<1>1. CASE Unauthorized(t) \/ Accept(t)
  BY <1>1 DEF Unauthorized, Accept, Goes, TypeOK, Running
<1>2. CASE Delta(t) \/ Flush(t) \/ ErrorEvent(t)
  BY <1>2 DEF Delta, Flush, ErrorEvent, callVars
<1>3. QED
  BY <1>1, <1>2

-------------------------------------------------------------------------------
\* Nobody leaves a turn that was not sent; and who leaves one that holds the
\* store goes to a conversation, as the selection of an app is closed to him.
LeftInv ==
    \A t \in Turn : /\ phase[t] = "unsent" => ~left[t]
                    /\ Holds(t) /\ left[t] => active # NONE

\* What the steps that start and end no call do to it.
LEMMA AsideLeft ==
    ASSUME StoreInv, AloneInv, LeftInv, Aside
    PROVE  LeftInv'
<1> USE StoreAssumption
<1>1. UNCHANGED <<phase, alone>>
  BY AsideFrame DEF Aside, Resuming, LoadApps, StopStreaming, MountChat,
     ListAnswered, ResumeAnswered, ResumeFails, LoadConversations,
     SetActiveApp, ResumeConversation, ghostVars
<1>2. CASE StopStreaming
  <2>1. /\ stopped' = [t \in Turn |-> stopped[t] \/ t = ctl]
        /\ UNCHANGED left
    BY <1>2 DEF StopStreaming, ghostVars
  <2>2. \A t \in Turn : ~Holds(t)'
    BY <1>1, <2>1 DEF AloneInv, Holds
  <2>3. QED
    BY <1>1, <2>1, <2>2 DEF LeftInv
<1>3. CASE \E a \in App : SetActiveApp(a)
  <2>1. ~streaming /\ UNCHANGED stopped /\ Leave
    BY <1>3 DEF SetActiveApp
  <2>2. \A t \in Turn : ~Holds(t)'
    BY <1>1, <2>1 DEF AloneInv, Holds
  <2>3. QED
    BY <1>1, <2>1, <2>2 DEF LeftInv, Leave, Running
<1>4. CASE \E a \in App, c \in Conv : ResumeConversation(a, c)
  <2>1. active' # NONE /\ UNCHANGED stopped /\ Leave
    BY <1>4 DEF ResumeConversation
  <2>2. QED
    BY <1>1, <2>1 DEF LeftInv, Leave, Running
<1>5. CASE ResumeAnswered
  BY <1>1, <1>5 DEF ResumeAnswered, LeftInv, callVars, ghostVars
<1>6. CASE \/ LoadApps \/ MountChat \/ ListAnswered \/ ResumeFails
           \/ \E a \in App : LoadConversations(a)
  <2>1. UNCHANGED <<active, stopped, left>>
    BY <1>6 DEF LoadApps, MountChat, ListAnswered, ResumeFails,
       LoadConversations, uiVars, callVars, ghostVars
  <2>2. QED
    BY <1>1, <2>1 DEF LeftInv, Holds
<1>7. QED
  BY <1>2, <1>3, <1>4, <1>5, <1>6 DEF Aside, Resuming

LEMMA LeftStep ==
    ASSUME StoreInv, AloneInv, LeftInv, [Next]_vars
    PROVE  LeftInv'
<1>0. TypeOK
  BY DEF StoreInv
<1>1. CASE UNCHANGED <<active, phase, stopped, alone, left>>
  BY <1>1 DEF LeftInv, Holds
<1>2. CASE Aside
  BY <1>2, AsideLeft
<1>3. ASSUME NEW t \in Turn, SendMessage(t) \/ RetryLast(t) PROVE LeftInv'
  <2>1. CASE \E base : SendOn(t, base)
    <3>1. /\ phase' = [phase EXCEPT ![t] = "asking"] /\ phase[t] = "unsent"
          /\ UNCHANGED <<active, stopped, left>>
          /\ alone' = [alone EXCEPT ![t] = AllSettled]
      BY <2>1 DEF SendOn, uiVars
    <3>2. ASSUME NEW u \in Turn, u # t
          PROVE  /\ phase'[u] = phase[u]
                 /\ alone'[u] = alone[u]
      BY <1>0, <3>1, <3>2 DEF TypeOK
    <3>3. phase'[t] = "asking" /\ ~left[t]
      BY <1>0, <3>1 DEF LeftInv, TypeOK
    <3>4. QED
      BY <3>1, <3>2, <3>3 DEF LeftInv, Holds
  <2>2. CASE UNCHANGED <<uiVars, callVars, ghostVars>>
    BY <1>1, <2>2 DEF uiVars, callVars, ghostVars
  <2>3. QED
    BY <1>3, <2>1, <2>2 DEF SendMessage, RetryLast
<1>4. ASSUME NEW t \in Turn,
             Unauthorized(t) \/ Accept(t) \/ Delta(t) \/ Flush(t)
                 \/ ErrorEvent(t)
      PROVE  LeftInv'
  BY <1>0, <1>4, GoesOn DEF LeftInv, Holds, uiVars, ghostVars
<1>5. ASSUME NEW t \in Turn,
             Refuse(t) \/ EndOfBody(t) \/ Reject(t)
                 \/ \E id \in {NONE, ConvOf(t)} : AgentDone(t, id)
      PROVE  LeftInv'
  <2>1. \A u \in Turn : ~Holds(u)'
    BY <1>5, EndsHold
  <2>2. \A u \in Turn \ {t} : phase'[u] = phase[u]
    BY <1>0, <1>5, EndsIdle
  <2>3. phase'[t] # "unsent"
    BY <1>0, <1>5
       DEF Refuse, EndOfBody, Reject, AgentDone, Return, Goes, TypeOK
  <2>4. \A u \in Turn \ {t} : left'[u] = left[u]
    BY <1>0, <1>5
       DEF Refuse, EndOfBody, Reject, AgentDone, Return, TypeOK, ghostVars
  <2>5. QED
    BY <2>1, <2>2, <2>3, <2>4 DEF LeftInv
<1>6. CASE UNCHANGED vars
  BY <1>1, <1>6 DEF vars, uiVars, callVars, ghostVars
<1>7. QED
  BY <1>2, <1>3, <1>4, <1>5, <1>6 DEF Next, User, Settling, Aside

\* A8: who has left a turn that was sent when no other stream was under way
\* stays where he is when it ends, whatever he clicked meanwhile.
THEOREM UserStays == Spec => NotDraggedBack
<1> DEFINE Inv == StoreInv /\ AloneInv /\ LeftInv
           Drag == \A t \in Turn :
                       phase[t] \in Running /\ phase'[t] = "told"
                       /\ left[t] /\ alone[t] => UNCHANGED uiVars
<1>1. Init => Inv
  <2>1. Init => LeftInv
    BY DEF Init, LeftInv
  <2>2. QED
    BY <2>1, InitInv
<1>2. Inv /\ [Next]_vars => Inv'
  BY StepInv, AloneStep, LeftStep
<1>3. Inv /\ [Next]_vars => [Drag]_vars
  <2> SUFFICES ASSUME Inv, [Next]_vars, NEW t \in Turn, phase[t] \in Running,
                      phase'[t] = "told", left[t], alone[t]
               PROVE  UNCHANGED uiVars
    OBVIOUS
  <2>1. PICK id \in {NONE, ConvOf(t)} : AgentDone(t, id)
    BY OnlyDoneTells DEF StoreInv
  <2>2. active # NONE
    BY <2>1 DEF AgentDone, LeftInv, Holds
  <2>3. UNCHANGED active
    BY <2>1, <2>2 DEF AgentDone, Adopt, StillHere
  <2>4. QED
    BY <2>1, <2>3 DEF AgentDone, uiVars
<1>4. QED
  BY <1>1, <1>2, <1>3, PTL DEF Spec, NotDraggedBack

-------------------------------------------------------------------------------
\* The message of a turn that was not sent is nowhere; that of a running turn
\* is in the bucket it was put in or nowhere, unless it is a draft and another
\* turn is under way, which may take it along.
Seated(t) ==
    /\ phase[t] = "unsent" => ~Present(t)
    /\ phase[t] \in Running /\ (Holds(t) \/ seat[t] # DRAFT) =>
          \A k \in Key : <<t, "assistant">> \in bucket[k] => k = seat[t]

SeatInv == \A t \in Turn : Seated(t)

\* A turn stays seated while messages at most vanish.
LEMMA SeatStays ==
    ASSUME NEW t \in Turn, Seated(t),
           phase'[t] = "unsent" => phase[t] = "unsent",
           phase'[t] \in Running => phase[t] \in Running,
           phase'[t] \in Running /\ Holds(t)' => Holds(t),
           seat'[t] = seat[t],
           \A k \in Key : <<t, "assistant">> \in bucket'[k]
                              => <<t, "assistant">> \in bucket[k]
    PROVE  Seated(t)'
BY DEF Seated, Present

LEMMA AsideSeat ==
    ASSUME TypeOK, SeatInv, Aside
    PROVE  SeatInv'
<1>1. UNCHANGED <<phase, seat, alone>>
  BY AsideFrame DEF Aside, Resuming, LoadApps, StopStreaming, MountChat,
     ListAnswered, ResumeAnswered, ResumeFails, LoadConversations,
     SetActiveApp, ResumeConversation, ghostVars
<1>2. \A t \in Turn : stopped[t] => stopped'[t]
  BY AsideFrame DEF StopStreaming, TypeOK
<1>3. \A t \in Turn, k \in Key : <<t, "assistant">> \in bucket'[k]
                                     => <<t, "assistant">> \in bucket[k]
  <2>1. CASE UNCHANGED bucket
    BY <2>1
  <2>2. CASE ResumeAnswered
    <3>1. bucket' = [bucket EXCEPT ![resume.conv] = {}]
      BY <2>2 DEF ResumeAnswered
    <3>2. QED
      BY <3>1 DEF TypeOK
  <2>3. QED
    BY <2>1, <2>2 DEF Aside, Resuming, LoadApps, StopStreaming, MountChat,
       ListAnswered, ResumeFails, LoadConversations, SetActiveApp,
       ResumeConversation, convVars
<1>4. ASSUME NEW t \in Turn PROVE Seated(t)'
  <2>1. Seated(t)
    BY DEF SeatInv
  <2>2. Holds(t)' => Holds(t)
    BY <1>1, <1>2 DEF Holds
  <2>3. QED
    BY <1>1, <1>3, <2>1, <2>2, SeatStays
<1>5. QED
  BY <1>4 DEF SeatInv

\* A question is sent: its messages are put in its seat.
LEMMA SendSeat ==
    ASSUME TypeOK, SeatInv, NEW t \in Turn,
           NEW base \in [Key -> SUBSET (Turn \X Part)], SendOn(t, base),
           \A k \in Key : base[k] \subseteq bucket[k]
    PROVE  SeatInv'
<1> USE StoreAssumption
<1> DEFINE k == IF active = NONE THEN DRAFT ELSE active
           pair == {<<t, "user">>, <<t, "assistant">>}
<1>1. k \in Key
  BY DEF TypeOK, Key
<1>2. bucket' = [base EXCEPT ![k] = @ \cup pair]
  BY DEF SendOn
<1>3. seat' = [seat EXCEPT ![t] = k]
  BY DEF SendOn
<1>4. /\ phase' = [phase EXCEPT ![t] = "asking"] /\ phase[t] = "unsent"
      /\ UNCHANGED stopped
      /\ alone' = [alone EXCEPT ![t] = AllSettled]
  BY DEF SendOn
<1> HIDE DEF k
<1>5. Seated(t)'
  <2>1. \A j \in Key : <<t, "assistant">> \notin base[j]
    BY <1>4 DEF SeatInv, Seated, Present
  <2>2. \A j \in Key : <<t, "assistant">> \in bucket'[j] => j = k
    BY <1>1, <1>2, <2>1
  <2>3. seat'[t] = k /\ phase'[t] = "asking"
    BY <1>3, <1>4 DEF TypeOK
  <2>4. QED
    BY <2>2, <2>3 DEF Seated
<1>6. ASSUME NEW u \in Turn, u # t PROVE Seated(u)'
  <2>1. \A j \in Key : <<u, "assistant">> \in bucket'[j]
                           => <<u, "assistant">> \in bucket[j]
    <3>1. <<u, "assistant">> \notin pair
      BY <1>6
    <3>2. QED
      BY <1>1, <1>2, <3>1
  <2>2. phase'[u] = phase[u] /\ seat'[u] = seat[u] /\ alone'[u] = alone[u]
    BY <1>3, <1>4, <1>6 DEF TypeOK
  <2>3. Holds(u)' => Holds(u)
    BY <1>4, <2>2 DEF Holds
  <2>4. Seated(u)
    BY DEF SeatInv
  <2>5. QED
    BY <2>1, <2>2, <2>3, <2>4, SeatStays
<1>7. QED
  BY <1>5, <1>6 DEF SeatInv

\* A first turn that hears its id takes the draft bucket along, which holds
\* no message of a turn that was seated elsewhere.
LEMMA AdoptSeat ==
    ASSUME TypeOK, SeatInv, NEW t \in Turn, NEW id \in Conv \cup {NONE},
           Adopt(t, id), NEW u \in Turn, phase[u] \in Running,
           seat[u] # DRAFT, NEW k \in Key, <<u, "assistant">> \in bucket'[k]
    PROVE  <<u, "assistant">> \in bucket[k]
<1> USE StoreAssumption
<1>1. CASE UNCHANGED bucket
  BY <1>1
<1>2. CASE bucket' = [bucket EXCEPT ![DRAFT] = {}, ![id] = bucket[DRAFT]]
           /\ id # NONE
  <2>1. <<u, "assistant">> \notin bucket[DRAFT]
    BY DEF SeatInv, Seated, Key
  <2>2. bucket'[k] = IF k = id THEN bucket[DRAFT]
                     ELSE IF k = DRAFT THEN {} ELSE bucket[k]
    BY <1>2 DEF TypeOK, Key
  <2>3. QED
    BY <2>1, <2>2
<1>3. QED
  BY <1>1, <1>2 DEF Adopt

LEMMA SeatStep ==
    ASSUME StoreInv, AloneInv, SeatInv, [Next]_vars
    PROVE  SeatInv'
<1> USE StoreAssumption
<1>0. TypeOK
  BY DEF StoreInv
<1>1. CASE UNCHANGED <<phase, seat, stopped, alone, bucket>>
  BY <1>1 DEF SeatInv, Seated, Holds, Present
<1>2. CASE Aside
  BY <1>0, <1>2, AsideSeat
<1>3. ASSUME NEW t \in Turn, SendMessage(t) PROVE SeatInv'
  BY <1>0, <1>3, SendSeat DEF SendMessage, TypeOK
<1>4. ASSUME NEW t \in Turn, RetryLast(t) PROVE SeatInv'
  <2> DEFINE cards == {m \in bucket[active] : m[2] = "assistant" /\
                                              status[m[1]] = "error"}
             base  == [bucket EXCEPT ![active] = @ \ cards]
  <2>1. bucket \in [Key -> SUBSET (Turn \X Part)]
    BY <1>0 DEF TypeOK
  <2>2. /\ base \in [Key -> SUBSET (Turn \X Part)]
        /\ \A k \in Key : base[k] \subseteq bucket[k]
    BY <2>1
  <2>3. CASE SendOn(t, base)
    <3> HIDE DEF base
    <3>1. QED
      BY <1>0, <2>2, <2>3, SendSeat
  <2>4. CASE bucket' = base /\ UNCHANGED <<callVars, ghostVars>>
    <3>1. ASSUME NEW u \in Turn PROVE Seated(u)'
      <4> HIDE DEF base
      <4>1. Seated(u) /\ (Holds(u)' => Holds(u))
        BY <2>4 DEF SeatInv, Holds, callVars, ghostVars
      <4>2. \A k \in Key : <<u, "assistant">> \in bucket'[k]
                               => <<u, "assistant">> \in bucket[k]
        BY <2>2, <2>4
      <4>3. QED
        BY <2>4, <4>1, <4>2, SeatStays DEF callVars
    <3>2. QED
      BY <3>1 DEF SeatInv
  <2>5. QED
    BY <1>4, <2>3, <2>4 DEF RetryLast
<1>5. ASSUME NEW t \in Turn,
             Unauthorized(t) \/ Accept(t) \/ Delta(t) \/ Flush(t)
                 \/ ErrorEvent(t)
      PROVE  SeatInv'
  BY <1>0, <1>5, GoesOn DEF SeatInv, Seated, Holds, Present, convVars,
     ghostVars
<1>6. ASSUME NEW t \in Turn,
             Refuse(t) \/ EndOfBody(t) \/ Reject(t)
                 \/ \E id \in {NONE, ConvOf(t)} : AgentDone(t, id)
      PROVE  SeatInv'
  <2>1. /\ \A u \in Turn : ~Holds(u)'
        /\ phase'[t] \notin Running
        /\ \A u \in Turn \ {t} : phase'[u] = phase[u]
    BY <1>0, <1>6, EndsHold, EndsIdle
  <2>2. phase'[t] # "unsent" /\ UNCHANGED seat
    BY <1>0, <1>6
       DEF Refuse, EndOfBody, Reject, AgentDone, Return, Goes, TypeOK
  <2>3. UNCHANGED bucket \/ \E id \in Conv \cup {NONE} : Adopt(t, id)
    BY <1>0, <1>6, ConvType DEF Refuse, EndOfBody, Reject, AgentDone
  <2>4. ASSUME NEW u \in Turn PROVE Present(u)' => Present(u)
    BY <1>0, <2>3, AdoptMoves, PresentKept
  <2>5. ASSUME NEW u \in Turn, phase[u] \in Running, seat[u] # DRAFT,
               NEW k \in Key, <<u, "assistant">> \in bucket'[k]
        PROVE  k = seat[u]
    <3>1. <<u, "assistant">> \in bucket[k]
      BY <1>0, <2>3, <2>5, AdoptSeat
    <3>2. QED
      BY <2>5, <3>1 DEF SeatInv, Seated
  <2>6. QED
    BY <2>1, <2>2, <2>4, <2>5 DEF SeatInv, Seated
<1>7. CASE UNCHANGED vars
  BY <1>1, <1>7 DEF vars, convVars, callVars, ghostVars
<1>8. QED
  BY <1>2, <1>3, <1>4, <1>5, <1>6, <1>7 DEF Next, User, Settling, Aside

\* A3: agent_done leaves an error card as it is, if the card is where the
\* turn put it: that of a follow-up always is, that of a first turn if no
\* other stream was under way when it was sent.
THEOREM CardStays == Spec => ErrorStays
<1> DEFINE Inv == StoreInv /\ AloneInv /\ SeatInv
           Stay == \A t \in Turn :
                       phase[t] \in Running /\ phase'[t] = "told"
                       /\ (alone[t] \/ seat[t] # DRAFT)
                       => (status[t] = "error" => status'[t] = "error")
<1>1. Init => Inv
  <2>1. Init => SeatInv
    BY DEF Init, SeatInv, Seated, Present, Running
  <2>2. QED
    BY <2>1, InitInv
<1>2. Inv /\ [Next]_vars => Inv'
  BY StepInv, AloneStep, SeatStep
<1>3. Inv /\ [Next]_vars => [Stay]_vars
  <2> SUFFICES ASSUME Inv, [Next]_vars, NEW t \in Turn, phase[t] \in Running,
                      phase'[t] = "told", alone[t] \/ seat[t] # DRAFT,
                      status[t] = "error"
               PROVE  status'[t] = "error"
    OBVIOUS
  <2>1. PICK id \in {NONE, ConvOf(t)} : AgentDone(t, id)
    BY OnlyDoneTells DEF StoreInv
  <2>2. MarkDone(t) /\ (Holds(t) \/ seat[t] # DRAFT)
    BY <2>1 DEF AgentDone, Holds
  <2>3. Present(t) => <<t, "assistant">> \in bucket[seat[t]]
    BY <2>2 DEF SeatInv, Seated, Present
  <2>4. QED
    BY <2>2, <2>3 DEF MarkDone, Mark, StoreInv, TypeOK
<1>4. QED
  BY <1>1, <1>2, <1>3, PTL DEF Spec, ErrorStays
===============================================================================
