---------------------------- MODULE ChatTurn_proofs ----------------------------
(***************************************************************************)
(* Proofs about ChatTurn, for any number of upstream frames and lines:     *)
(* what the browser is shown is the text the proxy accumulated, in its     *)
(* order and its panel; the mirror holds what was shown; agent_done comes  *)
(* behind all of it and behind the save; and both generators implement     *)
(* TurnStream.                                                             *)
(***************************************************************************)
EXTENDS ChatTurn, SequenceTheorems, FiniteSetTheorems, TLAPS

(* Lines.                                                                  *)

\* Event names a generator writes before the frames of its own: relayed
\* ones, and what agent_thought and workflow events become.
Names == {"message", "agent_thought", "message_end", "error", "ping", "reasoning"}
OwnNames == {"error", "agent_done"}

Fields == {"answer", "content", "usage", "message", "none", "conversation"}

Line == [line : {"event"}, name : Names \cup OwnNames]
        \cup [line : {"data"}, field : Fields, piece : Nat] \cup {Blank}

\* A line of an error or agent_done frame the generator ends with.
OwnLine == {Event(name) : name \in OwnNames}
           \cup {Data("message", 0), Data("conversation", 0), Blank}

\* A piece of text.
IsText(l) == l.line = "data" /\ l.field \in {"answer", "content"}
ChannelOf(l) == IF l.field = "answer" THEN "answer" ELSE "reasoning"

IsUsage(l) == l.line = "data" /\ l.field = "usage"
IsError(l) == l.line = "data" /\ l.field = "message"

\* The data that an event name stands in front of.
Fits(name, d) ==
    <<name, d.field>> \in {<<"message", "answer">>, <<"reasoning", "content">>,
                           <<"message_end", "usage">>, <<"error", "message">>,
                           <<"ping", "none">>}

\* Line y behind line x in a well-formed stream: names precede the data they
\* belong to, and a frame without a name is no text of the reasoning panel.
Follows(x, y, named) ==
    \/ y = Blank
    \/ x = Blank /\ y.line = "event" /\ y.name \in Names
    \/ x = Blank /\ ~named /\ y.line = "data" /\ y.field # "content"
    \/ x.line = "event" /\ y.line = "data" /\ Fits(x.name, y)

\* The first n lines of s are well-formed, and their text is what lies in g
\* behind its first k pieces, in that order.
Carries(s, n, k, g, named) ==
    /\ n \in 1..Len(s) /\ k \in 0..Len(g)
    /\ \A i \in 1..(n - 1) : Follows(s[i], s[i + 1], named)
    /\ \A i \in 1..n : IsText(s[i]) =>
          s[i].piece \in (k + 1)..Len(g) /\ g[s[i].piece] = ChannelOf(s[i])
    /\ \A i, j \in 1..n : i < j /\ IsText(s[i]) /\ IsText(s[j])
          => s[i].piece < s[j].piece
    /\ \A m \in (k + 1)..Len(g) : \E i \in 1..n : IsText(s[i]) /\ s[i].piece = m

\* Behind them there are but lines of the last frames, from a name on.
EndsOwn(s, n) ==
    /\ \A i \in (n + 1)..Len(s) : s[i] \in OwnLine
    /\ n < Len(s) => s[n + 1] \in {Event(name) : name \in OwnNames}

-------------------------------------------------------------------------------
(* The stream in flight.                                                   *)

Chunk(i) == IF i \in DOMAIN out THEN out[i] ELSE <<>>

\* The lines the browser has still to parse, and in front of them the one
\* that was parsed last.
Coming == ((wire \o Chunk(1)) \o Chunk(2)) \o Chunk(3)
Parsing == IF fData # <<>> THEN fData[Len(fData)]
           ELSE IF fEvent # NoName THEN Event(fEvent) ELSE Blank
Stream == (((<<Parsing>> \o wire) \o Chunk(1)) \o Chunk(2)) \o Chunk(3)

\* The frame that is being parsed is well-formed.
ParserStands ==
    \/ fEvent = NoName /\ fData = <<>>
    \/ fEvent \in Names /\ fData = <<>>
    \/ /\ Len(fData) = 1 /\ fData[1].line = "data" /\ fData[1].field \in Fields
       /\ \/ fEvent = NoName /\ ~headed /\ fData[1].field # "content"
          \/ fEvent \in Names /\ Fits(fEvent, fData[1])

Reading == pc \in {"open", "reading", "yielding"}

\* Until the browser comes to the frames of the end: nothing that was
\* accumulated is missing in the stream.
Lively(n) ==
    /\ ParserStands
    /\ Carries(Stream, n, Len(seen), gen, headed) /\ EndsOwn(Stream, n)
    /\ Reading => n = Len(Stream)
    /\ frame = "none" \/ (Reading /\ pend # NoName) => Stream[n] = Blank
    /\ headed /\ usage => \/ "usage" \in told
                          \/ \E i \in 1..n : IsUsage(Stream[i])
    /\ failed => \/ "error" \in told
                 \/ \E i \in 1..n : IsError(Stream[i])
    /\ mode = "workflow" /\ ~usage =>
           /\ fEvent # "message_end"
           /\ \A i \in 1..n : Stream[i] # Event("message_end")

\* From then on nothing is shown any more, and the rest of the turn is known.
Complete ==
    /\ Len(gen) <= Len(seen) + 1
    /\ frame = "none" => /\ Len(seen) = Len(gen)
                         /\ headed /\ usage => "usage" \in told
    /\ failed => "error" \in told

Calm ==
    /\ ~Reading /\ Complete
    /\ \A i \in DOMAIN Coming : Coming[i] \in OwnLine
    /\ \/ fEvent \in OwnNames
       \/ /\ fEvent = NoName
          /\ \A i \in DOMAIN fData : fData[i].field \notin {"answer", "content"}

StreamStands ==
    link = "open" =>
        Calm \/ ("agent_done" \notin told /\ \E n \in 1..Len(Stream) : Lively(n))

-------------------------------------------------------------------------------
(* The generator.                                                          *)

Typed ==
    /\ wire \in Seq(Line) /\ out \in Seq(Seq(Line)) /\ fData \in Seq(Line)
    /\ \A i \in DOMAIN fData : fData[i].line = "data"
    /\ seen \in Seq(Channel \X Nat) /\ gen \in Seq(Channel)
    /\ Len(out) <= 3
    /\ pc \in {"open", "reading", "saving", "saved", "closed"} => out = <<>>
    /\ fEvent \in Names \cup OwnNames \cup {NoName}
    /\ told \subseteq {"end", "usage", "error", "agent_done"}
    /\ usage \in BOOLEAN /\ terminal \in BOOLEAN /\ headed \in BOOLEAN
    /\ inData \in BOOLEAN /\ failed \in BOOLEAN /\ ended \in BOOLEAN
    /\ mode \in {"chat", "workflow"}
    /\ pc \in {"open", "reading", "yielding", "closing", "saving", "saved",
               "ending", "closed"}

\* What the upstream is at, and what is kept back of it.
ReaderStands ==
    /\ mode = "chat" /\ Reading =>
          \/ frame = "none" /\ cur = NoName /\ pend = NoName /\ ~inData
          \/ /\ frame \in Chat!Kind /\ ~inData
             /\ cur = Chat!EventOf(frame) /\ pend = cur
          \/ /\ frame \in Chat!Kind /\ inData
             /\ cur \in {NoName, Chat!EventOf(frame)} /\ pend = NoName
    /\ pc = "yielding" => pend = NoName
    /\ mode = "chat" => ~failed
    /\ mode = "workflow" => headed /\ frame = "none" /\ pend = NoName
    /\ mode = "workflow" /\ usage => ended

\* What is stored, and when.
Stored == IF \E i \in DOMAIN gen : gen[i] = "answer" THEN gen ELSE <<>>
SaveStands ==
    /\ saved # NotKept => saved = Stored /\ pc \in {"saved", "ending", "closed"}
    /\ pc \in {"saved", "ending"} => saved = Stored
    /\ pc = "closed" /\ link = "open" => saved = Stored
    /\ link = "open" => ~(pc \in {"saving", "saved", "ending", "closed"} /\ ~terminal)

\* agent_done is told, and on its way, behind the save only.
DoneStands ==
    /\ "agent_done" \in told =>
          /\ pc \in {"ending", "closed"} /\ saved = Stored /\ Complete
    /\ link = "open" /\ (fEvent = "agent_done"
           \/ \E i \in DOMAIN Coming : Coming[i] = Event("agent_done")) =>
          pc \in {"ending", "closed"}
    /\ mode = "workflow" /\ "end" \in told => usage

TurnInv ==
    /\ Typed /\ SeenInOrder /\ ReaderStands /\ SaveStands /\ DoneStands
    /\ StreamStands

-------------------------------------------------------------------------------
(* Sequences of lines.                                                     *)

LEMMA LinesAreLines ==
    /\ \A name \in Names \cup OwnNames : Event(name) \in Line
    /\ \A field \in Fields, piece \in Nat : Data(field, piece) \in Line
    /\ Blank \in Line
<1>1. \A name \in Names \cup OwnNames : Event(name) \in Line
  BY DEF Event, Line
<1>2. \A field \in Fields, piece \in Nat : Data(field, piece) \in Line
  BY DEF Data, Line
<1>3. Blank \in Line
  BY DEF Line
<1> QED
  BY <1>1, <1>2, <1>3

LEMMA TailOfConcat ==
    ASSUME NEW S, NEW s \in Seq(S), NEW t \in Seq(S), s # <<>>
    PROVE  Tail(s \o t) = Tail(s) \o t
<1> DEFINE a == Tail(s \o t)
           b == Tail(s) \o t
<1>1. Len(s) \in Nat \ {0} /\ Len(t) \in Nat
  BY EmptySeq, LenProperties
<1>2. /\ s \o t \in Seq(S) /\ Len(s \o t) = Len(s) + Len(t)
      /\ \A i \in 1..(Len(s) + Len(t)) :
            (s \o t)[i] = IF i <= Len(s) THEN s[i] ELSE t[i - Len(s)]
  BY ConcatProperties
<1>3. s \o t # <<>>
  BY <1>1, <1>2, EmptySeq
<1>4. /\ a \in Seq(S) /\ Len(a) = Len(s) + Len(t) - 1
      /\ \A i \in 1..(Len(s) + Len(t) - 1) : a[i] = (s \o t)[i + 1]
  BY <1>1, <1>2, <1>3, HeadTailProperties
<1>5. /\ Tail(s) \in Seq(S) /\ Len(Tail(s)) = Len(s) - 1
      /\ \A i \in 1..(Len(s) - 1) : Tail(s)[i] = s[i + 1]
  BY HeadTailProperties
<1>6. /\ b \in Seq(S) /\ Len(b) = Len(s) - 1 + Len(t)
      /\ \A i \in 1..(Len(s) - 1 + Len(t)) :
            b[i] = IF i <= Len(s) - 1 THEN Tail(s)[i] ELSE t[i - (Len(s) - 1)]
  BY <1>5, ConcatProperties
<1> HIDE DEF a, b
<1>7. ASSUME NEW i \in 1..Len(a) PROVE a[i] = b[i]
  <2>1. i \in 1..(Len(s) + Len(t) - 1) /\ i + 1 \in 1..(Len(s) + Len(t))
    BY <1>1, <1>4
  <2>2. CASE i <= Len(s) - 1
    <3>1. i + 1 <= Len(s) /\ i \in 1..(Len(s) - 1) /\ i \in 1..(Len(s) - 1 + Len(t))
      BY <1>1, <2>1, <2>2
    <3> QED
      BY <1>2, <1>4, <1>5, <1>6, <2>1, <2>2, <3>1
  <2>3. CASE i > Len(s) - 1
    <3>1. /\ ~(i + 1 <= Len(s)) /\ ~(i <= Len(s) - 1) /\ i \in 1..(Len(s) - 1 + Len(t))
          /\ i + 1 - Len(s) = i - (Len(s) - 1)
      BY <1>1, <2>1, <2>3
    <3> QED
      BY <1>2, <1>4, <1>6, <2>1, <3>1
  <2> QED
    BY <1>1, <2>1, <2>2, <2>3
<1> QED
  BY <1>1, <1>4, <1>6, <1>7, SeqEqual DEF a, b

LEMMA HeadOfConcat ==
    ASSUME NEW S, NEW s \in Seq(S), NEW t \in Seq(S), s # <<>>
    PROVE  s \o t \in Seq(S) /\ s \o t # <<>> /\ (s \o t)[1] = s[1]
<1>1. Len(s) \in Nat \ {0} /\ Len(t) \in Nat
  BY EmptySeq, LenProperties
<1>2. /\ s \o t \in Seq(S) /\ Len(s \o t) = Len(s) + Len(t)
      /\ \A i \in 1..(Len(s) + Len(t)) :
            (s \o t)[i] = IF i <= Len(s) THEN s[i] ELSE t[i - Len(s)]
  BY ConcatProperties
<1>3. 1 \in 1..(Len(s) + Len(t)) /\ 1 <= Len(s)
  BY <1>1
<1>4. s \o t # <<>>
  BY <1>1, <1>2, EmptySeq
<1> QED
  BY <1>2, <1>3, <1>4

\* A sequence is its first element and the rest.
LEMMA HeadTailEqual ==
    ASSUME NEW S, NEW s \in Seq(S), NEW t \in Seq(S), s # <<>>, t # <<>>,
           s[1] = t[1], Tail(s) = Tail(t)
    PROVE  s = t
<1>1. Len(s) \in Nat \ {0} /\ Len(t) \in Nat \ {0}
  BY EmptySeq
<1>2. /\ Len(Tail(s)) = Len(s) - 1 /\ Len(Tail(t)) = Len(t) - 1
      /\ \A i \in 1..Len(Tail(s)) : Tail(s)[i] = s[i + 1]
      /\ \A i \in 1..Len(Tail(t)) : Tail(t)[i] = t[i + 1]
  BY HeadTailProperties
<1>3. Len(s) = Len(t)
  <2>1. Len(Tail(s)) = Len(Tail(t))
    OBVIOUS
  <2>2. Len(s) - 1 = Len(t) - 1
    BY <1>2, <2>1
  <2> QED
    BY <1>1, <2>2
<1>4. ASSUME NEW i \in 1..Len(s) PROVE s[i] = t[i]
  <2>1. CASE i = 1
    BY <2>1
  <2>2. CASE i # 1
    <3>0. Len(Tail(s)) = Len(s) - 1
      BY <1>2
    <3>1. i - 1 \in 1..Len(Tail(s)) /\ i - 1 + 1 = i
      BY <1>1, <2>2, <3>0
    <3>2. Tail(s)[i - 1] = s[i] /\ Tail(t)[i - 1] = t[i]
      BY <1>2, <3>1
    <3> QED
      BY <3>2
  <2> QED
    BY <2>1, <2>2
<1> QED
  BY <1>3, <1>4, SeqEqual

LEMMA ConsProperties ==
    ASSUME NEW S, NEW x \in S, NEW s \in Seq(S)
    PROVE  /\ <<x>> \o s \in Seq(S) /\ Len(<<x>> \o s) = Len(s) + 1
           /\ (<<x>> \o s)[1] = x
           /\ \A i \in 1..Len(s) : (<<x>> \o s)[i + 1] = s[i]
           /\ Tail(<<x>> \o s) = s
<1>1. <<x>> \in Seq(S) /\ Len(<<x>>) = 1 /\ <<x>>[1] = x /\ Len(s) \in Nat
  BY LenProperties
<1>2. /\ <<x>> \o s \in Seq(S) /\ Len(<<x>> \o s) = Len(s) + 1
      /\ \A i \in 1..(Len(s) + 1) :
            (<<x>> \o s)[i] = IF i <= 1 THEN <<x>>[i] ELSE s[i - 1]
  BY <1>1, ConcatProperties
<1>3. (<<x>> \o s)[1] = x /\ \A i \in 1..Len(s) : (<<x>> \o s)[i + 1] = s[i]
  <2>1. 1 \in 1..(Len(s) + 1)
    BY <1>1
  <2>2. ASSUME NEW i \in 1..Len(s) PROVE (<<x>> \o s)[i + 1] = s[i]
    <3>1. i + 1 \in 1..(Len(s) + 1) /\ ~(i + 1 <= 1) /\ i + 1 - 1 = i
      BY <1>1
    <3> QED
      BY <1>2, <3>1
  <2> QED
    BY <1>1, <1>2, <2>1, <2>2
<1>4. <<x>> \o s # <<>>
  BY <1>1, <1>2, EmptySeq
<1>5. /\ Tail(<<x>> \o s) \in Seq(S) /\ Len(Tail(<<x>> \o s)) = Len(s)
      /\ \A i \in 1..Len(s) : Tail(<<x>> \o s)[i] = (<<x>> \o s)[i + 1]
  BY <1>1, <1>2, <1>4, HeadTailProperties
<1> QED
  BY <1>2, <1>3, <1>5, SeqEqual

\* Short sequences.
LEMMA ShortSequences ==
    ASSUME NEW a, NEW b, NEW c
    PROVE  /\ Append(<<>>, a) = <<a>> /\ Append(<<a>>, b) = <<a, b>>
           /\ <<a>> \o <<b>> = <<a, b>> /\ <<a>> \o <<b, c>> = <<a, b, c>>
           /\ <<>> \o <<a>> = <<a>> /\ <<>> \o <<a, b>> = <<a, b>>
<1> DEFINE S == {a, b, c}
           u == <<a>> \o <<b>>
           v == <<a>> \o <<b, c>>
<1>1. /\ <<a>> \in Seq(S) /\ <<b>> \in Seq(S) /\ <<a, b>> \in Seq(S) /\ <<b, c>> \in Seq(S)
      /\ <<a, b, c>> \in Seq(S)
  OBVIOUS
<1>2. u \in Seq(S) /\ Len(u) = 2 /\ u[1] = a /\ u[2] = b
  <2>1. /\ u \in Seq(S) /\ Len(u) = Len(<<a>>) + Len(<<b>>)
        /\ \A i \in 1..(Len(<<a>>) + Len(<<b>>)) :
              u[i] = IF i <= Len(<<a>>) THEN <<a>>[i] ELSE <<b>>[i - Len(<<a>>)]
    BY <1>1, ConcatProperties
  <2> HIDE DEF u
  <2>2. Len(<<a>>) = 1 /\ Len(<<b>>) = 1
    OBVIOUS
  <2> QED
    BY <2>1, <2>2
<1>3. v \in Seq(S) /\ Len(v) = 3 /\ v[1] = a /\ v[2] = b /\ v[3] = c
  <2>1. /\ v \in Seq(S) /\ Len(v) = Len(<<a>>) + Len(<<b, c>>)
        /\ \A i \in 1..(Len(<<a>>) + Len(<<b, c>>)) :
              v[i] = IF i <= Len(<<a>>) THEN <<a>>[i] ELSE <<b, c>>[i - Len(<<a>>)]
    BY <1>1, ConcatProperties
  <2> HIDE DEF v
  <2>2. Len(<<a>>) = 1 /\ Len(<<b, c>>) = 2
    OBVIOUS
  <2> QED
    BY <2>1, <2>2
<1> HIDE DEF u, v
<1>4. u = <<a, b>>
  <2>1. Len(<<a, b>>) = 2 /\ \A i \in 1..2 : u[i] = <<a, b>>[i]
    BY <1>2
  <2> QED
    BY <1>1, <1>2, <2>1, SeqEqual
<1>5. v = <<a, b, c>>
  <2>1. Len(<<a, b, c>>) = 3 /\ \A i \in 1..3 : v[i] = <<a, b, c>>[i]
    BY <1>3
  <2> QED
    BY <1>1, <1>3, <2>1, SeqEqual
<1>6. Append(<<a>>, b) = <<a>> \o <<b>>
  BY <1>1, AppendIsConcat
<1>7. Append(<<>>, a) = <<a>> /\ <<>> \o <<a>> = <<a>> /\ <<>> \o <<a, b>> = <<a, b>>
  OBVIOUS
<1>8. <<a>> \o <<b>> = <<a, b>> /\ <<a>> \o <<b, c>> = <<a, b, c>>
  BY <1>4, <1>5 DEF u, v
<1> QED
  BY <1>6, <1>7, <1>8, Zenon

\* The line that was parsed before is dropped from the front.
LEMMA CarriesTail ==
    ASSUME NEW s \in Seq(Line), NEW n \in Nat, NEW k \in Nat, NEW g \in Seq(Channel),
           NEW named, Carries(s, n, k, g, named), n >= 2
    PROVE  /\ IsText(s[1]) => s[1].piece = k + 1 /\ g[k + 1] = ChannelOf(s[1])
                              /\ k + 1 <= Len(g)
           /\ Carries(Tail(s), n - 1, IF IsText(s[1]) THEN k + 1 ELSE k, g, named)
<1> DEFINE t == Tail(s)
           h == IF IsText(s[1]) THEN k + 1 ELSE k
<1>1. Len(s) \in Nat /\ Len(g) \in Nat /\ n <= Len(s) /\ s # <<>> /\ k <= Len(g)
  BY LenProperties, EmptySeq DEF Carries
<1>2. t \in Seq(Line) /\ Len(t) = Len(s) - 1 /\ \A i \in 1..(n - 1) : t[i] = s[i + 1]
  BY <1>1, HeadTailProperties
<1> HIDE DEF t
<1>3. ASSUME IsText(s[1])
      PROVE  s[1].piece = k + 1 /\ g[k + 1] = ChannelOf(s[1]) /\ k + 1 <= Len(g)
  <2>1. 1 \in 1..n /\ s[1].piece \in (k + 1)..Len(g) /\ g[s[1].piece] = ChannelOf(s[1])
    BY <1>1, <1>3 DEF Carries
  <2>2. k + 1 \in (k + 1)..Len(g)
    BY <1>1, <2>1
  <2>3. PICK i \in 1..n : IsText(s[i]) /\ s[i].piece = k + 1
    BY <2>2 DEF Carries
  <2>4. i # 1 => s[1].piece < s[i].piece
    BY <1>3, <2>1, <2>3 DEF Carries
  <2> QED
    BY <1>1, <2>1, <2>3, <2>4
<1>4. ASSUME NEW i \in 1..(n - 1), NEW m \in Nat, m = i + 1
      PROVE  m \in 1..n /\ t[i] = s[m]
  BY <1>2, <1>4
<1>5. n - 1 \in 1..Len(t) /\ h \in 0..Len(g)
  BY <1>1, <1>2, <1>3
<1>6. \A i \in 1..(n - 1 - 1) : Follows(t[i], t[i + 1], named)
  <2> TAKE i \in 1..(n - 1 - 1)
  <2>1. /\ i \in 1..(n - 1) /\ i + 1 \in 1..(n - 1) /\ i + 1 + 1 \in Nat
    OBVIOUS
  <2> QED
    BY <1>4, <2>1 DEF Carries
<1>7. \A i \in 1..(n - 1) : IsText(t[i]) =>
          t[i].piece \in (h + 1)..Len(g) /\ g[t[i].piece] = ChannelOf(t[i])
  <2> SUFFICES ASSUME NEW i \in 1..(n - 1), IsText(t[i])
               PROVE  t[i].piece \in (h + 1)..Len(g) /\ g[t[i].piece] = ChannelOf(t[i])
    OBVIOUS
  <2>1. i + 1 \in 1..n /\ t[i] = s[i + 1]
    BY <1>4
  <2>2. s[i + 1].piece \in (k + 1)..Len(g) /\ g[s[i + 1].piece] = ChannelOf(s[i + 1])
    BY <2>1 DEF Carries
  <2>3. IsText(s[1]) => s[1].piece < s[i + 1].piece
    <3>1. 1 \in 1..n /\ 1 < i + 1
      OBVIOUS
    <3> QED
      BY <2>1, <3>1 DEF Carries
  <2> QED
    BY <1>1, <1>3, <2>1, <2>2, <2>3
<1>8. \A i, j \in 1..(n - 1) : i < j /\ IsText(t[i]) /\ IsText(t[j])
          => t[i].piece < t[j].piece
  <2> SUFFICES ASSUME NEW i \in 1..(n - 1), NEW j \in 1..(n - 1), i < j,
                      IsText(t[i]), IsText(t[j])
               PROVE  t[i].piece < t[j].piece
    OBVIOUS
  <2>1. /\ i + 1 \in 1..n /\ t[i] = s[i + 1] /\ j + 1 \in 1..n /\ t[j] = s[j + 1]
        /\ i + 1 < j + 1
    BY <1>4
  <2> QED
    BY <2>1 DEF Carries
<1>9. \A m \in (h + 1)..Len(g) : \E i \in 1..(n - 1) : IsText(t[i]) /\ t[i].piece = m
  <2> TAKE m \in (h + 1)..Len(g)
  <2>1. m \in (k + 1)..Len(g)
    BY <1>1
  <2>2. PICK i \in 1..n : IsText(s[i]) /\ s[i].piece = m
    BY <2>1 DEF Carries
  <2>3. i # 1
    BY <1>1, <1>3, <2>2
  <2>4. i - 1 \in 1..(n - 1) /\ i = (i - 1) + 1
    BY <2>3
  <2>5. t[i - 1] = s[i]
    BY <1>4, <2>4
  <2> QED
    BY <2>2, <2>4, <2>5
<1> QED
  BY <1>3, <1>5, <1>6, <1>7, <1>8, <1>9 DEF Carries, t

\* The last regular line: at most the text it carries is missing.
LEMMA CarriesOne ==
    ASSUME NEW s \in Seq(Line), NEW k \in Nat, NEW g \in Seq(Channel),
           NEW named, Carries(s, 1, k, g, named)
    PROVE  /\ Len(g) \in k..(k + 1)
           /\ IsText(s[1]) => Len(g) = k + 1 /\ s[1].piece = k + 1
                              /\ g[k + 1] = ChannelOf(s[1])
           /\ ~IsText(s[1]) => Len(g) = k
<1>1. Len(g) \in Nat /\ k <= Len(g)
  BY LenProperties DEF Carries
<1>2. \A m \in (k + 1)..Len(g) : IsText(s[1]) /\ s[1].piece = m
  BY DEF Carries
<1>3. IsText(s[1]) => s[1].piece \in (k + 1)..Len(g) /\ g[s[1].piece] = ChannelOf(s[1])
  BY DEF Carries
<1>4. Len(g) >= k + 1 => k + 1 \in (k + 1)..Len(g) /\ Len(g) \in (k + 1)..Len(g)
  BY <1>1
<1> QED
  BY <1>1, <1>2, <1>3, <1>4

\* A line is put behind the last one: what is carried and, if it is text,
\* one piece more.
Carried(g, y) == IF IsText(y) THEN Append(g, ChannelOf(y)) ELSE g

LEMMA CarriesLine ==
    ASSUME NEW s \in Seq(Line), NEW k \in Nat, NEW g \in Seq(Channel), NEW named,
           NEW n, n = Len(s), Carries(s, n, k, g, named),
           NEW y \in Line, Follows(s[n], y, named),
           IsText(y) => y.piece = Len(g) + 1
    PROVE  /\ Append(s, y) \in Seq(Line) /\ Len(Append(s, y)) = n + 1
           /\ Append(s, y)[n + 1] = y /\ \A i \in 1..n : Append(s, y)[i] = s[i]
           /\ Carried(g, y) \in Seq(Channel)
           /\ Carries(Append(s, y), n + 1, k, Carried(g, y), named)
<1> DEFINE t == Append(s, y)
           h == Carried(g, y)
<1>1. n \in Nat /\ Len(g) \in Nat /\ k <= Len(g) /\ n >= 1
  BY LenProperties DEF Carries
<1>2. /\ t \in Seq(Line) /\ Len(t) = n + 1 /\ t[n + 1] = y
      /\ \A i \in 1..n : t[i] = s[i]
  BY AppendProperties
<1>3. ChannelOf(y) \in Channel
  BY DEF ChannelOf, Channel
<1>4. /\ h \in Seq(Channel) /\ Len(h) = (IF IsText(y) THEN Len(g) + 1 ELSE Len(g))
      /\ \A i \in 1..Len(g) : h[i] = g[i]
      /\ IsText(y) => h[Len(g) + 1] = ChannelOf(y)
  BY <1>3, AppendProperties DEF Carried
<1> HIDE DEF t, h
<1>5. \A i \in 1..n : Follows(t[i], t[i + 1], named)
  <2> TAKE i \in 1..n
  <2>1. CASE i = n
    BY <1>2, <2>1
  <2>2. CASE i # n
    <3>1. i \in 1..(n - 1) /\ i + 1 \in 1..n
      BY <1>1, <2>2
    <3> QED
      BY <1>2, <3>1 DEF Carries
  <2> QED
    BY <2>1, <2>2
<1>6. \A i \in 1..(n + 1) : IsText(t[i]) =>
          t[i].piece \in (k + 1)..Len(h) /\ h[t[i].piece] = ChannelOf(t[i])
  <2> SUFFICES ASSUME NEW i \in 1..(n + 1), IsText(t[i])
               PROVE  t[i].piece \in (k + 1)..Len(h) /\ h[t[i].piece] = ChannelOf(t[i])
    OBVIOUS
  <2>1. CASE i = n + 1
    BY <1>1, <1>2, <1>4, <2>1
  <2>2. CASE i # n + 1
    <3>1. i \in 1..n /\ t[i] = s[i]
      BY <1>1, <1>2, <2>2
    <3>2. s[i].piece \in (k + 1)..Len(g) /\ g[s[i].piece] = ChannelOf(s[i])
      BY <3>1 DEF Carries
    <3> QED
      BY <1>1, <1>4, <3>1, <3>2
  <2> QED
    BY <2>1, <2>2
<1>7. \A i, j \in 1..(n + 1) : i < j /\ IsText(t[i]) /\ IsText(t[j])
          => t[i].piece < t[j].piece
  <2> SUFFICES ASSUME NEW i \in 1..(n + 1), NEW j \in 1..(n + 1), i < j,
                      IsText(t[i]), IsText(t[j])
               PROVE  t[i].piece < t[j].piece
    OBVIOUS
  <2>1. i \in 1..n /\ t[i] = s[i]
    BY <1>1, <1>2
  <2>2. s[i].piece \in (k + 1)..Len(g)
    BY <2>1 DEF Carries
  <2>3. CASE j = n + 1
    BY <1>1, <1>2, <2>1, <2>2, <2>3
  <2>4. CASE j # n + 1
    <3>1. j \in 1..n /\ t[j] = s[j]
      BY <1>1, <1>2, <2>4
    <3> QED
      BY <2>1, <3>1 DEF Carries
  <2> QED
    BY <2>3, <2>4
<1>8. \A m \in (k + 1)..Len(h) : \E i \in 1..(n + 1) : IsText(t[i]) /\ t[i].piece = m
  <2> TAKE m \in (k + 1)..Len(h)
  <2>1. CASE m \in (k + 1)..Len(g)
    <3>1. PICK i \in 1..n : IsText(s[i]) /\ s[i].piece = m
      BY <2>1 DEF Carries
    <3>2. i \in 1..(n + 1) /\ t[i] = s[i]
      BY <1>1, <1>2
    <3> QED
      BY <3>1, <3>2
  <2>2. CASE m \notin (k + 1)..Len(g)
    <3>1. IsText(y) /\ m = Len(g) + 1
      BY <1>1, <1>4, <2>2
    <3>2. n + 1 \in 1..(n + 1)
      BY <1>1
    <3> QED
      BY <1>2, <3>1, <3>2
  <2> QED
    BY <2>1, <2>2
<1>9. n + 1 \in 1..Len(t) /\ k \in 0..Len(h)
  BY <1>1, <1>2, <1>4
<1>10. Carries(t, n + 1, k, h, named)
  <2>1. n + 1 - 1 = n
    BY <1>1
  <2> QED
    BY <1>5, <1>6, <1>7, <1>8, <1>9, <2>1 DEF Carries
<1> QED
  BY <1>2, <1>4, <1>10 DEF t, h

\* Lines behind the regular ones do not matter.
LEMMA CarriesConcat ==
    ASSUME NEW s \in Seq(Line), NEW t \in Seq(Line), NEW n, NEW k \in Nat,
           NEW g \in Seq(Channel), NEW named, Carries(s, n, k, g, named)
    PROVE  /\ Carries(s \o t, n, k, g, named)
           /\ \A i \in 1..n : (s \o t)[i] = s[i]
<1>1. Len(s) \in Nat /\ Len(t) \in Nat /\ n \in 1..Len(s) /\ k \in 0..Len(g)
  BY LenProperties DEF Carries
<1>2. Len(s \o t) = Len(s) + Len(t) /\ \A i \in 1..Len(s) : (s \o t)[i] = s[i]
  <2>1. /\ Len(s \o t) = Len(s) + Len(t)
        /\ \A i \in 1..(Len(s) + Len(t)) :
              (s \o t)[i] = IF i <= Len(s) THEN s[i] ELSE t[i - Len(s)]
    BY ConcatProperties
  <2>2. \A i \in 1..Len(s) : i \in 1..(Len(s) + Len(t)) /\ i <= Len(s)
    BY <1>1
  <2> QED
    BY <2>1, <2>2
<1> DEFINE u == s \o t
<1> HIDE DEF u
<1>3. \A i \in 1..n : u[i] = s[i]
  BY <1>1, <1>2 DEF u
<1>4. \A i \in 1..(n - 1) : Follows(u[i], u[i + 1], named)
  <2> TAKE i \in 1..(n - 1)
  <2>1. i \in 1..n /\ i + 1 \in 1..n
    BY <1>1
  <2> QED
    BY <1>3, <2>1 DEF Carries
<1>5. n \in 1..Len(u)
  BY <1>1, <1>2 DEF u
<1> QED
  BY <1>1, <1>3, <1>4, <1>5 DEF Carries, u

\* A frame of the end is put behind what there is.
LEMMA EndsOwnConcat ==
    ASSUME NEW s \in Seq(Line), NEW n \in 1..Len(s), EndsOwn(s, n),
           NEW name \in OwnNames, NEW field \in {"message", "conversation"}
    PROVE  EndsOwn(s \o Sse(name, field, 0), n)
<1> DEFINE t == Sse(name, field, 0)
<1>1. /\ t \in Seq(Line) /\ Len(t) = 3 /\ \A i \in 1..3 : t[i] \in OwnLine
      /\ t[1] = Event(name)
  <2>1. Event(name) \in Line /\ Data(field, 0) \in Line /\ Blank \in Line
    <3>1. name \in Names \cup OwnNames /\ field \in Fields
      BY DEF Fields
    <3> QED
      BY <3>1, LinesAreLines
  <2>2. Event(name) \in OwnLine /\ Data(field, 0) \in OwnLine /\ Blank \in OwnLine
    BY DEF OwnLine
  <2> QED
    BY <2>1, <2>2 DEF Sse
<1> HIDE DEF t
<1>2. Len(s) \in Nat
  BY LenProperties
<1>3. /\ Len(s \o t) = Len(s) + 3
      /\ \A i \in 1..(Len(s) + 3) :
              (s \o t)[i] = IF i <= Len(s) THEN s[i] ELSE t[i - Len(s)]
  <2>1. /\ Len(s \o t) = Len(s) + Len(t)
        /\ \A i \in 1..(Len(s) + Len(t)) :
              (s \o t)[i] = IF i <= Len(s) THEN s[i] ELSE t[i - Len(s)]
    BY <1>1, ConcatProperties
  <2> QED
    BY <1>1, <2>1
<1> DEFINE u == s \o t
<1> HIDE DEF u
<1>4. \A i \in (n + 1)..Len(u) : u[i] \in OwnLine
  <2> TAKE i \in (n + 1)..Len(u)
  <2>1. i \in 1..(Len(s) + 3)
    BY <1>2, <1>3 DEF u
  <2>2. CASE i <= Len(s)
    <3>1. i \in (n + 1)..Len(s)
      BY <1>2, <2>1, <2>2
    <3> QED
      BY <1>3, <2>1, <2>2, <3>1 DEF EndsOwn, u
  <2>3. CASE ~(i <= Len(s))
    <3>1. i - Len(s) \in 1..3
      BY <1>2, <2>1, <2>3
    <3> QED
      BY <1>1, <1>3, <2>1, <2>3, <3>1 DEF u
  <2> QED
    BY <2>2, <2>3
<1>5. u[n + 1] \in {Event(x) : x \in OwnNames}
  <2>1. n + 1 \in 1..(Len(s) + 3)
    BY <1>2
  <2>2. CASE n < Len(s)
    BY <1>2, <1>3, <2>1, <2>2 DEF EndsOwn, u
  <2>3. CASE n = Len(s)
    <3>1. n + 1 - Len(s) = 1 /\ ~(n + 1 <= Len(s))
      BY <1>2, <2>3
    <3> QED
      BY <1>1, <1>3, <2>1, <3>1 DEF u
  <2> QED
    BY <1>2, <2>2, <2>3
<1> QED
  BY <1>4, <1>5 DEF EndsOwn, u, t

\* Three lines are put behind s one after the other.
LEMMA SseIsLines ==
    ASSUME NEW s \in Seq(Line), NEW name \in Names \cup OwnNames, NEW field \in Fields,
           NEW piece \in Nat
    PROVE  s \o Sse(name, field, piece) =
               Append(Append(Append(s, Event(name)), Data(field, piece)), Blank)
<1> DEFINE e == Event(name)
           d == Data(field, piece)
<1>1. e \in Line /\ d \in Line /\ Blank \in Line
  BY LinesAreLines
<1>2. Sse(name, field, piece) = <<e, d, Blank>>
  BY DEF Sse
<1> HIDE DEF e, d
<1> DEFINE f == <<e, d, Blank>>
           t == Append(Append(Append(s, e), d), Blank)
<1>3. f \in Seq(Line) /\ Len(f) = 3 /\ f[1] = e /\ f[2] = d /\ f[3] = Blank
  BY <1>1
<1>4. /\ Append(s, e) \in Seq(Line) /\ Len(Append(s, e)) = Len(s) + 1
      /\ Append(s, e)[Len(s) + 1] = e
      /\ \A i \in 1..Len(s) : Append(s, e)[i] = s[i]
  BY <1>1, AppendProperties
<1>5. /\ Append(Append(s, e), d) \in Seq(Line)
      /\ Len(Append(Append(s, e), d)) = Len(s) + 1 + 1
      /\ Append(Append(s, e), d)[Len(s) + 1 + 1] = d
      /\ \A i \in 1..(Len(s) + 1) : Append(Append(s, e), d)[i] = Append(s, e)[i]
  BY <1>1, <1>4, AppendProperties
<1>6. /\ t \in Seq(Line) /\ Len(t) = Len(s) + 1 + 1 + 1
      /\ t[Len(s) + 1 + 1 + 1] = Blank
      /\ \A i \in 1..(Len(s) + 1 + 1) : t[i] = Append(Append(s, e), d)[i]
  BY <1>1, <1>5, AppendProperties
<1> HIDE DEF f, t
<1>7. /\ s \o f \in Seq(Line) /\ Len(s \o f) = Len(s) + Len(f)
      /\ \A i \in 1..(Len(s) + Len(f)) :
             (s \o f)[i] = IF i <= Len(s) THEN s[i] ELSE f[i - Len(s)]
  BY <1>3, ConcatProperties
<1>8. Len(s) \in Nat
  BY LenProperties
<1>9. Len(s \o f) = Len(t)
  BY <1>3, <1>6, <1>7, <1>8
<1>10. ASSUME NEW i \in 1..Len(s \o f) PROVE (s \o f)[i] = t[i]
  <2>1. (s \o f)[i] = IF i <= Len(s) THEN s[i] ELSE f[i - Len(s)]
    BY <1>7
  <2>2. i \in 1..(Len(s) + 3)
    BY <1>3, <1>7
  <2>3. CASE i <= Len(s)
    <3>1. i \in 1..Len(s) /\ i \in 1..(Len(s) + 1) /\ i \in 1..(Len(s) + 1 + 1)
      BY <1>8, <2>2, <2>3
    <3> QED
      BY <1>4, <1>5, <1>6, <2>1, <2>3, <3>1
  <2>4. CASE i = Len(s) + 1
    <3>1. i \in 1..(Len(s) + 1) /\ i \in 1..(Len(s) + 1 + 1) /\ ~(i <= Len(s))
          /\ i - Len(s) = 1
      BY <1>8, <2>4
    <3> QED
      BY <1>3, <1>4, <1>5, <1>6, <2>1, <2>4, <3>1
  <2>5. CASE i = Len(s) + 2
    <3>1. i \in 1..(Len(s) + 1 + 1) /\ ~(i <= Len(s)) /\ i - Len(s) = 2
          /\ i = Len(s) + 1 + 1
      BY <1>8, <2>5
    <3> QED
      BY <1>3, <1>5, <1>6, <2>1, <3>1
  <2>6. CASE i = Len(s) + 3
    <3>1. ~(i <= Len(s)) /\ i - Len(s) = 3 /\ i = Len(s) + 1 + 1 + 1
      BY <1>8, <2>6
    <3> QED
      BY <1>3, <1>6, <2>1, <3>1
  <2> QED
    BY <1>8, <2>2, <2>3, <2>4, <2>5, <2>6
<1>11. s \o f = t
  BY <1>6, <1>7, <1>9, <1>10, SeqEqual
<1> QED
  BY <1>2, <1>11 DEF e, d, f, t

\* All lines of s are regular: what is added to them, line by line.
Whole(s, k, g, named) ==
    s \in Seq(Line) /\ g \in Seq(Channel) /\ Carries(s, Len(s), k, g, named)
EndOf(s) == s[Len(s)]
Extends(t, s) == Len(s) <= Len(t) /\ \A i \in 1..Len(s) : t[i] = s[i]

LEMMA ExtendsTransitive ==
    ASSUME NEW s \in Seq(Line), NEW t \in Seq(Line), NEW u \in Seq(Line),
           Extends(t, s), Extends(u, t)
    PROVE  Extends(u, s)
<1>1. Len(s) \in Nat /\ Len(t) \in Nat /\ Len(u) \in Nat
  BY LenProperties
<1> QED
  BY <1>1 DEF Extends

LEMMA WholeLine ==
    ASSUME NEW s, NEW k \in Nat, NEW g, NEW named, Whole(s, k, g, named),
           NEW y \in Line, Follows(EndOf(s), y, named),
           IsText(y) => y.piece = Len(g) + 1
    PROVE  /\ Whole(Append(s, y), k, Carried(g, y), named)
           /\ EndOf(Append(s, y)) = y /\ Extends(Append(s, y), s)
<1>1. s \in Seq(Line) /\ g \in Seq(Channel) /\ Carries(s, Len(s), k, g, named)
  BY DEF Whole
<1>2. Follows(s[Len(s)], y, named) /\ Len(s) \in Nat
  BY <1>1, LenProperties DEF EndOf
<1>3. /\ Append(s, y) \in Seq(Line) /\ Len(Append(s, y)) = Len(s) + 1
      /\ Append(s, y)[Len(s) + 1] = y
      /\ \A i \in 1..Len(s) : Append(s, y)[i] = s[i]
      /\ Carried(g, y) \in Seq(Channel)
      /\ Carries(Append(s, y), Len(s) + 1, k, Carried(g, y), named)
  BY <1>1, <1>2, CarriesLine
<1>5. Extends(Append(s, y), s)
  BY <1>2, <1>3 DEF Extends
<1> QED
  BY <1>3, <1>5 DEF Whole, EndOf

\* A frame of the proxy's own.
LEMMA WholeFrame ==
    ASSUME NEW s, NEW k \in Nat, NEW g, NEW named, Whole(s, k, g, named),
           EndOf(s) = Blank, NEW name \in Names, NEW field \in Fields, NEW piece \in Nat,
           Fits(name, Data(field, piece)),
           IsText(Data(field, piece)) => piece = Len(g) + 1
    PROVE  LET d == Data(field, piece)
               t == s \o Sse(name, field, piece)
           IN  /\ Whole(t, k, Carried(g, d), named)
               /\ EndOf(t) = Blank /\ Extends(t, s)
               /\ \E i \in 1..Len(t) : t[i] = d
               /\ \A i \in 1..Len(t) :
                     i \in 1..Len(s) \/ t[i] \in {Event(name), d, Blank}
<1> DEFINE e == Event(name)
           d == Data(field, piece)
           t == s \o Sse(name, field, piece)
           s1 == Append(s, e)
           s2 == Append(s1, d)
           s3 == Append(s2, Blank)
           h == Carried(g, d)
<1>0. s \in Seq(Line)
  BY DEF Whole
<1>1. e \in Line /\ d \in Line /\ Blank \in Line
  BY LinesAreLines
<1>2. t = s3
  BY <1>0, <1>1, SseIsLines
<1>3. /\ Follows(EndOf(s), e, named) /\ ~IsText(e) /\ Follows(e, d, named)
      /\ Follows(d, Blank, named) /\ ~IsText(Blank)
      /\ (IsText(d) => d.piece = Len(g) + 1)
  BY DEF Follows, Event, Data, Blank, IsText
<1>4. Carried(g, e) = g /\ Carried(h, Blank) = h
  BY <1>3 DEF Carried
<1> HIDE DEF e, d, t, h, s1, s2, s3
<1>5. Whole(s1, k, g, named) /\ EndOf(s1) = e /\ Extends(s1, s)
  <2>1. /\ Whole(Append(s, e), k, Carried(g, e), named)
        /\ EndOf(Append(s, e)) = e /\ Extends(Append(s, e), s)
    BY <1>1, <1>3, WholeLine
  <2> QED
    BY <1>4, <2>1 DEF s1
<1>6. Whole(s2, k, h, named) /\ EndOf(s2) = d /\ Extends(s2, s1)
  <2>1. Follows(EndOf(s1), d, named) /\ (IsText(d) => d.piece = Len(g) + 1)
    BY <1>3, <1>5
  <2>2. /\ Whole(Append(s1, d), k, Carried(g, d), named)
        /\ EndOf(Append(s1, d)) = d /\ Extends(Append(s1, d), s1)
    BY <1>1, <1>5, <2>1, WholeLine
  <2> QED
    BY <2>2 DEF s2, h
<1>7. Whole(s3, k, h, named) /\ EndOf(s3) = Blank /\ Extends(s3, s2)
  <2>1. Follows(EndOf(s2), Blank, named) /\ (IsText(Blank) => Blank.piece = Len(h) + 1)
    BY <1>3, <1>6
  <2>2. /\ Whole(Append(s2, Blank), k, Carried(h, Blank), named)
        /\ EndOf(Append(s2, Blank)) = Blank /\ Extends(Append(s2, Blank), s2)
    BY <1>1, <1>6, <2>1, WholeLine
  <2> QED
    BY <1>4, <2>2 DEF s3
<1>8. s1 \in Seq(Line) /\ s2 \in Seq(Line) /\ s3 \in Seq(Line)
  BY <1>5, <1>6, <1>7 DEF Whole
<1>9. Extends(s3, s)
  BY <1>0, <1>5, <1>6, <1>7, <1>8, ExtendsTransitive
<1>10. \E i \in 1..Len(s3) : s3[i] = d
  <2>1. Len(s2) \in 1..Len(s2)
    <3>1. Len(s2) \in 1..Len(s2)
      BY <1>6 DEF Whole, Carries
    <3> QED
      BY <3>1
  <2>2. Len(s2) \in Nat /\ Len(s3) \in Nat
    BY <1>8, LenProperties
  <2>3. Len(s2) \in 1..Len(s3) /\ s3[Len(s2)] = s2[Len(s2)]
    BY <1>7, <2>1, <2>2 DEF Extends
  <2> QED
    BY <1>6, <2>3 DEF EndOf
<1>11. \A i \in 1..Len(s3) : i \in 1..Len(s) \/ s3[i] \in {e, d, Blank}
  <2>1. /\ Len(s1) = Len(s) + 1 /\ Len(s2) = Len(s1) + 1 /\ Len(s3) = Len(s2) + 1
        /\ Len(s) \in Nat
    BY <1>0, <1>1, <1>8, AppendProperties, LenProperties DEF s1, s2, s3
  <2>2. s3[Len(s3)] = Blank /\ s2[Len(s2)] = d /\ s1[Len(s1)] = e
    BY <1>5, <1>6, <1>7 DEF EndOf
  <2>3. ASSUME NEW i \in 1..Len(s3), i \notin 1..Len(s)
        PROVE  s3[i] \in {e, d, Blank}
    <3>1. i = Len(s3) \/ i = Len(s2) \/ i = Len(s1)
      BY <2>1, <2>3
    <3>2. /\ Len(s2) \in 1..Len(s2) /\ Len(s1) \in 1..Len(s1) /\ Len(s1) \in 1..Len(s2)
      BY <2>1
    <3>3. s3[Len(s2)] = d /\ s3[Len(s1)] = e
      BY <1>6, <1>7, <2>2, <3>2 DEF Extends
    <3> QED
      BY <2>2, <3>1, <3>3
  <2> QED
    BY <2>3
<1> QED
  BY <1>2, <1>7, <1>9, <1>10, <1>11 DEF d, t, h, e

\* A data line is relayed behind the event line that was kept back.
LEMMA WholeNamed ==
    ASSUME NEW s, NEW k \in Nat, NEW g, NEW named, Whole(s, k, g, named),
           EndOf(s) = Blank,
           NEW d \in Line, d.line = "data", IsText(d) => d.piece = Len(g) + 1,
           NEW name \in Names, Fits(name, d)
    PROVE  LET t == Append(Append(s, Event(name)), d)
           IN  Whole(t, k, Carried(g, d), named) /\ EndOf(t) = d /\ Extends(t, s)
<1> DEFINE e == Event(name)
           s1 == Append(s, e)
           t == Append(s1, d)
<1>1. e \in Line /\ Follows(EndOf(s), e, named) /\ Follows(e, d, named) /\ ~IsText(e)
  BY LinesAreLines DEF Follows, Event, IsText, Blank
<1>2. Carried(g, e) = g
  BY <1>1 DEF Carried
<1> HIDE DEF e, s1, t
<1>4. Whole(s1, k, g, named) /\ EndOf(s1) = e /\ Extends(s1, s)
  <2>1. /\ Whole(Append(s, e), k, Carried(g, e), named)
        /\ EndOf(Append(s, e)) = e /\ Extends(Append(s, e), s)
    BY <1>1, WholeLine
  <2> QED
    BY <1>2, <2>1 DEF s1
<1>5. Follows(EndOf(s1), d, named)
  BY <1>1, <1>4
<1>6. Whole(t, k, Carried(g, d), named) /\ EndOf(t) = d /\ Extends(t, s1)
  <2>1. /\ Whole(Append(s1, d), k, Carried(g, d), named)
        /\ EndOf(Append(s1, d)) = d /\ Extends(Append(s1, d), s1)
    BY <1>4, <1>5, WholeLine
  <2> QED
    BY <2>1 DEF t
<1>8. s \in Seq(Line) /\ s1 \in Seq(Line) /\ t \in Seq(Line)
  BY <1>4, <1>6 DEF Whole
<1>9. Extends(t, s)
  BY <1>4, <1>6, <1>8, ExtendsTransitive
<1> QED
  BY <1>6, <1>9 DEF t, s1, e

-------------------------------------------------------------------------------
(* The stream in flight, and how the steps move it.                        *)

LEMMA ChunksAreLines == Typed => \A i : Chunk(i) \in Seq(Line)
<1> SUFFICES ASSUME Typed, NEW i PROVE Chunk(i) \in Seq(Line)
  OBVIOUS
<1>1. out \in Seq(Seq(Line))
  BY DEF Typed
<1>2. DOMAIN out = 1..Len(out)
  BY <1>1, LenProperties
<1>3. i \in DOMAIN out => out[i] \in Seq(Line)
  BY <1>1, <1>2, ElementOfSeq
<1> QED
  BY <1>3, EmptySeq DEF Chunk

LEMMA StreamIsLines ==
    ASSUME Typed
    PROVE  /\ Coming \in Seq(Line) /\ Parsing \in Line /\ Stream \in Seq(Line)
           /\ Len(Coming) \in Nat /\ Len(Stream) = Len(Coming) + 1
           /\ Stream[1] = Parsing /\ Tail(Stream) = Coming
           /\ \A i \in 1..Len(Coming) : Stream[i + 1] = Coming[i]
           /\ DOMAIN Coming = 1..Len(Coming)
<1>1. Coming \in Seq(Line)
  <2>1. wire \in Seq(Line) /\ \A i : Chunk(i) \in Seq(Line)
    BY ChunksAreLines DEF Typed
  <2>2. wire \o Chunk(1) \in Seq(Line)
    BY <2>1, ConcatProperties
  <2>3. (wire \o Chunk(1)) \o Chunk(2) \in Seq(Line)
    BY <2>1, <2>2, ConcatProperties
  <2> QED
    BY <2>1, <2>3, ConcatProperties DEF Coming
<1>2. Parsing \in Line
  <2>1. CASE fData # <<>>
    <3>0. fData \in Seq(Line)
      BY DEF Typed
    <3>1. fData \in Seq(Line) /\ Len(fData) \in 1..Len(fData)
      BY <2>1, <3>0, EmptySeq
    <3> QED
      BY <2>1, <3>1, ElementOfSeq DEF Parsing
  <2>2. CASE fData = <<>>
    BY <2>2, LinesAreLines DEF Parsing, Typed
  <2> QED
    BY <2>1, <2>2
<1>3. Stream \in Seq(Line) /\ Stream # <<>> /\ Stream[1] = Parsing /\ Tail(Stream) = Coming
  <2> DEFINE p == <<Parsing>> \o wire
             q == p \o Chunk(1)
             r == q \o Chunk(2)
  <2>1. Chunk(1) \in Seq(Line) /\ Chunk(2) \in Seq(Line) /\ Chunk(3) \in Seq(Line)
    BY ChunksAreLines
  <2>2. p \in Seq(Line) /\ p # <<>> /\ p[1] = Parsing /\ Tail(p) = wire
    <3>1. wire \in Seq(Line)
      BY DEF Typed
    <3>2. <<Parsing>> \in Seq(Line) /\ <<Parsing>> # <<>> /\ <<Parsing>>[1] = Parsing
      BY <1>2
    <3>3. p \in Seq(Line) /\ p # <<>> /\ p[1] = Parsing
      BY <3>1, <3>2, HeadOfConcat
    <3> QED
      BY <1>2, <3>1, <3>3, ConsProperties
  <2> HIDE DEF p
  <2>3. q \in Seq(Line) /\ q # <<>> /\ q[1] = Parsing /\ Tail(q) = wire \o Chunk(1)
    BY <2>1, <2>2, HeadOfConcat, TailOfConcat
  <2> HIDE DEF q
  <2>4. r \in Seq(Line) /\ r # <<>> /\ r[1] = Parsing
        /\ Tail(r) = (wire \o Chunk(1)) \o Chunk(2)
    <3>1. r \in Seq(Line) /\ r # <<>> /\ r[1] = Parsing
      BY <2>1, <2>3, HeadOfConcat
    <3>2. Tail(r) = (wire \o Chunk(1)) \o Chunk(2)
      BY <2>1, <2>3, TailOfConcat
    <3> QED
      BY <3>1, <3>2
  <2> HIDE DEF r
  <2>5. r \o Chunk(3) \in Seq(Line) /\ r \o Chunk(3) # <<>>
        /\ (r \o Chunk(3))[1] = Parsing
        /\ Tail(r \o Chunk(3)) = Coming
    <3>1. r \o Chunk(3) \in Seq(Line) /\ r \o Chunk(3) # <<>>
          /\ (r \o Chunk(3))[1] = Parsing
      BY <2>1, <2>4, HeadOfConcat
    <3>2. Tail(r \o Chunk(3)) = Tail(r) \o Chunk(3)
      BY <2>1, <2>4, TailOfConcat
    <3> QED
      BY <2>4, <3>1, <3>2 DEF Coming
  <2>6. Stream = r \o Chunk(3)
    BY DEF Stream, p, q, r
  <2> QED
    BY <2>5, <2>6
<1>4. Len(Coming) \in Nat /\ DOMAIN Coming = 1..Len(Coming)
  BY <1>1, LenProperties
<1>5. /\ Len(Coming) = Len(Stream) - 1 /\ Len(Stream) \in Nat
      /\ \A i \in 1..Len(Coming) : Coming[i] = Stream[i + 1]
  BY <1>3, HeadTailProperties, LenProperties
<1>6. Len(Stream) = Len(Coming) + 1
  BY <1>4, <1>5
<1> QED
  BY <1>1, <1>2, <1>3, <1>4, <1>5, <1>6

\* What leaves the generator was counted before.
LEMMA YieldStream ==
    ASSUME Typed, Yield, link = "open"
    PROVE  Coming' = Coming /\ Parsing' = Parsing /\ Stream' = Stream
<1>1. /\ out # <<>> /\ wire' = wire \o Head(out) /\ out' = Tail(out)
      /\ fEvent' = fEvent /\ fData' = fData
  BY DEF Yield, Send
<1>2. /\ out \in Seq(Seq(Line)) /\ Len(out) \in 1..3 /\ DOMAIN out = 1..Len(out)
      /\ out' \in Seq(Seq(Line)) /\ Len(out') = Len(out) - 1
      /\ DOMAIN out' = 1..(Len(out) - 1)
      /\ \A i \in 1..(Len(out) - 1) : out'[i] = out[i + 1]
      /\ Head(out) = out[1]
  <2>1. out \in Seq(Seq(Line)) /\ Len(out) <= 3
    BY DEF Typed
  <2>2. Len(out) \in 1..3 /\ DOMAIN out = 1..Len(out)
    <3>1. Len(out) \in Nat \ {0}
      BY <1>1, <2>1, EmptySeq
    <3>2. DOMAIN out = 1..Len(out)
      BY <2>1, LenProperties
    <3>3. Len(out) <= 3
      BY <2>1
    <3> QED
      BY <3>1, <3>2, <3>3
  <2>3. /\ Tail(out) \in Seq(Seq(Line)) /\ Len(Tail(out)) = Len(out) - 1
        /\ \A i \in 1..(Len(out) - 1) : Tail(out)[i] = out[i + 1]
    BY <1>1, <2>1, HeadTailProperties
  <2>4. DOMAIN Tail(out) = 1..(Len(out) - 1)
    BY <2>3, LenProperties
  <2> QED
    BY <1>1, <2>1, <2>2, <2>3, <2>4
<1>3. /\ Chunk(1) = Head(out) /\ Chunk(1)' = Chunk(2) /\ Chunk(2)' = Chunk(3)
      /\ Chunk(3)' = <<>>
  BY <1>2 DEF Chunk
<1>4. Coming' = (((wire \o Chunk(1)) \o Chunk(2)) \o Chunk(3)) \o <<>>
  BY <1>1, <1>3 DEF Coming
<1>5. Coming' = Coming
  BY <1>4, StreamIsLines, ConcatEmptySeq DEF Coming
<1>6. Parsing' = Parsing
  BY <1>1 DEF Parsing
<1>7. <<Parsing>> \o (wire \o Chunk(1)) = (<<Parsing>> \o wire) \o Chunk(1)
  <2>1. <<Parsing>> \in Seq(Line) /\ wire \in Seq(Line) /\ Chunk(1) \in Seq(Line)
    <3>1. Parsing \in Line /\ Chunk(1) \in Seq(Line)
      BY StreamIsLines, ChunksAreLines
    <3>2. wire \in Seq(Line)
      BY DEF Typed
    <3> QED
      BY <3>1, <3>2
  <2> QED
    BY <2>1, ConcatAssociative
<1>8. Stream' = ((((<<Parsing>> \o wire) \o Chunk(1)) \o Chunk(2)) \o Chunk(3)) \o <<>>
  BY <1>1, <1>3, <1>6, <1>7 DEF Stream
<1>9. Stream' = Stream
  BY <1>8, StreamIsLines, ConcatEmptySeq DEF Stream
<1> QED
  BY <1>5, <1>6, <1>9

\* What the generator is to put out comes behind the rest.
LEMMA PutStream ==
    ASSUME Typed, out = <<>>, out' \in Seq(Seq(Line)),
           UNCHANGED <<wire, fEvent, fData>>
    PROVE  /\ Coming' = ((Coming \o Chunk(1)') \o Chunk(2)') \o Chunk(3)'
           /\ Stream' = ((Stream \o Chunk(1)') \o Chunk(2)') \o Chunk(3)'
           /\ Parsing' = Parsing
<1>1. Coming = wire
  <2>1. wire \in Seq(Line)
    BY DEF Typed
  <2>2. \A i : Chunk(i) = <<>>
    BY DEF Chunk
  <2> QED
    BY <2>1, <2>2, ConcatEmptySeq DEF Coming
<1>2. \A i : Chunk(i)' \in Seq(Line)
  BY EmptySeq, ElementOfSeq, LenProperties DEF Chunk
<1>3. Coming' = ((Coming \o Chunk(1)') \o Chunk(2)') \o Chunk(3)'
  BY <1>1 DEF Coming
<1>4. Parsing' = Parsing
  BY DEF Parsing
<1>5. Stream = <<Parsing>> \o wire
  <2>1. wire \in Seq(Line) /\ <<Parsing>> \in Seq(Line)
    <3>1. Parsing \in Line
      BY StreamIsLines
    <3>2. wire \in Seq(Line)
      BY DEF Typed
    <3> QED
      BY <3>1, <3>2
  <2>2. \A i : Chunk(i) = <<>>
    BY DEF Chunk
  <2>3. <<Parsing>> \o wire \in Seq(Line)
    BY <2>1, ConcatProperties
  <2> QED
    BY <2>2, <2>3, ConcatEmptySeq DEF Stream
<1>6. Stream' = ((Stream \o Chunk(1)') \o Chunk(2)') \o Chunk(3)'
  BY <1>4, <1>5 DEF Stream
<1> QED
  BY <1>3, <1>4, <1>6

LEMMA PutOne ==
    ASSUME Typed, out = <<>>, NEW c \in Seq(Line), out' = <<c>>,
           UNCHANGED <<wire, fEvent, fData>>
    PROVE  /\ Coming' = Coming \o c /\ Stream' = Stream \o c
           /\ Parsing' = Parsing
<1>1. out' \in Seq(Seq(Line))
  OBVIOUS
<1>2. Chunk(1)' = c /\ Chunk(2)' = <<>> /\ Chunk(3)' = <<>>
  BY DEF Chunk
<1>3. Coming \in Seq(Line) /\ Stream \in Seq(Line)
  BY StreamIsLines
<1>4. Coming \o c \in Seq(Line) /\ Stream \o c \in Seq(Line)
  BY <1>3, ConcatProperties
<1>5. /\ Coming' = ((Coming \o c) \o <<>>) \o <<>>
      /\ Stream' = ((Stream \o c) \o <<>>) \o <<>>
      /\ Parsing' = Parsing
  BY <1>1, <1>2, PutStream
<1> QED
  BY <1>4, <1>5, ConcatEmptySeq

LEMMA PutTwo ==
    ASSUME Typed, out = <<>>, NEW c \in Seq(Line), NEW d \in Seq(Line),
           out' = <<c, d>>, UNCHANGED <<wire, fEvent, fData>>
    PROVE  Stream' = (Stream \o c) \o d /\ Parsing' = Parsing
<1>1. out' \in Seq(Seq(Line))
  OBVIOUS
<1>2. Chunk(1)' = c /\ Chunk(2)' = d /\ Chunk(3)' = <<>>
  BY DEF Chunk
<1>3. Stream \in Seq(Line)
  BY StreamIsLines
<1>4. (Stream \o c) \o d \in Seq(Line)
  BY <1>3, ConcatProperties
<1> QED
  BY <1>1, <1>2, <1>4, PutStream, ConcatEmptySeq

LEMMA PutThree ==
    ASSUME Typed, out = <<>>, NEW c \in Seq(Line), NEW d \in Seq(Line),
           NEW e \in Seq(Line), out' = <<c, d, e>>,
           UNCHANGED <<wire, fEvent, fData>>
    PROVE  Stream' = ((Stream \o c) \o d) \o e /\ Parsing' = Parsing
<1>1. out' \in Seq(Seq(Line))
  OBVIOUS
<1>2. Chunk(1)' = c /\ Chunk(2)' = d /\ Chunk(3)' = e
  BY DEF Chunk
<1> QED
  BY <1>1, <1>2, PutStream

LEMMA PutNone ==
    ASSUME Typed, out = <<>>, out' = <<>>, UNCHANGED <<wire, fEvent, fData>>
    PROVE  Coming' = Coming /\ Stream' = Stream /\ Parsing' = Parsing
BY DEF Coming, Stream, Parsing, Chunk

\* The browser takes the next line.
LEMMA TakeStream ==
    ASSUME Typed, wire # <<>>, wire' = Tail(wire), out' = out
    PROVE  /\ Coming # <<>> /\ Len(Coming) >= 1 /\ Head(wire) = Coming[1]
           /\ Coming' = Tail(Coming) /\ Head(wire) \in Line
<1>1. wire \in Seq(Line) /\ \A i : Chunk(i) \in Seq(Line) /\ Chunk(i)' = Chunk(i)
  BY ChunksAreLines DEF Typed, Chunk
<1> DEFINE w1 == wire \o Chunk(1)
           w2 == w1 \o Chunk(2)
           w3 == w2 \o Chunk(3)
<1>2. Len(wire) >= 1 /\ Len(wire) \in Nat /\ Head(wire) = wire[1] /\ wire[1] \in Line
  BY <1>1, EmptySeq, HeadTailProperties, LenProperties
<1>3. /\ w1 \in Seq(Line) /\ w1 # <<>> /\ w1[1] = wire[1] /\ Len(w1) \in Nat /\ Len(w1) >= 1
      /\ Tail(w1) = Tail(wire) \o Chunk(1)
  BY <1>1, <1>2, ConcatProperties, TailOfConcat, EmptySeq, LenProperties
<1> HIDE DEF w1
<1>4. /\ w2 \in Seq(Line) /\ w2 # <<>> /\ w2[1] = w1[1] /\ Len(w2) \in Nat /\ Len(w2) >= 1
      /\ Tail(w2) = Tail(w1) \o Chunk(2)
  <2>1. /\ w2 \in Seq(Line) /\ Len(w2) = Len(w1) + Len(Chunk(2))
        /\ \A i \in 1..(Len(w1) + Len(Chunk(2))) :
              w2[i] = IF i <= Len(w1) THEN w1[i] ELSE Chunk(2)[i - Len(w1)]
    BY <1>1, <1>3, ConcatProperties
  <2>2. Len(Chunk(2)) \in Nat
    BY <1>1, LenProperties
  <2>3. w2[1] = w1[1] /\ Len(w2) \in Nat /\ Len(w2) >= 1
    BY <1>3, <2>1, <2>2
  <2>4. w2 # <<>>
    BY <2>1, <2>3, EmptySeq
  <2> QED
    BY <1>1, <1>3, <2>1, <2>3, <2>4, TailOfConcat
<1> HIDE DEF w2
<1>5. /\ w3 \in Seq(Line) /\ w3 # <<>> /\ w3[1] = w2[1] /\ Len(w3) >= 1
      /\ Tail(w3) = Tail(w2) \o Chunk(3)
  BY <1>1, <1>4, ConcatProperties, TailOfConcat, EmptySeq, LenProperties
<1>6. Coming = w3
  BY DEF Coming, w1, w2
<1>7. Coming' = ((Tail(wire) \o Chunk(1)) \o Chunk(2)) \o Chunk(3)
  BY <1>1 DEF Coming
<1> QED
  BY <1>2, <1>3, <1>4, <1>5, <1>6, <1>7

-------------------------------------------------------------------------------
(* The handlers.                                                           *)

\* A regular frame is given to its handler: text to its panel, usage and
\* errors to theirs.
LEMMA RegularDispatch ==
    ASSUME ParserStands, Dispatch, fData \in Seq(Line)
    PROVE  /\ fEvent' = NoName /\ fData' = <<>>
           /\ seen' = IF IsText(Parsing)
                      THEN Append(seen, <<ChannelOf(Parsing), Parsing.piece>>)
                      ELSE seen
           /\ told \subseteq told' /\ told' \subseteq told \cup {"end", "usage", "error"}
           /\ headed /\ IsUsage(Parsing) => "usage" \in told'
           /\ headed /\ IsError(Parsing) => "error" \in told'
           /\ fEvent # "message_end" /\ "end" \in told' => "end" \in told
<1>0. Len(<<>>) = 0
  BY EmptySeq
<1>1. CASE fEvent = NoName /\ fData = <<>>
  <2>1. seen' = seen /\ told' = told /\ Parsing = Blank
    BY <1>1 DEF Dispatch, Parsing
  <2>2. ~IsText(Parsing) /\ ~IsUsage(Parsing) /\ ~IsError(Parsing)
    BY <2>1 DEF Blank, IsText, IsUsage, IsError
  <2> QED
    BY <2>1, <2>2 DEF Dispatch
<1>2. CASE fEvent \in Names /\ fData = <<>>
  <2>1. Len(fData) # 1 /\ fEvent # NoName /\ Parsing = Event(fEvent)
    <3>1. Len(fData) # 1
      BY <1>0, <1>2
    <3>2. fEvent # NoName
      BY <1>2 DEF Names, NoName
    <3> QED
      BY <1>2, <3>1, <3>2 DEF Parsing
  <2>2. FrameName = fEvent /\ Parsed.field = "none"
    BY <2>1 DEF FrameName, Parsed, Data
  <2>3. ~IsText(Parsing) /\ ~IsUsage(Parsing) /\ ~IsError(Parsing)
    BY <2>1 DEF Event, IsText, IsUsage, IsError
  <2>4. seen' = seen
    BY <2>2 DEF Dispatch
  <2>5. told \subseteq told' /\ told' \subseteq told \cup {"end", "usage", "error"}
        /\ (fEvent # "message_end" /\ "end" \in told' => "end" \in told)
    BY <1>2, <2>2 DEF Dispatch, Names
  <2> QED
    BY <2>3, <2>4, <2>5 DEF Dispatch
<1>3. CASE /\ Len(fData) = 1 /\ fData[1].line = "data" /\ fData[1].field \in Fields
           /\ \/ fEvent = NoName /\ ~headed /\ fData[1].field # "content"
              \/ fEvent \in Names /\ Fits(fEvent, fData[1])
  <2>1. fData # <<>> /\ Parsing = fData[1] /\ Parsed = fData[1]
    <3>1. fData # <<>>
      <4>1. fData \in Seq(Line)
        OBVIOUS
      <4>2. Len(fData) # 0
        BY <1>3
      <4> QED
        BY <4>1, <4>2, EmptySeq
    <3>2. Parsed = fData[1]
      BY <1>3 DEF Parsed
    <3> QED
      BY <1>3, <3>1, <3>2 DEF Parsing
  <2>2. /\ IsText(Parsing) <=> fData[1].field \in {"answer", "content"}
        /\ IsUsage(Parsing) <=> fData[1].field = "usage"
        /\ IsError(Parsing) <=> fData[1].field = "message"
    BY <1>3, <2>1 DEF IsText, IsUsage, IsError
  <2>3. CASE fEvent = NoName /\ ~headed /\ fData[1].field # "content"
    <3>1. FrameName = "message"
      BY <2>3 DEF FrameName
    <3>2. told' = told
      BY <2>1, <3>1 DEF Dispatch
    <3>3. seen' = IF fData[1].field = "answer"
                  THEN Append(seen, <<"answer", fData[1].piece>>) ELSE seen
      BY <2>1, <3>1 DEF Dispatch
    <3> QED
      BY <2>1, <2>2, <2>3, <3>2, <3>3 DEF Dispatch, ChannelOf
  <2>4. CASE fEvent \in Names /\ Fits(fEvent, fData[1])
    <3>1. FrameName = fEvent /\ fEvent # NoName
      BY <2>4 DEF FrameName, Names, NoName
    <3>2. /\ fEvent = "message" <=> fData[1].field = "answer"
          /\ fEvent = "reasoning" <=> fData[1].field = "content"
          /\ fEvent = "message_end" <=> fData[1].field = "usage"
          /\ fEvent = "error" <=> fData[1].field = "message"
          /\ fEvent # "agent_done"
      BY <2>4 DEF Fits
    <3>3. seen' = IF fData[1].field = "answer"
                  THEN Append(seen, <<"answer", fData[1].piece>>)
                  ELSE IF fData[1].field = "content"
                  THEN Append(seen, <<"reasoning", fData[1].piece>>) ELSE seen
      BY <2>1, <3>1, <3>2 DEF Dispatch
    <3>4. told' = told \cup IF fEvent = "message_end" THEN {"end", "usage"}
                            ELSE IF fEvent = "error" THEN {"error"} ELSE {}
      BY <2>1, <3>1, <3>2 DEF Dispatch
    <3> QED
      BY <2>1, <2>2, <3>2, <3>3, <3>4 DEF Dispatch, ChannelOf
  <2> QED
    BY <1>3, <2>3, <2>4
<1> QED
  BY <1>1, <1>2, <1>3 DEF ParserStands

\* A frame of the end, or what is left of a torn one before it, shows nothing.
LEMMA LastDispatch ==
    ASSUME Dispatch, fData \in Seq(Line),
           \/ fEvent \in OwnNames
           \/ /\ fEvent = NoName
              /\ \A i \in DOMAIN fData : fData[i].field \notin {"answer", "content"}
    PROVE  /\ fEvent' = NoName /\ fData' = <<>> /\ seen' = seen
           /\ told \subseteq told' /\ told' \subseteq told \cup {"error", "agent_done"}
           /\ "agent_done" \in told' => "agent_done" \in told \/ fEvent = "agent_done"
<1>1. CASE fEvent \in OwnNames
  <2>1. FrameName = fEvent /\ fEvent # NoName
    BY <1>1 DEF FrameName, OwnNames, NoName
  <2> QED
    BY <1>1, <2>1 DEF Dispatch, OwnNames
<1>2. CASE /\ fEvent = NoName
           /\ \A i \in DOMAIN fData : fData[i].field \notin {"answer", "content"}
  <2>1. FrameName = "message"
    BY <1>2 DEF FrameName
  <2>2. Parsed.field # "answer"
    <3>1. CASE Len(fData) = 1
      <4>1. Parsed = fData[1]
        BY <3>1 DEF Parsed
      <4>0. fData \in Seq(Line)
        OBVIOUS
      <4>2. 1 \in DOMAIN fData
        <5>1. DOMAIN fData = 1..Len(fData)
          BY <4>0, LenProperties
        <5> QED
          BY <3>1, <5>1
      <4>3. fData[1].field # "answer"
        BY <1>2, <4>2
      <4> QED
        BY <4>1, <4>3
    <3>2. CASE Len(fData) # 1
      BY <3>2 DEF Parsed, Data
    <3> QED
      BY <3>1, <3>2
  <2> QED
    BY <1>2, <2>1, <2>2 DEF Dispatch
<1> QED
  BY <1>1, <1>2

-------------------------------------------------------------------------------
(* The steps.                                                              *)

\* What both generators do, whatever the upstream sends.
Shared ==
    \/ Connect \/ Fail \/ Yield \/ LeaveTry \/ Disconnect
    \/ Save \/ SaveFails \/ AgentDone \/ Return

\* A line of a chat upstream, by what the proxy makes of it.
ChatLine ==
    /\ mode = "chat" /\ pc = "reading"
    /\ UNCHANGED <<clientVars, terminal, saved, held, mode, headed, runVars>>

\* A line of a workflow upstream.
RunLine ==
    /\ mode = "workflow" /\ pc = "reading"
    /\ UNCHANGED <<clientVars, terminal, saved, held, mode, chatVars>>

LEMMA SameSteps ==
    /\ (Chat!Connect \/ Chat!Fail \/ Chat!Ending \/ Chat!Disconnect) => Shared
    /\ (Workflow!Connect \/ Workflow!Fail \/ Workflow!Ending \/ Workflow!Disconnect)
          => Shared
<1>1. /\ Chat!Connect <=> Connect
      /\ Workflow!Connect <=> Connect
  BY DEF Chat!Connect, Workflow!Connect, Connect, Chat!clientVars,
         Workflow!clientVars, clientVars
<1>2. /\ Chat!Fail <=> Fail
      /\ Workflow!Fail <=> Fail
  BY DEF Chat!Fail, Workflow!Fail, Fail, Chat!Close, Workflow!Close, Close,
         Chat!Sse, Workflow!Sse, Sse, Chat!Event, Workflow!Event, Event,
         Chat!Data, Workflow!Data, Data, Chat!Blank, Workflow!Blank, Blank,
         Chat!Released, Workflow!Released, Released,
         Chat!clientVars, Workflow!clientVars, clientVars
<1>3. /\ Chat!Yield <=> Yield
      /\ Workflow!Yield <=> Yield
  BY DEF Chat!Yield, Workflow!Yield, Yield, Chat!Send, Workflow!Send, Send
<1>4. /\ Chat!LeaveTry <=> LeaveTry
      /\ Workflow!LeaveTry <=> LeaveTry
  BY DEF Chat!LeaveTry, Workflow!LeaveTry, LeaveTry,
         Chat!Released, Workflow!Released, Released,
         Chat!clientVars, Workflow!clientVars, clientVars
<1>5. /\ Chat!Disconnect <=> Disconnect
      /\ Workflow!Disconnect <=> Disconnect
  BY DEF Chat!Disconnect, Workflow!Disconnect, Disconnect,
         Chat!Released, Workflow!Released, Released,
         Chat!clientVars, Workflow!clientVars, clientVars
<1>6. /\ Chat!Save <=> Save
      /\ Workflow!Save <=> Save
  BY DEF Chat!Save, Workflow!Save, Save,
         Chat!clientVars, Workflow!clientVars, clientVars
<1>7. /\ Chat!SaveFails <=> SaveFails
      /\ Workflow!SaveFails <=> SaveFails
  BY DEF Chat!SaveFails, Workflow!SaveFails, SaveFails,
         Chat!NoName, Workflow!NoName, NoName
<1>8. /\ Chat!AgentDone <=> AgentDone
      /\ Workflow!AgentDone <=> AgentDone
  BY DEF Chat!AgentDone, Workflow!AgentDone, AgentDone,
         Chat!Sse, Workflow!Sse, Sse, Chat!Event, Workflow!Event, Event,
         Chat!Data, Workflow!Data, Data, Chat!Blank, Workflow!Blank, Blank,
         Chat!clientVars, Workflow!clientVars, clientVars
<1>9. /\ Chat!Return <=> Return
      /\ Workflow!Return <=> Return
  BY DEF Chat!Return, Workflow!Return, Return
<1> QED
  BY <1>1, <1>2, <1>3, <1>4, <1>5, <1>6, <1>7, <1>8, <1>9
     DEF Chat!Ending, Workflow!Ending, Shared

LEMMA ChatSteps ==
    ASSUME Chat!Proxy, mode = "chat", UNCHANGED <<mode, runVars>>
    PROVE  \/ Shared /\ UNCHANGED readVars
           \/ EndOfStream(Chat!Pending) /\ UNCHANGED readVars
           \/ \E k \in Chat!Kind : ChatLine /\ (Chat!ReadEvent(k) \/ Chat!ReadData(k))
           \/ ChatLine /\ Chat!ReadBlank
<1>1. CASE Chat!Read
  <2>1. CASE \E k \in Chat!Kind : Chat!ReadEvent(k)
    BY <2>1 DEF Chat!ReadEvent, ChatLine, Chat!clientVars, Chat!genVars, clientVars
  <2>2. CASE \E k \in Chat!Kind : Chat!ReadData(k)
    BY <2>2 DEF Chat!ReadData, ChatLine, Chat!clientVars, clientVars
  <2>3. CASE Chat!ReadBlank
    BY <2>3 DEF Chat!ReadBlank, ChatLine, Chat!clientVars, clientVars
  <2> QED
    BY <1>1, <2>1, <2>2, <2>3 DEF Chat!Read
<1>2. CASE Chat!Over
  <2>1. UNCHANGED readVars
    BY <1>2 DEF Chat!Over, Chat!readVars, readVars, chatVars
  <2>2. Chat!Fail => Shared
    BY SameSteps
  <2>3. Chat!EndOfStream(Chat!Pending) => EndOfStream(Chat!Pending)
    BY DEF Chat!EndOfStream, EndOfStream, Chat!Close, Close, Chat!clientVars, clientVars
  <2> QED
    BY <1>2, <2>1, <2>2, <2>3 DEF Chat!Over
<1>3. CASE (Chat!Connect \/ Chat!Ending \/ Chat!Disconnect) /\ UNCHANGED Chat!readVars
  <2>1. UNCHANGED readVars
    BY <1>3 DEF Chat!readVars, readVars, chatVars
  <2> QED
    BY <1>3, <2>1, SameSteps
<1> QED
  BY <1>1, <1>2, <1>3 DEF Chat!Proxy

LEMMA RunSteps ==
    ASSUME Workflow!Proxy, mode = "workflow", UNCHANGED <<mode, chatVars>>
    PROVE  \/ Shared /\ UNCHANGED readVars
           \/ EndOfStream(<<>>) /\ UNCHANGED readVars
           \/ \E k \in Workflow!Kind :
                 RunLine /\ (Workflow!ReadEvent(k) \/ Workflow!ReadData(k))
           \/ RunLine /\ Workflow!ReadBlank
<1>1. CASE Workflow!Read
  <2>1. CASE \E k \in Workflow!Kind : Workflow!ReadEvent(k)
    BY <2>1 DEF Workflow!ReadEvent, Workflow!More, RunLine, Workflow!clientVars,
                Workflow!genVars, clientVars
  <2>2. CASE \E k \in Workflow!Kind : Workflow!ReadData(k)
    BY <2>2 DEF Workflow!ReadData, Workflow!More, RunLine, Workflow!clientVars, clientVars
  <2>3. CASE Workflow!ReadBlank
    BY <2>3 DEF Workflow!ReadBlank, Workflow!More, RunLine, Workflow!clientVars,
                Workflow!genVars, clientVars
  <2> QED
    BY <1>1, <2>1, <2>2, <2>3 DEF Workflow!Read
<1>2. CASE /\ \/ Workflow!EndOfStream(<<>>) \/ Workflow!Fail \/ Workflow!Connect
              \/ Workflow!Ending \/ Workflow!Disconnect
           /\ UNCHANGED Workflow!readVars
  <2>1. UNCHANGED readVars
    BY <1>2 DEF Workflow!readVars, readVars, runVars
  <2>2. Workflow!EndOfStream(<<>>) => EndOfStream(<<>>)
    BY DEF Workflow!EndOfStream, EndOfStream, Workflow!Close, Close,
           Workflow!clientVars, clientVars
  <2> QED
    BY <1>2, <2>1, <2>2, SameSteps
<1> QED
  BY <1>1, <1>2 DEF Workflow!Proxy

(* What a line of a chat upstream leads to.                                *)

LEMMA ChatData ==
    ASSUME Typed, ReaderStands, ChatLine, NEW k \in Chat!Kind, Chat!ReadData(k)
    PROVE  /\ pc' = "yielding" /\ frame' = k /\ inData' = TRUE /\ pend' = NoName
           /\ cur' = cur /\ cur \in {NoName, Chat!EventOf(k)}
           /\ \/ pend = NoName /\ ~headed /\ frame = "none"
              \/ pend = Chat!EventOf(k) /\ pend # NoName
           /\ usage' = (usage \/ k = "message_end")
           /\ gen' = gen \o Chat!Pieces(Chat!EventOf(k), k)
           /\ out' = Chat!Relay(Chat!EventOf(k), k) /\ out' # <<>>
<1>1. /\ mode = "chat" /\ pc = "reading" /\ Reading
      /\ k \in {"message", "thoughtful", "agent_thought", "message_end", "error", "ping"}
  BY DEF ChatLine, Reading, Chat!Kind
<1>2. Chat!EventOf(k) \in {"message", "agent_thought", "message_end", "error", "ping"}
  BY <1>1 DEF Chat!EventOf
<1>3. \/ frame = "none" /\ cur = NoName /\ pend = NoName /\ ~headed
      \/ cur = Chat!EventOf(k) /\ pend = Chat!EventOf(k)
  BY <1>1 DEF Chat!ReadData, ReaderStands, Chat!Kind
<1>4. (IF cur = NoName THEN Chat!EventOf(k) ELSE cur) = Chat!EventOf(k)
  BY <1>3
<1>5. Chat!NoName = NoName
  BY DEF Chat!NoName, NoName
<1>6. /\ gen' = gen \o Chat!Pieces(Chat!EventOf(k), k)
      /\ usage' = (usage \/ (Chat!EventOf(k) = "message_end" /\ k = "message_end"))
      /\ out' = Chat!Relay(Chat!EventOf(k), k)
  BY <1>4, <1>5 DEF Chat!ReadData
<1>7. out' # <<>>
  <2>1. CASE Chat!EventOf(k) = "agent_thought"
    <3>1. k = "agent_thought"
      BY <1>1, <2>1 DEF Chat!EventOf
    <3>2. Chat!Pieces(Chat!EventOf(k), k) = <<"reasoning">>
      BY <2>1, <3>1 DEF Chat!Pieces
    <3> QED
      BY <1>6, <2>1, <3>2 DEF Chat!Relay
  <2>2. CASE Chat!EventOf(k) # "agent_thought"
    BY <1>6, <2>2 DEF Chat!Relay
  <2> QED
    BY <2>1, <2>2
<1>8. usage' = (usage \/ k = "message_end")
  BY <1>1, <1>6 DEF Chat!EventOf
<1>9. /\ pc' = "yielding" /\ frame' = k /\ inData' = TRUE /\ pend' = NoName
      /\ cur' = cur
  BY <1>5, <1>7 DEF Chat!ReadData
<1> QED
  BY <1>2, <1>3, <1>6, <1>7, <1>8, <1>9 DEF NoName

LEMMA ChatRelay ==
    ASSUME Typed, NEW k \in Chat!Kind, NEW r, NEW e, NEW d,
           r = Sse("reasoning", "content", Len(gen) + 1),
           e = Event(pend),
           d = Data(Chat!FieldOf(k), Len(gen) + (IF k = "thoughtful" THEN 2 ELSE 1))
    PROVE  LET g == gen \o Chat!Pieces(Chat!EventOf(k), k)
               o == Chat!Relay(Chat!EventOf(k), k)
           IN  /\ k = "agent_thought" => g = Append(gen, "reasoning") /\ o = <<r>>
               /\ k = "thoughtful" =>
                     /\ g = Append(Append(gen, "reasoning"), "answer")
                     /\ o = IF pend = NoName THEN <<r, <<d>> >> ELSE <<r, <<e>>, <<d>> >>
               /\ k = "message" => g = Append(gen, "answer")
               /\ k \in {"message_end", "error", "ping"} => g = gen
               /\ k \in {"message", "message_end", "error", "ping"} =>
                     o = IF pend = NoName THEN << <<d>> >> ELSE << <<e>>, <<d>> >>
<1> DEFINE ps == Chat!Pieces(Chat!EventOf(k), k)
           o == Chat!Relay(Chat!EventOf(k), k)
           P == IF pend = NoName THEN <<>> ELSE << <<e>> >>
<1>1. k \in {"message", "thoughtful", "agent_thought", "message_end", "error", "ping"}
  BY DEF Chat!Kind
<1>2. gen \in Seq(Channel) /\ "answer" \in Channel /\ "reasoning" \in Channel
  BY DEF Typed, Channel
<1>3. Chat!Pending = P /\ Chat!Sse("reasoning", "content", Len(gen) + 1) = r
  BY DEF Chat!Pending, Chat!Event, Event, Chat!NoName, NoName, Chat!Sse, Sse,
         Chat!Data, Data, Chat!Blank, Blank
<1>4. Chat!Data(Chat!FieldOf(k), Len(gen) + (IF k = "thoughtful" THEN 2 ELSE 1)) = d
  BY DEF Chat!Data, Data
<1>5. /\ k = "agent_thought" => ps = <<"reasoning">> /\ Chat!EventOf(k) = "agent_thought"
      /\ k = "thoughtful" => ps = <<"reasoning", "answer">>
      /\ k = "message" => ps = <<"answer">>
      /\ k \in {"message_end", "error", "ping"} => ps = <<>>
      /\ k # "agent_thought" => Chat!EventOf(k) # "agent_thought"
  BY <1>1 DEF Chat!Pieces, Chat!EventOf
<1>6. o = (IF ps # <<>> /\ Head(ps) = "reasoning" THEN <<r>> ELSE <<>>)
          \o (IF Chat!EventOf(k) = "agent_thought" THEN <<>>
              ELSE Append(P, <<d>>))
  BY <1>3, <1>4 DEF Chat!Relay
<1> HIDE DEF ps, o
<1>7. /\ k = "agent_thought" => gen \o ps = Append(gen, "reasoning")
      /\ k = "thoughtful" => gen \o ps = Append(Append(gen, "reasoning"), "answer")
      /\ k = "message" => gen \o ps = Append(gen, "answer")
      /\ k \in {"message_end", "error", "ping"} => gen \o ps = gen
  <2>1. /\ Append(gen, "reasoning") = gen \o <<"reasoning">>
        /\ Append(gen, "reasoning") \in Seq(Channel)
        /\ Append(gen, "answer") = gen \o <<"answer">>
    BY <1>2, AppendIsConcat, AppendProperties
  <2>2. Append(Append(gen, "reasoning"), "answer") = (gen \o <<"reasoning">>) \o <<"answer">>
    BY <1>2, <2>1, AppendIsConcat
  <2>3. <<"reasoning">> \in Seq(Channel) /\ <<"answer">> \in Seq(Channel)
    BY <1>2
  <2>4. (gen \o <<"reasoning">>) \o <<"answer">> = gen \o (<<"reasoning">> \o <<"answer">>)
    BY <1>2, <2>3, ConcatAssociative
  <2>5. <<"reasoning">> \o <<"answer">> = <<"reasoning", "answer">>
    BY ShortSequences
  <2>6. gen \o <<>> = gen
    BY <1>2, ConcatEmptySeq
  <2> QED
    BY <1>5, <2>1, <2>2, <2>4, <2>5, <2>6
<1>8. Append(P, <<d>>) = IF pend = NoName THEN << <<d>> >> ELSE << <<e>>, <<d>> >>
  BY ShortSequences
<1> HIDE DEF P
<1>9. ASSUME k = "agent_thought" PROVE o = <<r>>
  <2>1. ps # <<>> /\ Head(ps) = "reasoning"
    BY <1>5, <1>9
  <2>2. o = <<r>> \o <<>>
    BY <1>5, <1>6, <1>9, <2>1
  <2>3. <<r>> \in Seq({r})
    OBVIOUS
  <2>4. <<r>> \o <<>> = <<r>>
    BY <2>3, ConcatEmptySeq
  <2> QED
    BY <2>2, <2>4
<1>10. ASSUME k = "thoughtful"
       PROVE  o = IF pend = NoName THEN <<r, <<d>> >> ELSE <<r, <<e>>, <<d>> >>
  <2>1. ps # <<>> /\ Head(ps) = "reasoning"
    BY <1>5, <1>10
  <2>2. o = <<r>> \o Append(P, <<d>>)
    BY <1>5, <1>6, <1>10, <2>1
  <2>3. <<r>> \o << <<d>> >> = <<r, <<d>> >>
    BY ShortSequences
  <2>4. <<r>> \o << <<e>>, <<d>> >> = <<r, <<e>>, <<d>> >>
    <3>1. PICK x, y : x = <<e>> /\ y = <<d>>
      OBVIOUS
    <3>2. <<r>> \o <<x, y>> = <<r, x, y>>
      BY ShortSequences
    <3> QED
      BY <3>1, <3>2
  <2> QED
    BY <1>8, <2>2, <2>3, <2>4
<1>11. ASSUME k \in {"message", "message_end", "error", "ping"}
       PROVE  o = IF pend = NoName THEN << <<d>> >> ELSE << <<e>>, <<d>> >>
  <2>1. ~(ps # <<>> /\ Head(ps) = "reasoning")
    BY <1>5, <1>11
  <2>2. o = <<>> \o Append(P, <<d>>)
    BY <1>5, <1>6, <1>11, <2>1
  <2>3. <<>> \o << <<d>> >> = << <<d>> >>
    BY ShortSequences
  <2>4. <<>> \o << <<e>>, <<d>> >> = << <<e>>, <<d>> >>
    BY ShortSequences
  <2> QED
    BY <1>8, <2>2, <2>3, <2>4
<1> QED
  BY <1>7, <1>9, <1>10, <1>11 DEF ps, o

LEMMA ChatDataStream ==
    ASSUME Typed, ReaderStands, ChatLine, NEW k \in Chat!Kind, Chat!ReadData(k),
           EndOf(Stream) = Blank,
           NEW j \in Nat, Whole(Stream, j, gen, headed)
    PROVE  /\ Whole(Stream', j, gen', headed) /\ Extends(Stream', Stream)
           /\ k = "message_end" => IsUsage(EndOf(Stream'))
<1> DEFINE L == Len(gen)
           r == Sse("reasoning", "content", L + 1)
           own == L + (IF k = "thoughtful" THEN 2 ELSE 1)
           d == Data(Chat!FieldOf(k), own)
           e == Event(pend)
<1>1. /\ Stream \in Seq(Line) /\ out = <<>> /\ gen \in Seq(Channel)
      /\ L \in Nat /\ own \in Nat
  <2>1. Stream \in Seq(Line)
    BY StreamIsLines
  <2>2. out = <<>> /\ gen \in Seq(Channel)
    BY DEF Typed, ChatLine
  <2> QED
    BY <2>1, <2>2, LenProperties
<1>2. k \in {"message", "thoughtful", "agent_thought", "message_end", "error", "ping"}
  BY DEF Chat!Kind
<1>3. /\ \/ pend = NoName /\ ~headed
         \/ pend = Chat!EventOf(k) /\ pend # NoName
      /\ gen' = gen \o Chat!Pieces(Chat!EventOf(k), k)
      /\ out' = Chat!Relay(Chat!EventOf(k), k)
  BY ChatData
<1>4. /\ k = "agent_thought" => gen' = Append(gen, "reasoning") /\ out' = <<r>>
      /\ k = "thoughtful" =>
            /\ gen' = Append(Append(gen, "reasoning"), "answer")
            /\ out' = IF pend = NoName THEN <<r, <<d>> >> ELSE <<r, <<e>>, <<d>> >>
      /\ k = "message" => gen' = Append(gen, "answer")
      /\ k \in {"message_end", "error", "ping"} => gen' = gen
      /\ k \in {"message", "message_end", "error", "ping"} =>
            out' = IF pend = NoName THEN << <<d>> >> ELSE << <<e>>, <<d>> >>
  BY <1>3, ChatRelay
<1>5. /\ k # "agent_thought" => Chat!EventOf(k) \in Names /\ Fits(Chat!EventOf(k), d)
      /\ IsText(d) <=> k \in {"message", "thoughtful"}
      /\ IsText(d) => d.piece = own /\ ChannelOf(d) = "answer"
      /\ IsUsage(d) <=> k = "message_end"
      /\ d.line = "data" /\ d.field # "content"
      /\ k # "agent_thought" => d \in Line
  <2>1. /\ k # "agent_thought" => Chat!FieldOf(k) \in Fields
        /\ Chat!FieldOf(k) # "content"
        /\ Chat!FieldOf(k) = "answer" <=> k \in {"message", "thoughtful"}
        /\ Chat!FieldOf(k) = "usage" <=> k = "message_end"
        /\ k # "agent_thought" => Chat!EventOf(k) \in Names
        /\ k # "agent_thought" =>
              <<Chat!EventOf(k), Chat!FieldOf(k)>> \in
                  {<<"message", "answer">>, <<"message_end", "usage">>,
                   <<"error", "message">>, <<"ping", "none">>}
    BY <1>2 DEF Chat!FieldOf, Chat!EventOf, Fields, Names
  <2>2. d.line = "data" /\ d.field = Chat!FieldOf(k) /\ d.piece = own
    BY DEF Data
  <2>3. k # "agent_thought" => d \in Line
    BY <1>1, <2>1, LinesAreLines
  <2> HIDE DEF d
  <2> QED
    BY <2>1, <2>2, <2>3 DEF Fits, IsText, IsUsage, ChannelOf
<1> HIDE DEF d, L, own
<1>6. UNCHANGED <<wire, fEvent, fData>>
  BY DEF ChatLine, clientVars
<1>7. ASSUME NEW s, NEW g, Whole(s, j, g, headed), EndOf(s) = Blank,
             IsText(d) => own = Len(g) + 1, k # "agent_thought",
             NEW t, t = IF pend = NoName THEN Append(s, d) ELSE Append(Append(s, e), d)
      PROVE  /\ Whole(t, j, Carried(g, d), headed) /\ EndOf(t) = d /\ Extends(t, s)
  <2>0. d \in Line /\ d.line = "data" /\ d.field # "content"
        /\ (IsText(d) => d.piece = Len(g) + 1)
    BY <1>5, <1>7
  <2>1. CASE pend = NoName
    <3>1. ~headed
      BY <1>3, <2>1
    <3>2. t = Append(s, d)
      BY <1>7, <2>1
    <3>3. Follows(EndOf(s), d, headed)
      BY <1>7, <2>0, <3>1 DEF Follows
    <3>4. /\ Whole(Append(s, d), j, Carried(g, d), headed)
          /\ EndOf(Append(s, d)) = d /\ Extends(Append(s, d), s)
      BY <1>7, <2>0, <3>3, WholeLine
    <3> QED
      BY <3>2, <3>4
  <2>2. CASE pend # NoName
    <3>1. pend \in Names /\ Fits(pend, d)
      BY <1>3, <1>5, <1>7, <2>2
    <3>2. t = Append(Append(s, Event(pend)), d)
      BY <1>7, <2>2
    <3> QED
      BY <1>7, <2>0, <3>1, <3>2, WholeNamed
  <2> QED
    BY <2>1, <2>2
<1>8. ASSUME k \in {"agent_thought", "thoughtful"}
      PROVE  /\ Whole(Stream \o r, j, Append(gen, "reasoning"), headed)
             /\ EndOf(Stream \o r) = Blank /\ Extends(Stream \o r, Stream)
             /\ Append(gen, "reasoning") \in Seq(Channel)
             /\ Len(Append(gen, "reasoning")) = L + 1
  <2> DEFINE x == Data("content", L + 1)
  <2>1. /\ "reasoning" \in Names /\ "content" \in Fields /\ L + 1 \in Nat
        /\ Fits("reasoning", x) /\ IsText(x) /\ ChannelOf(x) = "reasoning"
    BY <1>1 DEF Names, Fits, Fields, IsText, ChannelOf, Data
  <2>2. Carried(gen, x) = Append(gen, "reasoning")
    BY <2>1 DEF Carried
  <2>3. IsText(x) => L + 1 = Len(gen) + 1
    BY DEF L
  <2>4. /\ Whole(Stream \o r, j, Carried(gen, x), headed)
        /\ EndOf(Stream \o r) = Blank /\ Extends(Stream \o r, Stream)
    BY <2>1, <2>3, WholeFrame
  <2>5. Append(gen, "reasoning") \in Seq(Channel) /\ Len(Append(gen, "reasoning")) = L + 1
    BY <1>1, AppendProperties DEF Channel, L
  <2> QED
    BY <2>2, <2>4, <2>5
<1>9. /\ r \in Seq(Line)
      /\ k # "agent_thought" => <<d>> \in Seq(Line)
      /\ k # "agent_thought" /\ pend # NoName => <<e>> \in Seq(Line) /\ e \in Line
  <2>1. r \in Seq(Line)
    <3>1. /\ Event("reasoning") \in Line /\ Data("content", L + 1) \in Line
          /\ Blank \in Line
      BY <1>1, LinesAreLines DEF Names, Fields
    <3> QED
      BY <3>1 DEF Sse
  <2>2. k # "agent_thought" => <<d>> \in Seq(Line)
    BY <1>5
  <2>3. k # "agent_thought" /\ pend # NoName => e \in Line
    BY <1>3, <1>5, LinesAreLines
  <2> QED
    BY <2>1, <2>2, <2>3
<1> HIDE DEF r, e
<1>10. CASE k = "agent_thought"
  <2>1. Stream' = Stream \o r
    BY <1>1, <1>4, <1>6, <1>9, <1>10, PutOne
  <2> QED
    BY <1>4, <1>8, <1>10, <2>1
<1>11. CASE k = "thoughtful"
  <2> DEFINE s == Stream \o r
             g == Append(gen, "reasoning")
  <2>1. /\ Whole(s, j, g, headed) /\ EndOf(s) = Blank /\ Extends(s, Stream)
        /\ g \in Seq(Channel) /\ Len(g) = L + 1
    BY <1>8, <1>11
  <2>2. s \in Seq(Line)
    BY <2>1 DEF Whole
  <2>3. gen' = Append(g, "answer") /\ own = Len(g) + 1
    <3>1. own = L + 2
      BY <1>11 DEF own
    <3> QED
      BY <1>1, <1>4, <1>11, <2>1, <3>1
  <2>4. Stream' = IF pend = NoName THEN Append(s, d) ELSE Append(Append(s, e), d)
    <3>1. CASE pend = NoName
      <4>1. out' = <<r, <<d>> >>
        BY <1>4, <1>11, <3>1
      <4>2. Stream' = s \o <<d>>
        BY <1>1, <1>6, <1>9, <1>11, <4>1, PutTwo
      <4>3. Append(s, d) = s \o <<d>>
        BY <1>5, <1>11, <2>2, AppendIsConcat
      <4> QED
        BY <3>1, <4>2, <4>3
    <3>2. CASE pend # NoName
      <4>1. out' = <<r, <<e>>, <<d>> >>
        BY <1>4, <1>11, <3>2
      <4>2. Stream' = (s \o <<e>>) \o <<d>>
        BY <1>1, <1>6, <1>9, <1>11, <3>2, <4>1, PutThree
      <4>3. Append(s, e) = s \o <<e>> /\ Append(s, e) \in Seq(Line)
        BY <1>9, <1>11, <2>2, <3>2, AppendIsConcat, AppendProperties
      <4>4. Append(Append(s, e), d) = Append(s, e) \o <<d>>
        BY <1>5, <1>11, <4>3, AppendIsConcat
      <4> QED
        BY <3>2, <4>2, <4>3, <4>4
    <3> QED
      BY <3>1, <3>2
  <2> HIDE DEF s, g
  <2>5. /\ Whole(Stream', j, Carried(g, d), headed) /\ EndOf(Stream') = d
        /\ Extends(Stream', s)
    BY <1>7, <1>11, <2>1, <2>3, <2>4
  <2>6. Carried(g, d) = gen'
    BY <1>5, <1>11, <2>3 DEF Carried
  <2>7. Extends(Stream', Stream)
    <3>1. Stream' \in Seq(Line)
      BY <2>5 DEF Whole
    <3> QED
      BY <1>1, <2>1, <2>2, <2>5, <3>1, ExtendsTransitive
  <2> QED
    BY <1>11, <2>5, <2>6, <2>7
<1>12. CASE k \in {"message", "message_end", "error", "ping"}
  <2>1. own = L + 1 /\ k # "agent_thought" /\ L = Len(gen)
    BY <1>12 DEF own, L
  <2>2. Stream' = IF pend = NoName THEN Append(Stream, d)
                  ELSE Append(Append(Stream, e), d)
    <3>1. CASE pend = NoName
      <4>1. out' = << <<d>> >>
        BY <1>4, <1>12, <3>1
      <4>2. Stream' = Stream \o <<d>>
        BY <1>1, <1>6, <1>9, <2>1, <4>1, PutOne
      <4>3. Append(Stream, d) = Stream \o <<d>>
        BY <1>1, <1>5, <2>1, AppendIsConcat
      <4> QED
        BY <3>1, <4>2, <4>3
    <3>2. CASE pend # NoName
      <4>1. out' = << <<e>>, <<d>> >>
        BY <1>4, <1>12, <3>2
      <4>2. Stream' = (Stream \o <<e>>) \o <<d>>
        BY <1>1, <1>6, <1>9, <2>1, <3>2, <4>1, PutTwo
      <4>3. Append(Stream, e) = Stream \o <<e>> /\ Append(Stream, e) \in Seq(Line)
        BY <1>1, <1>9, <2>1, <3>2, AppendIsConcat, AppendProperties
      <4>4. Append(Append(Stream, e), d) = Append(Stream, e) \o <<d>>
        BY <1>5, <2>1, <4>3, AppendIsConcat
      <4> QED
        BY <3>2, <4>2, <4>3, <4>4
    <3> QED
      BY <3>1, <3>2
  <2>3. /\ Whole(Stream', j, Carried(gen, d), headed) /\ EndOf(Stream') = d
        /\ Extends(Stream', Stream)
    BY <1>7, <2>1, <2>2
  <2>4. Carried(gen, d) = gen'
    <3>1. CASE k = "message"
      BY <1>4, <1>5, <3>1 DEF Carried
    <3>2. CASE k \in {"message_end", "error", "ping"}
      BY <1>4, <1>5, <3>2 DEF Carried
    <3> QED
      BY <1>12, <3>1, <3>2
  <2> QED
    BY <1>5, <2>3, <2>4
<1> QED
  BY <1>2, <1>10, <1>11, <1>12

LEMMA ChatDataTyped ==
    ASSUME Typed, ReaderStands, ChatLine, NEW k \in Chat!Kind, Chat!ReadData(k)
    PROVE  /\ gen' \in Seq(Channel) /\ Extends(gen', gen)
           /\ out' \in Seq(Seq(Line)) /\ Len(out') <= 3
<1> DEFINE L == Len(gen)
           r == Sse("reasoning", "content", L + 1)
           own == L + (IF k = "thoughtful" THEN 2 ELSE 1)
           d == Data(Chat!FieldOf(k), own)
           e == Event(pend)
<1>1. /\ k \in {"message", "thoughtful", "agent_thought", "message_end", "error", "ping"}
      /\ gen \in Seq(Channel) /\ L \in Nat /\ own \in Nat
      /\ "answer" \in Channel /\ "reasoning" \in Channel
  BY LenProperties DEF Chat!Kind, Typed, Channel
<1>2. /\ pend = NoName \/ pend = Chat!EventOf(k)
      /\ gen' = gen \o Chat!Pieces(Chat!EventOf(k), k)
      /\ out' = Chat!Relay(Chat!EventOf(k), k)
  BY ChatData
<1>3. /\ k = "agent_thought" => gen' = Append(gen, "reasoning") /\ out' = <<r>>
      /\ k = "thoughtful" =>
            /\ gen' = Append(Append(gen, "reasoning"), "answer")
            /\ out' = IF pend = NoName THEN <<r, <<d>> >> ELSE <<r, <<e>>, <<d>> >>
      /\ k = "message" => gen' = Append(gen, "answer")
      /\ k \in {"message_end", "error", "ping"} => gen' = gen
      /\ k \in {"message", "message_end", "error", "ping"} =>
            out' = IF pend = NoName THEN << <<d>> >> ELSE << <<e>>, <<d>> >>
  BY <1>2, ChatRelay
<1>4. /\ r \in Seq(Line)
      /\ k # "agent_thought" => <<d>> \in Seq(Line)
      /\ k # "agent_thought" /\ pend # NoName => <<e>> \in Seq(Line)
  <2>1. k # "agent_thought" => /\ Chat!FieldOf(k) \in Fields
                               /\ Chat!EventOf(k) \in Names
    BY <1>1 DEF Chat!FieldOf, Chat!EventOf, Fields, Names
  <2>2. k # "agent_thought" => d \in Line
    BY <1>1, <2>1, LinesAreLines
  <2>3. k # "agent_thought" /\ pend # NoName => e \in Line
    BY <1>2, <2>1, LinesAreLines
  <2>4. /\ Event("reasoning") \in Line /\ Data("content", L + 1) \in Line
        /\ Blank \in Line
    BY <1>1, LinesAreLines DEF Names, Fields
  <2>5. r \in Seq(Line)
    BY <2>4 DEF Sse
  <2> QED
    BY <2>2, <2>3, <2>5
<1> HIDE DEF r, d, e
<1>5. gen' \in Seq(Channel) /\ Extends(gen', gen)
  <2>1. \A c \in Channel :
            /\ Append(gen, c) \in Seq(Channel) /\ Len(Append(gen, c)) = L + 1
            /\ \A i \in 1..L : Append(gen, c)[i] = gen[i]
    BY <1>1, AppendProperties
  <2>2. CASE k \in {"agent_thought", "message", "message_end", "error", "ping"}
    <3>1. \/ gen' = Append(gen, "reasoning") \/ gen' = Append(gen, "answer")
          \/ gen' = gen
      BY <1>3, <2>2
    <3>2. \A c \in Channel : Extends(Append(gen, c), gen)
      BY <1>1, <2>1 DEF Extends
    <3>3. Extends(gen, gen)
      BY <1>1 DEF Extends
    <3> QED
      BY <1>1, <2>1, <3>1, <3>2, <3>3
  <2>3. CASE k = "thoughtful"
    <3> DEFINE g == Append(gen, "reasoning")
    <3>1. /\ g \in Seq(Channel) /\ Len(g) = L + 1 /\ \A i \in 1..L : g[i] = gen[i]
      BY <1>1, <2>1
    <3>2. gen' = Append(g, "answer")
      BY <1>3, <2>3
    <3> HIDE DEF g
    <3>3. /\ Append(g, "answer") \in Seq(Channel) /\ Len(Append(g, "answer")) = L + 1 + 1
          /\ \A i \in 1..(L + 1) : Append(g, "answer")[i] = g[i]
      BY <1>1, <3>1, AppendProperties
    <3>4. \A i \in 1..L : i \in 1..(L + 1)
      BY <1>1
    <3> QED
      BY <1>1, <3>1, <3>2, <3>3, <3>4 DEF Extends
  <2> QED
    BY <1>1, <2>2, <2>3
<1>6. out' \in Seq(Seq(Line)) /\ Len(out') <= 3
  <2> DEFINE D == <<d>>
             E == <<e>>
  <2>1. /\ k = "agent_thought" => out' = <<r>>
        /\ k = "thoughtful" => out' = IF pend = NoName THEN <<r, D>> ELSE <<r, E, D>>
        /\ k \in {"message", "message_end", "error", "ping"} =>
              out' = IF pend = NoName THEN <<D>> ELSE <<E, D>>
    BY <1>3
  <2>2. /\ r \in Seq(Line) /\ (k # "agent_thought" => D \in Seq(Line))
        /\ k # "agent_thought" /\ pend # NoName => E \in Seq(Line)
    BY <1>4
  <2> HIDE DEF D, E
  <2>3. CASE k = "agent_thought"
    <3>1. out' = <<r>>
      BY <2>1, <2>3
    <3> QED
      BY <2>2, <3>1
  <2>4. CASE k = "thoughtful"
    <3>1. CASE pend = NoName
      <4>1. out' = <<r, D>>
        BY <2>1, <2>4, <3>1
      <4> QED
        BY <2>2, <2>4, <4>1
    <3>2. CASE pend # NoName
      <4>1. out' = <<r, E, D>>
        BY <2>1, <2>4, <3>2
      <4> QED
        BY <2>2, <2>4, <3>2, <4>1
    <3> QED
      BY <3>1, <3>2
  <2>5. CASE k \in {"message", "message_end", "error", "ping"}
    <3>0. k # "agent_thought"
      BY <2>5
    <3>1. CASE pend = NoName
      <4>1. out' = <<D>>
        BY <2>1, <2>5, <3>1
      <4> QED
        BY <2>2, <3>0, <4>1
    <3>2. CASE pend # NoName
      <4>1. out' = <<E, D>>
        BY <2>1, <2>5, <3>2
      <4> QED
        BY <2>2, <3>0, <3>2, <4>1
    <3> QED
      BY <3>1, <3>2
  <2> QED
    BY <1>1, <2>3, <2>4, <2>5
<1> QED
  BY <1>5, <1>6

LEMMA ChatBlank ==
    ASSUME Typed, ReaderStands, ChatLine, Chat!ReadBlank
    PROVE  /\ pc' = "yielding" /\ pend' = NoName /\ cur' = NoName
           /\ frame' = "none" /\ inData' = FALSE /\ UNCHANGED <<gen, usage>>
           /\ frame # "none" /\ (pend # NoName => pend = "ping")
           /\ out' = IF pend = NoName THEN << <<Blank>> >>
                     ELSE << <<Event(pend)>>, <<Blank>> >>
           /\ out' \in Seq(Seq(Line)) /\ Len(out') <= 3
<1>1. /\ pc' = "yielding" /\ pend' = NoName /\ cur' = NoName
      /\ frame' = "none" /\ inData' = FALSE /\ UNCHANGED <<gen, usage>>
      /\ inData \/ frame = "ping"
  BY DEF Chat!ReadBlank, Chat!NoName, NoName
<1>2. frame # "none" /\ (pend # NoName => pend = "ping")
  BY <1>1 DEF ReaderStands, ChatLine, Reading, Chat!Kind, Chat!EventOf, Typed
<1>3. out' = IF pend = NoName THEN << <<Blank>> >> ELSE << <<Event(pend)>>, <<Blank>> >>
  <2>1. out' = Append(IF pend = NoName THEN <<>> ELSE << <<Event(pend)>> >>, <<Blank>>)
    BY DEF Chat!ReadBlank, Chat!Pending, Chat!NoName, NoName, Chat!Event, Event,
           Chat!Blank, Blank
  <2> QED
    BY <2>1, ShortSequences
<1>4. <<Blank>> \in Seq(Line) /\ (pend # NoName => <<Event(pend)>> \in Seq(Line))
  <2>1. Blank \in Line /\ (pend # NoName => Event(pend) \in Line)
    BY <1>2, LinesAreLines DEF Names
  <2> QED
    BY <2>1
<1>5. out' \in Seq(Seq(Line)) /\ Len(out') <= 3
  BY <1>3, <1>4
<1> QED
  BY <1>1, <1>2, <1>3, <1>5

LEMMA ChatBlankStream ==
    ASSUME Typed, ReaderStands, ChatLine, Chat!ReadBlank,
           pend # NoName => EndOf(Stream) = Blank,
           NEW j \in Nat, Whole(Stream, j, gen, headed)
    PROVE  /\ Whole(Stream', j, gen, headed) /\ Extends(Stream', Stream)
           /\ EndOf(Stream') = Blank
<1> DEFINE e == Event(pend)
           b == Blank
<1>1. /\ Stream \in Seq(Line) /\ out = <<>> /\ UNCHANGED <<wire, fEvent, fData>>
  BY StreamIsLines DEF Typed, ChatLine, clientVars
<1>2. /\ pend # NoName => pend = "ping"
      /\ out' = IF pend = NoName THEN << <<b>> >> ELSE << <<e>>, <<b>> >>
  BY ChatBlank
<1>3. /\ b \in Line /\ (pend # NoName => e \in Line)
  BY <1>2, LinesAreLines DEF Names
<1>4. /\ \A x : Follows(x, b, headed)
      /\ ~IsText(b) /\ ~IsText(e)
      /\ pend # NoName => Follows(Blank, e, headed)
  BY <1>2 DEF Follows, IsText, Event, Blank, Names
<1>5. Carried(gen, b) = gen /\ Carried(gen, e) = gen
  BY <1>4 DEF Carried
<1> HIDE DEF e, b
<1>6. CASE pend = NoName
  <2>1. Append(Stream, b) = Stream \o <<b>> /\ <<b>> \in Seq(Line)
    BY <1>1, <1>3, AppendIsConcat
  <2>2. Stream' = Append(Stream, b)
    BY <1>1, <1>2, <1>6, <2>1, PutOne
  <2>3. /\ Whole(Append(Stream, b), j, gen, headed)
        /\ EndOf(Append(Stream, b)) = b /\ Extends(Append(Stream, b), Stream)
    <3>1. /\ Whole(Append(Stream, b), j, Carried(gen, b), headed)
          /\ EndOf(Append(Stream, b)) = b /\ Extends(Append(Stream, b), Stream)
      BY <1>3, <1>4, WholeLine
    <3> QED
      BY <1>5, <3>1
  <2> QED
    BY <2>2, <2>3 DEF b
<1>7. CASE pend # NoName
  <2> DEFINE s == Append(Stream, e)
  <2>1. /\ s = Stream \o <<e>> /\ <<b>> \in Seq(Line) /\ <<e>> \in Seq(Line)
        /\ s \in Seq(Line)
    BY <1>1, <1>3, <1>7, AppendIsConcat, AppendProperties
  <2>2. /\ Whole(s, j, gen, headed) /\ EndOf(s) = e /\ Extends(s, Stream)
    <3>1. Follows(EndOf(Stream), e, headed)
      BY <1>4, <1>7
    <3>2. /\ Whole(s, j, Carried(gen, e), headed) /\ EndOf(s) = e /\ Extends(s, Stream)
      BY <1>3, <1>4, <1>7, <3>1, WholeLine
    <3> QED
      BY <1>5, <3>2
  <2>3. Stream' = (Stream \o <<e>>) \o <<b>>
    BY <1>1, <1>2, <1>7, <2>1, PutTwo
  <2> HIDE DEF s
  <2>4. Stream' = Append(s, b)
    <3>1. Append(s, b) = s \o <<b>>
      BY <1>3, <2>1, AppendIsConcat
    <3> QED
      BY <2>1, <2>3, <3>1
  <2>5. /\ Whole(Append(s, b), j, Carried(gen, b), headed)
        /\ EndOf(Append(s, b)) = b /\ Extends(Append(s, b), s)
    BY <1>3, <1>4, <2>2, WholeLine
  <2>6. Extends(Append(s, b), Stream)
    <3>1. Append(s, b) \in Seq(Line)
      BY <2>5 DEF Whole
    <3> QED
      BY <1>1, <2>1, <2>2, <2>5, <3>1, ExtendsTransitive
  <2> QED
    BY <1>5, <2>4, <2>5, <2>6 DEF b
<1> QED
  BY <1>6, <1>7

(* What a line of a workflow upstream leads to.                            *)

LEMMA RunData ==
    ASSUME Typed, RunLine, NEW k \in Workflow!Kind, Workflow!ReadData(k)
    PROVE  /\ \/ /\ k = "text_chunk" /\ gen' = Append(gen, "answer")
                 /\ out' = << Sse("message", "answer", Len(gen) + 1) >>
              \/ /\ k = "failed" /\ gen' = gen
                 /\ out' = << Sse("error", "message", 0) >>
              \/ /\ k = "finished" /\ gen' = gen
                 /\ out' = << Sse("message_end", "usage", 0) >>
              \/ k \in {"empty_chunk", "error", "progress"} /\ gen' = gen /\ out' = <<>>
           /\ usage' = (usage \/ k = "finished") /\ failed' = (failed \/ k = "failed")
           /\ ended' = (ended \/ k = "finished")
           /\ pc' = IF out' = <<>> THEN "reading" ELSE "yielding"
<1>1. k \in {"text_chunk", "empty_chunk", "finished", "failed", "error", "progress"}
  BY DEF Workflow!Kind
<1>2. (IF cur = NoName THEN Workflow!EventOf(k) ELSE cur) = Workflow!EventOf(k)
  BY DEF Workflow!ReadData, Workflow!NoName, NoName
<1>3. Workflow!NoName = NoName
  BY DEF Workflow!NoName, NoName
<1>4. /\ out' = Workflow!Translate(Workflow!EventOf(k), k)
      /\ gen' = IF Workflow!EventOf(k) = "text_chunk" /\ k = "text_chunk"
                THEN Append(gen, "answer") ELSE gen
      /\ usage' = (usage \/ (Workflow!EventOf(k) = "workflow_finished" /\ k = "finished"))
      /\ failed' = (failed \/ k = "failed")
      /\ ended' = (ended \/ k = "finished")
      /\ pc' = IF out' = <<>> THEN "reading" ELSE "yielding"
  BY <1>2, <1>3 DEF Workflow!ReadData
<1>5. /\ Workflow!Sse("message", "answer", Len(gen) + 1) = Sse("message", "answer", Len(gen) + 1)
      /\ Workflow!Sse("error", "message", 0) = Sse("error", "message", 0)
      /\ Workflow!Sse("message_end", "usage", 0) = Sse("message_end", "usage", 0)
  BY DEF Workflow!Sse, Sse, Workflow!Event, Event, Workflow!Data, Data,
         Workflow!Blank, Blank
<1>6. CASE k = "text_chunk"
  <2>1. Workflow!EventOf(k) = "text_chunk"
    BY <1>6 DEF Workflow!EventOf
  <2> QED
    BY <1>4, <1>5, <1>6, <2>1 DEF Workflow!Translate
<1>7. CASE k = "failed"
  <2>1. Workflow!EventOf(k) = "workflow_finished"
    BY <1>7 DEF Workflow!EventOf
  <2> QED
    BY <1>4, <1>5, <1>7, <2>1 DEF Workflow!Translate
<1>8. CASE k = "finished"
  <2>1. Workflow!EventOf(k) = "workflow_finished"
    BY <1>8 DEF Workflow!EventOf
  <2> QED
    BY <1>4, <1>5, <1>8, <2>1 DEF Workflow!Translate
<1>9. CASE k \in {"empty_chunk", "error", "progress"}
  BY <1>4, <1>9 DEF Workflow!Translate
<1> QED
  BY <1>1, <1>6, <1>7, <1>8, <1>9

LEMMA RunDataTyped ==
    ASSUME Typed, RunLine, NEW k \in Workflow!Kind, Workflow!ReadData(k)
    PROVE  /\ gen' \in Seq(Channel) /\ Extends(gen', gen)
           /\ out' \in Seq(Seq(Line)) /\ Len(out') <= 3
<1>1. /\ gen \in Seq(Channel) /\ "answer" \in Channel /\ Len(gen) \in Nat
      /\ Len(gen) + 1 \in Nat
  BY LenProperties DEF Typed, Channel
<1>2. /\ Sse("message", "answer", Len(gen) + 1) \in Seq(Line)
      /\ Sse("error", "message", 0) \in Seq(Line)
      /\ Sse("message_end", "usage", 0) \in Seq(Line)
  <2>1. /\ Event("message") \in Line /\ Event("error") \in Line
        /\ Event("message_end") \in Line /\ Data("answer", Len(gen) + 1) \in Line
        /\ Data("message", 0) \in Line /\ Data("usage", 0) \in Line /\ Blank \in Line
    BY <1>1, LinesAreLines DEF Names, Fields
  <2> QED
    BY <2>1 DEF Sse
<1>3. /\ \/ gen' = Append(gen, "answer") \/ gen' = gen
      /\ \/ out' = <<>> \/ out' = << Sse("message", "answer", Len(gen) + 1) >>
         \/ out' = << Sse("error", "message", 0) >>
         \/ out' = << Sse("message_end", "usage", 0) >>
  BY RunData
<1>4. /\ Append(gen, "answer") \in Seq(Channel)
      /\ Len(Append(gen, "answer")) = Len(gen) + 1
      /\ \A i \in 1..Len(gen) : Append(gen, "answer")[i] = gen[i]
  BY <1>1, AppendProperties
<1>5. Extends(Append(gen, "answer"), gen) /\ Extends(gen, gen)
  BY <1>1, <1>4 DEF Extends
<1>6. ASSUME NEW c \in Seq(Line) PROVE << c >> \in Seq(Seq(Line)) /\ Len(<<c>>) <= 3
  OBVIOUS
<1>7. <<>> \in Seq(Seq(Line)) /\ Len(<<>>) <= 3
  OBVIOUS
<1>8. out' \in Seq(Seq(Line)) /\ Len(out') <= 3
  <2>1. CASE out' = <<>>
    BY <1>7, <2>1
  <2>2. CASE out' # <<>>
    <3>1. PICK c \in Seq(Line) : out' = <<c>>
      BY <1>2, <1>3, <2>2
    <3> QED
      BY <1>6, <3>1
  <2> QED
    BY <2>1, <2>2
<1> QED
  BY <1>1, <1>3, <1>4, <1>5, <1>8

LEMMA RunDataStream ==
    ASSUME Typed, RunLine, NEW k \in Workflow!Kind, Workflow!ReadData(k),
           EndOf(Stream) = Blank,
           NEW j \in Nat, Whole(Stream, j, gen, headed)
    PROVE  /\ Whole(Stream', j, gen', headed) /\ Extends(Stream', Stream)
           /\ EndOf(Stream') = Blank
           /\ k = "finished" => \E i \in 1..Len(Stream') : IsUsage(Stream'[i])
           /\ k = "failed" => \E i \in 1..Len(Stream') : IsError(Stream'[i])
           /\ k # "finished" =>
                 \A i \in 1..Len(Stream') :
                    i \in 1..Len(Stream) \/ Stream'[i] # Event("message_end")
<1>0. /\ Stream \in Seq(Line) /\ out = <<>> /\ UNCHANGED <<wire, fEvent, fData>>
      /\ gen \in Seq(Channel) /\ Len(gen) \in Nat /\ Len(gen) + 1 \in Nat
  BY StreamIsLines, LenProperties DEF Typed, RunLine, clientVars
<1>1. ASSUME NEW name \in {"message", "error", "message_end"}, NEW field, NEW piece \in Nat,
             <<name, field>> \in {<<"message", "answer">>, <<"error", "message">>,
                                  <<"message_end", "usage">>},
             field = "answer" => piece = Len(gen) + 1,
             out' = << Sse(name, field, piece) >>
      PROVE  LET d == Data(field, piece) IN
             /\ Whole(Stream', j, Carried(gen, d), headed) /\ Extends(Stream', Stream)
             /\ EndOf(Stream') = Blank
             /\ \E i \in 1..Len(Stream') : Stream'[i] = d
             /\ name # "message_end" =>
                   \A i \in 1..Len(Stream') :
                      i \in 1..Len(Stream) \/ Stream'[i] # Event("message_end")
  <2> DEFINE d == Data(field, piece)
             c == Sse(name, field, piece)
  <2>1. /\ name \in Names /\ field \in Fields /\ Fits(name, d)
        /\ IsText(d) => piece = Len(gen) + 1
    BY <1>1 DEF Names, Fields, Fits, IsText, Data
  <2>2. c \in Seq(Line)
    <3>1. Event(name) \in Line /\ d \in Line /\ Blank \in Line
      BY <2>1, LinesAreLines
    <3> QED
      BY <3>1 DEF Sse
  <2>3. Stream' = Stream \o c
    BY <1>0, <1>1, <2>2, PutOne
  <2>4. LET t == Stream \o c IN
        /\ Whole(t, j, Carried(gen, d), headed)
        /\ EndOf(t) = Blank /\ Extends(t, Stream)
        /\ \E i \in 1..Len(t) : t[i] = d
        /\ \A i \in 1..Len(t) :
              i \in 1..Len(Stream) \/ t[i] \in {Event(name), d, Blank}
    BY <2>1, WholeFrame, SMTT(60)
  <2>5. name # "message_end" => Event("message_end") \notin {Event(name), d, Blank}
    BY DEF Event, Data, Blank
  <2> HIDE DEF c, d
  <2> QED
    BY <2>3, <2>4, <2>5 DEF d
<1>2. CASE k = "text_chunk"
  <2> DEFINE d == Data("answer", Len(gen) + 1)
  <2>1. gen' = Append(gen, "answer") /\ out' = << Sse("message", "answer", Len(gen) + 1) >>
    BY <1>2, RunData
  <2>2. Carried(gen, d) = gen'
    BY <2>1 DEF Carried, IsText, ChannelOf, Data
  <2>3. /\ Whole(Stream', j, Carried(gen, d), headed) /\ Extends(Stream', Stream)
        /\ EndOf(Stream') = Blank
        /\ \A i \in 1..Len(Stream') :
                      i \in 1..Len(Stream) \/ Stream'[i] # Event("message_end")
    BY <1>0, <1>1, <2>1
  <2> QED
    BY <1>2, <2>2, <2>3
<1>3. CASE k = "failed"
  <2> DEFINE d == Data("message", 0)
  <2>1. gen' = gen /\ out' = << Sse("error", "message", 0) >>
    BY <1>3, RunData
  <2>2. Carried(gen, d) = gen' /\ IsError(d)
    BY <2>1 DEF Carried, IsText, IsError, Data
  <2>3. /\ Whole(Stream', j, Carried(gen, d), headed) /\ Extends(Stream', Stream)
        /\ EndOf(Stream') = Blank
        /\ \E i \in 1..Len(Stream') : Stream'[i] = d
        /\ \A i \in 1..Len(Stream') :
                      i \in 1..Len(Stream) \/ Stream'[i] # Event("message_end")
    BY <1>0, <1>1, <2>1
  <2> HIDE DEF d
  <2> QED
    BY <1>3, <2>2, <2>3
<1>4. CASE k = "finished"
  <2> DEFINE d == Data("usage", 0)
  <2>1. gen' = gen /\ out' = << Sse("message_end", "usage", 0) >>
    BY <1>4, RunData
  <2>2. Carried(gen, d) = gen' /\ IsUsage(d)
    BY <2>1 DEF Carried, IsText, IsUsage, Data
  <2>3. /\ Whole(Stream', j, Carried(gen, d), headed) /\ Extends(Stream', Stream)
        /\ EndOf(Stream') = Blank
        /\ \E i \in 1..Len(Stream') : Stream'[i] = d
    BY <1>0, <1>1, <2>1
  <2> HIDE DEF d
  <2> QED
    BY <1>4, <2>2, <2>3
<1>5. CASE k \in {"empty_chunk", "error", "progress"}
  <2>1. gen' = gen /\ out' = <<>>
    BY <1>5, RunData
  <2>2. Stream' = Stream
    BY <1>0, <2>1, PutNone
  <2>3. Extends(Stream, Stream)
    <3>1. Len(Stream) \in Nat
      BY <1>0, LenProperties
    <3> QED
      BY <3>1 DEF Extends
  <2> QED
    BY <1>5, <2>1, <2>2, <2>3
<1> QED
  BY <1>2, <1>3, <1>4, <1>5 DEF Workflow!Kind

-------------------------------------------------------------------------------
(* Types.                                                                  *)

LEMMA DispatchTyped ==
    ASSUME Typed, Dispatch
    PROVE  /\ seen' \in Seq(Channel \X Nat)
           /\ told' \subseteq {"end", "usage", "error", "agent_done"}
           /\ fEvent' = NoName /\ fData' = <<>>
<1>1. fData \in Seq(Line) /\ \A i \in DOMAIN fData : fData[i].line = "data"
  BY DEF Typed
<1>2. Parsed.piece \in Nat
  <2>1. CASE Len(fData) = 1
    <3>1. 1 \in DOMAIN fData
      <4>1. DOMAIN fData = 1..Len(fData)
        BY <1>1, LenProperties
      <4> QED
        BY <2>1, <4>1
    <3>2. fData[1] \in Line /\ fData[1].line = "data"
      <4>1. fData \in Seq(Line) /\ 1 \in 1..Len(fData)
        BY <1>1, <2>1
      <4>2. fData[1] \in Line
        BY <4>1, ElementOfSeq
      <4> QED
        BY <1>1, <3>1, <4>2
    <3>3. fData[1].piece \in Nat
      BY <3>2 DEF Line, Blank
    <3> QED
      BY <2>1, <3>3 DEF Parsed
  <2>2. CASE Len(fData) # 1
    BY <2>2 DEF Parsed, Data
  <2> QED
    BY <2>1, <2>2
<1>3. /\ <<"answer", Parsed.piece>> \in Channel \X Nat
      /\ <<"reasoning", Parsed.piece>> \in Channel \X Nat
  BY <1>2 DEF Channel
<1>4. seen \in Seq(Channel \X Nat)
  BY DEF Typed
<1>5. /\ Append(seen, <<"answer", Parsed.piece>>) \in Seq(Channel \X Nat)
      /\ Append(seen, <<"reasoning", Parsed.piece>>) \in Seq(Channel \X Nat)
  BY <1>3, <1>4, AppendProperties
<1>6. \/ seen' = seen \/ seen' = Append(seen, <<"answer", Parsed.piece>>)
      \/ seen' = Append(seen, <<"reasoning", Parsed.piece>>)
  BY DEF Dispatch
<1>7. told' \subseteq {"end", "usage", "error", "agent_done"}
  BY DEF Dispatch, Typed
<1> QED
  BY <1>4, <1>5, <1>6, <1>7 DEF Dispatch

\* An event line that is kept back.
LEMMA PendingName ==
    /\ Typed /\ ReaderStands /\ Reading /\ pend # NoName =>
          pend \in Names /\ frame # "none" /\ mode = "chat"
    /\ Chat!Pending = IF pend = NoName THEN <<>> ELSE << <<Event(pend)>> >>
    /\ Typed /\ ReaderStands /\ Reading =>
          Chat!Pending \in Seq(Seq(Line)) /\ Len(Chat!Pending) <= 3
<1>1. ASSUME Typed, ReaderStands, Reading, pend # NoName
      PROVE  pend \in Names /\ frame # "none" /\ mode = "chat"
  <2>1. mode = "chat"
    BY <1>1 DEF Typed, ReaderStands
  <2>2. pend = Chat!EventOf(frame) /\ frame \in Chat!Kind
    BY <1>1, <2>1 DEF ReaderStands
  <2>3. frame # "none" /\ (frame = "thoughtful" \/ frame \in Names)
    BY <2>2 DEF Chat!Kind, Names
  <2> QED
    BY <2>1, <2>2, <2>3 DEF Chat!EventOf, Names
<1>2. Chat!Pending = IF pend = NoName THEN <<>> ELSE << <<Event(pend)>> >>
  BY DEF Chat!Pending, Chat!NoName, NoName, Chat!Event, Event
<1>3. ASSUME Typed, ReaderStands, Reading
      PROVE  Chat!Pending \in Seq(Seq(Line)) /\ Len(Chat!Pending) <= 3
  <2>1. pend # NoName => Event(pend) \in Line
    BY <1>1, <1>3, LinesAreLines
  <2> QED
    BY <1>2, <2>1
<1> QED
  BY <1>1, <1>2, <1>3

LEMMA SharedTyped ==
    ASSUME Typed, UNCHANGED readVars,
           ReaderStands, Shared \/ EndOfStream(Chat!Pending) \/ EndOfStream(<<>>)
    PROVE  Typed'
<1>1. /\ <<>> \in Seq(Seq(Line)) /\ Len(<<>>) = 0 /\ <<>> \in Seq(Line)
      /\ <<Sse("error", "message", 0)>> \in Seq(Seq(Line))
      /\ Len(<<Sse("error", "message", 0)>>) <= 3
      /\ <<Sse("agent_done", "conversation", 0)>> \in Seq(Seq(Line))
      /\ Len(<<Sse("agent_done", "conversation", 0)>>) <= 3
  <2>1. /\ Event("error") \in Line /\ Event("agent_done") \in Line
        /\ Data("message", 0) \in Line /\ Data("conversation", 0) \in Line
        /\ Blank \in Line
    BY LinesAreLines DEF Names, OwnNames, Fields
  <2>2. /\ Sse("error", "message", 0) \in Seq(Line)
        /\ Sse("agent_done", "conversation", 0) \in Seq(Line)
    BY <2>1 DEF Sse
  <2> QED
    BY <2>2
<1>2. UNCHANGED <<headed, inData, failed, ended, mode>>
  BY DEF readVars, chatVars, runVars
<1> USE DEF Typed
<1>3. CASE Connect
  BY <1>2, <1>3 DEF Connect, clientVars
<1>4. CASE Fail
  BY <1>1, <1>2, <1>4 DEF Fail, Close, clientVars
<1>5. CASE Yield
  <2>1. out # <<>> /\ out \in Seq(Seq(Line))
    BY <1>5 DEF Yield
  <2>2. /\ Tail(out) \in Seq(Seq(Line)) /\ Len(Tail(out)) = Len(out) - 1
        /\ Len(out) \in Nat /\ Head(out) \in Seq(Line)
    BY <2>1, HeadTailProperties, LenProperties
  <2>3. wire' \in Seq(Line)
    BY <1>5, <2>2, ConcatProperties DEF Yield, Send
  <2>4. out' \in Seq(Seq(Line)) /\ Len(out') <= 3
    BY <1>5, <2>2 DEF Yield
  <2>5. pc' \in {"open", "reading", "saving", "saved", "closed"} => out' = <<>>
    BY <1>5 DEF Yield
  <2>6. pc' \in {"open", "reading", "yielding", "closing", "saving", "saved",
                 "ending", "closed"}
    BY <1>5 DEF Yield
  <2> QED
    BY <1>2, <1>5, <2>3, <2>4, <2>5, <2>6 DEF Yield
<1>6. CASE LeaveTry
  BY <1>2, <1>6 DEF LeaveTry, clientVars
<1>7. CASE Disconnect
  BY <1>1, <1>2, <1>7 DEF Disconnect, clientVars
<1>8. CASE Save
  BY <1>2, <1>8 DEF Save, clientVars
<1>9. CASE SaveFails
  BY <1>1, <1>2, <1>9 DEF SaveFails
<1>10. CASE AgentDone
  BY <1>1, <1>2, <1>10 DEF AgentDone, clientVars
<1>11. CASE Return
  BY <1>2, <1>11 DEF Return
<1>12. CASE EndOfStream(Chat!Pending) \/ EndOfStream(<<>>)
  <2>1. Reading
    BY <1>12 DEF EndOfStream, Reading
  <2>2. out' \in Seq(Seq(Line)) /\ Len(out') <= 3
    BY <1>1, <1>12, <2>1, PendingName DEF EndOfStream, Close
  <2> QED
    BY <1>2, <1>12, <2>2 DEF EndOfStream, Close, clientVars
<1> QED
  BY <1>3, <1>4, <1>5, <1>6, <1>7, <1>8, <1>9, <1>10, <1>11, <1>12 DEF Shared

LEMMA ChatLineTyped ==
    ASSUME Typed, ReaderStands, ChatLine,
           \/ \E k \in Chat!Kind : Chat!ReadEvent(k) \/ Chat!ReadData(k)
           \/ Chat!ReadBlank
    PROVE  Typed'
<1>1. UNCHANGED <<wire, fEvent, fData, seen, told, terminal, headed, failed, ended, mode>>
      /\ pc = "reading"
  BY DEF ChatLine, clientVars, runVars
<1>2. ASSUME NEW k \in Chat!Kind, Chat!ReadEvent(k) PROVE Typed'
  BY <1>1, <1>2 DEF Typed, Chat!ReadEvent, Chat!genVars
<1>3. ASSUME NEW k \in Chat!Kind, Chat!ReadData(k) PROVE Typed'
  <2>1. /\ gen' \in Seq(Channel) /\ out' \in Seq(Seq(Line)) /\ Len(out') <= 3
        /\ pc' = "yielding" /\ inData' = TRUE /\ usage' \in BOOLEAN
    BY <1>3, ChatData, ChatDataTyped DEF Typed
  <2> QED
    BY <1>1, <2>1 DEF Typed
<1>4. ASSUME Chat!ReadBlank PROVE Typed'
  <2>1. /\ UNCHANGED <<gen, usage>> /\ out' \in Seq(Seq(Line)) /\ Len(out') <= 3
        /\ pc' = "yielding" /\ inData' = FALSE
    BY <1>4, ChatBlank
  <2> QED
    BY <1>1, <2>1 DEF Typed
<1> QED
  BY <1>2, <1>3, <1>4

LEMMA RunLineTyped ==
    ASSUME Typed, RunLine,
           \/ \E k \in Workflow!Kind : Workflow!ReadEvent(k) \/ Workflow!ReadData(k)
           \/ Workflow!ReadBlank
    PROVE  Typed'
<1>1. UNCHANGED <<wire, fEvent, fData, seen, told, terminal, headed, inData, mode>>
      /\ pc = "reading"
  BY DEF RunLine, clientVars, chatVars
<1>2. ASSUME NEW k \in Workflow!Kind, Workflow!ReadEvent(k) PROVE Typed'
  BY <1>1, <1>2 DEF Typed, Workflow!ReadEvent, Workflow!genVars
<1>3. ASSUME NEW k \in Workflow!Kind, Workflow!ReadData(k) PROVE Typed'
  <2>1. /\ gen' \in Seq(Channel) /\ out' \in Seq(Seq(Line)) /\ Len(out') <= 3
        /\ pc' = IF out' = <<>> THEN "reading" ELSE "yielding"
        /\ usage' \in BOOLEAN /\ failed' \in BOOLEAN /\ ended' \in BOOLEAN
    BY <1>3, RunData, RunDataTyped DEF Typed
  <2> QED
    BY <1>1, <2>1 DEF Typed
<1>4. ASSUME Workflow!ReadBlank PROVE Typed'
  BY <1>1, <1>4 DEF Typed, Workflow!ReadBlank, Workflow!genVars
<1> QED
  BY <1>2, <1>3, <1>4

LEMMA BrowserTyped ==
    ASSUME Typed, ClientStep, UNCHANGED <<genVars, readVars>>
    PROVE  Typed'
<1>1. UNCHANGED <<pc, out, gen, usage, terminal, headed, inData, failed, ended, mode>>
  BY DEF genVars, readVars, chatVars, runVars
<1>2. /\ wire \in Seq(Line) /\ fData \in Seq(Line)
      /\ \A i \in DOMAIN fData : fData[i].line = "data"
  BY DEF Typed
<1>3. <<>> \in Seq(Line) /\ DOMAIN <<>> = {}
  OBVIOUS
<1>4. CASE Receive
  <2>1. wire # <<>> /\ wire' = Tail(wire)
    BY <1>4 DEF Receive
  <2>2. wire' \in Seq(Line) /\ Head(wire) \in Line
    BY <1>2, <2>1, HeadTailProperties
  <2>3. CASE Head(wire).line = "event" /\ fEvent' = Head(wire).name
             /\ UNCHANGED <<fData, seen, told>>
    <3>1. fEvent' \in Names \cup OwnNames
      BY <2>2, <2>3 DEF Line, Blank
    <3> QED
      BY <1>1, <2>2, <2>3, <3>1 DEF Typed
  <2>4. CASE Head(wire).line = "data" /\ fData' = Append(fData, Head(wire))
             /\ UNCHANGED <<fEvent, seen, told>>
    <3> DEFINE l == Head(wire)
    <3> HIDE DEF l
    <3>0. l \in Line /\ l.line = "data" /\ fData' = Append(fData, l)
      BY <2>2, <2>4 DEF l
    <3>1. /\ fData' \in Seq(Line) /\ Len(fData') = Len(fData) + 1
          /\ \A i \in 1..Len(fData) : fData'[i] = fData[i]
          /\ fData'[Len(fData) + 1] = l
      BY <1>2, <3>0, AppendProperties
    <3>2. /\ DOMAIN fData' = 1..Len(fData') /\ DOMAIN fData = 1..Len(fData)
          /\ Len(fData) \in Nat
      BY <1>2, <3>1, LenProperties
    <3>3. \A i \in DOMAIN fData' : fData'[i].line = "data"
      <4> SUFFICES ASSUME NEW i \in 1..(Len(fData) + 1) PROVE fData'[i].line = "data"
        BY <3>1, <3>2
      <4>1. CASE i = Len(fData) + 1
        BY <3>0, <3>1, <4>1
      <4>2. CASE i # Len(fData) + 1
        <5>1. i \in 1..Len(fData)
          BY <3>2, <4>2
        <5> QED
          BY <1>2, <3>1, <3>2, <5>1
      <4> QED
        BY <4>1, <4>2
    <3>4. fData' \in Seq(Line) /\ UNCHANGED <<fEvent, seen, told>>
      BY <2>4, <3>1
    <3> QED
      BY <1>1, <2>2, <3>3, <3>4 DEF Typed
  <2>5. CASE Dispatch
    <3>1. /\ seen' \in Seq(Channel \X Nat)
          /\ told' \subseteq {"end", "usage", "error", "agent_done"}
          /\ fEvent' = NoName /\ fData' = <<>>
      BY <2>5, DispatchTyped
    <3> QED
      BY <1>1, <1>3, <2>2, <3>1 DEF Typed
  <2> QED
    BY <1>4, <2>3, <2>4, <2>5 DEF Receive
<1>5. CASE StreamEnd
  <2>1. /\ seen' \in Seq(Channel \X Nat)
        /\ told' \subseteq {"end", "usage", "error", "agent_done"}
        /\ fEvent' = NoName /\ fData' = <<>>
    BY <1>5, DispatchTyped DEF StreamEnd
  <2>2. wire' = wire
    BY <1>5 DEF StreamEnd
  <2> QED
    BY <1>1, <1>3, <2>1, <2>2 DEF Typed
<1>6. CASE Stop
  BY <1>1, <1>3, <1>6 DEF Typed, Stop
<1> QED
  BY <1>4, <1>5, <1>6 DEF ClientStep

-------------------------------------------------------------------------------
(* The generator.                                                          *)

LEMMA SharedStands ==
    ASSUME ReaderStands, SaveStands, UNCHANGED readVars,
           Shared \/ EndOfStream(Chat!Pending) \/ EndOfStream(<<>>)
    PROVE  /\ ReaderStands' /\ SaveStands'
           /\ usage' = usage /\ gen' = gen
           /\ Reading' => Reading
<1>1. UNCHANGED <<headed, inData, failed, ended, mode, frame, cur, pend>>
  BY DEF readVars, chatVars, runVars
<1>2. usage' = usage /\ gen' = gen /\ Stored' = Stored
  BY DEF Shared, Connect, Fail, Close, Yield, LeaveTry, Disconnect, Save, SaveFails,
         AgentDone, Return, EndOfStream, Stored
<1>3. (Reading' => Reading) /\ (pc' = "yielding" => pc = "yielding")
  BY DEF Shared, Connect, Fail, Close, Yield, LeaveTry, Disconnect, Save, SaveFails,
         AgentDone, Return, EndOfStream, Reading
<1>4. ReaderStands'
  BY <1>1, <1>2, <1>3 DEF ReaderStands
<1>5. SaveStands'
  <2>1. CASE Connect
    BY <1>2, <2>1 DEF SaveStands, Connect, clientVars
  <2>2. CASE Fail
    BY <1>2, <2>2 DEF SaveStands, Fail, Close, clientVars
  <2>3. CASE Yield
    BY <1>2, <2>3 DEF SaveStands, Yield
  <2>4. CASE LeaveTry
    BY <1>2, <2>4 DEF SaveStands, LeaveTry, clientVars
  <2>5. CASE Disconnect
    BY <1>2, <2>5 DEF SaveStands, Disconnect, clientVars
  <2>6. CASE Save
    <3>1. saved' = Stored'
      BY <1>2, <2>6 DEF Save, Stored
    <3> QED
      BY <2>6, <3>1 DEF SaveStands, Save, clientVars
  <2>7. CASE SaveFails
    <3>1. saved = NotKept
      BY <2>7 DEF SaveStands, SaveFails
    <3> QED
      BY <2>7, <3>1 DEF SaveStands, SaveFails
  <2>8. CASE AgentDone
    BY <1>2, <2>8 DEF SaveStands, AgentDone, clientVars
  <2>9. CASE Return
    BY <1>2, <2>9 DEF SaveStands, Return
  <2>10. CASE EndOfStream(Chat!Pending) \/ EndOfStream(<<>>)
    BY <1>2, <2>10 DEF SaveStands, EndOfStream, Close, clientVars
  <2> QED
    BY <2>1, <2>2, <2>3, <2>4, <2>5, <2>6, <2>7, <2>8, <2>9, <2>10 DEF Shared
<1> QED
  BY <1>2, <1>3, <1>4, <1>5

LEMMA ChatLineStands ==
    ASSUME Typed, ReaderStands, SaveStands, ChatLine,
           \/ \E k \in Chat!Kind : Chat!ReadEvent(k) \/ Chat!ReadData(k)
           \/ Chat!ReadBlank
    PROVE  ReaderStands' /\ SaveStands' /\ Reading'
<1>1. /\ mode = "chat" /\ mode' = "chat" /\ pc = "reading"
      /\ UNCHANGED <<saved, terminal, headed, failed, ended, link>>
  BY DEF ChatLine, clientVars, runVars
<1>2. ~failed /\ saved = NotKept
  BY <1>1 DEF ReaderStands, SaveStands
<1>3. ASSUME NEW k \in Chat!Kind, Chat!ReadEvent(k) PROVE ReaderStands' /\ pc' = "reading"
  <2>1. /\ pc' = pc /\ frame' = k /\ cur' = Chat!EventOf(k) /\ pend' = cur'
        /\ inData' = inData /\ frame = "none"
    BY <1>3 DEF Chat!ReadEvent, Chat!genVars
  <2>2. ~inData
    BY <1>1, <2>1 DEF ReaderStands, Reading, Chat!Kind
  <2> QED
    BY <1>1, <1>2, <2>1, <2>2 DEF ReaderStands
<1>4. ASSUME NEW k \in Chat!Kind, Chat!ReadData(k) PROVE ReaderStands' /\ pc' = "yielding"
  <2>1. /\ pc' = "yielding" /\ frame' = k /\ inData' = TRUE /\ pend' = NoName
        /\ cur' \in {NoName, Chat!EventOf(k)}
    BY <1>4, ChatData
  <2> QED
    BY <1>1, <1>2, <2>1 DEF ReaderStands
<1>5. ASSUME Chat!ReadBlank PROVE ReaderStands' /\ pc' = "yielding"
  <2>1. /\ pc' = "yielding" /\ frame' = "none" /\ inData' = FALSE /\ pend' = NoName
        /\ cur' = NoName
    BY <1>5, ChatBlank
  <2> QED
    BY <1>1, <1>2, <2>1 DEF ReaderStands
<1>6. ReaderStands' /\ pc' \in {"reading", "yielding"}
  BY <1>3, <1>4, <1>5
<1>7. SaveStands'
  BY <1>1, <1>2, <1>6 DEF SaveStands
<1> QED
  BY <1>6, <1>7 DEF Reading

LEMMA RunLineStands ==
    ASSUME Typed, ReaderStands, SaveStands, RunLine,
           \/ \E k \in Workflow!Kind : Workflow!ReadEvent(k) \/ Workflow!ReadData(k)
           \/ Workflow!ReadBlank
    PROVE  ReaderStands' /\ SaveStands' /\ Reading'
<1>1. /\ mode = "workflow" /\ mode' = "workflow" /\ pc = "reading"
      /\ UNCHANGED <<saved, terminal, headed, link, frame, pend>>
  BY DEF RunLine, clientVars, chatVars
<1>2. /\ headed /\ frame = "none" /\ pend = NoName /\ (usage => ended)
      /\ saved = NotKept
  BY <1>1 DEF ReaderStands, SaveStands
<1>3. ASSUME NEW k \in Workflow!Kind, Workflow!ReadEvent(k)
      PROVE  (usage' => ended') /\ pc' = "reading"
  BY <1>1, <1>2, <1>3 DEF Workflow!ReadEvent, Workflow!genVars
<1>4. ASSUME NEW k \in Workflow!Kind, Workflow!ReadData(k)
      PROVE  (usage' => ended') /\ pc' \in {"reading", "yielding"}
  <2>1. /\ usage' = (usage \/ k = "finished") /\ failed' = (failed \/ k = "failed")
        /\ ended' = (ended \/ k = "finished")
        /\ pc' = IF out' = <<>> THEN "reading" ELSE "yielding"
    BY <1>4, RunData
  <2> QED
    BY <1>2, <2>1 DEF Workflow!Kind
<1>5. ASSUME Workflow!ReadBlank
      PROVE  (usage' => ended') /\ pc' = "reading"
  BY <1>1, <1>2, <1>5 DEF Workflow!ReadBlank, Workflow!genVars
<1>6. (usage' => ended') /\ pc' \in {"reading", "yielding"}
  BY <1>3, <1>4, <1>5
<1>7. ReaderStands'
  BY <1>1, <1>2, <1>6 DEF ReaderStands
<1>8. SaveStands'
  BY <1>1, <1>2, <1>6 DEF SaveStands
<1> QED
  BY <1>6, <1>7, <1>8 DEF Reading

LEMMA BrowserStands ==
    ASSUME ReaderStands, SaveStands, ClientStep, UNCHANGED <<genVars, readVars>>
    PROVE  ReaderStands' /\ SaveStands'
<1>1. UNCHANGED <<pc, gen, usage, terminal, saved, headed, inData, failed, ended, mode,
                  frame, cur, pend>>
  BY DEF genVars, readVars, chatVars, runVars
<1>2. link = "open"
  BY DEF ClientStep, Receive, StreamEnd, Stop
<1>3. ReaderStands'
  BY <1>1 DEF ReaderStands, Reading
<1>4. Stored' = Stored
  BY <1>1 DEF Stored
<1> QED
  BY <1>1, <1>2, <1>3, <1>4 DEF SaveStands

-------------------------------------------------------------------------------
(* The stream in flight, step by step.                                     *)

StreamFact ==
    /\ Coming \in Seq(Line) /\ Parsing \in Line /\ Stream \in Seq(Line)
    /\ Len(Coming) \in Nat /\ Len(Stream) = Len(Coming) + 1
    /\ Stream[1] = Parsing /\ Tail(Stream) = Coming
    /\ \A i \in 1..Len(Coming) : Stream[i + 1] = Coming[i]
    /\ DOMAIN Coming = 1..Len(Coming)

\* agent_done is not on its way.
NoDone ==
    /\ fEvent # "agent_done"
    /\ \A i \in DOMAIN Coming : Coming[i] # Event("agent_done")

LEMMA StreamFacts == (Typed => StreamFact) /\ (Typed' => StreamFact')
<1>1. Typed => StreamFact
  BY StreamIsLines DEF StreamFact
<1> QED
  BY <1>1, PTL

LEMMA LivelyAll ==
    ASSUME Typed, StreamStands, Reading, link = "open"
    PROVE  /\ Lively(Len(Stream)) /\ "agent_done" \notin told
           /\ Whole(Stream, Len(seen), gen, headed) /\ NoDone
<1>1. StreamFact
  BY StreamFacts
<1>2. "agent_done" \notin told /\ \E n \in 1..Len(Stream) : Lively(n)
  BY DEF StreamStands, Calm
<1>3. PICK n \in 1..Len(Stream) : Lively(n)
  BY <1>2
<1>4. n = Len(Stream)
  BY <1>3 DEF Lively
<1>5. Lively(Len(Stream))
  BY <1>3, <1>4
<1>6. Carries(Stream, Len(Stream), Len(seen), gen, headed) /\ ParserStands
  BY <1>5 DEF Lively
<1>7. Whole(Stream, Len(seen), gen, headed)
  BY <1>1, <1>6 DEF Whole, StreamFact, Typed
<1>8. fEvent # "agent_done"
  BY <1>6 DEF ParserStands, Names, NoName
<1>9. ASSUME NEW i \in DOMAIN Coming PROVE Coming[i] # Event("agent_done")
  <2>1. /\ i \in 1..(Len(Stream) - 1) /\ Coming[i] = Stream[i + 1]
    BY <1>1, <1>9 DEF StreamFact
  <2>2. Follows(Stream[i], Coming[i], headed)
    BY <1>6, <2>1 DEF Carries
  <2> QED
    BY <2>2 DEF Follows, Event, Blank, Names
<1> QED
  BY <1>2, <1>5, <1>7, <1>8, <1>9 DEF NoDone

LEMMA ReadingNoDone ==
    Typed' /\ StreamStands' /\ Reading' /\ link' = "open" => NoDone'
<1> DEFINE Open == link = "open"
<1>1. Typed /\ StreamStands /\ Reading /\ Open => NoDone
  BY LivelyAll
<1>2. Open' <=> link' = "open"
  OBVIOUS
<1> HIDE DEF Open
<1>3. Typed' /\ StreamStands' /\ Reading' /\ Open' => NoDone'
  BY <1>1, PTL
<1> QED
  BY <1>2, <1>3

\* Regular lines are put behind a stream that had but regular ones.
LEMMA LivelyGrows ==
    ASSUME Typed, Typed', Lively(Len(Stream)), "agent_done" \notin told,
           UNCHANGED <<fEvent, fData, seen, told, headed, mode>>,
           Whole(Stream', Len(seen), gen', headed), Extends(Stream', Stream),
           frame' = "none" \/ (Reading' /\ pend' # NoName) => EndOf(Stream') = Blank,
           headed /\ usage' /\ ~usage => \E i \in 1..Len(Stream') : IsUsage(Stream'[i]),
           failed' /\ ~failed => \E i \in 1..Len(Stream') : IsError(Stream'[i]),
           mode = "workflow" /\ ~usage' =>
              /\ ~usage
              /\ \A i \in 1..Len(Stream') :
                    i \in 1..Len(Stream) \/ Stream'[i] # Event("message_end")
    PROVE  StreamStands'
<1>1. StreamFact /\ StreamFact'
  BY StreamFacts
<1>2. PICK m : m = Len(Stream')
  OBVIOUS
<1>3. PICK n : n = Len(Stream)
  OBVIOUS
<1>4. m \in Nat /\ m >= 1 /\ n \in Nat /\ n <= m /\ \A i \in 1..n : Stream'[i] = Stream[i]
  BY <1>1, <1>2, <1>3, LenProperties DEF StreamFact, Extends
<1>5. /\ ParserStands
      /\ headed /\ usage => "usage" \in told \/ \E i \in 1..n : IsUsage(Stream[i])
      /\ failed => "error" \in told \/ \E i \in 1..n : IsError(Stream[i])
      /\ mode = "workflow" /\ ~usage =>
            fEvent # "message_end" /\ \A i \in 1..n : Stream[i] # Event("message_end")
  BY <1>3 DEF Lively
<1>6. ParserStands'
  BY <1>5 DEF ParserStands
<1>7. Carries(Stream', m, Len(seen'), gen', headed')
  BY <1>2 DEF Whole
<1>8. EndsOwn(Stream', m)
  BY <1>2, <1>4 DEF EndsOwn
<1>9. frame' = "none" \/ (Reading' /\ pend' # NoName) => Stream'[m] = Blank
  BY <1>2 DEF EndOf
<1>10. headed' /\ usage' => "usage" \in told' \/ \E i \in 1..m : IsUsage(Stream'[i])
  <2>1. ASSUME headed, usage, "usage" \notin told
        PROVE  \E i \in 1..m : IsUsage(Stream'[i])
    <3>1. PICK i \in 1..n : IsUsage(Stream[i])
      BY <1>5, <2>1
    <3>2. i \in 1..m /\ Stream'[i] = Stream[i]
      BY <1>4
    <3> QED
      BY <3>1, <3>2
  <2> QED
    BY <1>2, <2>1
<1>11. failed' => "error" \in told' \/ \E i \in 1..m : IsError(Stream'[i])
  <2>1. ASSUME failed, "error" \notin told
        PROVE  \E i \in 1..m : IsError(Stream'[i])
    <3>1. PICK i \in 1..n : IsError(Stream[i])
      BY <1>5, <2>1
    <3>2. i \in 1..m /\ Stream'[i] = Stream[i]
      BY <1>4
    <3> QED
      BY <3>1, <3>2
  <2> QED
    BY <1>2, <2>1
<1>12. mode' = "workflow" /\ ~usage' =>
           fEvent' # "message_end" /\ \A i \in 1..m : Stream'[i] # Event("message_end")
  BY <1>2, <1>3, <1>4, <1>5
<1>13. Lively(m)'
  BY <1>2, <1>6, <1>7, <1>8, <1>9, <1>10, <1>11, <1>12 DEF Lively
<1>14. m \in 1..Len(Stream')
  BY <1>2, <1>4
<1> QED
  BY <1>13, <1>14 DEF StreamStands

\* A frame of the end is put behind it, or nothing.
LEMMA LivelyEnds ==
    ASSUME Typed, Typed', NEW n \in 1..Len(Stream), Lively(n), "agent_done" \notin told,
           UNCHANGED <<fEvent, fData, seen, told, gen, usage, failed, headed, mode, frame>>,
           \/ Stream' = Stream /\ (Reading' => Reading) /\ pend' = pend
           \/ /\ ~Reading'
              /\ \E name \in OwnNames, field \in {"message", "conversation"} :
                    Stream' = Stream \o Sse(name, field, 0)
    PROVE  StreamStands'
<1>1. StreamFact /\ StreamFact'
  BY StreamFacts
<1>2. CASE Stream' = Stream /\ (Reading' => Reading) /\ pend' = pend
  <2>1. ParserStands'
    BY DEF Lively, ParserStands
  <2>2. Lively(n)'
    BY <1>2, <2>1 DEF Lively
  <2> QED
    BY <1>2, <2>2 DEF StreamStands
<1>3. ASSUME ~Reading', NEW name \in OwnNames, NEW field \in {"message", "conversation"},
             Stream' = Stream \o Sse(name, field, 0)
      PROVE  StreamStands'
  <2> DEFINE t == Sse(name, field, 0)
  <2>1. t \in Seq(Line)
    <3>1. Event(name) \in Line /\ Data(field, 0) \in Line /\ Blank \in Line
      BY LinesAreLines DEF OwnNames, Fields
    <3> QED
      BY <3>1 DEF Sse
  <2>2. Carries(Stream, n, Len(seen), gen, headed) /\ EndsOwn(Stream, n)
    BY DEF Lively
  <2>3. Stream \in Seq(Line) /\ gen \in Seq(Channel) /\ Len(seen) \in Nat
    BY <1>1, LenProperties DEF StreamFact, Typed
  <2>4. EndsOwn(Stream', n)
    BY <1>3, <2>2, <2>3, EndsOwnConcat
  <2>5. Carries(Stream', n, Len(seen), gen, headed) /\ \A i \in 1..n : Stream'[i] = Stream[i]
    <3> HIDE DEF t
    <3>1. Stream' = Stream \o t
      BY <1>3 DEF t
    <3> QED
      BY <2>1, <2>2, <2>3, <3>1, CarriesConcat
  <2>6. ParserStands'
    BY DEF Lively, ParserStands
  <2>7. Lively(n)'
    BY <1>3, <2>4, <2>5, <2>6 DEF Lively
  <2>8. n \in 1..Len(Stream')
    BY <2>5 DEF Carries
  <2> QED
    BY <2>7, <2>8 DEF StreamStands
<1> QED
  BY <1>2, <1>3

\* What a step of the generator that reads no line does to the stream.
LEMMA SharedPuts ==
    ASSUME Typed, Shared, link' = "open"
    PROVE  /\ link = "open" /\ UNCHANGED <<fEvent, fData, seen, told>>
           /\ \/ Coming' = Coming /\ Stream' = Stream
              \/ /\ ~Reading'
                 /\ \E name \in OwnNames, field \in {"message", "conversation"} :
                       /\ Coming' = Coming \o Sse(name, field, 0)
                       /\ Stream' = Stream \o Sse(name, field, 0)
                       /\ name = "agent_done" => pc' = "ending"
<1>1. CASE Connect \/ LeaveTry \/ Save \/ Return
  <2>1. UNCHANGED <<wire, out, link, fEvent, fData, seen, told>>
    BY <1>1 DEF Connect, LeaveTry, Save, Return, clientVars
  <2>2. Coming' = Coming /\ Stream' = Stream
    BY <2>1 DEF Coming, Stream, Parsing, Chunk
  <2> QED
    BY <2>1, <2>2
<1>2. CASE Yield
  <2>1. UNCHANGED <<link, fEvent, fData, seen, told>>
    BY <1>2 DEF Yield
  <2> QED
    BY <1>2, <2>1, YieldStream
<1>3. CASE Fail
  <2>1. /\ UNCHANGED <<wire, link, fEvent, fData, seen, told>>
        /\ out' = <<Sse("error", "message", 0)>> /\ pc' = "closing" /\ out = <<>>
    BY <1>3 DEF Fail, Close, clientVars, Typed
  <2>2. "error" \in OwnNames /\ "message" \in Fields
    BY DEF OwnNames, Fields
  <2>3. Sse("error", "message", 0) \in Seq(Line)
    BY <2>2, LinesAreLines DEF Sse
  <2>4. PICK c : c = Sse("error", "message", 0)
    OBVIOUS
  <2>5. Coming' = Coming \o c /\ Stream' = Stream \o c
    BY <2>1, <2>3, <2>4, PutOne
  <2>6. ~Reading'
    BY <2>1 DEF Reading
  <2> QED
    BY <2>1, <2>2, <2>4, <2>5, <2>6
<1>4. CASE AgentDone
  <2>1. /\ UNCHANGED <<wire, link, fEvent, fData, seen, told>>
        /\ pc' = "ending" /\ out = <<>>
    BY <1>4 DEF AgentDone, clientVars, Typed
  <2>2. "agent_done" \in OwnNames /\ "conversation" \in Fields
    BY DEF OwnNames, Fields
  <2>3. Sse("agent_done", "conversation", 0) \in Seq(Line)
    BY <2>2, LinesAreLines DEF Sse
  <2>4. PICK c : c = Sse("agent_done", "conversation", 0)
    OBVIOUS
  <2>5. ~Reading'
    BY <2>1 DEF Reading
  <2>6. CASE terminal
    <3>1. out' = <<c>>
      BY <1>4, <2>4, <2>6 DEF AgentDone
    <3>2. Coming' = Coming \o c /\ Stream' = Stream \o c
      BY <2>1, <2>3, <2>4, <3>1, PutOne
    <3> QED
      BY <2>1, <2>2, <2>4, <2>5, <3>2
  <2>7. CASE ~terminal
    <3>1. out' = <<>>
      BY <1>4, <2>7 DEF AgentDone
    <3> QED
      BY <2>1, <3>1, PutNone
  <2> QED
    BY <2>6, <2>7
<1>5. CASE Disconnect \/ SaveFails
  BY <1>5 DEF Disconnect, SaveFails, clientVars
<1> QED
  BY <1>1, <1>2, <1>3, <1>4, <1>5 DEF Shared

\* What is put behind a sequence of lines of the end.
LEMMA SseLines ==
    ASSUME NEW s \in Seq(Line), NEW name \in OwnNames,
           NEW field \in {"message", "conversation"},
           NEW i \in DOMAIN (s \o Sse(name, field, 0))
    PROVE  \/ i \in DOMAIN s /\ (s \o Sse(name, field, 0))[i] = s[i]
           \/ /\ (s \o Sse(name, field, 0))[i] \in OwnLine
              /\ (s \o Sse(name, field, 0))[i] = Event("agent_done") =>
                    name = "agent_done"
<1> DEFINE e == Event(name)
           d == Data(field, 0)
<1>1. e \in Line /\ d \in Line /\ Blank \in Line /\ Sse(name, field, 0) \in Seq(Line)
  <2>1. name \in Names \cup OwnNames /\ field \in Fields /\ 0 \in Nat
    BY DEF Fields
  <2> QED
    BY <2>1, LinesAreLines DEF Sse
<1>2. s \o Sse(name, field, 0) = Append(Append(Append(s, e), d), Blank)
  <2>1. name \in Names \cup OwnNames /\ field \in Fields /\ 0 \in Nat
    BY DEF Fields
  <2> QED
    BY <2>1, SseIsLines
<1>3. e \in OwnLine /\ d \in OwnLine /\ Blank \in OwnLine
  BY DEF OwnLine
<1>4. /\ e = Event("agent_done") => name = "agent_done"
      /\ d # Event("agent_done") /\ Blank # Event("agent_done")
  BY DEF Event, Data, Blank
<1> HIDE DEF e, d
<1> DEFINE u == Append(s, e)
           v == Append(u, d)
           w == Append(v, Blank)
<1>5. /\ u \in Seq(Line) /\ Len(u) = Len(s) + 1 /\ u[Len(s) + 1] = e
      /\ \A j \in 1..Len(s) : u[j] = s[j]
  BY <1>1, AppendProperties
<1> HIDE DEF u
<1>6. /\ v \in Seq(Line) /\ Len(v) = Len(u) + 1 /\ v[Len(u) + 1] = d
      /\ \A j \in 1..Len(u) : v[j] = u[j]
  BY <1>1, <1>5, AppendProperties
<1> HIDE DEF v
<1>7. /\ w \in Seq(Line) /\ Len(w) = Len(v) + 1 /\ w[Len(v) + 1] = Blank
      /\ \A j \in 1..Len(v) : w[j] = v[j] /\ DOMAIN w = 1..Len(w)
  BY <1>1, <1>6, AppendProperties
<1> HIDE DEF w
<1>8. s \o Sse(name, field, 0) = w
  BY <1>2 DEF u, v, w
<1>9. Len(s) \in Nat /\ DOMAIN s = 1..Len(s) /\ DOMAIN w = 1..Len(w)
  BY <1>7, LenProperties
<1>10. i \in 1..(Len(s) + 3)
  BY <1>5, <1>6, <1>7, <1>8, <1>9
<1>11. i \in 1..Len(s) => i \in DOMAIN s /\ w[i] = s[i]
  BY <1>5, <1>6, <1>7, <1>9
<1>12. w[Len(s) + 1] = e /\ w[Len(s) + 2] = d /\ w[Len(s) + 3] = Blank
  BY <1>5, <1>6, <1>7, <1>9
<1>13. i \in 1..Len(s) \/ w[i] \in {e, d, Blank}
  BY <1>9, <1>10, <1>12
<1> QED
  BY <1>3, <1>4, <1>8, <1>11, <1>13

LEMMA SharedStream ==
    ASSUME Typed, Typed', StreamStands, DoneStands, Shared, UNCHANGED readVars,
           usage' = usage, gen' = gen, Reading' => Reading
    PROVE  StreamStands'
<1> SUFFICES ASSUME link' = "open" PROVE StreamStands'
  BY DEF StreamStands
<1>1. /\ link = "open" /\ UNCHANGED <<fEvent, fData, seen, told>>
      /\ \/ Coming' = Coming /\ Stream' = Stream
         \/ /\ ~Reading'
            /\ \E name \in OwnNames, field \in {"message", "conversation"} :
                  /\ Coming' = Coming \o Sse(name, field, 0)
                  /\ Stream' = Stream \o Sse(name, field, 0)
                  /\ name = "agent_done" => pc' = "ending"
  BY SharedPuts
<1>2. UNCHANGED <<failed, ended, headed, mode, frame, pend>>
  BY DEF readVars, chatVars, runVars
<1>3. StreamFact
  BY StreamFacts
<1>4. CASE Calm
  <2>1. ~Reading' /\ Complete'
    BY <1>1, <1>2, <1>4 DEF Calm, Complete
  <2>2. ASSUME NEW i \in DOMAIN Coming' PROVE Coming'[i] \in OwnLine
    <3>1. CASE Coming' = Coming
      BY <1>4, <2>2, <3>1 DEF Calm
    <3>2. ASSUME NEW name \in OwnNames, NEW field \in {"message", "conversation"},
                 Coming' = Coming \o Sse(name, field, 0)
          PROVE  Coming'[i] \in OwnLine
      <4>1. Coming \in Seq(Line)
        BY <1>3 DEF StreamFact
      <4>2. \/ i \in DOMAIN Coming /\ Coming'[i] = Coming[i]
            \/ Coming'[i] \in OwnLine
        BY <2>2, <3>2, <4>1, SseLines
      <4> QED
        BY <1>4, <4>2 DEF Calm
    <3> QED
      BY <1>1, <3>1, <3>2
  <2>3. Calm'
    BY <1>1, <1>4, <2>1, <2>2 DEF Calm
  <2> QED
    BY <2>3 DEF StreamStands
<1>5. ASSUME "agent_done" \notin told, NEW n \in 1..Len(Stream), Lively(n)
      PROVE  StreamStands'
  <2>1. UNCHANGED <<fEvent, fData, seen, told, gen, usage, failed, headed, mode, frame>>
    BY <1>1, <1>2
  <2>2. \/ Stream' = Stream /\ (Reading' => Reading) /\ pend' = pend
        \/ /\ ~Reading'
           /\ \E name \in OwnNames, field \in {"message", "conversation"} :
                 Stream' = Stream \o Sse(name, field, 0)
    BY <1>1, <1>2
  <2> QED
    BY <1>5, <2>1, <2>2, LivelyEnds
<1> QED
  BY <1>1, <1>4, <1>5 DEF StreamStands

\* Among regular lines agent_done is not.
LEMMA RegularNoDone ==
    ASSUME NEW s, NEW k, NEW g, NEW named, Whole(s, k, g, named)
    PROVE  \A i \in 2..Len(s) : s[i] # Event("agent_done")
<1> SUFFICES ASSUME NEW i \in 2..Len(s) PROVE s[i] # Event("agent_done")
  OBVIOUS
<1>1. Len(s) \in Nat
  BY LenProperties DEF Whole
<1>2. i - 1 \in 1..(Len(s) - 1) /\ (i - 1) + 1 = i
  BY <1>1
<1>3. Follows(s[i - 1], s[i], named)
  BY <1>2 DEF Whole, Carries
<1> QED
  BY <1>3 DEF Follows, Event, Blank, Names

LEMMA GrownNoDone ==
    ASSUME Typed', NEW k, NEW g, NEW named, Whole(Stream', k, g, named)
    PROVE  \A i \in DOMAIN Coming' : Coming'[i] # Event("agent_done")
<1>1. StreamFact'
  BY StreamFacts
<1>2. \A i \in 2..Len(Stream') : Stream'[i] # Event("agent_done")
  BY RegularNoDone
<1> QED
  BY <1>1, <1>2 DEF StreamFact

LEMMA SharedDone ==
    ASSUME Typed, Typed', DoneStands, Shared, UNCHANGED readVars,
           usage' = usage, gen' = gen
    PROVE  DoneStands'
<1>1. UNCHANGED <<failed, ended, headed, mode, frame>>
  BY DEF readVars, chatVars, runVars
<1>2. seen' = seen /\ told' = told
  BY DEF Shared, Connect, Fail, Close, Yield, LeaveTry, Disconnect, Save, SaveFails,
         AgentDone, Return, clientVars
<1>3. pc \in {"ending", "closed"} =>
          pc' \in {"ending", "closed"} /\ saved' = saved
  BY DEF Shared, Connect, Fail, Close, Yield, LeaveTry, Disconnect, Save, SaveFails,
         AgentDone, Return
<1>4. Stored' = Stored
  BY DEF Stored
<1>5. Complete => Complete'
  BY <1>1, <1>2 DEF Complete
<1>6. "agent_done" \in told' =>
          pc' \in {"ending", "closed"} /\ saved' = Stored' /\ Complete'
  BY <1>2, <1>3, <1>4, <1>5 DEF DoneStands
<1>7. ASSUME link' = "open",
             fEvent' = "agent_done"
             \/ \E i \in DOMAIN Coming' : Coming'[i] = Event("agent_done")
      PROVE  pc' \in {"ending", "closed"}
  <2>1. /\ link = "open" /\ UNCHANGED <<fEvent, fData, seen, told>>
        /\ \/ Coming' = Coming /\ Stream' = Stream
           \/ /\ ~Reading'
              /\ \E name \in OwnNames, field \in {"message", "conversation"} :
                    /\ Coming' = Coming \o Sse(name, field, 0)
                    /\ Stream' = Stream \o Sse(name, field, 0)
                    /\ name = "agent_done" => pc' = "ending"
    BY <1>7, SharedPuts
  <2>2. Coming \in Seq(Line)
    BY StreamFacts DEF StreamFact
  <2>3. CASE fEvent' = "agent_done"
    BY <1>3, <2>1, <2>3 DEF DoneStands
  <2>4. ASSUME NEW i \in DOMAIN Coming', Coming'[i] = Event("agent_done")
        PROVE  pc' \in {"ending", "closed"}
    <3>1. CASE Coming' = Coming
      BY <1>3, <2>1, <2>4, <3>1 DEF DoneStands
    <3>2. ASSUME NEW name \in OwnNames, NEW field \in {"message", "conversation"},
                 Coming' = Coming \o Sse(name, field, 0),
                 name = "agent_done" => pc' = "ending"
          PROVE  pc' \in {"ending", "closed"}
      <4>1. \/ i \in DOMAIN Coming /\ Coming'[i] = Coming[i]
            \/ name = "agent_done"
        BY <2>2, <2>4, <3>2, SseLines
      <4> QED
        BY <1>3, <2>1, <2>4, <3>2, <4>1 DEF DoneStands
    <3> QED
      BY <2>1, <3>1, <3>2
  <2> QED
    BY <1>7, <2>3, <2>4
<1>8. mode' = "workflow" /\ "end" \in told' => usage'
  BY <1>1, <1>2 DEF DoneStands
<1> QED
  BY <1>6, <1>7, <1>8 DEF DoneStands

\* The upstream ends: what was kept back is put out.
LEMMA EndStream ==
    ASSUME Typed, Typed', StreamStands, DoneStands, ReaderStands, UNCHANGED readVars,
           EndOfStream(Chat!Pending) \/ (pend = NoName /\ EndOfStream(<<>>)),
           usage' = usage, gen' = gen
    PROVE  StreamStands' /\ DoneStands'
<1>1. UNCHANGED <<failed, ended, headed, mode, frame, pend>>
  BY DEF readVars, chatVars, runVars
<1>2. /\ UNCHANGED <<wire, link, fEvent, fData, seen, told>> /\ out = <<>>
      /\ pc = "reading" /\ pc' = "closing"
  BY DEF EndOfStream, Close, clientVars, Typed
<1>3. Reading /\ ~Reading'
  BY <1>2 DEF Reading
<1>4. out' = IF pend = NoName THEN <<>> ELSE << <<Event(pend)>> >>
  <2>1. Chat!Pending = IF pend = NoName THEN <<>> ELSE << <<Event(pend)>> >>
    BY PendingName
  <2> QED
    BY <2>1 DEF EndOfStream, Close
<1>5. pend # NoName => pend \in Names /\ frame # "none"
  BY <1>3, PendingName
<1>6. link = "open" => /\ Lively(Len(Stream)) /\ "agent_done" \notin told
                       /\ Whole(Stream, Len(seen), gen, headed) /\ NoDone
  BY <1>3, LivelyAll
<1>7. StreamFact /\ StreamFact' /\ Len(seen) \in Nat
  BY StreamFacts, LenProperties DEF Typed
<1>8. "agent_done" \notin told
  BY <1>2 DEF DoneStands
<1>9. CASE pend = NoName
  <2>1. Coming' = Coming /\ Stream' = Stream
    BY <1>2, <1>4, <1>9, PutNone
  <2>2. StreamStands'
    <3>1. CASE link = "open"
      <4>1. Len(Stream) \in 1..Len(Stream)
        BY <1>7 DEF StreamFact
      <4>2. UNCHANGED <<fEvent, fData, seen, told, gen, usage, failed, headed, mode, frame>>
        BY <1>1, <1>2
      <4> QED
        BY <1>1, <1>3, <1>6, <2>1, <3>1, <4>1, <4>2, LivelyEnds
    <3> QED
      BY <1>2, <3>1 DEF StreamStands
  <2>3. link' = "open" => NoDone'
    BY <1>2, <1>6, <2>1 DEF NoDone
  <2> QED
    BY <1>1, <1>2, <1>8, <2>2, <2>3 DEF DoneStands, NoDone
<1>10. CASE pend # NoName
  <2>1. PICK y : y = Event(pend)
    OBVIOUS
  <2>2. y \in Line /\ ~IsText(y) /\ y.line = "event" /\ y.name = pend
    BY <1>5, <1>10, <2>1, LinesAreLines DEF IsText, Event
  <2>3. Stream' = Append(Stream, y)
    <3>1. <<y>> \in Seq(Line)
      BY <2>2
    <3>2. Stream' = Stream \o <<y>>
      BY <1>2, <1>4, <1>10, <2>1, <3>1, PutOne
    <3> QED
      BY <1>7, <2>2, <3>2, AppendIsConcat DEF StreamFact
  <2>4. CASE link # "open"
    <3>1. StreamStands'
      BY <1>2, <2>4 DEF StreamStands
    <3> QED
      BY <1>1, <1>2, <1>8, <2>4, <3>1 DEF DoneStands
  <2>5. CASE link = "open"
    <3>1. EndOf(Stream) = Blank
      BY <1>3, <1>6, <1>10, <2>5 DEF Lively, EndOf
    <3>2. Follows(EndOf(Stream), y, headed)
      BY <1>5, <1>10, <2>2, <3>1 DEF Follows
    <3>3. Carried(gen, y) = gen
      BY <2>2 DEF Carried
    <3>4. Whole(Stream', Len(seen), gen, headed) /\ Extends(Stream', Stream)
          /\ EndOf(Stream') = y
      BY <1>6, <1>7, <2>2, <2>3, <2>5, <3>2, <3>3, WholeLine
    <3>5. StreamStands'
      <4>1. UNCHANGED <<fEvent, fData, seen, told, headed, mode>>
        BY <1>1, <1>2
      <4>2. ~(frame' = "none") /\ ~Reading'
        BY <1>1, <1>3, <1>5, <1>10
      <4>3. mode # "workflow"
        BY <1>3, <1>10, PendingName
      <4> QED
        BY <1>1, <1>6, <2>5, <3>4, <4>1, <4>2, <4>3, LivelyGrows
    <3>6. \A i \in DOMAIN Coming' : Coming'[i] # Event("agent_done")
      BY <3>4, GrownNoDone
    <3>7. fEvent' # "agent_done"
      BY <1>2, <1>6, <2>5 DEF NoDone
    <3> QED
      BY <1>1, <1>2, <1>8, <3>5, <3>6, <3>7 DEF DoneStands
  <2> QED
    BY <2>4, <2>5
<1> QED
  BY <1>9, <1>10

\* agent_done is neither told nor on its way while a line is read.
LEMMA ReadDone ==
    ASSUME Typed', DoneStands, StreamStands', Reading', pc = "reading",
           told' = told, mode' = mode, mode = "workflow" /\ usage => usage'
    PROVE  DoneStands'
<1>1. "agent_done" \notin told'
  BY DEF DoneStands
<1>2. link' = "open" => NoDone'
  BY ReadingNoDone
<1>3. mode' = "workflow" /\ "end" \in told' => usage'
  BY DEF DoneStands
<1> QED
  BY <1>1, <1>2, <1>3 DEF DoneStands, NoDone

LEMMA LastIn ==
    ASSUME NEW s, s \in Seq(Line), s # <<>>
    PROVE  Len(s) \in 1..Len(s)
  BY LenProperties, EmptySeq

\* A line of a chat upstream is read.
LEMMA ChatLineStream ==
    ASSUME Typed, Typed', StreamStands, ReaderStands, ChatLine,
           \/ \E k \in Chat!Kind : Chat!ReadEvent(k) \/ Chat!ReadData(k)
           \/ Chat!ReadBlank
    PROVE  StreamStands'
<1>1. /\ UNCHANGED <<wire, link, fEvent, fData, seen, told, headed, mode, failed, ended>>
      /\ mode = "chat" /\ Reading
  BY DEF ChatLine, clientVars, runVars, Reading
<1> SUFFICES ASSUME link = "open" PROVE StreamStands'
  BY <1>1 DEF StreamStands
<1>2. /\ Lively(Len(Stream)) /\ "agent_done" \notin told
      /\ Whole(Stream, Len(seen), gen, headed)
  BY <1>1, LivelyAll
<1>3. frame = "none" \/ pend # NoName => EndOf(Stream) = Blank
  BY <1>1, <1>2 DEF Lively, EndOf
<1>4. StreamFact /\ StreamFact' /\ Len(seen) \in Nat
  BY StreamFacts, LenProperties DEF Typed
<1>5. ASSUME NEW k \in Chat!Kind, Chat!ReadEvent(k) PROVE StreamStands'
  <2>1. UNCHANGED <<clientVars, genVars>> /\ frame = "none"
    BY <1>5 DEF Chat!ReadEvent, Chat!clientVars, Chat!genVars, clientVars, genVars
  <2>2. Stream' = Stream /\ usage' = usage /\ gen' = gen
    BY <2>1 DEF clientVars, genVars, Stream, Parsing, Chunk
  <2>3. EndOf(Stream') = Blank
    BY <1>3, <2>1, <2>2
  <2>4. Extends(Stream', Stream)
    BY <1>4, <2>2 DEF Extends, StreamFact
  <2>5. Whole(Stream', Len(seen), gen', headed)
    BY <1>2, <2>2
  <2> QED
    BY <1>1, <1>2, <2>2, <2>3, <2>4, <2>5, LivelyGrows
<1>6. ASSUME NEW k \in Chat!Kind, Chat!ReadData(k) PROVE StreamStands'
  <2>1. /\ frame' = k /\ pend' = NoName /\ usage' = (usage \/ k = "message_end")
        /\ frame = "none" \/ pend # NoName
    BY <1>6, ChatData
  <2>2. /\ Whole(Stream', Len(seen), gen', headed) /\ Extends(Stream', Stream)
        /\ k = "message_end" => IsUsage(EndOf(Stream'))
    BY <1>2, <1>3, <1>4, <1>6, <2>1, ChatDataStream
  <2>3. frame' # "none"
    BY <2>1 DEF Chat!Kind
  <2>4. headed /\ usage' /\ ~usage => \E i \in 1..Len(Stream') : IsUsage(Stream'[i])
    <3>1. Len(Stream') \in 1..Len(Stream')
      BY <1>4 DEF StreamFact
    <3> QED
      BY <2>1, <2>2, <3>1 DEF EndOf
  <2> QED
    BY <1>1, <1>2, <2>1, <2>2, <2>3, <2>4, LivelyGrows
<1>7. CASE Chat!ReadBlank
  <2>1. UNCHANGED <<gen, usage>>
    BY <1>7, ChatBlank
  <2>2. /\ Whole(Stream', Len(seen), gen, headed) /\ Extends(Stream', Stream)
        /\ EndOf(Stream') = Blank
    BY <1>2, <1>3, <1>4, <1>7, ChatBlankStream
  <2> QED
    BY <1>1, <1>2, <2>1, <2>2, LivelyGrows
<1> QED
  BY <1>5, <1>6, <1>7

\* A line of a workflow upstream is read.
LEMMA RunLineStream ==
    ASSUME Typed, Typed', StreamStands, ReaderStands, RunLine,
           \/ \E k \in Workflow!Kind : Workflow!ReadEvent(k) \/ Workflow!ReadData(k)
           \/ Workflow!ReadBlank
    PROVE  StreamStands' /\ (usage => usage')
<1>1. /\ UNCHANGED <<wire, link, fEvent, fData, seen, told, headed, mode, frame, pend>>
      /\ mode = "workflow" /\ Reading /\ frame = "none"
  BY DEF RunLine, clientVars, chatVars, Reading, ReaderStands
<1>2. ASSUME UNCHANGED <<clientVars, genVars, failed, ended>>
      PROVE  StreamStands' /\ (usage => usage')
  <2>1. UNCHANGED <<link, seen, told, gen, usage, fEvent, fData, pc>>
    BY <1>2 DEF clientVars, genVars
  <2>2. Stream' = Stream /\ Coming' = Coming
    BY <1>2 DEF clientVars, genVars, Stream, Coming, Parsing, Chunk
  <2>3. \A n : Lively(n) => Lively(n)'
    BY <1>1, <1>2, <2>1, <2>2 DEF Lively, ParserStands, Reading
  <2>4. Calm => Calm'
    BY <1>1, <1>2, <2>1, <2>2 DEF Calm, Complete, Reading
  <2> QED
    BY <2>1, <2>2, <2>3, <2>4 DEF StreamStands
<1>3. ASSUME NEW k \in Workflow!Kind, Workflow!ReadData(k)
      PROVE  StreamStands' /\ (usage => usage')
  <2>1. /\ usage' = (usage \/ k = "finished") /\ failed' = (failed \/ k = "failed")
    BY <1>3, RunData
  <2> SUFFICES ASSUME link = "open" PROVE StreamStands'
    BY <1>1, <2>1 DEF StreamStands
  <2>2. /\ Lively(Len(Stream)) /\ "agent_done" \notin told
        /\ Whole(Stream, Len(seen), gen, headed)
    BY <1>1, LivelyAll
  <2>3. EndOf(Stream) = Blank
    BY <1>1, <2>2 DEF Lively, EndOf
  <2>4. Len(seen) \in Nat
    BY LenProperties DEF Typed
  <2>5. /\ Whole(Stream', Len(seen), gen', headed) /\ Extends(Stream', Stream)
        /\ EndOf(Stream') = Blank
        /\ k = "finished" => \E i \in 1..Len(Stream') : IsUsage(Stream'[i])
        /\ k = "failed" => \E i \in 1..Len(Stream') : IsError(Stream'[i])
        /\ k # "finished" =>
              \A i \in 1..Len(Stream') :
                 i \in 1..Len(Stream) \/ Stream'[i] # Event("message_end")
    BY <1>3, <2>2, <2>3, <2>4, RunDataStream
  <2> QED
    BY <1>1, <2>1, <2>2, <2>5, LivelyGrows
<1>4. ASSUME (\E k \in Workflow!Kind : Workflow!ReadEvent(k)) \/ Workflow!ReadBlank
      PROVE  UNCHANGED <<clientVars, genVars, failed, ended>>
  BY <1>4 DEF Workflow!ReadEvent, Workflow!ReadBlank, Workflow!clientVars,
              Workflow!genVars, clientVars, genVars
<1> QED
  BY <1>2, <1>3, <1>4

-------------------------------------------------------------------------------
(* The browser.                                                            *)

\* What the line that was parsed last says of the frame being read.
LEMMA ParsingTells ==
    ASSUME ParserStands, fData \in Seq(Line)
    PROVE  /\ Parsing = Blank => fEvent = NoName /\ fData = <<>>
           /\ Parsing.line = "event" => fEvent \in Names /\ fData = <<>>
                                        /\ Parsing.name = fEvent
<1>1. CASE fEvent = NoName /\ fData = <<>>
  <2>1. Parsing = Blank
    BY <1>1 DEF Parsing
  <2> QED
    BY <1>1, <2>1 DEF Blank
<1>2. CASE fEvent \in Names /\ fData = <<>>
  <2>1. fEvent # NoName
    BY <1>2 DEF Names, NoName
  <2>2. Parsing = Event(fEvent)
    BY <1>2, <2>1 DEF Parsing
  <2> QED
    BY <1>2, <2>2 DEF Event, Blank
<1>3. CASE Len(fData) = 1 /\ fData[1].line = "data"
  <2>1. fData # <<>>
    BY <1>3, EmptySeq
  <2>2. Parsing.line = "data"
    BY <1>3, <2>1 DEF Parsing
  <2> QED
    BY <2>2 DEF Blank
<1> QED
  BY <1>1, <1>2, <1>3 DEF ParserStands

\* A line that follows the last one is parsed.
LEMMA RegularReceive ==
    ASSUME Typed, ParserStands, Receive, UNCHANGED <<headed, out>>,
           NEW y, y = Coming[1], Follows(Parsing, y, headed)
    PROVE  /\ Coming' = Tail(Coming) /\ Coming # <<>> /\ y \in Line
           /\ ParserStands' /\ Parsing' = y
           /\ fEvent' \in {fEvent, NoName} \/ y = Event(fEvent')
           /\ seen' = IF IsText(Parsing)
                      THEN Append(seen, <<ChannelOf(Parsing), Parsing.piece>>)
                      ELSE seen
           /\ told \subseteq told' /\ told' \subseteq told \cup {"end", "usage", "error"}
           /\ headed /\ IsUsage(Parsing) => "usage" \in told'
           /\ headed /\ IsError(Parsing) => "error" \in told'
           /\ fEvent # "message_end" /\ "end" \in told' => "end" \in told
<1>1. wire # <<>> /\ wire' = Tail(wire) /\ out' = out
  BY DEF Receive
<1>2. /\ Coming # <<>> /\ Head(wire) = y /\ Coming' = Tail(Coming) /\ y \in Line
  BY <1>1, TakeStream
<1>3. fData \in Seq(Line)
  BY DEF Typed
<1>4. /\ Parsing = Blank => fEvent = NoName /\ fData = <<>>
      /\ Parsing.line = "event" => fEvent \in Names /\ fData = <<>>
                                   /\ Parsing.name = fEvent
  BY <1>3, ParsingTells
<1>5. CASE y.line = "event"
  <2>1. /\ fEvent' = y.name /\ fData' = fData /\ seen' = seen /\ told' = told
    BY <1>2, <1>5 DEF Receive
  <2>2. Parsing = Blank /\ y.name \in Names
    BY <1>5 DEF Follows, Blank
  <2>3. y = Event(fEvent')
    BY <1>2, <1>5, <2>1, <2>2 DEF Line, Event, Blank
  <2>4. fData' = <<>> /\ fEvent' \in Names /\ fEvent' # NoName
    BY <1>4, <2>1, <2>2 DEF Names, NoName
  <2>5. Parsing' = y
    BY <2>3, <2>4 DEF Parsing
  <2>6. ParserStands'
    BY <2>4 DEF ParserStands
  <2>7. ~IsText(Parsing) /\ ~IsUsage(Parsing) /\ ~IsError(Parsing)
    BY <2>2 DEF Blank, IsText, IsUsage, IsError
  <2> QED
    BY <1>2, <2>1, <2>3, <2>5, <2>6, <2>7
<1>6. CASE y.line = "data"
  <2>1. /\ fEvent' = fEvent /\ fData' = Append(fData, y) /\ seen' = seen /\ told' = told
    BY <1>2, <1>6 DEF Receive
  <2>2. /\ Parsing = Blank \/ Parsing.line = "event"
        /\ \/ Parsing = Blank /\ ~headed /\ y.field # "content"
           \/ Parsing.line = "event" /\ Fits(Parsing.name, y)
    BY <1>6 DEF Follows, Blank
  <2>3. fData = <<>>
    BY <1>4, <2>2
  <2>4. /\ fData' \in Seq(Line) /\ Len(fData') = 1 /\ fData'[1] = y /\ fData' # <<>>
    BY <1>2, <1>3, <2>1, <2>3, AppendProperties, EmptySeq
  <2>5. fData' # <<>>
    BY <2>4
  <2>6. Parsing' = y
    BY <2>4, <2>5 DEF Parsing
  <2>7. y.field \in Fields
    BY <1>2, <1>6 DEF Line, Blank
  <2>8. ParserStands'
    BY <1>4, <1>6, <2>1, <2>2, <2>4, <2>7 DEF ParserStands
  <2>9. ~IsText(Parsing) /\ ~IsUsage(Parsing) /\ ~IsError(Parsing)
    BY <2>2 DEF Blank, IsText, IsUsage, IsError
  <2> QED
    BY <1>2, <2>1, <2>6, <2>8, <2>9
<1>7. CASE y.line = "blank"
  <2>1. Dispatch
    BY <1>2, <1>7 DEF Receive
  <2>2. y = Blank
    BY <1>2, <1>7 DEF Line
  <2>3. /\ fEvent' = NoName /\ fData' = <<>>
        /\ seen' = IF IsText(Parsing)
                   THEN Append(seen, <<ChannelOf(Parsing), Parsing.piece>>)
                   ELSE seen
        /\ told \subseteq told' /\ told' \subseteq told \cup {"end", "usage", "error"}
        /\ headed /\ IsUsage(Parsing) => "usage" \in told'
        /\ headed /\ IsError(Parsing) => "error" \in told'
        /\ fEvent # "message_end" /\ "end" \in told' => "end" \in told
    BY <1>3, <2>1, RegularDispatch
  <2>4. ParserStands'
    BY <2>3 DEF ParserStands
  <2>5. Parsing' = y
    BY <2>2, <2>3 DEF Parsing
  <2> QED
    BY <1>2, <2>3, <2>4, <2>5
<1> QED
  BY <1>2, <1>5, <1>6, <1>7 DEF Receive

\* What is shown next is the next piece.
LEMMA ShownIsNext ==
    ASSUME Typed, SeenInOrder, gen' = gen,
           seen' = IF IsText(Parsing)
                   THEN Append(seen, <<ChannelOf(Parsing), Parsing.piece>>)
                   ELSE seen,
           NEW n \in 1..Len(Stream), Lively(n)
    PROVE  SeenInOrder' /\ Len(seen') = IF IsText(Parsing) THEN Len(seen) + 1 ELSE Len(seen)
<1>1. /\ Stream \in Seq(Line) /\ Stream[1] = Parsing /\ Len(Stream) \in Nat /\ n \in Nat
      /\ gen \in Seq(Channel) /\ seen \in Seq(Channel \X Nat) /\ Len(seen) \in Nat
      /\ Carries(Stream, n, Len(seen), gen, headed) /\ Parsing \in Line
  BY StreamFacts, LenProperties DEF StreamFact, Typed, Lively
<1>2. CASE ~IsText(Parsing)
  BY <1>2 DEF SeenInOrder
<1>3. CASE IsText(Parsing)
  <2>1. Parsing.piece = Len(seen) + 1 /\ Len(seen) + 1 <= Len(gen)
        /\ gen[Len(seen) + 1] = ChannelOf(Parsing)
    <3>1. CASE n = 1
      <4>1. Carries(Stream, 1, Len(seen), gen, headed)
        BY <1>1, <3>1
      <4>2. Len(gen) = Len(seen) + 1
        BY <1>1, <1>3, <4>1, CarriesOne
      <4>3. Stream[1].piece = Len(seen) + 1 /\ gen[Len(seen) + 1] = ChannelOf(Stream[1])
        BY <1>1, <1>3, <4>1, CarriesOne
      <4> QED
        BY <1>1, <4>2, <4>3
    <3>2. CASE n >= 2
      BY <1>1, <1>3, <3>2, CarriesTail
    <3> QED
      BY <3>1, <3>2
  <2>2. ChannelOf(Parsing) \in Channel
    BY DEF ChannelOf, Channel
  <2>3. PICK p : p = <<ChannelOf(Parsing), Parsing.piece>>
    OBVIOUS
  <2>4. p \in Channel \X Nat /\ p = <<gen[Len(seen) + 1], Len(seen) + 1>>
    BY <1>1, <2>1, <2>2, <2>3
  <2>5. /\ Len(seen') = Len(seen) + 1 /\ seen'[Len(seen) + 1] = p
        /\ \A i \in 1..Len(seen) : seen'[i] = seen[i]
    BY <1>1, <1>3, <2>3, <2>4, AppendProperties
  <2>6. Len(seen') <= Len(gen')
    BY <2>1, <2>5
  <2>7. ASSUME NEW i \in 1..Len(seen') PROVE seen'[i] = <<gen'[i], i>>
    <3>1. CASE i = Len(seen) + 1
      BY <2>4, <2>5, <3>1
    <3>2. CASE i \in 1..Len(seen)
      BY <2>5, <3>2 DEF SeenInOrder
    <3> QED
      BY <1>1, <2>5, <2>7, <3>1, <3>2
  <2> QED
    BY <1>1, <1>3, <2>5, <2>6, <2>7 DEF SeenInOrder
<1> QED
  BY <1>2, <1>3

\* A regular line is parsed, and another regular one stands before it.
LEMMA LivelyTakes ==
    ASSUME Typed, Typed', SeenInOrder, ReaderStands, DoneStands, Receive,
           UNCHANGED <<genVars, readVars>>,
           "agent_done" \notin told, NEW n \in 2..Len(Stream), Lively(n)
    PROVE  StreamStands' /\ SeenInOrder' /\ DoneStands'
<1>1. /\ UNCHANGED <<pc, out, gen, usage, saved, failed, ended, headed, mode, frame, pend>>
      /\ link = "open"
  BY DEF genVars, readVars, chatVars, runVars, Receive
<1>2. /\ StreamFact /\ StreamFact' /\ Len(seen) \in Nat /\ n \in Nat /\ n >= 2
      /\ Len(Stream) \in Nat /\ n <= Len(Stream) /\ gen \in Seq(Channel)
  <2>1. StreamFact /\ StreamFact'
    BY StreamFacts
  <2>2. Len(Stream) \in Nat
    BY <2>1 DEF StreamFact
  <2>3. gen \in Seq(Channel) /\ seen \in Seq(Channel \X Nat)
    BY DEF Typed
  <2>4. Len(seen) \in Nat
    BY <2>3, LenProperties
  <2> QED
    BY <2>1, <2>2, <2>3, <2>4
<1>3. ParserStands /\ Carries(Stream, n, Len(seen), gen, headed) /\ EndsOwn(Stream, n)
  BY DEF Lively
<1>4. Stream[1] = Parsing /\ Stream[2] = Coming[1] /\ Tail(Stream) = Coming
  BY <1>2 DEF StreamFact
<1>5. Follows(Parsing, Coming[1], headed)
  BY <1>2, <1>3, <1>4 DEF Carries
<1>6. /\ Coming' = Tail(Coming) /\ Coming # <<>> /\ Coming[1] \in Line
      /\ ParserStands' /\ Parsing' = Coming[1]
      /\ fEvent' \in {fEvent, NoName} \/ Coming[1] = Event(fEvent')
      /\ seen' = IF IsText(Parsing)
                 THEN Append(seen, <<ChannelOf(Parsing), Parsing.piece>>)
                 ELSE seen
      /\ told \subseteq told' /\ told' \subseteq told \cup {"end", "usage", "error"}
      /\ headed /\ IsUsage(Parsing) => "usage" \in told'
      /\ headed /\ IsError(Parsing) => "error" \in told'
      /\ fEvent # "message_end" /\ "end" \in told' => "end" \in told
  BY <1>1, <1>3, <1>5, RegularReceive
<1>7. SeenInOrder' /\ Len(seen') = IF IsText(Parsing) THEN Len(seen) + 1 ELSE Len(seen)
  <2>1. n \in 1..Len(Stream)
    BY <1>2
  <2> QED
    BY <1>1, <1>6, <2>1, ShownIsNext
<1>8. Stream' = Tail(Stream)
  <2>1. Stream' \in Seq(Line) /\ Stream \in Seq(Line) /\ Stream' # <<>>
    BY <1>2, EmptySeq DEF StreamFact
  <2>2. Tail(Stream) \in Seq(Line) /\ Tail(Stream) # <<>>
    BY <1>2, <1>4, <1>6 DEF StreamFact
  <2>3. Stream'[1] = Tail(Stream)[1] /\ Tail(Stream') = Tail(Tail(Stream))
    BY <1>2, <1>4, <1>6 DEF StreamFact
  <2> QED
    BY <2>1, <2>2, <2>3, HeadTailEqual
<1>9. /\ Len(Stream') = Len(Stream) - 1
      /\ \A i \in 1..(Len(Stream) - 1) : Stream'[i] = Stream[i + 1]
  <2>1. Stream \in Seq(Line) /\ Stream # <<>>
    BY <1>2, EmptySeq DEF StreamFact
  <2> QED
    BY <1>8, <2>1, HeadTailProperties
<1>10. "agent_done" \notin told'
  BY <1>6
<1>11. Lively(n - 1)'
  <2>1. Carries(Stream', n - 1, Len(seen'), gen', headed')
    <3>1. Carries(Tail(Stream), n - 1, IF IsText(Stream[1]) THEN Len(seen) + 1
                                       ELSE Len(seen), gen, headed)
      <4>1. Stream \in Seq(Line)
        BY <1>2 DEF StreamFact
      <4> QED
        BY <1>2, <1>3, <4>1, CarriesTail
    <3> QED
      BY <1>1, <1>4, <1>7, <1>8, <3>1
  <2>2. EndsOwn(Stream', n - 1)
    <3>1. \A i \in n..Len(Stream') : Stream'[i] \in OwnLine
      BY <1>2, <1>3, <1>9 DEF EndsOwn
    <3>2. n - 1 < Len(Stream') => Stream'[n] \in {Event(name) : name \in OwnNames}
      BY <1>2, <1>3, <1>9 DEF EndsOwn
    <3>3. (n - 1) + 1 = n
      BY <1>2
    <3> QED
      BY <3>1, <3>2, <3>3 DEF EndsOwn
  <2>3. Reading' => n - 1 = Len(Stream')
    BY <1>1, <1>2, <1>9 DEF Lively, Reading
  <2>4. frame' = "none" \/ (Reading' /\ pend' # NoName) => Stream'[n - 1] = Blank
    <3>1. Stream'[n - 1] = Stream[n]
      BY <1>2, <1>9
    <3> QED
      BY <1>1, <3>1 DEF Lively, Reading
  <2>5. headed' /\ usage' => "usage" \in told' \/ \E i \in 1..(n - 1) : IsUsage(Stream'[i])
    <3>1. SUFFICES ASSUME headed, usage, "usage" \notin told'
                   PROVE  \E i \in 1..(n - 1) : IsUsage(Stream'[i])
      BY <1>1
    <3>2. PICK i \in 1..n : IsUsage(Stream[i])
      BY <1>6, <3>1 DEF Lively
    <3>3. i # 1
      BY <1>4, <1>6, <3>1, <3>2
    <3>4. i - 1 \in 1..(n - 1) /\ Stream'[i - 1] = Stream[i]
      BY <1>2, <1>9, <3>3
    <3> QED
      BY <3>2, <3>4
  <2>6. failed' => "error" \in told' \/ \E i \in 1..(n - 1) : IsError(Stream'[i])
    <3>1. SUFFICES ASSUME failed, "error" \notin told'
                   PROVE  \E i \in 1..(n - 1) : IsError(Stream'[i])
      BY <1>1
    <3>0. headed
      BY <3>1 DEF ReaderStands, Typed
    <3>2. PICK i \in 1..n : IsError(Stream[i])
      BY <1>6, <3>1 DEF Lively
    <3>3. i # 1
      BY <1>4, <1>6, <3>0, <3>1, <3>2
    <3>4. i - 1 \in 1..(n - 1) /\ Stream'[i - 1] = Stream[i]
      BY <1>2, <1>9, <3>3
    <3> QED
      BY <3>2, <3>4
  <2>7. mode' = "workflow" /\ ~usage' =>
            /\ fEvent' # "message_end"
            /\ \A i \in 1..(n - 1) : Stream'[i] # Event("message_end")
    <3>1. SUFFICES ASSUME mode = "workflow", ~usage
                   PROVE  /\ fEvent' # "message_end"
                          /\ \A i \in 1..(n - 1) : Stream'[i] # Event("message_end")
      BY <1>1
    <3>2. fEvent # "message_end" /\ \A i \in 1..n : Stream[i] # Event("message_end")
      BY <3>1 DEF Lively
    <3>3. ASSUME NEW i \in 1..(n - 1)
          PROVE  i + 1 \in 1..n /\ Stream'[i] = Stream[i + 1]
      <4>1. i \in 1..(Len(Stream) - 1) /\ i + 1 \in 1..n
        BY <1>2
      <4> QED
        BY <1>9, <4>1
    <3>4. Coming[1] # Event("message_end")
      BY <1>2, <1>4, <3>2
    <3>5. fEvent' # "message_end"
      BY <1>6, <3>2, <3>4 DEF NoName
    <3> QED
      BY <3>2, <3>3, <3>5
  <2> QED
    BY <1>6, <2>1, <2>2, <2>3, <2>4, <2>5, <2>6, <2>7 DEF Lively
<1>12. StreamStands'
  <2>1. n - 1 \in 1..Len(Stream')
    BY <1>2, <1>9
  <2> QED
    BY <1>10, <1>11, <2>1 DEF StreamStands
<1>13. DoneStands'
  <2>1. ASSUME fEvent' = "agent_done"
               \/ \E i \in DOMAIN Coming' : Coming'[i] = Event("agent_done")
        PROVE  pc' \in {"ending", "closed"}
    <3>1. fEvent' # "agent_done"
      BY <1>6 DEF ParserStands, Names, NoName
    <3>2. PICK i \in DOMAIN Coming' : Coming'[i] = Event("agent_done")
      BY <2>1, <3>1
    <3>3. i + 1 \in DOMAIN Coming /\ Coming[i + 1] = Coming'[i]
      <4>1. Coming \in Seq(Line) /\ Coming # <<>> /\ Coming' \in Seq(Line)
        BY <1>2, <1>6 DEF StreamFact
      <4>2. /\ Len(Coming') = Len(Coming) - 1 /\ Len(Coming) \in Nat
            /\ \A j \in 1..(Len(Coming) - 1) : Coming'[j] = Coming[j + 1]
        BY <1>6, <4>1, HeadTailProperties, LenProperties
      <4> QED
        BY <1>2, <4>2 DEF StreamFact
    <3> QED
      BY <1>1, <3>2, <3>3 DEF DoneStands
  <2>2. mode' = "workflow" /\ "end" \in told' => usage'
    <3>1. SUFFICES ASSUME mode = "workflow", "end" \in told' PROVE usage
      BY <1>1
    <3>2. CASE fEvent = "message_end"
      BY <3>1, <3>2 DEF Lively
    <3>3. CASE fEvent # "message_end"
      BY <1>6, <3>1, <3>3 DEF DoneStands
    <3> QED
      BY <3>2, <3>3
  <2> QED
    BY <1>10, <2>1, <2>2 DEF DoneStands
<1> QED
  BY <1>7, <1>12, <1>13

LEMMA TailLines ==
    ASSUME Typed, Typed', Coming' = Tail(Coming), Coming # <<>>,
           NEW i \in DOMAIN Coming'
    PROVE  i + 1 \in DOMAIN Coming /\ Coming'[i] = Coming[i + 1]
<1>1. StreamFact /\ StreamFact'
  BY StreamFacts
<1>2. Coming \in Seq(Line)
  BY <1>1 DEF StreamFact
<1>3. /\ Len(Coming') = Len(Coming) - 1 /\ Len(Coming) \in Nat
      /\ \A j \in 1..(Len(Coming) - 1) : Coming'[j] = Coming[j + 1]
  BY <1>2, HeadTailProperties, LenProperties
<1> QED
  BY <1>1, <1>3 DEF StreamFact

\* The last regular line is behind the browser, a frame of the end comes.
LEMMA LivelyLeaves ==
    ASSUME Typed, Typed', SeenInOrder, ReaderStands, DoneStands, Receive,
           UNCHANGED <<genVars, readVars>>,
           "agent_done" \notin told, Lively(1)
    PROVE  StreamStands' /\ SeenInOrder' /\ DoneStands'
<1>1. /\ UNCHANGED <<pc, out, gen, usage, saved, failed, ended, headed, mode, frame, pend>>
      /\ link = "open" /\ wire # <<>> /\ wire' = Tail(wire)
  BY DEF genVars, readVars, chatVars, runVars, Receive
<1>2. /\ StreamFact /\ StreamFact' /\ Len(seen) \in Nat /\ gen \in Seq(Channel)
  <2>1. gen \in Seq(Channel) /\ seen \in Seq(Channel \X Nat)
    BY DEF Typed
  <2>2. Len(seen) \in Nat
    BY <2>1, LenProperties
  <2> QED
    BY <2>1, <2>2, StreamFacts
<1>3. ParserStands /\ Carries(Stream, 1, Len(seen), gen, headed) /\ EndsOwn(Stream, 1)
  BY DEF Lively
<1>4. /\ Coming # <<>> /\ Len(Coming) >= 1 /\ Head(wire) = Coming[1]
      /\ Coming' = Tail(Coming)
  BY <1>1, TakeStream
<1>5. Len(Stream) >= 2 /\ Stream[2] = Coming[1] /\ Stream[1] = Parsing
  BY <1>2, <1>4 DEF StreamFact
<1>6. PICK name \in OwnNames : Coming[1] = Event(name)
  <2>1. 1 < Len(Stream)
    BY <1>2, <1>5 DEF StreamFact
  <2> QED
    BY <1>3, <1>5, <2>1 DEF EndsOwn
<1>7. fEvent' = name /\ fData' = fData /\ seen' = seen /\ told' = told /\ link' = link
  BY <1>4, <1>6 DEF Receive, Event
<1>8. ~Reading /\ ~Reading'
  <2>1. ~Reading
    BY <1>2, <1>5 DEF Lively, StreamFact
  <2> QED
    BY <1>1, <2>1 DEF Reading
<1>9. /\ Len(gen) \in Len(seen)..(Len(seen) + 1)
      /\ ~IsText(Stream[1]) => Len(gen) = Len(seen)
  <2>1. Stream \in Seq(Line)
    BY <1>2 DEF StreamFact
  <2> QED
    BY <1>2, <1>3, <2>1, CarriesOne
<1>10. Complete'
  <2>1. Len(gen) <= Len(seen) + 1
    BY <1>2, <1>9
  <2>2. frame = "none" => ~IsText(Stream[1]) /\ ~IsUsage(Stream[1]) /\ ~IsError(Stream[1])
    BY DEF Lively, Blank, IsText, IsUsage, IsError
  <2>3. frame = "none" => /\ Len(seen) = Len(gen)
                          /\ headed /\ usage => "usage" \in told
    <3>1. headed /\ usage => "usage" \in told \/ IsUsage(Stream[1])
      BY DEF Lively
    <3> QED
      BY <1>9, <2>2, <3>1
  <2>4. failed => "error" \in told
    <3>1. failed => frame = "none"
      BY DEF ReaderStands, Typed
    <3>2. failed => "error" \in told \/ IsError(Stream[1])
      BY DEF Lively
    <3> QED
      BY <2>2, <3>1, <3>2
  <2> QED
    BY <1>1, <1>7, <2>1, <2>3, <2>4 DEF Complete
<1>11. ASSUME NEW i \in DOMAIN Coming' PROVE Coming'[i] \in OwnLine
  <2>1. i + 1 \in DOMAIN Coming /\ Coming'[i] = Coming[i + 1]
    BY <1>4, <1>11, TailLines
  <2>2. i + 1 \in 1..Len(Coming) /\ Coming[i + 1] = Stream[(i + 1) + 1]
        /\ (i + 1) + 1 \in 2..Len(Stream)
    BY <1>2, <2>1 DEF StreamFact
  <2> QED
    BY <1>3, <2>1, <2>2 DEF EndsOwn
<1>12. StreamStands'
  <2>1. Calm'
    BY <1>7, <1>8, <1>10, <1>11 DEF Calm
  <2> QED
    BY <2>1 DEF StreamStands
<1>13. SeenInOrder'
  BY <1>1, <1>7 DEF SeenInOrder
<1>14. DoneStands'
  <2>1. ASSUME fEvent' = "agent_done"
               \/ \E i \in DOMAIN Coming' : Coming'[i] = Event("agent_done")
        PROVE  pc' \in {"ending", "closed"}
    <3>1. CASE fEvent' = "agent_done"
      <4>1. 1 \in DOMAIN Coming /\ Coming[1] = Event("agent_done")
        BY <1>2, <1>4, <1>6, <1>7, <3>1 DEF StreamFact
      <4> QED
        BY <1>1, <4>1 DEF DoneStands
    <3>2. ASSUME NEW i \in DOMAIN Coming', Coming'[i] = Event("agent_done")
          PROVE  pc' \in {"ending", "closed"}
      <4>1. i + 1 \in DOMAIN Coming /\ Coming'[i] = Coming[i + 1]
        BY <1>4, <3>2, TailLines
      <4> QED
        BY <1>1, <3>2, <4>1 DEF DoneStands
    <3> QED
      BY <2>1, <3>1, <3>2
  <2>2. mode' = "workflow" /\ "end" \in told' => usage'
    BY <1>1, <1>7 DEF DoneStands
  <2> QED
    BY <1>7, <2>1, <2>2 DEF DoneStands
<1> QED
  BY <1>12, <1>13, <1>14

\* What the browser is told last, once it has come to the frames of the end.
LEMMA CalmDispatch ==
    ASSUME Typed, SaveStands, DoneStands, Calm, Dispatch, link = "open",
           UNCHANGED <<genVars, readVars>>
    PROVE  /\ fEvent' = NoName /\ fData' = <<>> /\ seen' = seen /\ Complete'
           /\ "agent_done" \in told' =>
                 pc' \in {"ending", "closed"} /\ saved' = Stored' /\ Complete'
           /\ mode' = "workflow" /\ "end" \in told' => usage'
<1>1. UNCHANGED <<pc, out, gen, usage, saved, failed, ended, headed, mode, frame, pend>>
  BY DEF genVars, readVars, chatVars, runVars
<1>2. /\ fEvent' = NoName /\ fData' = <<>> /\ seen' = seen
      /\ told \subseteq told' /\ told' \subseteq told \cup {"error", "agent_done"}
      /\ "agent_done" \in told' => "agent_done" \in told \/ fEvent = "agent_done"
  <2>1. fData \in Seq(Line)
    BY DEF Typed
  <2> QED
    BY <2>1, LastDispatch DEF Calm
<1>3. Complete'
  BY <1>1, <1>2 DEF Calm, Complete
<1>4. ASSUME "agent_done" \in told'
      PROVE  pc' \in {"ending", "closed"} /\ saved' = Stored'
  <2>1. pc \in {"ending", "closed"}
    BY <1>2, <1>4 DEF DoneStands
  <2>2. saved = Stored
    BY <2>1 DEF SaveStands
  <2>3. Stored' = Stored
    BY <1>1 DEF Stored
  <2> QED
    BY <1>1, <2>1, <2>2, <2>3
<1>5. mode' = "workflow" /\ "end" \in told' => usage'
  BY <1>1, <1>2 DEF DoneStands
<1> QED
  BY <1>2, <1>3, <1>4, <1>5

LEMMA CalmTakes ==
    ASSUME Typed, Typed', SeenInOrder, SaveStands, DoneStands, Receive,
           UNCHANGED <<genVars, readVars>>, Calm
    PROVE  StreamStands' /\ SeenInOrder' /\ DoneStands'
<1>1. /\ UNCHANGED <<pc, out, gen, usage, saved, failed, ended, headed, mode, frame, pend>>
      /\ link = "open" /\ link' = "open" /\ wire # <<>> /\ wire' = Tail(wire)
  BY DEF genVars, readVars, chatVars, runVars, Receive
<1>2. StreamFact /\ StreamFact' /\ fData \in Seq(Line)
  BY StreamFacts DEF Typed
<1>3. /\ Coming # <<>> /\ Len(Coming) >= 1 /\ Head(wire) = Coming[1]
      /\ Coming' = Tail(Coming)
  BY <1>1, TakeStream
<1>4. 1 \in DOMAIN Coming /\ Coming[1] \in OwnLine
  BY <1>2, <1>3 DEF StreamFact, Calm
<1>5. PICK y : y = Coming[1]
  OBVIOUS
<1>6. \A i \in DOMAIN Coming' : Coming'[i] \in OwnLine
  <2>1. ASSUME NEW i \in DOMAIN Coming' PROVE Coming'[i] \in OwnLine
    <3>1. i + 1 \in DOMAIN Coming /\ Coming'[i] = Coming[i + 1]
      BY <1>3, <2>1, TailLines
    <3> QED
      BY <3>1 DEF Calm
  <2> QED
    BY <2>1
<1>7. ~Reading' /\ Stored' = Stored
  BY <1>1 DEF Calm, Reading, Stored
<1>8. (\E i \in DOMAIN Coming' : Coming'[i] = Event("agent_done")) =>
          pc' \in {"ending", "closed"}
  <2>1. ASSUME NEW i \in DOMAIN Coming', Coming'[i] = Event("agent_done")
        PROVE  pc' \in {"ending", "closed"}
    <3>1. i + 1 \in DOMAIN Coming /\ Coming'[i] = Coming[i + 1]
      BY <1>3, <2>1, TailLines
    <3> QED
      BY <1>1, <2>1, <3>1 DEF DoneStands
  <2> QED
    BY <2>1
<1>9. CASE y.line = "blank"
  <2>1. Dispatch
    BY <1>3, <1>5, <1>9 DEF Receive
  <2>2. /\ fEvent' = NoName /\ fData' = <<>> /\ seen' = seen /\ Complete'
        /\ "agent_done" \in told' =>
              pc' \in {"ending", "closed"} /\ saved' = Stored' /\ Complete'
        /\ mode' = "workflow" /\ "end" \in told' => usage'
    BY <1>1, <2>1, CalmDispatch
  <2>3. \A i \in DOMAIN fData' : fData'[i].field \notin {"answer", "content"}
    BY <2>2
  <2>4. Calm'
    BY <1>6, <1>7, <2>2, <2>3 DEF Calm
  <2>5. StreamStands'
    BY <2>4 DEF StreamStands
  <2>6. SeenInOrder'
    BY <1>1, <2>2 DEF SeenInOrder
  <2>7. DoneStands'
    <3>1. fEvent' # "agent_done"
      BY <2>2 DEF NoName
    <3> QED
      BY <1>8, <2>2, <3>1 DEF DoneStands
  <2> QED
    BY <2>5, <2>6, <2>7
<1>10. ASSUME y.line \in {"event", "data"}, seen' = seen, told' = told,
              \/ y.line = "event" /\ fEvent' = y.name /\ fData' = fData
              \/ y.line = "data" /\ fEvent' = fEvent /\ fData' = Append(fData, y)
       PROVE  StreamStands' /\ SeenInOrder' /\ DoneStands'
  <2>1. Complete'
    BY <1>1, <1>10 DEF Calm, Complete
  <2>2. y.line = "event" => fEvent' \in OwnNames /\ (fEvent' = "agent_done" => y = Event("agent_done"))
    BY <1>4, <1>5, <1>10 DEF OwnLine, Event, Data, Blank
  <2>3. y.line = "data" => y \in Line /\ y.field \notin {"answer", "content"}
    <3>1. y \in Line
      BY <1>2, <1>4, <1>5, ElementOfSeq DEF StreamFact
    <3> QED
      BY <1>4, <1>5, <1>10, <3>1 DEF OwnLine, Event, Data, Blank
  <2>4. \/ fEvent' \in OwnNames
        \/ /\ fEvent' = NoName
           /\ \A i \in DOMAIN fData' : fData'[i].field \notin {"answer", "content"}
    <3>1. CASE y.line = "event"
      BY <2>2, <3>1
    <3>2. CASE y.line = "data" /\ fEvent \in OwnNames
      BY <1>10, <3>2
    <3>3. CASE /\ y.line = "data" /\ fEvent = NoName
               /\ \A i \in DOMAIN fData : fData[i].field \notin {"answer", "content"}
      <4>1. fEvent' = NoName /\ fData' = Append(fData, y)
        BY <1>10, <3>3
      <4>2. /\ DOMAIN fData' = 1..(Len(fData) + 1) /\ Len(fData) \in Nat
            /\ DOMAIN fData = 1..Len(fData)
            /\ fData'[Len(fData) + 1] = y
            /\ \A i \in 1..Len(fData) : fData'[i] = fData[i]
        BY <1>2, <2>3, <3>3, <4>1, AppendProperties, LenProperties
      <4>3. ASSUME NEW i \in DOMAIN fData'
            PROVE  fData'[i].field \notin {"answer", "content"}
        <5>1. CASE i = Len(fData) + 1
          BY <2>3, <3>3, <4>2, <5>1
        <5>2. CASE i \in DOMAIN fData
          BY <3>3, <4>2, <5>2
        <5> QED
          BY <4>2, <4>3, <5>1, <5>2
      <4> QED
        BY <4>1, <4>3
    <3> QED
      BY <1>10, <3>1, <3>2, <3>3 DEF Calm
  <2>5. Calm'
    BY <1>6, <1>7, <2>1, <2>4 DEF Calm
  <2>6. StreamStands' /\ SeenInOrder'
    BY <1>1, <1>10, <2>5 DEF StreamStands, SeenInOrder
  <2>7. fEvent' = "agent_done" => pc' \in {"ending", "closed"}
    <3>1. CASE y.line = "event"
      BY <1>1, <1>4, <1>5, <2>2, <3>1 DEF DoneStands
    <3>2. CASE y.line = "data"
      BY <1>1, <1>10, <3>2 DEF DoneStands
    <3> QED
      BY <1>10, <3>1, <3>2
  <2>8. DoneStands'
    BY <1>1, <1>7, <1>8, <1>10, <2>1, <2>7 DEF DoneStands
  <2> QED
    BY <2>6, <2>8
<1>11. \/ y.line = "blank"
       \/ /\ y.line \in {"event", "data"} /\ seen' = seen /\ told' = told
          /\ \/ y.line = "event" /\ fEvent' = y.name /\ fData' = fData
             \/ y.line = "data" /\ fEvent' = fEvent /\ fData' = Append(fData, y)
  BY <1>3, <1>5 DEF Receive
<1> QED
  BY <1>9, <1>10, <1>11

\* The response is read to its end.
LEMMA EndTakes ==
    ASSUME Typed, SeenInOrder, StreamStands, SaveStands, DoneStands, StreamEnd,
           UNCHANGED <<genVars, readVars>>
    PROVE  StreamStands' /\ SeenInOrder' /\ DoneStands'
<1>1. /\ UNCHANGED <<pc, out, gen, usage, saved, failed, ended, headed, mode, frame, pend>>
      /\ link = "open" /\ link' = "ended" /\ Dispatch
  BY DEF genVars, readVars, chatVars, runVars, StreamEnd
<1>2. StreamStands'
  BY <1>1 DEF StreamStands
<1>3. CASE Calm
  <2>1. /\ seen' = seen
        /\ "agent_done" \in told' =>
              pc' \in {"ending", "closed"} /\ saved' = Stored' /\ Complete'
        /\ mode' = "workflow" /\ "end" \in told' => usage'
    BY <1>1, <1>3, CalmDispatch
  <2>2. SeenInOrder'
    BY <1>1, <2>1 DEF SeenInOrder
  <2>3. DoneStands'
    BY <1>1, <2>1 DEF DoneStands
  <2> QED
    BY <1>2, <2>2, <2>3
<1>4. ASSUME "agent_done" \notin told, NEW n \in 1..Len(Stream), Lively(n)
      PROVE  SeenInOrder' /\ DoneStands'
  <2>1. ParserStands /\ fData \in Seq(Line)
    BY <1>4 DEF Lively, Typed
  <2>2. /\ seen' = IF IsText(Parsing)
                   THEN Append(seen, <<ChannelOf(Parsing), Parsing.piece>>)
                   ELSE seen
        /\ told' \subseteq told \cup {"end", "usage", "error"}
        /\ fEvent # "message_end" /\ "end" \in told' => "end" \in told
    BY <1>1, <2>1, RegularDispatch
  <2>3. SeenInOrder'
    BY <1>1, <1>4, <2>2, ShownIsNext
  <2>4. "agent_done" \notin told'
    BY <1>4, <2>2
  <2>5. mode' = "workflow" /\ "end" \in told' => usage'
    <3>1. SUFFICES ASSUME mode = "workflow", "end" \in told' PROVE usage
      BY <1>1
    <3>2. CASE fEvent = "message_end"
      BY <1>4, <3>1, <3>2 DEF Lively
    <3>3. CASE fEvent # "message_end"
      BY <2>2, <3>1, <3>3 DEF DoneStands
    <3> QED
      BY <3>2, <3>3
  <2>6. DoneStands'
    BY <1>1, <2>4, <2>5 DEF DoneStands
  <2> QED
    BY <2>3, <2>6
<1> QED
  BY <1>1, <1>2, <1>3, <1>4 DEF StreamStands

\* The browser's steps.
LEMMA BrowserStream ==
    ASSUME Typed, Typed', SeenInOrder, ReaderStands, SaveStands, DoneStands,
           StreamStands, ClientStep, UNCHANGED <<genVars, readVars>>
    PROVE  StreamStands' /\ SeenInOrder' /\ DoneStands'
<1>1. CASE Receive
  <2>1. CASE Calm
    BY <1>1, <2>1, CalmTakes
  <2>2. ASSUME "agent_done" \notin told, NEW n \in 1..Len(Stream), Lively(n)
        PROVE  StreamStands' /\ SeenInOrder' /\ DoneStands'
    <3>1. CASE n = 1
      <4>1. Lively(1)
        BY <2>2, <3>1
      <4> QED
        BY <1>1, <2>2, <4>1, LivelyLeaves
    <3>2. CASE n # 1
      <4>1. n \in 2..Len(Stream)
        <5>1. Len(Stream) \in Nat
          BY StreamFacts DEF StreamFact
        <5> QED
          BY <2>2, <3>2, <5>1
      <4> QED
        BY <1>1, <2>2, <4>1, LivelyTakes
    <3> QED
      BY <3>1, <3>2
  <2> QED
    BY <1>1, <2>1, <2>2 DEF StreamStands, Receive
<1>2. CASE StreamEnd
  BY <1>2, EndTakes
<1>3. CASE Stop
  <2>1. /\ UNCHANGED <<pc, out, gen, usage, saved, failed, ended, headed, mode, frame, seen, told>>
        /\ link' = "stopped"
    BY <1>3 DEF Stop, genVars, readVars, chatVars, runVars
  <2>2. StreamStands' /\ SeenInOrder'
    BY <2>1 DEF StreamStands, SeenInOrder
  <2>3. Complete => Complete'
    BY <2>1 DEF Complete
  <2>4. Stored' = Stored
    BY <2>1 DEF Stored
  <2> QED
    BY <2>1, <2>2, <2>3, <2>4 DEF DoneStands
<1> QED
  BY <1>1, <1>2, <1>3 DEF ClientStep

-------------------------------------------------------------------------------
(* The invariant.                                                          *)

LEMMA TurnInit == Init => TurnInv
<1> SUFFICES ASSUME Init PROVE TurnInv
  OBVIOUS
<1>1. /\ wire = <<>> /\ link = "open" /\ fEvent = NoName /\ fData = <<>>
      /\ seen = <<>> /\ told = {} /\ pc = "open" /\ out = <<>> /\ gen = <<>>
      /\ usage = FALSE /\ terminal = FALSE /\ saved = NotKept
      /\ mode \in {"chat", "workflow"} /\ headed \in BOOLEAN
      /\ frame = "none" /\ inData = FALSE /\ cur = NoName /\ pend = NoName
      /\ failed = FALSE /\ ended = FALSE /\ (mode = "workflow" => headed)
  BY DEF Init, Chat!Init, Workflow!Init, Chat!GenInit, Chat!ClientInit,
         Workflow!GenInit, Workflow!ClientInit, Chat!NoName, Workflow!NoName, NoName
<1>2. Len(<<>>) = 0
  BY EmptySeq
<1>3. Typed
  <2>1. /\ wire \in Seq(Line) /\ out \in Seq(Seq(Line)) /\ fData \in Seq(Line)
        /\ seen \in Seq(Channel \X Nat) /\ gen \in Seq(Channel)
        /\ Len(out) <= 3
    BY <1>1, <1>2
  <2>2. \A i \in DOMAIN fData : fData[i].line = "data"
    BY <1>1
  <2> QED
    BY <1>1, <2>1, <2>2 DEF Typed
<1>4. SeenInOrder
  <2>1. gen \in Seq(Channel) /\ Len(seen) = 0 /\ Len(gen) = 0
    BY <1>1, <1>2
  <2> QED
    BY <2>1 DEF SeenInOrder
<1>5. ReaderStands
  BY <1>1 DEF ReaderStands
<1>6. SaveStands
  BY <1>1 DEF SaveStands
<1>7. Parsing = Blank
  BY <1>1 DEF Parsing
<1>8. Coming = <<>> /\ Stream = <<Blank>>
  <2>1. \A i : Chunk(i) = <<>>
    BY <1>1 DEF Chunk
  <2>2. Blank \in Line /\ <<Blank>> \in Seq(Line) /\ <<>> \in Seq(Line)
    BY LinesAreLines
  <2>3. <<>> \o <<>> = <<>> /\ <<Blank>> \o <<>> = <<Blank>>
    BY <2>2, ConcatEmptySeq
  <2> QED
    BY <1>1, <1>7, <2>1, <2>3 DEF Coming, Stream
<1>9. DoneStands
  BY <1>1, <1>8 DEF DoneStands, NoName
<1>10. StreamStands
  <2>1. ParserStands
    BY <1>1 DEF ParserStands
  <2>2. Len(Stream) = 1 /\ Stream[1] = Blank
    BY <1>8
  <2>3. ~IsText(Blank) /\ ~IsUsage(Blank)
    BY DEF Blank, IsText, IsUsage
  <2>4. Carries(Stream, 1, Len(seen), gen, headed)
    BY <1>1, <1>2, <2>2, <2>3 DEF Carries
  <2>5. EndsOwn(Stream, 1)
    BY <2>2 DEF EndsOwn
  <2>6. Stream[1] # Event("message_end")
    BY <2>2 DEF Event, Blank
  <2>7. fEvent # "message_end"
    BY <1>1 DEF NoName
  <2>8. Lively(1)
    BY <1>1, <2>1, <2>2, <2>4, <2>5, <2>6, <2>7 DEF Lively
  <2> QED
    BY <1>1, <2>2, <2>8 DEF StreamStands
<1> QED
  BY <1>3, <1>4, <1>5, <1>6, <1>9, <1>10 DEF TurnInv

\* What was given to the handlers stays in order when nothing more is given.
LEMMA SeenKept ==
    ASSUME SeenInOrder, gen' \in Seq(Channel), Extends(gen', gen), seen' = seen
    PROVE  SeenInOrder'
<1>1. /\ gen \in Seq(Channel) /\ Len(seen) <= Len(gen)
      /\ \A i \in 1..Len(seen) : seen[i] = <<gen[i], i>>
  BY DEF SeenInOrder
<1>2. /\ Len(gen) \in Nat /\ Len(gen') \in Nat /\ Len(gen) <= Len(gen')
      /\ \A i \in 1..Len(gen) : gen'[i] = gen[i]
  BY <1>1, LenProperties DEF Extends
<1> QED
  BY <1>1, <1>2 DEF SeenInOrder

LEMMA SameExtends ==
    ASSUME NEW S, NEW s \in Seq(S) PROVE Extends(s, s)
  BY LenProperties DEF Extends

\* A step that both generators make.
LEMMA SharedStep ==
    ASSUME TurnInv, UNCHANGED readVars,
           \/ Shared
           \/ EndOfStream(Chat!Pending)
           \/ mode = "workflow" /\ EndOfStream(<<>>)
    PROVE  TurnInv'
<1>1. Typed /\ SeenInOrder /\ ReaderStands /\ SaveStands /\ DoneStands /\ StreamStands
  BY DEF TurnInv
<1>2. Typed'
  BY <1>1, SharedTyped
<1>3. ReaderStands' /\ SaveStands' /\ usage' = usage /\ gen' = gen /\ (Reading' => Reading)
  BY <1>1, SharedStands
<1>4. seen' = seen
  BY DEF Shared, Connect, Fail, EndOfStream, Close, Yield, LeaveTry, Disconnect, Save,
         SaveFails, AgentDone, Return, clientVars
<1>5. SeenInOrder'
  BY <1>1, <1>3, <1>4 DEF SeenInOrder
<1>6. CASE Shared
  <2>1. StreamStands'
    BY <1>1, <1>2, <1>3, <1>6, SharedStream
  <2>2. DoneStands'
    BY <1>1, <1>2, <1>3, <1>6, SharedDone
  <2> QED
    BY <1>2, <1>3, <1>5, <2>1, <2>2 DEF TurnInv
<1>7. CASE EndOfStream(Chat!Pending) \/ (mode = "workflow" /\ EndOfStream(<<>>))
  <2>1. mode = "workflow" => pend = NoName
    BY <1>1 DEF ReaderStands
  <2>2. StreamStands' /\ DoneStands'
    BY <1>1, <1>2, <1>3, <1>7, <2>1, EndStream
  <2> QED
    BY <1>2, <1>3, <1>5, <2>2 DEF TurnInv
<1> QED
  BY <1>6, <1>7

\* A line of a chat upstream.
LEMMA ChatLineStep ==
    ASSUME TurnInv, ChatLine,
           \/ \E k \in Chat!Kind : Chat!ReadEvent(k) \/ Chat!ReadData(k)
           \/ Chat!ReadBlank
    PROVE  TurnInv'
<1>1. Typed /\ SeenInOrder /\ ReaderStands /\ SaveStands /\ DoneStands /\ StreamStands
  BY DEF TurnInv
<1>2. Typed'
  BY <1>1, ChatLineTyped
<1>3. ReaderStands' /\ SaveStands' /\ Reading'
  BY <1>1, ChatLineStands
<1>4. StreamStands'
  BY <1>1, <1>2, ChatLineStream
<1>5. /\ seen' = seen /\ told' = told /\ mode' = mode /\ pc = "reading" /\ mode = "chat"
  BY DEF ChatLine, clientVars
<1>6. DoneStands'
  BY <1>1, <1>2, <1>3, <1>4, <1>5, ReadDone
<1>7. Extends(gen', gen)
  <2>1. ASSUME NEW k \in Chat!Kind, Chat!ReadEvent(k) PROVE Extends(gen', gen)
    <3>1. gen' = gen
      BY <2>1 DEF Chat!ReadEvent, Chat!genVars
    <3> QED
      BY <1>1, <3>1, SameExtends DEF Typed
  <2>2. ASSUME NEW k \in Chat!Kind, Chat!ReadData(k) PROVE Extends(gen', gen)
    BY <1>1, <2>2, ChatDataTyped
  <2>3. CASE Chat!ReadBlank
    <3>1. gen' = gen
      BY <1>1, <2>3, ChatBlank
    <3> QED
      BY <1>1, <3>1, SameExtends DEF Typed
  <2> QED
    BY <2>1, <2>2, <2>3
<1>8. SeenInOrder'
  <2>1. gen' \in Seq(Channel)
    BY <1>2 DEF Typed
  <2> QED
    BY <1>1, <1>5, <1>7, <2>1, SeenKept
<1> QED
  BY <1>2, <1>3, <1>4, <1>6, <1>8 DEF TurnInv

\* A line of a workflow upstream.
LEMMA RunLineStep ==
    ASSUME TurnInv, RunLine,
           \/ \E k \in Workflow!Kind : Workflow!ReadEvent(k) \/ Workflow!ReadData(k)
           \/ Workflow!ReadBlank
    PROVE  TurnInv'
<1>1. Typed /\ SeenInOrder /\ ReaderStands /\ SaveStands /\ DoneStands /\ StreamStands
  BY DEF TurnInv
<1>2. Typed'
  BY <1>1, RunLineTyped
<1>3. ReaderStands' /\ SaveStands' /\ Reading'
  BY <1>1, RunLineStands
<1>4. StreamStands' /\ (usage => usage')
  BY <1>1, <1>2, RunLineStream
<1>5. /\ seen' = seen /\ told' = told /\ mode' = mode /\ pc = "reading"
  BY DEF RunLine, clientVars
<1>6. DoneStands'
  BY <1>1, <1>2, <1>3, <1>4, <1>5, ReadDone
<1>7. Extends(gen', gen)
  <2>1. ASSUME (\E k \in Workflow!Kind : Workflow!ReadEvent(k)) \/ Workflow!ReadBlank
        PROVE  Extends(gen', gen)
    <3>1. gen' = gen
      BY <2>1 DEF Workflow!ReadEvent, Workflow!ReadBlank, Workflow!genVars
    <3> QED
      BY <1>1, <3>1, SameExtends DEF Typed
  <2>2. ASSUME NEW k \in Workflow!Kind, Workflow!ReadData(k) PROVE Extends(gen', gen)
    BY <1>1, <2>2, RunDataTyped
  <2> QED
    BY <2>1, <2>2
<1>8. SeenInOrder'
  <2>1. gen' \in Seq(Channel)
    BY <1>2 DEF Typed
  <2> QED
    BY <1>1, <1>5, <1>7, <2>1, SeenKept
<1> QED
  BY <1>2, <1>3, <1>4, <1>6, <1>8 DEF TurnInv

LEMMA TurnStep == TurnInv /\ [Next]_vars => TurnInv'
<1> SUFFICES ASSUME TurnInv, [Next]_vars PROVE TurnInv'
  OBVIOUS
<1>1. CASE mode = "chat" /\ Chat!Proxy /\ UNCHANGED <<mode, runVars>>
  BY <1>1, ChatSteps, SharedStep, ChatLineStep
<1>2. CASE mode = "workflow" /\ Workflow!Proxy /\ UNCHANGED <<mode, chatVars>>
  BY <1>2, RunSteps, SharedStep, RunLineStep
<1>3. CASE Browser
  <2>1. ClientStep /\ UNCHANGED <<genVars, readVars>>
    BY <1>3 DEF Browser
  <2>2. Typed /\ SeenInOrder /\ ReaderStands /\ SaveStands /\ DoneStands /\ StreamStands
    BY DEF TurnInv
  <2>3. Typed'
    BY <2>1, <2>2, BrowserTyped
  <2>4. ReaderStands' /\ SaveStands'
    BY <2>1, <2>2, BrowserStands
  <2>5. StreamStands' /\ SeenInOrder' /\ DoneStands'
    BY <2>1, <2>2, <2>3, BrowserStream
  <2> QED
    BY <2>3, <2>4, <2>5 DEF TurnInv
<1>4. CASE UNCHANGED vars
  <2>1. /\ UNCHANGED <<wire, eof, link, fEvent, fData, seen, told, pc, out, gen, usage>>
        /\ UNCHANGED <<terminal, saved, held, mode, cur, headed, frame, inData, pend>>
        /\ UNCHANGED <<failed, ended>>
    BY <1>4 DEF vars, clientVars, genVars, readVars, chatVars, runVars
  <2>2. Coming' = Coming /\ Stream' = Stream /\ Stored' = Stored
    BY <2>1 DEF Coming, Stream, Parsing, Chunk, Stored
  <2>3. (Complete => Complete') /\ (Calm => Calm') /\ \A n : Lively(n) => Lively(n)'
    BY <2>1, <2>2 DEF Complete, Calm, Lively, ParserStands, Reading
  <2>4. Typed' /\ SeenInOrder' /\ ReaderStands' /\ SaveStands'
    BY <2>1, <2>2 DEF TurnInv, Typed, SeenInOrder, ReaderStands, SaveStands, Reading
  <2>5. DoneStands'
    BY <2>1, <2>2, <2>3 DEF TurnInv, DoneStands
  <2>6. StreamStands'
    BY <2>1, <2>2, <2>3 DEF TurnInv, StreamStands
  <2> QED
    BY <2>4, <2>5, <2>6 DEF TurnInv
<1> QED
  BY <1>1, <1>2, <1>3, <1>4 DEF Next, Generator

\* The stream in flight carries the rest of the turn, in order, and the
\* generator is where its end and its save have got to.
THEOREM TurnInvariance == Spec => []TurnInv
  BY TurnInit, TurnStep, PTL DEF Spec

\* What the browser is shown is the accumulated text, in order, each piece
\* once and in its panel (SeenInOrder).
THEOREM ShownInOrder == Spec => []SeenInOrder
<1>1. TurnInv => SeenInOrder
  BY DEF TurnInv
<1> QED
  BY <1>1, TurnInvariance, PTL

\* The mirror that is kept holds every piece the browser was or will be shown
\* of an answer, and the reasoning before it (MirrorHoldsShown).
THEOREM KeptHoldsShown == Spec => []MirrorHoldsShown
<1>1. TurnInv => MirrorHoldsShown
  <2> SUFFICES ASSUME TurnInv, saved # NotKept,
                      \E i \in 1..Len(seen) : seen[i][1] = "answer",
                      NEW i \in 1..Len(seen)
               PROVE  seen[i][2] <= Len(saved) /\ saved[seen[i][2]] = seen[i][1]
    BY DEF MirrorHoldsShown
  <2>1. /\ gen \in Seq(Channel) /\ Len(seen) <= Len(gen) /\ Len(gen) \in Nat
        /\ \A j \in 1..Len(seen) : seen[j] = <<gen[j], j>>
    BY LenProperties DEF TurnInv, SeenInOrder
  <2>0. seen \in Seq(Channel \X Nat) /\ Len(seen) \in Nat
    BY LenProperties DEF TurnInv, Typed
  <2>2. PICK j \in 1..Len(seen) : seen[j][1] = "answer"
    OBVIOUS
  <2>3. j \in DOMAIN gen /\ gen[j] = "answer"
    <3>1. DOMAIN gen = 1..Len(gen)
      BY <2>1, LenProperties
    <3>2. j \in 1..Len(gen)
      BY <2>0, <2>1, <2>2
    <3> QED
      BY <2>1, <2>2, <3>1, <3>2
  <2>4. saved = gen
    BY <2>3 DEF TurnInv, SaveStands, Stored
  <2> QED
    BY <2>0, <2>1, <2>4
<1> QED
  BY <1>1, TurnInvariance, PTL

\* Told that the turn is over, the browser has been shown all of it and told
\* its usage, when the upstream ended between two frames (WholeMeansTold).
THEOREM ToldMeansWhole == Spec => []WholeMeansTold
<1>1. TurnInv => WholeMeansTold
  BY DEF TurnInv, DoneStands, Complete, WholeMeansTold, DoneMeansShown, UsageReported
<1> QED
  BY <1>1, TurnInvariance, PTL

\* Of a workflow run, an end or a usage comes from an upstream that reported
\* one, and a failure of it is told to a browser that stays (FailureIsNoEnd).
THEOREM FailedRunIsNoEnd == Spec => []FailureIsNoEnd
<1>1. TurnInv => FailureIsNoEnd
  <2> SUFFICES ASSUME TurnInv, mode = "workflow"
               PROVE  /\ "end" \in told \/ usage => ended
                      /\ failed /\ "agent_done" \in told => "error" \in told
    BY DEF FailureIsNoEnd
  <2>1. usage => ended
    BY DEF TurnInv, ReaderStands
  <2>2. "end" \in told => usage
    BY DEF TurnInv, DoneStands
  <2>3. failed /\ "agent_done" \in told => "error" \in told
    BY DEF TurnInv, DoneStands, Complete
  <2> QED
    BY <2>1, <2>2, <2>3
<1> QED
  BY <1>1, TurnInvariance, PTL

-------------------------------------------------------------------------------
(* Both generators implement TurnStream.                                   *)

Slack == IF mode = "chat" THEN 1 ELSE 0
Made  == Answers(gen)
Shown == Cardinality({i \in DOMAIN seen : seen[i][1] = "answer"})
Kept  == IF saved = NotKept THEN NotKept ELSE Answers(saved)
Over  == "agent_done" \in told

\* The places of the answer among the first n pieces.
Upto(g, n) == {i \in 1..n : g[i] = "answer"}

LEMMA UptoFinite ==
    ASSUME NEW g, NEW n \in Nat
    PROVE  IsFiniteSet(Upto(g, n)) /\ Cardinality(Upto(g, n)) \in Nat
<1>1. IsFiniteSet(1..n)
  BY FS_Interval
<1>2. Upto(g, n) \subseteq 1..n
  BY DEF Upto
<1>3. IsFiniteSet(Upto(g, n))
  BY <1>1, <1>2, FS_Subset
<1> QED
  BY <1>3, FS_CardinalityType

LEMMA UptoNext ==
    ASSUME NEW g, NEW n \in Nat
    PROVE  Cardinality(Upto(g, n + 1)) =
               Cardinality(Upto(g, n)) + (IF g[n + 1] = "answer" THEN 1 ELSE 0)
<1>1. IsFiniteSet(Upto(g, n)) /\ Cardinality(Upto(g, n)) \in Nat
  BY UptoFinite
<1>2. n + 1 \notin Upto(g, n)
  BY DEF Upto
<1>3. CASE g[n + 1] = "answer"
  <2>1. Upto(g, n + 1) = Upto(g, n) \cup {n + 1}
    BY <1>3 DEF Upto
  <2> QED
    BY <1>1, <1>2, <1>3, <2>1, FS_AddElement
<1>4. CASE g[n + 1] # "answer"
  <2>1. Upto(g, n + 1) = Upto(g, n)
    BY <1>4 DEF Upto
  <2> QED
    BY <1>1, <1>4, <2>1
<1> QED
  BY <1>3, <1>4

LEMMA UptoGrows ==
    ASSUME NEW g, NEW n \in Nat, NEW m \in Nat, n <= m
    PROVE  Cardinality(Upto(g, n)) <= Cardinality(Upto(g, m))
<1>1. IsFiniteSet(Upto(g, m))
  BY UptoFinite
<1>2. Upto(g, n) \subseteq Upto(g, m)
  BY DEF Upto
<1> QED
  BY <1>1, <1>2, FS_Subset

LEMMA AnswersUpto ==
    ASSUME NEW s \in Seq(Channel)
    PROVE  Answers(s) = Cardinality(Upto(s, Len(s))) /\ Answers(s) \in Nat
<1>1. Len(s) \in Nat /\ DOMAIN s = 1..Len(s)
  BY LenProperties
<1>2. {i \in DOMAIN s : s[i] = "answer"} = Upto(s, Len(s))
  BY <1>1 DEF Upto
<1> QED
  BY <1>1, <1>2, UptoFinite DEF Answers

\* A piece more is at most one more of the answer.
LEMMA AnswersAppend ==
    ASSUME NEW s \in Seq(Channel), NEW c \in Channel
    PROVE  Answers(Append(s, c)) = Answers(s) + (IF c = "answer" THEN 1 ELSE 0)
<1>1. Len(s) \in Nat
  BY LenProperties
<1> DEFINE t == Append(s, c)
<1>2. /\ t \in Seq(Channel) /\ Len(t) = Len(s) + 1 /\ t[Len(s) + 1] = c
      /\ \A i \in 1..Len(s) : t[i] = s[i]
  BY AppendProperties
<1> HIDE DEF t
<1>3. Upto(t, Len(s)) = Upto(s, Len(s))
  BY <1>2 DEF Upto
<1>4. Cardinality(Upto(t, Len(s) + 1)) =
          Cardinality(Upto(t, Len(s))) + (IF c = "answer" THEN 1 ELSE 0)
  BY <1>1, <1>2, UptoNext
<1>5. Answers(t) = Cardinality(Upto(t, Len(s) + 1))
  BY <1>2, AnswersUpto
<1>6. Answers(s) = Cardinality(Upto(s, Len(s)))
  BY AnswersUpto
<1>7. Answers(t) = Answers(s) + (IF c = "answer" THEN 1 ELSE 0)
  BY <1>3, <1>4, <1>5, <1>6
<1> QED
  BY <1>7 DEF t

\* What was shown of the answer is its part among the first pieces.
Counts ==
    /\ Shown = Cardinality(Upto(gen, Len(seen))) /\ Made = Cardinality(Upto(gen, Len(gen)))
    /\ Shown \in Nat /\ Made \in Nat /\ Len(seen) \in Nat /\ Len(gen) \in Nat

LEMMA CountsHold == (TurnInv => Counts) /\ (TurnInv' => Counts')
<1>1. TurnInv => Counts
  <2> SUFFICES ASSUME TurnInv PROVE Counts
    OBVIOUS
  <2>1. gen \in Seq(Channel) /\ seen \in Seq(Channel \X Nat)
    BY DEF TurnInv, Typed
  <2>2. Len(seen) \in Nat /\ Len(gen) \in Nat /\ DOMAIN seen = 1..Len(seen)
    BY <2>1, LenProperties
  <2>3. \A i \in 1..Len(seen) : seen[i] = <<gen[i], i>>
    BY DEF TurnInv, SeenInOrder
  <2>4. {i \in DOMAIN seen : seen[i][1] = "answer"} = Upto(gen, Len(seen))
    BY <2>2, <2>3 DEF Upto
  <2> QED
    BY <2>1, <2>2, <2>4, UptoFinite, AnswersUpto DEF Counts, Shown, Made
<1> QED
  BY <1>1, PTL

\* The steps of TurnStream, in the terms of a turn.
LEMMA TurnStreamSteps ==
    /\ UNCHANGED <<Slack, Made, Shown, Kept, Over>> => UNCHANGED Turn!vars
    /\ (/\ Kept = NotKept /\ Made' = Made + 1
        /\ UNCHANGED <<Slack, Shown, Kept, Over>>) => Turn!Next
    /\ (/\ ~Over /\ Shown < Made /\ Shown' = Shown + 1
        /\ UNCHANGED <<Slack, Made, Kept, Over>>) => Turn!Next
    /\ (/\ Kept = NotKept /\ Kept' = Made
        /\ UNCHANGED <<Slack, Made, Shown, Over>>) => Turn!Next
    /\ (/\ Kept # NotKept /\ ~Over /\ Made - Shown <= Slack /\ Over' = TRUE
        /\ UNCHANGED <<Slack, Made, Shown, Kept>>) => Turn!Next
<1>1. UNCHANGED <<Slack, Made, Shown, Kept, Over>> => UNCHANGED Turn!vars
  BY DEF Turn!vars, Slack, Made, Shown, Kept, Over
<1>2. (/\ Kept = NotKept /\ Made' = Made + 1
       /\ UNCHANGED <<Slack, Shown, Kept, Over>>) => Turn!Make
  BY DEF Turn!Make, Slack, Made, Shown, Kept, Over
<1>3. (/\ ~Over /\ Shown < Made /\ Shown' = Shown + 1
       /\ UNCHANGED <<Slack, Made, Kept, Over>>) => Turn!Show
  BY DEF Turn!Show, Slack, Made, Shown, Kept, Over
<1>4. (/\ Kept = NotKept /\ Kept' = Made
       /\ UNCHANGED <<Slack, Made, Shown, Over>>) => Turn!Keep
  BY DEF Turn!Keep, Slack, Made, Shown, Kept, Over
<1>5. (/\ Kept # NotKept /\ ~Over /\ Made - Shown <= Slack /\ Over' = TRUE
       /\ UNCHANGED <<Slack, Made, Shown, Kept>>) => Turn!Tell
  BY DEF Turn!Tell, Slack, Made, Shown, Kept, Over
<1> QED
  BY <1>1, <1>2, <1>3, <1>4, <1>5 DEF Turn!Next

\* Reading adds at most one piece of the answer.
LEMMA ReadRefines ==
    ASSUME Typed, SaveStands, pc = "reading", UNCHANGED <<mode, seen, told, saved>>,
           \/ gen' = gen \/ gen' = Append(gen, "answer") \/ gen' = Append(gen, "reasoning")
           \/ gen' = Append(Append(gen, "reasoning"), "answer")
    PROVE  Turn!Next \/ UNCHANGED Turn!vars
<1>1. gen \in Seq(Channel) /\ "answer" \in Channel /\ "reasoning" \in Channel
  BY DEF Typed, Channel
<1>2. Append(gen, "reasoning") \in Seq(Channel)
  BY <1>1, AppendProperties
<1>3. Answers(gen) \in Nat
  BY <1>1, AnswersUpto
<1>4. /\ Answers(Append(gen, "answer")) = Answers(gen) + 1
      /\ Answers(Append(gen, "reasoning")) = Answers(gen)
      /\ Answers(Append(Append(gen, "reasoning"), "answer")) = Answers(gen) + 1
  <2>1. Answers(Append(gen, "answer")) = Answers(gen) + 1
    BY <1>1, AnswersAppend
  <2>2. Answers(Append(gen, "reasoning")) = Answers(gen)
    BY <1>1, <1>3, AnswersAppend
  <2>3. Answers(Append(Append(gen, "reasoning"), "answer")) =
            Answers(Append(gen, "reasoning")) + 1
    BY <1>1, <1>2, AnswersAppend
  <2> QED
    BY <2>1, <2>2, <2>3
<1>5. Made' = Made \/ Made' = Made + 1
  BY <1>4 DEF Made
<1>6. Kept = NotKept
  BY DEF SaveStands, Kept
<1>7. UNCHANGED <<Slack, Shown, Kept, Over>>
  BY DEF Slack, Shown, Kept, Over
<1> QED
  BY <1>5, <1>6, <1>7, TurnStreamSteps

\* The save keeps what has been made.
LEMMA SaveRefines ==
    ASSUME Typed, SaveStands, Save, UNCHANGED <<mode, seen, told, gen>>
    PROVE  Turn!Next
<1>1. saved = NotKept /\ saved' = Stored
  BY DEF SaveStands, Save, Stored
<1>2. gen \in Seq(Channel) /\ <<>> \in Seq(Channel)
  BY DEF Typed
<1>3. Stored \in Seq(Channel)
  BY <1>2 DEF Stored
<1>4. Stored # NotKept
  BY <1>3, NotKeptAssumption DEF Channel
<1>5. Answers(Stored) = Answers(gen)
  <2>1. CASE \E i \in DOMAIN gen : gen[i] = "answer"
    BY <2>1 DEF Stored
  <2>2. CASE ~ \E i \in DOMAIN gen : gen[i] = "answer"
    <3>1. Stored = <<>>
      BY <2>2 DEF Stored
    <3>2. {i \in DOMAIN gen : gen[i] = "answer"} = {}
      BY <2>2
    <3>3. {i \in DOMAIN Stored : Stored[i] = "answer"} = {}
      BY <3>1
    <3> QED
      BY <3>2, <3>3 DEF Answers
  <2> QED
    BY <2>1, <2>2
<1>6. Kept = NotKept /\ Kept' = Made
  BY <1>1, <1>4, <1>5 DEF Kept, Made
<1>7. UNCHANGED <<Slack, Made, Shown, Over>>
  BY DEF Slack, Made, Shown, Over
<1> QED
  BY <1>6, <1>7, TurnStreamSteps

LEMMA GeneratorRefines ==
    ASSUME TurnInv, Generator
    PROVE  Turn!Next \/ UNCHANGED Turn!vars
<1>1. Typed /\ ReaderStands /\ SaveStands
  BY DEF TurnInv
<1>2. ASSUME UNCHANGED <<mode, seen, told, gen, saved>>
      PROVE  UNCHANGED Turn!vars
  <2>1. UNCHANGED <<Slack, Made, Shown, Kept, Over>>
    BY <1>2 DEF Slack, Made, Shown, Kept, Over
  <2> QED
    BY <2>1, TurnStreamSteps
<1>3. ASSUME Shared \/ EndOfStream(Chat!Pending) \/ EndOfStream(<<>>), UNCHANGED readVars
      PROVE  Turn!Next \/ UNCHANGED Turn!vars
  <2>1. UNCHANGED <<mode, seen, told, gen>>
    BY <1>3 DEF readVars, Shared, Connect, Fail, EndOfStream, Close, Yield, LeaveTry,
           Disconnect, Save, SaveFails, AgentDone, Return, clientVars
  <2>2. Save \/ saved' = saved
    BY <1>3 DEF Shared, Connect, Fail, EndOfStream, Close, Yield, LeaveTry,
           Disconnect, SaveFails, AgentDone, Return
  <2> QED
    BY <1>1, <1>2, <2>1, <2>2, SaveRefines
<1>4. ASSUME ChatLine,
             \/ \E k \in Chat!Kind : Chat!ReadEvent(k) \/ Chat!ReadData(k)
             \/ Chat!ReadBlank
      PROVE  Turn!Next \/ UNCHANGED Turn!vars
  <2>1. pc = "reading" /\ UNCHANGED <<mode, seen, told, saved>>
    BY <1>4 DEF ChatLine, clientVars
  <2>2. ASSUME NEW k \in Chat!Kind, Chat!ReadData(k)
        PROVE  \/ gen' = gen \/ gen' = Append(gen, "answer")
               \/ gen' = Append(gen, "reasoning")
               \/ gen' = Append(Append(gen, "reasoning"), "answer")
    <3>1. gen' = gen \o Chat!Pieces(Chat!EventOf(k), k)
      BY <1>1, <1>4, <2>2, ChatData
    <3>2. PICK r, e, d : /\ r = Sse("reasoning", "content", Len(gen) + 1)
                         /\ e = Event(pend)
                         /\ d = Data(Chat!FieldOf(k),
                                     Len(gen) + (IF k = "thoughtful" THEN 2 ELSE 1))
      OBVIOUS
    <3>3. LET g == gen \o Chat!Pieces(Chat!EventOf(k), k)
          IN  /\ k = "agent_thought" => g = Append(gen, "reasoning")
              /\ k = "thoughtful" => g = Append(Append(gen, "reasoning"), "answer")
              /\ k = "message" => g = Append(gen, "answer")
              /\ k \in {"message_end", "error", "ping"} => g = gen
      BY <1>1, <2>2, <3>2, ChatRelay
    <3> QED
      BY <2>2, <3>1, <3>3 DEF Chat!Kind
  <2>3. ASSUME (\E k \in Chat!Kind : Chat!ReadEvent(k)) \/ Chat!ReadBlank
        PROVE  gen' = gen
    BY <2>3 DEF Chat!ReadEvent, Chat!ReadBlank, Chat!genVars
  <2> QED
    BY <1>1, <1>4, <2>1, <2>2, <2>3, ReadRefines
<1>5. ASSUME RunLine,
             \/ \E k \in Workflow!Kind : Workflow!ReadEvent(k) \/ Workflow!ReadData(k)
             \/ Workflow!ReadBlank
      PROVE  Turn!Next \/ UNCHANGED Turn!vars
  <2>1. pc = "reading" /\ UNCHANGED <<mode, seen, told, saved>>
    BY <1>5 DEF RunLine, clientVars
  <2>2. ASSUME NEW k \in Workflow!Kind, Workflow!ReadData(k)
        PROVE  gen' = gen \/ gen' = Append(gen, "answer")
    BY <1>1, <1>5, <2>2, RunData
  <2>3. ASSUME (\E k \in Workflow!Kind : Workflow!ReadEvent(k)) \/ Workflow!ReadBlank
        PROVE  gen' = gen
    BY <2>3 DEF Workflow!ReadEvent, Workflow!ReadBlank, Workflow!genVars
  <2> QED
    BY <1>1, <1>5, <2>1, <2>2, <2>3, ReadRefines
<1>6. CASE mode = "chat" /\ Chat!Proxy /\ UNCHANGED <<mode, runVars>>
  BY <1>3, <1>4, <1>6, ChatSteps
<1>7. CASE mode = "workflow" /\ Workflow!Proxy /\ UNCHANGED <<mode, chatVars>>
  BY <1>3, <1>5, <1>7, RunSteps
<1> QED
  BY <1>6, <1>7 DEF Generator

\* What a frame is dispatched to: one more piece, or the word that it is over.
LEMMA DispatchRefines ==
    ASSUME TurnInv, TurnInv', Dispatch, link = "open", UNCHANGED <<genVars, readVars>>
    PROVE  Turn!Next \/ UNCHANGED Turn!vars
<1>1. Typed /\ SeenInOrder /\ ReaderStands /\ SaveStands /\ DoneStands /\ StreamStands
  BY DEF TurnInv
<1>2. /\ UNCHANGED <<pc, out, gen, usage, saved, failed, ended, headed, mode, frame, pend>>
  BY DEF genVars, readVars, chatVars, runVars
<1>3. Counts /\ Counts'
  BY CountsHold
<1>4. UNCHANGED <<Slack, Made, Kept>>
  BY <1>2 DEF Slack, Made, Kept
<1>5. CASE Calm
  <2>1. /\ seen' = seen /\ Complete'
        /\ "agent_done" \in told' =>
              pc' \in {"ending", "closed"} /\ saved' = Stored' /\ Complete'
    BY <1>1, <1>5, CalmDispatch
  <2>2. fData \in Seq(Line)
    BY <1>1 DEF Typed
  <2>3. told \subseteq told'
    BY <1>5, <2>2, LastDispatch DEF Calm
  <2>4. Shown' = Shown
    BY <2>1 DEF Shown
  <2>5. CASE Over \/ ~Over'
    <3>1. Over' = Over
      BY <2>3, <2>5 DEF Over
    <3> QED
      BY <1>4, <2>4, <3>1, TurnStreamSteps
  <2>6. CASE ~Over /\ Over'
    <3>1. saved = Stored /\ Complete
      <4>1. "agent_done" \in told'
        BY <2>6 DEF Over
      <4>2. Stored' = Stored
        BY <1>2 DEF Stored
      <4> QED
        BY <1>2, <1>5, <2>1, <4>1, <4>2 DEF Calm
    <3>2. saved \in Seq(Channel)
      <4>1. gen \in Seq(Channel) /\ <<>> \in Seq(Channel)
        BY <1>1 DEF Typed
      <4> QED
        BY <3>1, <4>1 DEF Stored
    <3>3. Kept # NotKept
      <4>1. Answers(saved) \in Nat
        BY <3>2, AnswersUpto
      <4>2. saved # NotKept
        BY <3>2, NotKeptAssumption DEF Channel
      <4> QED
        BY <4>1, <4>2, NotKeptAssumption DEF Kept
    <3>4. Made - Shown <= Slack
      <4>1. CASE Len(gen) = Len(seen)
        <5>1. Made = Shown
          BY <1>3, <4>1 DEF Counts
        <5> QED
          BY <1>3, <5>1 DEF Counts, Slack
      <4>2. CASE Len(gen) # Len(seen)
        <5>1. mode = "chat"
          BY <1>1, <3>1, <4>2 DEF ReaderStands, Complete, Typed
        <5>2. Len(gen) = Len(seen) + 1
          <6>1. Len(seen) <= Len(gen) /\ Len(gen) <= Len(seen) + 1
            BY <1>1, <3>1 DEF SeenInOrder, Complete
          <6> QED
            BY <1>3, <4>2, <6>1 DEF Counts
        <5>3. Made <= Shown + 1
          <6>1. Len(seen) \in Nat
            BY <1>3 DEF Counts
          <6>2. Cardinality(Upto(gen, Len(seen) + 1)) =
                    Cardinality(Upto(gen, Len(seen)))
                    + (IF gen[Len(seen) + 1] = "answer" THEN 1 ELSE 0)
            BY <6>1, UptoNext
          <6> QED
            BY <1>3, <5>2, <6>2 DEF Counts
        <5> QED
          BY <1>3, <5>1, <5>3 DEF Counts, Slack
      <4> QED
        BY <4>1, <4>2
    <3>5. Over' = TRUE
      BY <2>6 DEF Over
    <3> QED
      BY <1>4, <2>4, <2>6, <3>3, <3>4, <3>5, TurnStreamSteps
  <2> QED
    BY <2>5, <2>6
<1>6. ASSUME "agent_done" \notin told, NEW n \in 1..Len(Stream), Lively(n)
      PROVE  Turn!Next \/ UNCHANGED Turn!vars
  <2>1. ParserStands /\ fData \in Seq(Line)
    BY <1>1, <1>6 DEF Lively, Typed
  <2>2. /\ seen' = IF IsText(Parsing)
                   THEN Append(seen, <<ChannelOf(Parsing), Parsing.piece>>)
                   ELSE seen
        /\ told' \subseteq told \cup {"end", "usage", "error"}
    BY <2>1, RegularDispatch
  <2>3. ~Over /\ ~Over' /\ Over' = Over
    BY <1>6, <2>2 DEF Over
  <2>4. Len(seen') = IF IsText(Parsing) THEN Len(seen) + 1 ELSE Len(seen)
    BY <1>1, <1>2, <1>6, <2>2, ShownIsNext
  <2>5. Shown' = Shown \/ (Shown' = Shown + 1 /\ Shown < Made)
    <3>1. Shown' = Cardinality(Upto(gen, Len(seen'))) /\ Shown' \in Nat
      BY <1>2, <1>3 DEF Counts
    <3>2. CASE Len(seen') = Len(seen)
      BY <1>3, <3>1, <3>2 DEF Counts
    <3>3. CASE Len(seen') = Len(seen) + 1
      <4>1. Shown' = Shown + (IF gen[Len(seen) + 1] = "answer" THEN 1 ELSE 0)
        <5>1. Len(seen) \in Nat
          BY <1>3 DEF Counts
        <5> QED
          BY <1>3, <3>1, <3>3, <5>1, UptoNext DEF Counts
      <4>2. Shown' <= Made
        <5>1. Len(seen') <= Len(gen) /\ Len(seen') \in Nat /\ Len(gen) \in Nat
          <6>1. SeenInOrder'
            BY DEF TurnInv
          <6> QED
            BY <1>2, <1>3, <6>1 DEF SeenInOrder, Counts
        <5>2. PICK m : m = Len(seen')
          OBVIOUS
        <5>3. Cardinality(Upto(gen, m)) <= Cardinality(Upto(gen, Len(gen)))
          BY <5>1, <5>2, UptoGrows
        <5> QED
          BY <1>3, <3>1, <5>2, <5>3 DEF Counts
      <4> QED
        BY <1>3, <3>1, <4>1, <4>2 DEF Counts
    <3> QED
      BY <2>4, <3>2, <3>3
  <2> QED
    BY <1>4, <2>3, <2>5, TurnStreamSteps
<1> QED
  BY <1>1, <1>5, <1>6 DEF StreamStands

LEMMA BrowserRefines ==
    ASSUME TurnInv, TurnInv', ClientStep, UNCHANGED <<genVars, readVars>>
    PROVE  Turn!Next \/ UNCHANGED Turn!vars
<1>1. ASSUME UNCHANGED <<seen, told>> PROVE UNCHANGED Turn!vars
  <2>1. UNCHANGED <<mode, gen, saved>>
    BY DEF genVars, readVars
  <2>2. UNCHANGED <<Slack, Made, Shown, Kept, Over>>
    BY <1>1, <2>1 DEF Slack, Made, Shown, Kept, Over
  <2> QED
    BY <2>2, TurnStreamSteps
<1>2. link = "open" /\ (Dispatch \/ UNCHANGED <<seen, told>>)
  BY DEF ClientStep, Receive, StreamEnd, Stop
<1> QED
  BY <1>1, <1>2, DispatchRefines

\* Both generators, and the browser that reads them, implement TurnStream: the
\* answer is made and shown piece by piece, kept once, whole, and only then
\* declared done; a torn frame loses a relayed answer at most one piece, a
\* translated one none (TurnRefined).
THEOREM TurnImplementsStream == Spec => TurnRefined
<1>1. Init => Turn!Init
  <2> SUFFICES ASSUME Init PROVE Turn!Init
    OBVIOUS
  <2>1. gen = <<>> /\ seen = <<>> /\ told = {} /\ saved = NotKept
    BY DEF Init, Chat!Init, Chat!GenInit, Chat!ClientInit
  <2>2. Answers(gen) = 0
    <3>1. {i \in DOMAIN gen : gen[i] = "answer"} = {}
      BY <2>1
    <3> QED
      BY <3>1, FS_EmptySet DEF Answers
  <2>3. Cardinality({i \in DOMAIN seen : seen[i][1] = "answer"}) = 0
    <3>1. {i \in DOMAIN seen : seen[i][1] = "answer"} = {}
      BY <2>1
    <3> QED
      BY <3>1, FS_EmptySet
  <2> QED
    BY <2>1, <2>2, <2>3 DEF Turn!Init
<1>2. TurnInv /\ TurnInv' /\ [Next]_vars => [Turn!Next]_(Turn!vars)
  <2> SUFFICES ASSUME TurnInv, TurnInv', [Next]_vars
               PROVE  Turn!Next \/ UNCHANGED Turn!vars
    OBVIOUS
  <2>1. CASE Generator
    BY <2>1, GeneratorRefines
  <2>2. CASE Browser
    BY <2>2, BrowserRefines DEF Browser
  <2>3. CASE UNCHANGED vars
    <3>1. UNCHANGED <<Slack, Made, Shown, Kept, Over>>
      BY <2>3 DEF vars, clientVars, genVars, readVars, Slack, Made, Shown, Kept, Over
    <3> QED
      BY <3>1, TurnStreamSteps
  <2> QED
    BY <2>1, <2>2, <2>3 DEF Next
<1> QED
  BY <1>1, <1>2, TurnInvariance, PTL DEF Spec, Turn!Spec, TurnRefined

===============================================================================
