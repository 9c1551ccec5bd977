---------------------------- MODULE Storage_proofs ----------------------------
(***************************************************************************)
(* Proofs about what outlives the backend.  Of Uploads, for any sets of    *)
(* users and files and any numbers of sends and restarts: disk and table   *)
(* agree, and a stored question has each of its files.  Of Schema, for any *)
(* numbers of faults and commands: what makes the schema leave its         *)
(* revision, and what may then be missing.                                 *)
(***************************************************************************)
EXTENDS Uploads, Schema, SequenceTheorems, TLAPS

Meta == [file : File, id : BOOLEAN, content : {"none", "part", "whole"}]

\* The variables have their types.
UploadsTypes ==
    /\ disk \in [File -> {"none", "part", "whole"}] /\ aged \subseteq File
    /\ owner \in [File -> User \cup {NONE}]
    /\ upload \in [File -> [phase : {"new", "writing", "written", "answered",
                                     "refused", "failed"},
                            by : User \cup {NONE}]]
    /\ send \in [User -> [phase : {"idle", "files"}, asked : Seq(File),
                          rows : SUBSET File, meta : Seq(Meta)]]
    /\ taken \subseteq File
    /\ questions \subseteq [user : User, asked : Seq(File), meta : Seq(Meta)]

\* How far the upload of a file is, and what is there of it.
UploadsStand ==
    \A f \in File :
        /\ upload[f].phase = "new" => disk[f] = "none" /\ f \notin aged
        /\ upload[f].phase \in {"writing", "written"} =>
              upload[f].by \in User /\ f \notin aged
        /\ upload[f].phase = "written" => disk[f] = "whole"
        /\ upload[f].phase = "refused" => disk[f] = "none"
        /\ owner[f] # NONE <=> upload[f].phase = "answered"

FilesInv == UploadsTypes /\ UploadsStand /\ FilesAccounted

\* What a send of u has recorded so far, or a question of his records.
RecordsStand(u, asked, meta) ==
    /\ \A i, j \in DOMAIN meta : meta[i].file = meta[j].file => i = j
    /\ \A i \in DOMAIN meta :
          /\ meta[i].file \in ToSet(asked)
          /\ owner[meta[i].file] = u /\ meta[i].content = "whole"
          /\ meta[i].id = TRUE => meta[i].file \in taken

SendsInv ==
    /\ FilesInv
    /\ \A u \in User : RecordsStand(u, send[u].asked, send[u].meta)
    /\ \A q \in questions :
          /\ RecordsStand(q.user, q.asked, q.meta)
          /\ ToSet(q.asked) \subseteq {m.file : m \in ToSet(q.meta)}

-------------------------------------------------------------------------------
LEMMA InitFiles == Init => FilesInv
BY EmptySeq DEF Init, FilesInv, UploadsTypes, UploadsStand, FilesAccounted, New,
   Idle

LEMMA PhaseIsSet ==
    ASSUME UploadsTypes, NEW f \in File,
           NEW phase \in {"new", "writing", "written", "answered", "refused",
                          "failed"},
           To(f, phase)
    PROVE  /\ upload' \in [File -> [phase : {"new", "writing", "written",
                                      "answered", "refused", "failed"},
                                   by : User \cup {NONE}]]
           /\ upload'[f].phase = phase /\ upload'[f].by = upload[f].by
           /\ \A x \in File : x # f => upload'[x] = upload[x]
BY DEF To, UploadsTypes

\* The request that writes the file.
LEMMA UploadFilesStep ==
    ASSUME FilesInv, NEW f \in File,
           \/ TooLarge(f) \/ WriteFails(f) \/ Close(f)
           \/ CommitRow(f) \/ CommitFails(f) \/ Age(f)
           \/ \E u \in User : Open(u, f)
    PROVE  FilesInv'
<1> USE UploadsAssumption DEF FilesInv, sendVars
<1>1. CASE TooLarge(f)
  <2>1. UploadsTypes' /\ upload'[f].phase = "refused" /\ owner[f] = NONE
        /\ \A x \in File : x # f => upload'[x] = upload[x]
    BY <1>1, PhaseIsSet DEF TooLarge, Unlinked, UploadsTypes, UploadsStand
  <2> QED
    BY <1>1, <2>1 DEF TooLarge, Unlinked, UploadsTypes, UploadsStand,
                      FilesAccounted
<1>2. CASE WriteFails(f) \/ CommitFails(f)
  <2>1. UploadsTypes' /\ upload'[f].phase = "failed" /\ owner[f] = NONE
        /\ \A x \in File : x # f => upload'[x] = upload[x]
    BY <1>2, PhaseIsSet DEF WriteFails, CommitFails, UploadsTypes, UploadsStand
  <2>2. UNCHANGED <<disk, aged, owner>>
    BY <1>2 DEF WriteFails, CommitFails
  <2>3. UploadsStand'
    BY <2>1, <2>2 DEF UploadsStand
  <2>4. FilesAccounted'
    BY <2>1, <2>2 DEF FilesAccounted
  <2> QED
    BY <2>1, <2>3, <2>4
<1>3. CASE Close(f)
  <2>1. UploadsTypes' /\ upload'[f].phase = "written" /\ owner[f] = NONE
        /\ upload'[f].by = upload[f].by
        /\ \A x \in File : x # f => upload'[x] = upload[x]
    BY <1>3, PhaseIsSet DEF Close, UploadsTypes, UploadsStand
  <2> QED
    BY <1>3, <2>1 DEF Close, UploadsTypes, UploadsStand, FilesAccounted
<1>4. CASE CommitRow(f)
  <2>1. UploadsTypes' /\ upload'[f].phase = "answered" /\ owner'[f] # NONE
        /\ \A x \in File : x # f => upload'[x] = upload[x] /\ owner'[x] = owner[x]
    BY <1>4, PhaseIsSet DEF CommitRow, UploadsTypes, UploadsStand
  <2> QED
    BY <1>4, <2>1 DEF CommitRow, UploadsTypes, UploadsStand, FilesAccounted
<1>5. CASE Age(f)
  BY <1>5 DEF Age, UploadsTypes, UploadsStand, FilesAccounted
<1>6. ASSUME NEW u \in User, Open(u, f) PROVE FilesInv'
  <2>1. upload[f].phase = "new" /\ owner[f] = NONE /\ f \notin aged
    BY <1>6 DEF Open, New, UploadsStand
  <2>2. UploadsTypes' /\ upload'[f].phase = "writing" /\ upload'[f].by = u
        /\ \A x \in File : x # f => upload'[x] = upload[x]
    BY <1>6 DEF Open, UploadsTypes
  <2> QED
    BY <1>6, <2>1, <2>2 DEF Open, UploadsTypes, UploadsStand, FilesAccounted
<1> QED
  BY <1>1, <1>2, <1>3, <1>4, <1>5, <1>6

LEMMA ProcessFilesStep ==
    ASSUME FilesInv,
           (\E removed \in SUBSET Expired : Sweep(removed)) \/ Stop \/ Start
    PROVE  FilesInv'
<1> USE UploadsAssumption DEF FilesInv
<1>1. ASSUME NEW removed \in SUBSET Expired, Sweep(removed) PROVE FilesInv'
  BY <1>1 DEF Sweep, Expired, sendVars, UploadsTypes, UploadsStand,
              FilesAccounted
<1>2. CASE Stop
  <2>1. UploadsTypes'
    BY <1>2, EmptySeq DEF Stop, UploadsTypes, Idle
  <2> QED
    BY <1>2, <2>1 DEF Stop, UploadsTypes, UploadsStand, FilesAccounted
<1>3. CASE Start
  BY <1>3 DEF Start, fileVars, sendVars, UploadsTypes, UploadsStand,
              FilesAccounted
<1> QED
  BY <1>1, <1>2, <1>3

LEMMA SendFilesStep ==
    ASSUME FilesInv, NEW u \in User,
           \/ \E asked \in Lists, workflow \in BOOLEAN : Ask(u, asked, workflow)
           \/ \E f \in File, took, told \in BOOLEAN : Forward(u, f, took, told)
           \/ Refuse(u) \/ Store(u)
    PROVE  FilesInv'
<1> USE DEF FilesInv
<1>1. ASSUME NEW asked \in Lists, NEW workflow \in BOOLEAN,
             Ask(u, asked, workflow)
      PROVE  FilesInv'
  <2>1. <<>> \in Seq(File) /\ <<>> \in Seq(Meta) /\ asked \in Seq(File)
    BY EmptySeq, SeqDef, UploadsAssumption DEF Lists
  <2> DEFINE wanted == IF workflow THEN <<>> ELSE asked
  <2>2. wanted \in Seq(File) /\ {f \in ToSet(wanted) : owner[f] # NONE} \in SUBSET File
    BY <2>1 DEF ToSet
  <2> HIDE DEF wanted
  <2>3. send' = [send EXCEPT ![u] =
                    [phase |-> "files", asked |-> wanted,
                     rows |-> {f \in ToSet(wanted) : owner[f] # NONE},
                     meta |-> <<>>]]
    BY <1>1 DEF Ask, wanted
  <2> QED
    BY <1>1, <2>1, <2>2, <2>3 DEF Ask, fileVars, UploadsTypes, UploadsStand,
                                  FilesAccounted
<1>2. ASSUME NEW f \in File, NEW took \in BOOLEAN, NEW told \in BOOLEAN,
             Forward(u, f, took, told)
      PROVE  FilesInv'
  <2>1. Append(send[u].meta, [file |-> f, id |-> told, content |-> disk[f]])
           \in Seq(Meta)
    BY AppendProperties DEF UploadsTypes, Meta
  <2>2. UNCHANGED <<disk, aged, owner, upload, questions>>
    BY <1>2 DEF Forward, fileVars
  <2>3. taken' \subseteq File
    BY <1>2 DEF Forward, UploadsTypes
  <2>4. send' \in [User -> [phase : {"idle", "files"}, asked : Seq(File),
                            rows : SUBSET File, meta : Seq(Meta)]]
    BY <1>2, <2>1 DEF Forward, UploadsTypes
  <2> QED
    BY <2>2, <2>3, <2>4 DEF UploadsTypes, UploadsStand, FilesAccounted
<1>3. CASE Refuse(u) \/ Store(u)
  <2>1. UNCHANGED <<disk, aged, owner, upload, taken>>
        /\ send' = [send EXCEPT ![u] = Idle]
    BY <1>3 DEF Refuse, Store, fileVars
  <2>2. Idle \in [phase : {"idle", "files"}, asked : Seq(File),
                  rows : SUBSET File, meta : Seq(Meta)]
    BY EmptySeq DEF Idle
  <2>3. questions' \subseteq [user : User, asked : Seq(File), meta : Seq(Meta)]
    BY <1>3 DEF Refuse, Store, UploadsTypes
  <2> QED
    BY <2>1, <2>2, <2>3 DEF UploadsTypes, UploadsStand, FilesAccounted
<1> QED
  BY <1>1, <1>2, <1>3

LEMMA NextFiles == FilesInv /\ [Next]_vars => FilesInv'
<1> SUFFICES ASSUME FilesInv, [Next]_vars PROVE FilesInv'
  OBVIOUS
<1>1. CASE UNCHANGED vars
  BY <1>1 DEF vars, fileVars, sendVars, FilesInv, UploadsTypes, UploadsStand,
              FilesAccounted
<1> QED
  BY <1>1, UploadFilesStep, ProcessFilesStep, SendFilesStep DEF Next

\* Whatever uploads fail, wherever the process dies and whatever the sweep
\* removes: a row has its whole file until the TTL has passed, and a file
\* without a row is one whose upload goes on or died (files/router.py:79).
THEOREM DiskAndTableAgree == Spec => []FilesAccounted
<1>1. FilesInv => FilesAccounted
  BY DEF FilesInv
<1> QED
  BY <1>1, InitFiles, NextFiles, PTL DEF Spec

-------------------------------------------------------------------------------
\* A row keeps its owner, and what Dify has taken it keeps: no step takes
\* from a record what makes it right.
LEMMA OwnersStay ==
    ASSUME FilesInv, [Next]_vars
    PROVE  /\ \A f \in File : owner[f] # NONE => owner'[f] = owner[f]
           /\ taken \subseteq taken'
<1>1. ASSUME NEW f \in File,
             \/ TooLarge(f) \/ WriteFails(f) \/ Close(f)
             \/ CommitRow(f) \/ CommitFails(f) \/ Age(f)
             \/ \E u \in User : Open(u, f)
      PROVE  /\ \A x \in File : owner[x] # NONE => owner'[x] = owner[x]
             /\ taken \subseteq taken'
  <2>1. CASE CommitRow(f)
    BY <2>1 DEF CommitRow, sendVars, FilesInv, UploadsTypes, UploadsStand
  <2>2. CASE UNCHANGED owner /\ UNCHANGED taken
    BY <2>2
  <2> QED
    BY <1>1, <2>1, <2>2 DEF TooLarge, WriteFails, Close, CommitFails, Age, Open,
                            sendVars
<1>2. ASSUME NEW u \in User,
             \/ \E asked \in Lists, workflow \in BOOLEAN : Ask(u, asked, workflow)
             \/ \E f \in File, took, told \in BOOLEAN : Forward(u, f, took, told)
             \/ Refuse(u) \/ Store(u)
      PROVE  UNCHANGED owner /\ taken \subseteq taken'
  BY <1>2 DEF Ask, Forward, Refuse, Store, fileVars
<1>3. CASE \/ \E removed \in SUBSET Expired : Sweep(removed)
           \/ Stop \/ Start \/ UNCHANGED vars
  BY <1>3 DEF Sweep, Stop, Start, vars, fileVars, sendVars
<1> QED
  BY <1>1, <1>2, <1>3 DEF Next

\* Records in the state that follows.
RecordsKept(u, asked, meta) ==
    /\ \A i, j \in DOMAIN meta : meta[i].file = meta[j].file => i = j
    /\ \A i \in DOMAIN meta :
          /\ meta[i].file \in ToSet(asked)
          /\ owner'[meta[i].file] = u /\ meta[i].content = "whole"
          /\ meta[i].id = TRUE => meta[i].file \in taken'

LEMMA RecordsKeep ==
    ASSUME FilesInv, [Next]_vars, NEW u \in User, NEW asked, NEW meta \in Seq(Meta),
           RecordsStand(u, asked, meta)
    PROVE  RecordsKept(u, asked, meta)
<1>1. \A i \in DOMAIN meta : meta[i].file \in File
  <2>1. DOMAIN meta = 1..Len(meta)
    BY LenProperties
  <2>2. \A i \in 1..Len(meta) : meta[i] \in Meta
    BY ElementOfSeq
  <2> QED
    BY <2>1, <2>2 DEF Meta
<1>2. u # NONE
  BY UploadsAssumption
<1> QED
  BY <1>1, <1>2, OwnersStay DEF RecordsStand, RecordsKept

\* The next file of the list is recorded: it was not there, and the row and
\* the file are the sender's own and whole.
LEMMA ForwardRecords ==
    ASSUME SendsInv, NEW u \in User, NEW f \in File, NEW took \in BOOLEAN,
           NEW told \in BOOLEAN, Forward(u, f, took, told)
    PROVE  RecordsStand(u, send[u].asked, send[u].meta)'
<1> DEFINE old == send[u].meta
           m   == [file |-> f, id |-> told, content |-> disk[f]]
           new == Append(old, m)
<1> USE UploadsAssumption DEF SendsInv, FilesInv
<1>1. old \in Seq(Meta) /\ m \in Meta /\ Len(old) \in Nat
  BY LenProperties DEF UploadsTypes, Meta
<1>2. /\ new \in Seq(Meta) /\ Len(new) = Len(old) + 1
      /\ \A i \in 1..Len(old) : new[i] = old[i]
      /\ new[Len(old) + 1] = m
  BY <1>1, AppendProperties
<1>3. DOMAIN old = 1..Len(old) /\ DOMAIN new = 1..(Len(old) + 1)
  BY <1>1, <1>2, LenProperties
<1>4. /\ f \in ToSet(send[u].asked)
      /\ \A i \in DOMAIN old : old[i].file # f
  BY DEF Forward, IsNext, Pending, Recorded, ToSet
<1>5. owner[f] = u /\ disk[f] = "whole"
  BY DEF Forward, Resolves, FilesAccounted
<1>6. /\ send'[u].asked = send[u].asked /\ send'[u].meta = new
      /\ owner' = owner /\ taken \subseteq taken'
      /\ told => f \in taken'
  BY DEF Forward, fileVars, UploadsTypes
<1>7. m.file = f /\ m.id = told /\ m.content = "whole"
  BY <1>5
<1> HIDE DEF old, m, new
<1>8. RecordsStand(u, send[u].asked, old)
  BY DEF old
<1>9. \A i, j \in DOMAIN new : new[i].file = new[j].file => i = j
  BY <1>1, <1>2, <1>3, <1>4, <1>7, <1>8 DEF RecordsStand
<1>10. ASSUME NEW i \in DOMAIN new
       PROVE  /\ new[i].file \in ToSet(send[u].asked)
              /\ owner[new[i].file] = u /\ new[i].content = "whole"
              /\ new[i].id = TRUE => new[i].file \in taken'
  <2>1. CASE i \in DOMAIN old
    <3>1. new[i] = old[i]
      BY <1>2, <1>3, <2>1
    <3>2. /\ old[i].file \in ToSet(send[u].asked)
          /\ owner[old[i].file] = u /\ old[i].content = "whole"
          /\ old[i].id = TRUE => old[i].file \in taken
      BY <1>8, <2>1 DEF RecordsStand
    <3> QED
      BY <1>6, <3>1, <3>2
  <2>2. CASE i = Len(old) + 1
    <3>1. new[i] = m
      BY <1>2, <2>2
    <3> QED
      BY <1>4, <1>5, <1>6, <1>7, <3>1
  <2>3. i \in DOMAIN old \/ i = Len(old) + 1
    BY <1>1, <1>3
  <2> QED
    BY <2>1, <2>2, <2>3
<1> QED
  <2> DEFINE asked == send[u].asked
  <2>1. send'[u].asked = asked
    BY <1>6
  <2>2. \A i \in DOMAIN new :
           /\ new[i].file \in ToSet(asked)
           /\ owner'[new[i].file] = u /\ new[i].content = "whole"
           /\ new[i].id = TRUE => new[i].file \in taken'
    <3> SUFFICES ASSUME NEW i \in DOMAIN new
                 PROVE  /\ new[i].file \in ToSet(asked)
                        /\ owner'[new[i].file] = u /\ new[i].content = "whole"
                        /\ new[i].id = TRUE => new[i].file \in taken'
      OBVIOUS
    <3> QED
      BY <1>6, <1>10
  <2> HIDE DEF asked
  <2> QED
    BY <1>6, <1>9, <2>1, <2>2 DEF RecordsStand

\* The question is stored when no id of the list is left.
LEMMA StoreRecords ==
    ASSUME SendsInv, NEW u \in User, Store(u), NEW q \in questions' \ questions
    PROVE  /\ RecordsStand(q.user, q.asked, q.meta)
           /\ ToSet(q.asked) \subseteq {m.file : m \in ToSet(q.meta)}
<1>1. q.user = u /\ q.asked = send[u].asked /\ q.meta = send[u].meta
  BY DEF Store
<1>2. \A i \in DOMAIN send[u].asked : send[u].asked[i] \in Recorded(u)
  BY DEF Store, Pending
<1> QED
  BY <1>1, <1>2 DEF SendsInv, Recorded, ToSet

LEMMA InitSends == Init => SendsInv
<1> SUFFICES ASSUME Init PROVE SendsInv
  OBVIOUS
<1>1. \A u \in User : send[u].meta = <<>> /\ DOMAIN send[u].meta = {}
  BY DEF Init, Idle
<1>2. questions = {}
  BY DEF Init
<1> QED
  BY <1>1, <1>2, InitFiles DEF SendsInv, RecordsStand

\* The other steps leave what a send has recorded, or start from nothing.
LEMMA SendsMove ==
    ASSUME FilesInv, [Next]_vars, NEW u \in User
    PROVE  \/ \E f \in File, took, told \in BOOLEAN : Forward(u, f, took, told)
           \/ send'[u].asked = send[u].asked /\ send'[u].meta = send[u].meta
           \/ send'[u].meta = <<>>
<1> USE DEF FilesInv
<1>1. ASSUME NEW w \in User, w # u,
             \/ \E asked \in Lists, workflow \in BOOLEAN : Ask(w, asked, workflow)
             \/ \E f \in File, took, told \in BOOLEAN : Forward(w, f, took, told)
             \/ Refuse(w) \/ Store(w)
      PROVE  send'[u] = send[u]
  BY <1>1 DEF Ask, Forward, Refuse, Store, UploadsTypes
<1>2. ASSUME (\E asked \in Lists, workflow \in BOOLEAN : Ask(u, asked, workflow))
             \/ Refuse(u) \/ Store(u)
      PROVE  send'[u].meta = <<>>
  BY <1>2 DEF Ask, Refuse, Store, UploadsTypes, Idle
<1>3. ASSUME NEW f \in File,
             \/ TooLarge(f) \/ WriteFails(f) \/ Close(f)
             \/ CommitRow(f) \/ CommitFails(f) \/ Age(f)
             \/ \E w \in User : Open(w, f)
      PROVE  send' = send
  BY <1>3 DEF TooLarge, WriteFails, Close, CommitRow, CommitFails, Age, Open,
              sendVars
<1>4. CASE Stop
  BY <1>4 DEF Stop, Idle
<1>5. CASE (\E removed \in SUBSET Expired : Sweep(removed)) \/ Start
           \/ UNCHANGED vars
  BY <1>5 DEF Sweep, Start, vars, sendVars
<1> QED
  BY <1>1, <1>2, <1>3, <1>4, <1>5 DEF Next

\* Only the end of a send stores a question.
LEMMA QuestionsMove ==
    ASSUME [Next]_vars, questions' # questions
    PROVE  \E u \in User : Store(u)
<1>1. ASSUME NEW f \in File,
             \/ TooLarge(f) \/ WriteFails(f) \/ Close(f)
             \/ CommitRow(f) \/ CommitFails(f) \/ Age(f)
             \/ \E w \in User : Open(w, f)
      PROVE  questions' = questions
  BY <1>1 DEF TooLarge, WriteFails, Close, CommitRow, CommitFails, Age, Open,
              sendVars
<1>2. ASSUME NEW w \in User,
             \/ \E asked \in Lists, workflow \in BOOLEAN : Ask(w, asked, workflow)
             \/ \E f \in File, took, told \in BOOLEAN : Forward(w, f, took, told)
             \/ Refuse(w)
      PROVE  questions' = questions
  BY <1>2 DEF Ask, Forward, Refuse
<1>3. CASE (\E removed \in SUBSET Expired : Sweep(removed)) \/ Stop \/ Start
           \/ UNCHANGED vars
  BY <1>3 DEF Sweep, Stop, Start, vars, sendVars
<1> QED
  BY <1>1, <1>2, <1>3 DEF Next

LEMMA NextSends == SendsInv /\ [Next]_vars => SendsInv'
<1> SUFFICES ASSUME SendsInv, [Next]_vars PROVE SendsInv'
  OBVIOUS
<1>1. FilesInv /\ FilesInv'
  BY NextFiles DEF SendsInv
<1>2. ASSUME NEW u \in User
      PROVE  RecordsStand(u, send[u].asked, send[u].meta)'
  <2>1. RecordsStand(u, send[u].asked, send[u].meta)
        /\ send[u].asked \in Seq(File) /\ send[u].meta \in Seq(Meta)
    BY <1>1 DEF SendsInv, FilesInv, UploadsTypes
  <2>2. CASE \E f \in File, took, told \in BOOLEAN : Forward(u, f, took, told)
    BY <2>2, ForwardRecords
  <2>3. CASE send'[u].asked = send[u].asked /\ send'[u].meta = send[u].meta
    <3> DEFINE asked == send[u].asked
               meta  == send[u].meta
    <3>1. RecordsKept(u, asked, meta)
      BY <1>1, <2>1, RecordsKeep
    <3> QED
      BY <2>3, <3>1 DEF RecordsKept, RecordsStand
  <2>4. CASE send'[u].meta = <<>>
    BY <2>4 DEF RecordsStand
  <2> QED
    BY <1>1, <2>2, <2>3, <2>4, SendsMove
<1>3. ASSUME NEW q \in questions'
      PROVE  /\ RecordsStand(q.user, q.asked, q.meta)'
             /\ ToSet(q.asked) \subseteq {m.file : m \in ToSet(q.meta)}
  <2>1. /\ RecordsStand(q.user, q.asked, q.meta)
        /\ ToSet(q.asked) \subseteq {m.file : m \in ToSet(q.meta)}
    BY QuestionsMove, StoreRecords DEF SendsInv
  <2>2. q.user \in User /\ q.asked \in Seq(File) /\ q.meta \in Seq(Meta)
    BY <1>1 DEF FilesInv, UploadsTypes
  <2>3. RecordsKept(q.user, q.asked, q.meta)
    BY <1>1, <2>1, <2>2, RecordsKeep
  <2> QED
    BY <2>1, <2>3 DEF RecordsKept, RecordsStand
<1> QED
  BY <1>1, <1>2, <1>3 DEF SendsInv

\* Whatever uploads, sweeps, crashes and sends of others happen among its
\* files: a stored question records each file it was asked to send, once,
\* its sender's own and read whole (chat/router.py:67).
THEOREM QuestionsAreWhole == Spec => []SendWhole
<1>1. SendsInv => SendWhole
  <2> SUFFICES ASSUME SendsInv, NEW q \in questions
               PROVE  /\ \A i, j \in DOMAIN q.meta :
                            q.meta[i].file = q.meta[j].file => i = j
                      /\ {m.file : m \in ToSet(q.meta)} = ToSet(q.asked)
                      /\ \A m \in ToSet(q.meta) :
                            /\ owner[m.file] = q.user /\ m.content = "whole"
                            /\ m.id => m.file \in taken
    BY DEF SendWhole
  <2> QED
    BY DEF SendsInv, RecordsStand, ToSet
<1> QED
  BY <1>1, InitSends, NextSends, PTL DEF Spec

-------------------------------------------------------------------------------
(* Schema: the database and the command that is run on it.                 *)

\* The first k things that revision r makes.
Part(r, k) == {Chain[r][i] : i \in 1..k}

\* What is left of revision r when its downgrade has k things still to drop.
Kept(r, k) ==
    {x \in ToSet(Chain[r]) : \A i \in (k + 1)..Len(Dropped(r)) :
        x # Dropped(r)[i] /\ x \notin PartsOf(Dropped(r)[i])}

\* Records with the fields of a database and of a command.
IsDatabase(d) == d = [has |-> d.has, ver |-> d.ver] /\ d.ver \in 0..Len(Chain)
IsJob(j) ==
    j = [by |-> j.by, cmd |-> j.cmd, rev |-> j.rev, last |-> j.last,
         at |-> j.at, work |-> j.work, found |-> j.found]

\* What an upgrade that has come to j has made, and what it makes yet of its
\* revision; how much a downgrade has still to drop, and what it has left.
Made(j) == Needs(j.rev - 1) \cup Part(j.rev, j.at - 1)
Rest(j) == IF AtEnd(j) THEN {}
           ELSE {Chain[j.rev][i] : i \in j.at..Len(Chain[j.rev])}
ToDrop(j) == IF AtEnd(j) THEN 0 ELSE Len(Dropped(j.last)) + 1 - j.at
Unmade(j) == Needs(j.last - 1) \cup Kept(j.last, ToDrop(j))

\* Whoever runs a command, where it is, and the revision it has recorded.
JobStands ==
    /\ IsJob(job) /\ IsDatabase(job.work)
    /\ <<job.by, proc>> \in {<<"backend", "starting">>, <<"operator", "down">>}
    /\ job.cmd \in {"upgrade", "downgrade", "create_all"}
    /\ job.last \in Release /\ job.rev \in 1..(job.last + 1)
    /\ AtEnd(job) => job.at = 1
    /\ ~AtEnd(job) => job.at \in 1..Len(Script(job.cmd, job.rev))
    /\ InForceAtOnce => database = job.work
    /\ job.cmd = "upgrade" => job.last = release /\ job.work.ver = job.rev - 1
    /\ job.cmd = "create_all" =>
          /\ job.by = "backend" /\ job.last = release
          /\ job.found \subseteq job.work.has
    /\ job.cmd = "downgrade" =>
          /\ job.by = "operator" /\ job.rev >= job.last
          /\ job.work.ver = IF AtEnd(job) THEN job.last - 1 ELSE job.last

SchemaTypes ==
    /\ release \in Release /\ IsDatabase(database)
    /\ proc \in {"down", "starting", "up"}
    /\ strayed \in BOOLEAN /\ lied \in BOOLEAN
    /\ job # NoJob => JobStands

\* While nothing has made the schema stray it is the one of its revision, and
\* a command is where it can go on: it has done the statements behind it, no
\* others.
InStep ==
    ~strayed =>
        /\ job = NoJob => Sound(database, proc)
        /\ job # NoJob /\ ~InForceAtOnce => database.has = Needs(database.ver)
        /\ job.cmd = "upgrade" => job.work.has = Made(job)
        /\ job.cmd = "downgrade" => job.work.has = Unmade(job)

\* While no revision is recorded that is not there, what it made is; and
\* create_all has come upon every table it has passed.
AtLeast ==
    /\ ~lied =>
        /\ job = NoJob \/ ~InForceAtOnce => ~False(database)
        /\ job.cmd = "upgrade" => Made(job) \subseteq job.work.has
        /\ job.cmd = "downgrade" => Unmade(job) \subseteq job.work.has
        /\ job.cmd = "create_all" => ~False(job.work)
        /\ proc = "up" => Needs(release) \ database.has \subseteq Parts
    /\ job.cmd = "create_all" => Made(job) \ Parts \subseteq job.work.has

\* Every table of S has its indexes.
Whole(S) == \A t \in S : IndexesOf(t) \subseteq S

\* Where a table in an upgrade has no index the revision still makes it, and
\* where one in a downgrade has none it is still dropped.
WorkStands ==
    /\ job.cmd \in {"upgrade", "create_all"} =>
          \A t \in job.work.has : IndexesOf(t) \subseteq job.work.has \cup Rest(job)
    /\ job.cmd = "create_all" => Whole(job.found)
    /\ job.cmd = "downgrade" =>
          \A t \in job.work.has : IndexesOf(t) \subseteq job.work.has
                                 \/ t \in Part(job.last, ToDrop(job))

\* A transaction never ends between a table and its indexes.
Together == ~InForceAtOnce => Whole(database.has) /\ WorkStands

SchemaInv == SchemaTypes /\ InStep /\ AtLeast /\ Together

-------------------------------------------------------------------------------
(* The revisions.                                                          *)

\* Each revision makes something, in this order.
LEMMA ChainIs ==
    /\ Len(Chain) = 5 /\ Release = 1..5
    /\ Chain[1] = Baseline /\ Chain[2] = UploadFiles
    /\ Chain[3] = MessagesReasoning /\ Chain[4] = DatasetAuthorizations
    /\ Chain[5] = KbAuditLogs
BY DEF Chain, Release

\* How many things the revisions before r make, and the place of each.
Behind == <<0, 16, 18, 19, 20, 22>>

Place(x) ==
    CASE x = "apps" -> 1
      [] x = "departments" -> 2
      [] x = "roles" -> 3
      [] x = "ix_roles_code" -> 4
      [] x = "users" -> 5
      [] x = "ix_users_email" -> 6
      [] x = "app_authorizations" -> 7
      [] x = "conversations" -> 8
      [] x = "ix_conversations_app_id" -> 9
      [] x = "ix_conversations_user_id" -> 10
      [] x = "refresh_tokens" -> 11
      [] x = "ix_refresh_tokens_token_hash" -> 12
      [] x = "ix_refresh_tokens_user_id" -> 13
      [] x = "user_roles" -> 14
      [] x = "messages" -> 15
      [] x = "ix_messages_conversation_id" -> 16
      [] x = "upload_files" -> 17
      [] x = "ix_upload_files_user_id" -> 18
      [] x = "messages.reasoning" -> 19
      [] x = "dataset_authorizations" -> 20
      [] x = "kb_audit_logs" -> 21
      [] x = "ix_kb_audit_logs_user_id" -> 22
      [] OTHER -> 0

LEMMA BehindIs ==
    /\ Behind[1] = 0 /\ Behind[2] = 16 /\ Behind[3] = 18
    /\ Behind[4] = 19 /\ Behind[5] = 20 /\ Behind[6] = 22
BY DEF Behind

LEMMA BehindGrows ==
    /\ \A r \in 1..5 : Behind[r] \in Nat /\ Behind[r + 1] \in Nat
    /\ \A r, s \in 1..5 : s < r => Behind[s + 1] <= Behind[r]
<1>1. ASSUME NEW r \in 1..5 PROVE Behind[r] \in Nat /\ Behind[r + 1] \in Nat
  BY BehindIs
<1>2. ASSUME NEW r \in 1..5, NEW s \in 1..5, s < r
      PROVE  Behind[s + 1] <= Behind[r]
  <2>1. s = 1 \/ s = 2 \/ s = 3 \/ s = 4
    BY <1>2
  <2>2. QED
    BY <1>2, <2>1, BehindIs
<1>3. QED
  BY <1>1, <1>2

LEMMA Lengths ==
    ASSUME NEW r \in Release
    PROVE  /\ Len(Chain[r]) \in Nat \ {0} /\ DOMAIN Chain[r] = 1..Len(Chain[r])
           /\ Behind[r] + Len(Chain[r]) = Behind[r + 1]
<1>1. Len(Baseline) = 16 /\ DOMAIN Baseline = 1..16
  BY DEF Baseline
<1>2. /\ Len(UploadFiles) = 2 /\ DOMAIN UploadFiles = 1..2
      /\ Len(MessagesReasoning) = 1 /\ DOMAIN MessagesReasoning = 1..1
  BY DEF UploadFiles, MessagesReasoning
<1>3. /\ Len(DatasetAuthorizations) = 1 /\ DOMAIN DatasetAuthorizations = 1..1
      /\ Len(KbAuditLogs) = 2 /\ DOMAIN KbAuditLogs = 1..2
  BY DEF DatasetAuthorizations, KbAuditLogs
<1>4. \/ r = 1 /\ Chain[r] = Baseline
      \/ r = 2 /\ Chain[r] = UploadFiles
      \/ r = 3 /\ Chain[r] = MessagesReasoning
      \/ r = 4 /\ Chain[r] = DatasetAuthorizations
      \/ r = 5 /\ Chain[r] = KbAuditLogs
  BY ChainIs
<1>5. QED
  <2>1. CASE r = 1 /\ Chain[r] = Baseline
    <3>1. Len(Chain[r]) = 16 /\ DOMAIN Chain[r] = 1..16
      BY <1>1, <2>1
    <3>2. Behind[r] = 0 /\ Behind[r + 1] = 16
      BY <2>1, BehindIs
    <3>3. QED
      BY <3>1, <3>2
  <2>2. CASE r = 2 /\ Chain[r] = UploadFiles
    <3>1. Len(Chain[r]) = 2 /\ DOMAIN Chain[r] = 1..2
      BY <1>2, <2>2
    <3>2. Behind[r] = 16 /\ Behind[r + 1] = 18
      BY <2>2, BehindIs
    <3>3. QED
      BY <3>1, <3>2
  <2>3. CASE r = 3 /\ Chain[r] = MessagesReasoning
    <3>1. Len(Chain[r]) = 1 /\ DOMAIN Chain[r] = 1..1
      BY <1>2, <2>3
    <3>2. Behind[r] = 18 /\ Behind[r + 1] = 19
      BY <2>3, BehindIs
    <3>3. QED
      BY <3>1, <3>2
  <2>4. CASE r = 4 /\ Chain[r] = DatasetAuthorizations
    <3>1. Len(Chain[r]) = 1 /\ DOMAIN Chain[r] = 1..1
      BY <1>3, <2>4
    <3>2. Behind[r] = 19 /\ Behind[r + 1] = 20
      BY <2>4, BehindIs
    <3>3. QED
      BY <3>1, <3>2
  <2>5. CASE r = 5 /\ Chain[r] = KbAuditLogs
    <3>1. Len(Chain[r]) = 2 /\ DOMAIN Chain[r] = 1..2
      BY <1>3, <2>5
    <3>2. Behind[r] = 20 /\ Behind[r + 1] = 22
      BY <2>5, BehindIs
    <3>3. QED
      BY <3>1, <3>2
  <2>6. QED
    BY <1>4, <2>1, <2>2, <2>3, <2>4, <2>5

\* The place of a thing is its place in the chain, and what has a place is in
\* the chain.
LEMMA PlaceIs ==
    ASSUME NEW r \in Release, NEW i \in 1..Len(Chain[r])
    PROVE  Place(Chain[r][i]) = Behind[r] + i
<1>1. \A k \in 1..16 : Place(Baseline[k]) = k
  <2>1. /\ Place(Baseline[1]) = 1 /\ Place(Baseline[2]) = 2
        /\ Place(Baseline[3]) = 3 /\ Place(Baseline[4]) = 4
        /\ Place(Baseline[5]) = 5 /\ Place(Baseline[6]) = 6
        /\ Place(Baseline[7]) = 7 /\ Place(Baseline[8]) = 8
    BY DEF Baseline, Place
  <2>2. /\ Place(Baseline[9]) = 9 /\ Place(Baseline[10]) = 10
        /\ Place(Baseline[11]) = 11 /\ Place(Baseline[12]) = 12
        /\ Place(Baseline[13]) = 13 /\ Place(Baseline[14]) = 14
        /\ Place(Baseline[15]) = 15 /\ Place(Baseline[16]) = 16
    BY DEF Baseline, Place
  <2>3. QED
    BY <2>1, <2>2
<1>2. \A k \in 1..2 : /\ Place(UploadFiles[k]) = 16 + k
                     /\ Place(KbAuditLogs[k]) = 20 + k
  BY DEF UploadFiles, KbAuditLogs, Place
<1>3. /\ Place(MessagesReasoning[1]) = 19
      /\ Place(DatasetAuthorizations[1]) = 20
  BY DEF MessagesReasoning, DatasetAuthorizations, Place
<1>4. /\ Len(Baseline) = 16 /\ Len(UploadFiles) = 2 /\ Len(KbAuditLogs) = 2
      /\ Len(MessagesReasoning) = 1 /\ Len(DatasetAuthorizations) = 1
  BY DEF Baseline, UploadFiles, KbAuditLogs, MessagesReasoning,
         DatasetAuthorizations
<1>5. \/ r = 1 /\ Chain[r] = Baseline
      \/ r = 2 /\ Chain[r] = UploadFiles
      \/ r = 3 /\ Chain[r] = MessagesReasoning
      \/ r = 4 /\ Chain[r] = DatasetAuthorizations
      \/ r = 5 /\ Chain[r] = KbAuditLogs
  BY ChainIs
<1>6. CASE r = 1 /\ Chain[r] = Baseline
  <2>1. i \in 1..16 /\ Place(Baseline[i]) = i
    BY <1>1, <1>4, <1>6
  <2>2. QED
    BY <1>6, <2>1, BehindIs
<1>7. CASE r = 2 /\ Chain[r] = UploadFiles
  <2>1. i \in 1..2 /\ Place(UploadFiles[i]) = 16 + i
    BY <1>2, <1>4, <1>7
  <2>2. QED
    BY <1>7, <2>1, BehindIs
<1>8. CASE r = 5 /\ Chain[r] = KbAuditLogs
  <2>1. i \in 1..2 /\ Place(KbAuditLogs[i]) = 20 + i
    BY <1>2, <1>4, <1>8
  <2>2. QED
    BY <1>8, <2>1, BehindIs
<1>9. CASE r = 3 /\ Chain[r] = MessagesReasoning
  <2>1. i \in 1..1
    BY <1>4, <1>9
  <2>2. i = 1
    BY <2>1
  <2>3. QED
    BY <1>3, <1>9, <2>2, BehindIs
<1>10. CASE r = 4 /\ Chain[r] = DatasetAuthorizations
  <2>1. i \in 1..1
    BY <1>4, <1>10
  <2>2. i = 1
    BY <2>1
  <2>3. QED
    BY <1>3, <1>10, <2>2, BehindIs
<1>11. QED
  BY <1>5, <1>6, <1>7, <1>8, <1>9, <1>10

LEMMA Placed ==
    ASSUME NEW x, Place(x) # 0
    PROVE  \E r \in Release : \E i \in 1..Len(Chain[r]) : x = Chain[r][i]
<1>1. ASSUME NEW k \in 1..16, x = Baseline[k]
      PROVE  \E r \in Release : \E i \in 1..Len(Chain[r]) : x = Chain[r][i]
  <2>1. 1 \in Release /\ Len(Chain[1]) = 16 /\ Chain[1] = Baseline
    BY ChainIs DEF Baseline
  <2>2. QED
    BY <1>1, <2>1
<1>2. ASSUME NEW k \in 1..2, x = UploadFiles[k] \/ x = KbAuditLogs[k]
      PROVE  \E r \in Release : \E i \in 1..Len(Chain[r]) : x = Chain[r][i]
  <2>1. /\ 2 \in Release /\ Len(Chain[2]) = 2 /\ Chain[2] = UploadFiles
        /\ 5 \in Release /\ Len(Chain[5]) = 2 /\ Chain[5] = KbAuditLogs
    BY ChainIs DEF UploadFiles, KbAuditLogs
  <2>2. QED
    BY <1>2, <2>1
<1>3. ASSUME x = MessagesReasoning[1] \/ x = DatasetAuthorizations[1]
      PROVE  \E r \in Release : \E i \in 1..Len(Chain[r]) : x = Chain[r][i]
  <2>1. /\ 3 \in Release /\ Len(Chain[3]) = 1 /\ Chain[3] = MessagesReasoning
        /\ 4 \in Release /\ Len(Chain[4]) = 1
        /\ Chain[4] = DatasetAuthorizations /\ 1 \in 1..1
    BY ChainIs DEF MessagesReasoning, DatasetAuthorizations
  <2>2. QED
    BY <1>3, <2>1
<1>4. \/ \E k \in 1..16 : x = Baseline[k]
      \/ \E k \in 1..2 : x = UploadFiles[k] \/ x = KbAuditLogs[k]
      \/ x = MessagesReasoning[1] \/ x = DatasetAuthorizations[1]
  BY DEF Place, Baseline, UploadFiles, KbAuditLogs, MessagesReasoning,
         DatasetAuthorizations
<1>5. QED
  BY <1>1, <1>2, <1>3, <1>4

\* No revision makes what another has made; what is made before another thing
\* has a place before it.
LEMMA MadeOnce ==
    ASSUME NEW r \in Release, NEW i \in 1..Len(Chain[r]),
           NEW s \in Release, NEW j \in 1..Len(Chain[s])
    PROVE  /\ Chain[r][i] = Chain[s][j] => r = s /\ i = j
           /\ Behind[s] + j < Behind[r] + i <=> s < r \/ (s = r /\ j < i)
<1>1. /\ Place(Chain[r][i]) = Behind[r] + i /\ Place(Chain[s][j]) = Behind[s] + j
  BY PlaceIs
<1>2. /\ r \in 1..5 /\ s \in 1..5
      /\ i \in 1..(Behind[r + 1] - Behind[r])
      /\ j \in 1..(Behind[s + 1] - Behind[s])
  <2>1. /\ Len(Chain[r]) \in Nat /\ Behind[r] + Len(Chain[r]) = Behind[r + 1]
        /\ Len(Chain[s]) \in Nat /\ Behind[s] + Len(Chain[s]) = Behind[s + 1]
    BY Lengths
  <2>2. Behind[r] \in Nat /\ Behind[s] \in Nat
    BY BehindGrows, ChainIs
  <2>3. QED
    BY <2>1, <2>2, ChainIs
<1>3. /\ Behind[r] \in Nat /\ Behind[s] \in Nat
      /\ Behind[r + 1] \in Nat /\ Behind[s + 1] \in Nat
      /\ s < r => Behind[s + 1] <= Behind[r]
      /\ r < s => Behind[r + 1] <= Behind[s]
  BY <1>2, BehindGrows
<1> DEFINE a == Behind[r]
           b == Behind[s]
           c == Behind[r + 1]
           d == Behind[s + 1]
<1>4. /\ a \in Nat /\ b \in Nat /\ c \in Nat /\ d \in Nat
      /\ s < r => d <= a
      /\ r < s => c <= b
      /\ r = s => a = b
      /\ i \in Nat /\ 1 <= i /\ i <= c - a /\ j \in Nat /\ 1 <= j /\ j <= d - b
      /\ r \in Nat /\ s \in Nat
  BY <1>2, <1>3
<1> HIDE DEF a, b, c, d
<1>5. /\ b + j < a + i <=> s < r \/ (s = r /\ j < i)
      /\ b + j = a + i => r = s /\ i = j
  BY <1>4
<1>6. QED
  BY <1>1, <1>5 DEF a, b

\* The parts of a table are made behind it, its indexes by the same revision.
LEMMA PartsBehind ==
    ASSUME NEW t, NEW x \in PartsOf(t)
    PROVE  /\ 0 < Place(t) /\ Place(t) < Place(x) /\ t \notin Parts /\ x \in Parts
           /\ PartsOf(x) = {}
           /\ x \in IndexesOf(t) => \A r \in 1..5 :
                 /\ Behind[r] < Place(t) <=> Behind[r] < Place(x)
                 /\ Place(t) <= Behind[r + 1] <=> Place(x) <= Behind[r + 1]
<1>1. x \in IndexesOf(t) =>
         <<t, x>> \in {<<"roles", "ix_roles_code">>, <<"users", "ix_users_email">>,
             <<"conversations", "ix_conversations_app_id">>,
             <<"conversations", "ix_conversations_user_id">>,
             <<"refresh_tokens", "ix_refresh_tokens_token_hash">>,
             <<"refresh_tokens", "ix_refresh_tokens_user_id">>,
             <<"messages", "ix_messages_conversation_id">>,
             <<"upload_files", "ix_upload_files_user_id">>,
             <<"kb_audit_logs", "ix_kb_audit_logs_user_id">>}
  BY DEF IndexesOf
<1>2. x \in ColumnOf(t) => t = "messages" /\ x = "messages.reasoning"
  BY DEF ColumnOf
<1>3. x \in IndexesOf(t) \/ x \in ColumnOf(t)
  BY DEF PartsOf
<1>4. Parts = {"ix_roles_code", "ix_users_email", "ix_conversations_app_id",
               "ix_conversations_user_id", "ix_refresh_tokens_token_hash",
               "ix_refresh_tokens_user_id", "ix_messages_conversation_id",
               "ix_upload_files_user_id", "ix_kb_audit_logs_user_id",
               "messages.reasoning"}
  BY DEF Parts, Indexes, Indexed, IndexesOf, Columns
<1>5. 0 < Place(t) /\ Place(t) < Place(x)
  BY <1>1, <1>2, <1>3 DEF Place
<1>6. t \notin Parts /\ x \in Parts
  BY <1>1, <1>2, <1>3, <1>4
<1>7. PartsOf(x) = {}
  BY <1>1, <1>2, <1>3 DEF PartsOf, ColumnOf, IndexesOf
<1>8. x \in IndexesOf(t) =>
         <<Place(t), Place(x)>> \in {<<3, 4>>, <<5, 6>>, <<8, 9>>, <<8, 10>>,
             <<11, 12>>, <<11, 13>>, <<15, 16>>, <<17, 18>>, <<21, 22>>}
  BY <1>1 DEF Place
<1>9. x \in IndexesOf(t) => \A r \in 1..5 :
         /\ Behind[r] < Place(t) <=> Behind[r] < Place(x)
         /\ Place(t) <= Behind[r + 1] <=> Place(x) <= Behind[r + 1]
  BY <1>8 DEF Behind
<1>10. QED
  BY <1>5, <1>6, <1>7, <1>9

\* A part is of one table.
LEMMA PartOfOne ==
    ASSUME NEW t, NEW u, NEW x \in PartsOf(t), x \in PartsOf(u)
    PROVE  t = u
<1>1. t \in Indexed /\ u \in Indexed
  BY DEF PartsOf, ColumnOf, IndexesOf, Indexed
<1>2. QED
  BY <1>1 DEF PartsOf, ColumnOf, IndexesOf, Indexed

LEMMA PartHasTable ==
    ASSUME NEW x \in Parts
    PROVE  /\ \E t : x \in PartsOf(t)
           /\ x \notin Columns => \E t : x \in IndexesOf(t)
<1>1. x \in Columns => x \in PartsOf("messages")
  BY DEF Columns, PartsOf, ColumnOf
<1>2. x \notin Columns => \E t : x \in IndexesOf(t)
  BY DEF Parts, Indexes
<1>3. QED
  BY <1>1, <1>2 DEF PartsOf

\* What a revision needs is what the one before needs and what it makes.
LEMMA NeedsGrow ==
    /\ Needs(0) = {}
    /\ \A r \in Release : Needs(r) = Needs(r - 1) \cup Part(r, Len(Chain[r]))
<1>1. Needs(0) = {}
  BY DEF Needs
<1>2. ASSUME NEW r \in Release
      PROVE  Needs(r) = Needs(r - 1) \cup Part(r, Len(Chain[r]))
  <2>1. 1..r = 1..(r - 1) \cup {r}
    BY ChainIs
  <2>2. ToSet(Chain[r]) = Part(r, Len(Chain[r]))
    BY Lengths DEF ToSet, Part
  <2>3. Needs(r) = Needs(r - 1) \cup ToSet(Chain[r])
    BY <2>1 DEF Needs
  <2>4. QED
    BY <2>2, <2>3
<1>3. QED
  BY <1>1, <1>2

LEMMA PartGrows ==
    ASSUME NEW r, NEW k \in Nat
    PROVE  Part(r, 0) = {} /\ Part(r, k + 1) = Part(r, k) \cup {Chain[r][k + 1]}
<1>1. 1..0 = {} /\ 1..(k + 1) = 1..k \cup {k + 1}
  OBVIOUS
<1>2. QED
  BY <1>1 DEF Part

\* What was made before a statement comes: what has a smaller place.
LEMMA BeforeIs ==
    ASSUME NEW r \in Release, NEW i \in 1..(Len(Chain[r]) + 1), NEW x
    PROVE  x \in Needs(r - 1) \cup Part(r, i - 1)
              <=> 0 < Place(x) /\ Place(x) < Behind[r] + i
<1>1. ASSUME x \in Part(r, i - 1)
      PROVE  0 < Place(x) /\ Place(x) < Behind[r] + i
  <2>1. PICK j \in 1..(i - 1) : x = Chain[r][j]
    BY <1>1 DEF Part
  <2>2. j \in 1..Len(Chain[r]) /\ j < i
    BY Lengths
  <2>3. Behind[r] \in Nat
    BY BehindGrows, ChainIs
  <2>4. QED
    BY <2>1, <2>2, <2>3, PlaceIs
<1>2. ASSUME x \in Needs(r - 1)
      PROVE  0 < Place(x) /\ Place(x) < Behind[r] + i
  <2>1. PICK s \in 1..(r - 1) : x \in ToSet(Chain[s])
    BY <1>2 DEF Needs
  <2>2. s \in Release /\ s < r /\ s \in 1..5 /\ r \in 1..5
    BY ChainIs
  <2>3. PICK j \in 1..Len(Chain[s]) : x = Chain[s][j]
    BY <2>1, <2>2, Lengths DEF ToSet
  <2>4. Place(x) = Behind[s] + j
    BY <2>2, <2>3, PlaceIs
  <2>5. /\ Behind[s] \in Nat /\ Behind[r] \in Nat /\ Behind[s + 1] <= Behind[r]
    BY <2>2, BehindGrows
  <2>6. Behind[s] + Len(Chain[s]) = Behind[s + 1] /\ Len(Chain[s]) \in Nat
    BY <2>2, Lengths
  <2> DEFINE a == Behind[s]
             b == Behind[r]
             c == Behind[s + 1]
             n == Len(Chain[s])
  <2>7. a \in Nat /\ b \in Nat /\ c <= b /\ a + n = c /\ j \in 1..n /\ n \in Nat
        /\ i \in Nat /\ 1 <= i
    BY <2>5, <2>6, Lengths
  <2> HIDE DEF a, b, c, n
  <2>8. 0 < a + j /\ a + j < b + i
    BY <2>7
  <2>9. QED
    BY <2>4, <2>8 DEF a, b
<1>3. ASSUME 0 < Place(x), Place(x) < Behind[r] + i
      PROVE  x \in Needs(r - 1) \cup Part(r, i - 1)
  <2>0. PICK s \in Release : \E j \in 1..Len(Chain[s]) : x = Chain[s][j]
    BY <1>3, Placed
  <2>1. PICK j \in 1..Len(Chain[s]) : x = Chain[s][j]
    BY <2>0
  <2>2. Place(x) = Behind[s] + j
    BY <2>1, PlaceIs
  <2>3. s \in 1..5 /\ r \in 1..5
    BY ChainIs
  <2>4. /\ Behind[s] \in Nat /\ Behind[r] \in Nat
        /\ r < s => Behind[r + 1] <= Behind[s]
    BY <2>3, BehindGrows
  <2>5. Behind[r] + Len(Chain[r]) = Behind[r + 1] /\ Len(Chain[r]) \in Nat
    BY Lengths
  <2> DEFINE a == Behind[s]
             b == Behind[r]
             c == Behind[r + 1]
             n == Len(Chain[r])
  <2>6. /\ a \in Nat /\ b \in Nat /\ (r < s => c <= a) /\ b + n = c /\ n \in Nat
        /\ i \in 1..(n + 1) /\ j \in Nat /\ 1 <= j /\ a + j < b + i
        /\ (s = r => a = b) /\ s \in Nat /\ r \in Nat
    BY <1>3, <2>2, <2>3, <2>4, <2>5, Lengths
  <2> HIDE DEF a, b, c, n
  <2>7. s < r \/ (s = r /\ j <= i - 1)
    BY <2>6
  <2>8. CASE s < r
    <3>1. s \in 1..(r - 1) /\ x \in ToSet(Chain[s])
      BY <2>1, <2>3, <2>8, Lengths DEF ToSet
    <3>2. QED
      BY <3>1 DEF Needs
  <2>9. CASE s = r /\ j <= i - 1
    BY <2>1, <2>9 DEF Part
  <2>10. QED
    BY <2>7, <2>8, <2>9
<1>4. QED
  BY <1>1, <1>2, <1>3

\* A statement that comes is not among what earlier ones have made, nor are
\* the parts of a table; the table of a part is.
LEMMA Ahead ==
    ASSUME NEW r \in Release, NEW i \in 1..Len(Chain[r])
    PROVE  LET t == Chain[r][i]
               before == Needs(r - 1) \cup Part(r, i - 1)
           IN  /\ t \notin before /\ PartsOf(t) \cap before = {}
               /\ t \in Parts => \E u \in before : t \in PartsOf(u)
<1> DEFINE t == Chain[r][i]
           before == Needs(r - 1) \cup Part(r, i - 1)
<1>1. Place(t) = Behind[r] + i /\ Behind[r] \in Nat /\ i \in 1..(Len(Chain[r]) + 1)
  <2>1. Behind[r] \in Nat
    BY BehindGrows, ChainIs
  <2>2. i \in 1..(Len(Chain[r]) + 1)
    BY Lengths
  <2>3. QED
    BY <2>1, <2>2, PlaceIs
<1> HIDE DEF t
<1>2. \A x : x \in before <=> 0 < Place(x) /\ Place(x) < Place(t)
  BY <1>1, BeforeIs
<1> HIDE DEF before
<1>3. Place(t) \in Nat
  BY <1>1
<1>4. t \notin before
  BY <1>2, <1>3
<1>5. \A x \in PartsOf(t) : x \notin before
  <2> TAKE x \in PartsOf(t)
  <2>1. Place(t) < Place(x) /\ Place(x) \in Nat
    BY PartsBehind DEF Place
  <2>2. QED
    BY <1>2, <1>3, <2>1
<1>6. t \in Parts => \E u \in before : t \in PartsOf(u)
  <2> SUFFICES ASSUME t \in Parts PROVE \E u \in before : t \in PartsOf(u)
    OBVIOUS
  <2>1. PICK u : t \in PartsOf(u)
    BY PartHasTable
  <2>2. 0 < Place(u) /\ Place(u) < Place(t)
    BY <2>1, PartsBehind
  <2>3. QED
    BY <1>2, <2>1, <2>2
<1>7. QED
  BY <1>4, <1>5, <1>6 DEF t, before

\* The indexes of a table that comes are made behind it by its revision.
LEMMA IndexesCome ==
    ASSUME NEW r \in Release, NEW i \in 1..Len(Chain[r]),
           NEW x \in IndexesOf(Chain[r][i])
    PROVE  \E j \in (i + 1)..Len(Chain[r]) : x = Chain[r][j]
<1> DEFINE t == Chain[r][i]
           n == Len(Chain[r])
           b == Behind[r]
           e == Behind[r + 1]
<1>1. /\ Place(t) = b + i /\ b \in Nat /\ e \in Nat /\ b + n = e /\ n \in Nat
      /\ r \in 1..5
  BY PlaceIs, BehindGrows, ChainIs, Lengths
<1>2. x \in PartsOf(t) /\ x \in IndexesOf(t)
  BY DEF PartsOf
<1> HIDE DEF t
<1>3. Place(t) < Place(x) /\ b < Place(x) /\ Place(x) <= e
  <2>1. /\ Place(t) < Place(x)
        /\ b < Place(t) => b < Place(x)
        /\ Place(t) <= e => Place(x) <= e
    BY <1>1, <1>2, PartsBehind
  <2> HIDE DEF b, e, n
  <2>2. b < Place(t) /\ Place(t) <= e
    <3>1. i \in 1..n
      BY DEF n
    <3>2. QED
      BY <1>1, <3>1
  <2>3. QED
    BY <2>1, <2>2
<1>4. Place(x) \in Nat /\ Place(x) # 0
  BY <1>1, <1>3 DEF Place
<1>0. PICK s \in Release : \E j \in 1..Len(Chain[s]) : x = Chain[s][j]
  BY <1>4, Placed
<1>5. PICK j \in 1..Len(Chain[s]) : x = Chain[s][j]
  BY <1>0
<1>6. Place(x) = Behind[s] + j
  BY <1>5, PlaceIs
<1>7. s = r
  <2>1. s \in 1..5 /\ Behind[s] \in Nat /\ Behind[s + 1] \in Nat
        /\ Behind[s] + Len(Chain[s]) = Behind[s + 1]
    BY ChainIs, BehindGrows, Lengths
  <2>2. /\ s < r => Behind[s + 1] <= b
        /\ r < s => e <= Behind[s]
    BY <1>1, <2>1, BehindGrows
  <2> DEFINE a == Behind[s]
             c == Behind[s + 1]
             m == Len(Chain[s])
  <2>3. /\ a \in Nat /\ c \in Nat /\ m \in Nat /\ a + m = c /\ j \in 1..m
        /\ (s < r => c <= b) /\ (r < s => e <= a) /\ Place(x) = a + j
    BY <1>6, <2>1, <2>2, Lengths
  <2> HIDE DEF a, c, m, b, e, n
  <2>4. ~(s < r) /\ ~(r < s)
    BY <1>1, <1>3, <2>3
  <2>5. QED
    BY <1>1, <2>1, <2>4
<1>8. j \in 1..n /\ i < j
  <2>1. j \in 1..n /\ Place(x) = b + j
    BY <1>5, <1>6, <1>7
  <2> HIDE DEF b, n, e
  <2>2. i \in Nat
    OBVIOUS
  <2>3. QED
    BY <1>1, <1>3, <2>1, <2>2
<1>9. j \in (i + 1)..n
  <2> HIDE DEF n, b, e
  <2>1. QED
    BY <1>1, <1>8
<1>10. QED
  BY <1>5, <1>7, <1>9

\* The table of an index is made before it by the same revision.
LEMMA TableBefore ==
    ASSUME NEW r \in Release, NEW k \in 1..Len(Chain[r]), NEW u,
           Chain[r][k] \in IndexesOf(u)
    PROVE  u \in Part(r, k - 1)
<1> DEFINE x == Chain[r][k]
<1>1. u \in Needs(r - 1) \cup Part(r, k - 1)
  <2>1. Place(x) = Behind[r] + k /\ 0 < Place(u) /\ Place(u) < Place(x)
    BY PlaceIs, PartsBehind DEF PartsOf
  <2>2. k \in 1..(Len(Chain[r]) + 1)
    BY Lengths
  <2>3. QED
    BY <2>1, <2>2, BeforeIs
<1>2. u \notin Needs(r - 1)
  <2>1. ASSUME u \in Needs(r - 1) PROVE x \in Needs(r - 1)
    <3>1. PICK s \in 1..(r - 1) : u \in ToSet(Chain[s])
      BY <2>1 DEF Needs
    <3>2. s \in Release
      BY <3>1, ChainIs
    <3>3. PICK i \in 1..Len(Chain[s]) : u = Chain[s][i]
      BY <3>1, <3>2, Lengths DEF ToSet
    <3>4. PICK j \in (i + 1)..Len(Chain[s]) : x = Chain[s][j]
      BY <3>2, <3>3, IndexesCome
    <3>5. x \in ToSet(Chain[s])
      BY <3>2, <3>4, Lengths DEF ToSet
    <3>6. QED
      BY <3>1, <3>5 DEF Needs
  <2>2. QED
    BY <2>1, Ahead
<1>3. QED
  BY <1>1, <1>2

\* A release that needs an index needs its table, and no part has parts.
LEMMA TableNeeded ==
    ASSUME NEW n \in Release, NEW u, NEW x \in IndexesOf(u), x \in Needs(n)
    PROVE  u \in Needs(n)
<1>1. PICK s \in 1..n : x \in ToSet(Chain[s])
  BY DEF Needs
<1>2. s \in Release
  BY <1>1, ChainIs
<1>3. PICK k \in 1..Len(Chain[s]) : x = Chain[s][k]
  BY <1>1, <1>2, Lengths DEF ToSet
<1>4. u \in Part(s, k - 1)
  BY <1>2, <1>3, TableBefore
<1>5. PICK i \in 1..(k - 1) : u = Chain[s][i]
  BY <1>4 DEF Part
<1>6. i \in 1..Len(Chain[s])
  BY <1>2, <1>3, <1>5, Lengths
<1>7. u \in ToSet(Chain[s])
  BY <1>2, <1>5, <1>6, Lengths DEF ToSet
<1>8. QED
  BY <1>1, <1>7 DEF Needs

LEMMA PartOfNoPart ==
    ASSUME NEW u, NEW x \in PartsOf(u)
    PROVE  u \notin Parts
<1>1. u \in Indexed
  BY DEF PartsOf, ColumnOf, IndexesOf, Indexed
<1>2. \A t \in Indexed : Indexed \cap IndexesOf(t) = {}
  BY DEF Indexed, IndexesOf
<1>3. Indexed \cap Columns = {}
  BY DEF Indexed, Columns
<1>4. QED
  BY <1>1, <1>2, <1>3 DEF Parts, Indexes

\* What a downgrade drops: each of its statements is the drop of the thing that
\* an upgrade made there.
LEMMA DroppedIs ==
    ASSUME NEW r \in Release
    PROVE  /\ Len(Dropped(r)) \in 1..Len(Chain[r])
           /\ DOMAIN Dropped(r) = 1..Len(Dropped(r))
           /\ \A i \in 1..Len(Dropped(r)) : Dropped(r)[i] = Chain[r][i]
           /\ \A i \in 1..Len(Chain[r]) : i > Len(Dropped(r)) =>
                 Chain[r][i] \in PartsOf(Dropped(r)[Len(Dropped(r))])
<1>1. CASE r = 2
  <2>1. /\ Dropped(r) = <<"upload_files">> /\ Len(Dropped(r)) = 1
        /\ Dropped(r)[1] = "upload_files"
    BY <1>1 DEF Dropped
  <2>2. /\ Chain[r] = UploadFiles /\ Len(Chain[r]) = 2
        /\ Chain[r][1] = "upload_files"
        /\ Chain[r][2] = "ix_upload_files_user_id"
    BY <1>1, ChainIs DEF UploadFiles
  <2>3. "ix_upload_files_user_id" \in PartsOf("upload_files")
    BY DEF PartsOf, IndexesOf
  <2>4. DOMAIN Dropped(r) = 1..1
    BY <2>1
  <2>5. QED
    BY <2>1, <2>2, <2>3, <2>4
<1>2. CASE r # 2
  <2>1. Dropped(r) = Chain[r]
    BY <1>2 DEF Dropped
  <2>2. QED
    BY <2>1, Lengths
<1>3. QED
  BY <1>1, <1>2

\* What is left at the beginning, at the end and after each statement.
LEMMA KeptShrinks ==
    ASSUME NEW r \in Release
    PROVE  /\ Kept(r, Len(Dropped(r))) = Part(r, Len(Chain[r]))
           /\ Kept(r, 0) = {}
           /\ \A k \in 1..Len(Dropped(r)) :
                 LET t == Dropped(r)[k] IN
                 /\ Kept(r, k - 1) = Kept(r, k) \ ({t} \cup PartsOf(t))
                 /\ t \in Kept(r, k)
                 /\ ({t} \cup PartsOf(t)) \cap Needs(r - 1) = {}
<1> DEFINE n == Len(Dropped(r))
<1>1. n \in Nat /\ n \in 1..Len(Chain[r]) /\ Len(Chain[r]) \in Nat
  BY DroppedIs, Lengths
<1>2. ToSet(Chain[r]) = Part(r, Len(Chain[r]))
  BY Lengths DEF ToSet, Part
<1>3. Kept(r, n) = Part(r, Len(Chain[r]))
  <2>1. (n + 1)..n = {}
    BY <1>1
  <2>2. QED
    BY <1>2, <2>1 DEF Kept
<1>4. Kept(r, 0) = {}
  <2> SUFFICES ASSUME NEW x \in Kept(r, 0) PROVE FALSE
    OBVIOUS
  <2>1. PICK i \in 1..Len(Chain[r]) : x = Chain[r][i]
    BY <1>2 DEF Kept, Part
  <2>2. CASE i \in 1..n
    <3>1. x = Dropped(r)[i] /\ i \in (0 + 1)..n
      BY <2>1, <2>2, DroppedIs
    <3>2. QED
      BY <3>1 DEF Kept
  <2>3. CASE i \notin 1..n
    <3>1. i > n /\ n \in (0 + 1)..n
      BY <1>1, <2>3
    <3>2. x \in PartsOf(Dropped(r)[n])
      BY <2>1, <3>1, DroppedIs
    <3>3. QED
      BY <3>1, <3>2 DEF Kept
  <2>4. QED
    BY <2>2, <2>3
<1>5. ASSUME NEW k \in 1..n
      PROVE  LET t == Dropped(r)[k] IN
             /\ Kept(r, k - 1) = Kept(r, k) \ ({t} \cup PartsOf(t))
             /\ t \in Kept(r, k)
             /\ ({t} \cup PartsOf(t)) \cap Needs(r - 1) = {}
  <2> DEFINE t == Dropped(r)[k]
  <2>1. k - 1 + 1 = k /\ k..n = {k} \cup ((k + 1)..n)
    BY <1>1
  <2>2. Kept(r, k - 1) = Kept(r, k) \ ({t} \cup PartsOf(t))
    BY <2>1 DEF Kept
  <2>3. t = Chain[r][k] /\ k \in 1..Len(Chain[r])
    BY <1>1, DroppedIs
  <2>4. t \in Kept(r, k)
    <3>1. t \in ToSet(Chain[r])
      BY <1>2, <2>3 DEF Part
    <3>2. ASSUME NEW i \in (k + 1)..n
          PROVE  t # Dropped(r)[i] /\ t \notin PartsOf(Dropped(r)[i])
      <4>1. /\ Dropped(r)[i] = Chain[r][i] /\ i \in 1..Len(Chain[r]) /\ k < i
            /\ t \in Part(r, i - 1)
        BY <1>1, <2>3, DroppedIs DEF Part
      <4>2. QED
        BY <4>1, Ahead
    <3>3. QED
      BY <3>1, <3>2 DEF Kept
  <2>5. ({t} \cup PartsOf(t)) \cap Needs(r - 1) = {}
    BY <2>3, Ahead
  <2>6. QED
    BY <2>2, <2>4, <2>5
<1>6. QED
  BY <1>3, <1>4, <1>5

-------------------------------------------------------------------------------
(* Scripts and statements.                                                 *)

LEMMA Scripts ==
    ASSUME NEW r \in Release
    PROVE  LET L == Len(Chain[r])
               M == Len(Dropped(r)) IN
           /\ Len(Upgrade(r)) = L + 1 /\ Upgrade(r)[L + 1] = Stamp(r)
           /\ Len(Downgrade(r)) = M + 1 /\ Downgrade(r)[M + 1] = Stamp(r - 1)
           /\ Len(CreateAll(r)) = L
           /\ \A i \in 1..L : /\ Upgrade(r)[i] = Make(Chain[r][i])
                              /\ CreateAll(r)[i] = Ensure(Chain[r][i])
           /\ \A i \in 1..M : Downgrade(r)[i] = Drop(Dropped(r)[M + 1 - i])
<1> DEFINE L == Len(Chain[r])
           M == Len(Dropped(r))
           ups == [i \in 1..L |-> Make(Chain[r][i])]
           downs == [i \in 1..M |-> Drop(Dropped(r)[M - i + 1])]
           tables == [i \in 1..L |-> Ensure(Chain[r][i])]
           S == {Make(Chain[r][i]) : i \in 1..L} \cup {Stamp(r)}
           T == {Drop(Dropped(r)[M - i + 1]) : i \in 1..M} \cup {Stamp(r - 1)}
<1>1. L \in Nat /\ DOMAIN Chain[r] = 1..L /\ M \in Nat
  BY Lengths, DroppedIs
<1>2. Upgrade(r) = Append(ups, Stamp(r)) /\ CreateAll(r) = tables
  BY <1>1 DEF Upgrade, CreateAll
<1>3. Reverse(Dropped(r)) = [i \in 1..M |-> Dropped(r)[M - i + 1]]
  BY DEF Reverse
<1>4. Downgrade(r) = Append(downs, Stamp(r - 1))
  BY <1>3 DEF Downgrade
<1>5. ups \in Seq(S) /\ Len(ups) = L /\ Stamp(r) \in S
  BY <1>1
<1>6. downs \in Seq(T) /\ Len(downs) = M /\ Stamp(r - 1) \in T
  BY <1>1
<1>7. Len(tables) = L /\ \A i \in 1..L : tables[i] = Ensure(Chain[r][i])
  BY <1>1
<1>8. /\ Len(Upgrade(r)) = L + 1 /\ Upgrade(r)[L + 1] = Stamp(r)
      /\ \A i \in 1..L : Upgrade(r)[i] = ups[i]
  <2> HIDE DEF ups, S
  <2>1. QED
    BY <1>1, <1>2, <1>5
<1>9. /\ Len(Downgrade(r)) = M + 1 /\ Downgrade(r)[M + 1] = Stamp(r - 1)
      /\ \A i \in 1..M : Downgrade(r)[i] = downs[i]
  <2> HIDE DEF downs, T
  <2>1. QED
    BY <1>1, <1>4, <1>6
<1>10. \A i \in 1..M : M - i + 1 = M + 1 - i
  BY <1>1
<1>11. /\ \A i \in 1..L : ups[i] = Make(Chain[r][i])
       /\ \A i \in 1..M : downs[i] = Drop(Dropped(r)[M + 1 - i])
  BY <1>1, <1>10
<1> HIDE DEF L, M, ups, downs, tables, S, T
<1>12. QED
  BY <1>2, <1>7, <1>8, <1>9, <1>11 DEF L, M

\* What a statement does to a database, and when it can.
LEMMA Effects ==
    ASSUME NEW d, IsDatabase(d), NEW t, NEW F
    PROVE  /\ Effect(Make(t), d, F) = [has |-> d.has \cup {t}, ver |-> d.ver]
           /\ Effect(Drop(t), d, F) =
                 [has |-> d.has \ ({t} \cup PartsOf(t)), ver |-> d.ver]
<1>1. d = [has |-> d.has, ver |-> d.ver]
  BY DEF IsDatabase
<1>2. \A X : [d EXCEPT !.has = X] = [has |-> X, ver |-> d.ver]
  BY <1>1
<1>3. Effect(Make(t), d, F) = [has |-> d.has \cup {t}, ver |-> d.ver]
  BY <1>2 DEF Effect, Make
<1>4. Effect(Drop(t), d, F) =
         [has |-> d.has \ ({t} \cup PartsOf(t)), ver |-> d.ver]
  BY <1>2 DEF Effect, Drop
<1>5. QED
  BY <1>3, <1>4

LEMMA EffectOfEnsure ==
    ASSUME NEW d, IsDatabase(d), NEW t, NEW F
    PROVE  Effect(Ensure(t), d, F) =
              [has |-> d.has \cup Missing(t, F), ver |-> d.ver]
<1>1. \A X : [d EXCEPT !.has = X] = [has |-> X, ver |-> d.ver]
  BY DEF IsDatabase
<1>2. QED
  BY <1>1 DEF Effect, Ensure

LEMMA EffectOfStamp ==
    ASSUME NEW d, IsDatabase(d), NEW n, NEW F
    PROVE  Effect(Stamp(n), d, F) = [has |-> d.has, ver |-> n]
<1>1. d = [has |-> d.has, ver |-> d.ver]
  BY DEF IsDatabase
<1>2. [d EXCEPT !.ver = n] = [has |-> d.has, ver |-> n]
  BY <1>1
<1>3. QED
  BY <1>2 DEF Effect, Stamp

LEMMA CanRun ==
    ASSUME NEW d
    PROVE  /\ \A t : Possible(Make(t), d) <=>
                 t \notin d.has /\ (t \in Parts => \E u \in d.has : t \in PartsOf(u))
           /\ \A t : Possible(Drop(t), d) <=> t \in d.has
           /\ \A n : Possible(Stamp(n), d)
           /\ \A t : Possible(Ensure(t), d)
BY DEF Possible, Make, Drop, Stamp, Ensure

\* The statements and revisions a command passes.
LEMMA MadeGrows ==
    ASSUME NEW r \in Release
    PROVE  /\ Needs(r - 1) \cup Part(r, 0) = Needs(r - 1)
           /\ Needs(r) \cup Part(r + 1, 0) = Needs(r)
           /\ Needs(r - 1) \cup Part(r, Len(Chain[r])) = Needs(r)
           /\ \A i \in 1..Len(Chain[r]) :
                 Needs(r - 1) \cup Part(r, i)
                     = (Needs(r - 1) \cup Part(r, i - 1)) \cup {Chain[r][i]}
<1>1. Part(r, 0) = {} /\ Part(r + 1, 0) = {}
  BY PartGrows
<1>2. Len(Chain[r]) \in Nat
  BY Lengths
<1>3. ASSUME NEW i \in 1..Len(Chain[r])
      PROVE  Part(r, i) = Part(r, i - 1) \cup {Chain[r][i]}
  <2>1. i - 1 \in Nat /\ (i - 1) + 1 = i
    BY <1>2
  <2>2. QED
    BY <2>1, PartGrows
<1>4. QED
  BY <1>1, <1>3, NeedsGrow

-------------------------------------------------------------------------------
(* The steps.                                                              *)

LEMMA SchemaStart == SchemaInit => SchemaInv
<1> SUFFICES ASSUME SchemaInit PROVE SchemaInv
  OBVIOUS
<1>1. release \in Release /\ proc = "down" /\ job = NoJob /\ lied = FALSE
  BY DEF SchemaInit
<1>2. \/ database = [has |-> {}, ver |-> 0] /\ strayed = FALSE
      \/ database = [has |-> Needs(1), ver |-> 0] /\ strayed = TRUE
  BY DEF SchemaInit
<1>3. /\ strayed \in BOOLEAN /\ database.ver = 0
      /\ database = [has |-> database.has, ver |-> database.ver]
      /\ ~strayed => database.has = {}
  <2>1. CASE database = [has |-> {}, ver |-> 0] /\ strayed = FALSE
    BY <2>1
  <2>2. CASE database = [has |-> Needs(1), ver |-> 0] /\ strayed = TRUE
    BY <2>2
  <2>3. QED
    BY <1>2, <2>1, <2>2
<1>4. IsDatabase(database)
  BY <1>3, ChainIs DEF IsDatabase
<1>5. ~strayed => Sound(database, proc)
  BY <1>1, <1>3, NeedsGrow DEF Sound
<1>6. ~False(database)
  BY <1>3, NeedsGrow DEF False
<1>7. job.cmd = "none"
  BY <1>1 DEF NoJob
<1>8. SchemaTypes
  BY <1>1, <1>3, <1>4 DEF SchemaTypes
<1>9. InStep
  BY <1>1, <1>5, <1>7 DEF InStep
<1>10. AtLeast
  BY <1>1, <1>6, <1>7 DEF AtLeast
<1>11. Together
  <2>2. Whole({}) /\ Whole(Needs(1))
    <3>1. ASSUME NEW t \in Needs(1), NEW x \in IndexesOf(t)
          PROVE  x \in Needs(1)
      <4>1. 1 \in Release /\ Needs(1) = {} \cup Part(1, Len(Chain[1]))
        <5>1. 1 \in Release /\ 1 - 1 = 0
          BY ChainIs
        <5>2. QED
          BY <5>1, NeedsGrow
      <4>2. PICK i \in 1..Len(Chain[1]) : t = Chain[1][i]
        BY <3>1, <4>1 DEF Part
      <4>3. PICK j \in (i + 1)..Len(Chain[1]) : x = Chain[1][j]
        BY <3>1, <4>1, <4>2, IndexesCome
      <4>4. QED
        BY <4>1, <4>3, Lengths DEF Part
    <3>2. QED
      BY <3>1 DEF Whole
  <2>3. Whole(database.has)
    BY <1>2, <2>2
  <2>4. QED
    BY <1>7, <2>3 DEF Together, WorkStands
<1>12. QED
  BY <1>8, <1>9, <1>10, <1>11 DEF SchemaInv

\* The books at the end of a job: the schema has strayed unless it is sound.
LEMMA Books ==
    ASSUME NEW d, NEW p, NEW cause \in BOOLEAN, Leaves(d, p, cause),
           strayed \in BOOLEAN, lied \in BOOLEAN,
           ~strayed /\ ~cause => Sound(d, p), ~lied /\ ~cause => ~False(d)
    PROVE  /\ database' = d /\ proc' = p
           /\ strayed' \in BOOLEAN /\ lied' \in BOOLEAN
           /\ ~strayed' => Sound(d, p)
           /\ ~lied' => ~False(d)
BY DEF Leaves

\* Nothing is run any more.
LEMMA JobOver ==
    ASSUME release \in Release, job' = NoJob, IsDatabase(database)',
           proc' \in {"down", "up"}, strayed' \in BOOLEAN, lied' \in BOOLEAN,
           UNCHANGED <<dialect, release>>,
           ~strayed' => Sound(database', proc'),
           ~lied' => ~False(database'),
           ~lied' /\ proc' = "up" =>
               Needs(release) \ database'.has \subseteq Parts,
           ~InForceAtOnce => Whole(database'.has)
    PROVE  SchemaInv'
<1>1. job'.cmd = "none"
  BY DEF NoJob
<1>2. SchemaTypes'
  BY DEF SchemaTypes
<1>3. InStep'
  BY <1>1 DEF InStep, Sound
<1>4. AtLeast'
  BY <1>1 DEF AtLeast, False
<1>5. Together'
  BY <1>1 DEF Together, WorkStands, InForceAtOnce, Whole
<1>6. QED
  BY <1>2, <1>3, <1>4, <1>5 DEF SchemaInv

\* create_all begins: it has come upon nothing yet.
LEMMA FallsBack ==
    ASSUME release \in Release, IsDatabase(database), database' = database,
           job' = Fallback, proc' = "starting",
           strayed' \in BOOLEAN, lied' \in BOOLEAN,
           UNCHANGED <<dialect, release>>,
           ~strayed' /\ ~InForceAtOnce => database.has = Needs(database.ver),
           ~lied' => ~False(database),
           ~InForceAtOnce => Whole(database.has)
    PROVE  SchemaInv'
<1>1. job' = [by |-> "backend", cmd |-> "create_all", rev |-> 1,
              last |-> release, at |-> 1, work |-> database,
              found |-> database.has]
  BY DEF Fallback, Begin
<1>2. /\ job'.by = "backend" /\ job'.cmd = "create_all" /\ job'.rev = 1
      /\ job'.last = release /\ job'.at = 1 /\ job'.work = database
      /\ job'.found = database.has /\ IsJob(job')
  BY <1>1 DEF IsJob
<1>3. job' # NoJob
  BY <1>2 DEF NoJob
<1>4. Made(job') = {}
  BY <1>2, MadeGrows, NeedsGrow, ChainIs DEF Made
<1>5. ~AtEnd(job')
  BY <1>2, ChainIs DEF AtEnd
<1>6. 1 \in 1..Len(Script("create_all", 1))
  BY Scripts, Lengths, ChainIs DEF Script
<1>7. JobStands'
  BY <1>2, <1>5, <1>6, ChainIs DEF JobStands, IsJob, AtEnd, IsDatabase
<1>8. SchemaTypes'
  BY <1>7 DEF SchemaTypes, IsDatabase
<1>9. InStep'
  BY <1>2, <1>3 DEF InStep, InForceAtOnce
<1>10. AtLeast'
  BY <1>2, <1>3, <1>4 DEF AtLeast, False, Made
<1>11. Together'
  BY <1>2 DEF Together, WorkStands, InForceAtOnce, Whole
<1>12. QED
  BY <1>8, <1>9, <1>10, <1>11 DEF SchemaInv

\* An upgrade begins behind the revision that is recorded.
LEMMA UpgradeBegins ==
    ASSUME SchemaInv, job = NoJob, database.ver <= release, NEW by,
           job' = Begin(by, "upgrade", database.ver + 1, release),
           <<by, proc'>> \in {<<"backend", "starting">>, <<"operator", "down">>},
           UNCHANGED <<dialect, release, database, strayed, lied>>
    PROVE  SchemaInv'
<1> DEFINE v == database.ver
<1>1. release \in Release /\ IsDatabase(database) /\ v \in 0..5
  BY ChainIs DEF SchemaInv, SchemaTypes, IsDatabase
<1>2. /\ job'.by = by /\ job'.cmd = "upgrade" /\ job'.rev = v + 1
      /\ job'.last = release /\ job'.at = 1 /\ job'.work = database
      /\ IsJob(job')
  BY DEF Begin, IsJob
<1>3. job' # NoJob
  BY <1>2 DEF NoJob
<1>4. Made(job') = Needs(v)
  <2>1. Part(v + 1, 0) = {}
    BY PartGrows
  <2>2. (v + 1) - 1 = v /\ 1 - 1 = 0
    BY <1>1
  <2>3. QED
    BY <1>2, <2>1, <2>2 DEF Made
<1>5. ~AtEnd(job') => 1 \in 1..Len(Script("upgrade", v + 1))
  <2> SUFFICES ASSUME ~AtEnd(job') PROVE 1 \in 1..Len(Script("upgrade", v + 1))
    OBVIOUS
  <2>1. v + 1 \in Release
    BY <1>1, <1>2, ChainIs DEF AtEnd
  <2>2. QED
    BY <2>1, Scripts, Lengths DEF Script
<1>6. JobStands'
  <2>1. job'.rev \in 1..(job'.last + 1)
    BY <1>1, <1>2, ChainIs
  <2>2. job'.work.ver = job'.rev - 1
    BY <1>1, <1>2
  <2>3. QED
    BY <1>1, <1>2, <1>5, <2>1, <2>2 DEF JobStands, IsJob, AtEnd, IsDatabase
<1>7. SchemaTypes'
  BY <1>1, <1>6 DEF SchemaTypes, IsDatabase, SchemaInv
<1>8. InStep'
  BY <1>2, <1>3, <1>4 DEF InStep, InForceAtOnce, SchemaInv, Sound, Made
<1>9. AtLeast'
  BY <1>2, <1>3, <1>4 DEF AtLeast, False, Made, SchemaInv
<1>10. Together'
  BY <1>2 DEF Together, WorkStands, InForceAtOnce, Whole, SchemaInv
<1>11. QED
  BY <1>7, <1>8, <1>9, <1>10 DEF SchemaInv

\* A downgrade begins with the revision that is recorded.
LEMMA DowngradeBegins ==
    ASSUME SchemaInv, DowngradeCommand
    PROVE  SchemaInv'
<1> DEFINE v == database.ver
<1>1. release \in Release /\ IsDatabase(database) /\ v \in Release
  BY ChainIs DEF SchemaInv, SchemaTypes, DowngradeCommand
<1>2. /\ job'.by = "operator" /\ job'.cmd = "downgrade" /\ job'.rev = v
      /\ job'.last = v /\ job'.at = 1 /\ job'.work = database
      /\ IsJob(job')
  BY DEF DowngradeCommand, Begin, IsJob
<1>3. /\ job = NoJob /\ proc = "down" /\ job' # NoJob
      /\ UNCHANGED <<dialect, release, database, proc, strayed, lied>>
  BY <1>2 DEF NoJob, DowngradeCommand, Chore
<1>4. ~AtEnd(job')
  BY <1>1, <1>2, ChainIs DEF AtEnd
<1>5. Unmade(job') = Needs(v)
  <2>1. (Len(Dropped(v)) + 1) - 1 = Len(Dropped(v))
    BY <1>1, DroppedIs
  <2>2. ToDrop(job') = Len(Dropped(v))
    BY <1>2, <1>4, <2>1 DEF ToDrop
  <2>3. Unmade(job') = Needs(v - 1) \cup Part(v, Len(Chain[v]))
    BY <1>1, <1>2, <2>2, KeptShrinks DEF Unmade
  <2>4. QED
    BY <1>1, <2>3, MadeGrows
<1>6. 1 \in 1..Len(Script("downgrade", v))
  BY <1>1, Scripts, DroppedIs DEF Script
<1>7. JobStands'
  <2>1. job'.rev \in 1..(job'.last + 1)
    BY <1>1, <1>2, ChainIs
  <2>2. QED
    BY <1>1, <1>2, <1>3, <1>4, <1>6, <2>1, ChainIs
       DEF JobStands, IsJob, AtEnd, IsDatabase
<1>8. SchemaTypes'
  BY <1>1, <1>3, <1>7 DEF SchemaTypes, IsDatabase, SchemaInv
<1>9. InStep'
  BY <1>2, <1>3, <1>5 DEF InStep, InForceAtOnce, SchemaInv, Sound, Unmade, ToDrop, AtEnd
<1>10. AtLeast'
  BY <1>2, <1>3, <1>5 DEF AtLeast, False, Unmade, ToDrop, SchemaInv, AtEnd
<1>11. Together'
  BY <1>2, <1>3 DEF Together, WorkStands, InForceAtOnce, Whole, SchemaInv
<1>12. QED
  BY <1>8, <1>9, <1>10, <1>11 DEF SchemaInv

\* Where a command is after a statement: further on in the script, or at the
\* start of the next.
LEMMA MovesOn ==
    ASSUME SchemaTypes, Statement
    PROVE  LET r == job.rev
               len == Len(Script(job.cmd, r))
               d == Effect(Coming(job), job.work, job.found)
           IN  /\ IsJob(job') /\ job' # NoJob /\ r \in Release
               /\ job.at \in 1..len
               /\ job'.by = job.by /\ job'.cmd = job.cmd
               /\ job'.last = job.last /\ job'.work = d /\ job'.found = job.found
               /\ job.at < len => job'.rev = r /\ job'.at = job.at + 1
               /\ job.at = len => job'.rev = r + 1 /\ job'.at = 1
<1> DEFINE r == job.rev
           len == Len(Script(job.cmd, r))
           d == Effect(Coming(job), job.work, job.found)
<1>1. JobStands /\ ~AtEnd(job)
  BY DEF SchemaTypes, Statement
<1>2. r \in Release /\ job.at \in 1..len
  BY <1>1, ChainIs DEF JobStands, AtEnd
<1>3. job = [by |-> job.by, cmd |-> job.cmd, rev |-> r, last |-> job.last,
             at |-> job.at, work |-> job.work,
             found |-> job.found]
  BY <1>1 DEF JobStands, IsJob
<1>4. job' = [Advanced(job) EXCEPT !.work = d]
  BY DEF Statement
<1>5. CASE job.at < len
  <2>1. Advanced(job) = [by |-> job.by, cmd |-> job.cmd, rev |-> r,
                         last |-> job.last, at |-> job.at + 1,
                         work |-> job.work, found |-> job.found]
    BY <1>3, <1>5 DEF Advanced
  <2>2. job' = [by |-> job.by, cmd |-> job.cmd, rev |-> r,
                last |-> job.last, at |-> job.at + 1, work |-> d,
                found |-> job.found]
    BY <1>4, <2>1
  <2>3. job'.cmd # "none"
    BY <1>1, <2>2 DEF JobStands
  <2>4. QED
    BY <1>2, <1>5, <2>2, <2>3 DEF IsJob, NoJob
<1>6. CASE job.at = len
  <2>1. ~(job.at < len)
    BY <1>2, <1>6
  <2>2. Advanced(job) = [by |-> job.by, cmd |-> job.cmd, rev |-> r + 1,
                         last |-> job.last, at |-> 1, work |-> job.work,
                         found |-> job.found]
    BY <1>3, <2>1 DEF Advanced
  <2>3. job' = [by |-> job.by, cmd |-> job.cmd, rev |-> r + 1,
                last |-> job.last, at |-> 1, work |-> d, found |-> job.found]
    BY <1>4, <2>2
  <2>4. job'.cmd # "none"
    BY <1>1, <2>3 DEF JobStands
  <2>5. QED
    BY <1>2, <1>6, <2>1, <2>3, <2>4 DEF IsJob, NoJob
<1>7. QED
  BY <1>2, <1>5, <1>6

\* What a statement has to leave, by the command it belongs to.
LEMMA StatementKeeps ==
    ASSUME SchemaInv, Statement, IsDatabase(job'.work),
           job.cmd = "upgrade" =>
               /\ job'.work.ver = job'.rev - 1
               /\ ~strayed => job'.work.has = Made(job')
               /\ ~lied => Made(job') \subseteq job'.work.has,
           job.cmd = "downgrade" =>
               /\ job'.rev >= job'.last
               /\ job'.work.ver =
                     IF AtEnd(job') THEN job'.last - 1 ELSE job'.last
               /\ ~strayed => job'.work.has = Unmade(job')
               /\ ~lied => Unmade(job') \subseteq job'.work.has,
           job.cmd = "create_all" =>
               /\ job'.found \subseteq job'.work.has
               /\ ~lied => ~False(job'.work)
               /\ Made(job') \ Parts \subseteq job'.work.has,
           ~InForceAtOnce => WorkStands'
    PROVE  SchemaInv'
<1>1. SchemaTypes /\ JobStands /\ job # NoJob /\ ~AtEnd(job)
  BY DEF SchemaInv, SchemaTypes, Statement
<1>2. /\ IsJob(job') /\ job' # NoJob /\ job.rev \in Release
      /\ job.at \in 1..Len(Script(job.cmd, job.rev))
      /\ job'.by = job.by /\ job'.cmd = job.cmd /\ job'.last = job.last
      /\ \/ job'.rev = job.rev /\ job'.at = job.at + 1
            /\ job.at < Len(Script(job.cmd, job.rev))
         \/ job'.rev = job.rev + 1 /\ job'.at = 1
  BY <1>1, MovesOn
<1>3. database' = IF InForceAtOnce THEN job'.work ELSE database
  BY <1>1, MovesOn DEF Statement
<1>4. UNCHANGED <<dialect, release, proc, strayed, lied>>
  BY DEF Statement
<1>5. InForceAtOnce' = InForceAtOnce
  BY <1>4 DEF InForceAtOnce
<1>6. release \in Release /\ IsDatabase(database) /\ job.last \in Release
  BY <1>1 DEF SchemaTypes, JobStands
<1>7. IsDatabase(database')
  BY <1>3, <1>6
<1>8. job.rev \in 1..job.last
  BY <1>1, <1>2, <1>6, ChainIs DEF AtEnd
<1>9. job'.rev \in 1..(job'.last + 1)
  BY <1>2, <1>6, <1>8, ChainIs
<1>10. /\ AtEnd(job') => job'.at = 1
       /\ ~AtEnd(job') => job'.at \in 1..Len(Script(job'.cmd, job'.rev))
  <2>1. CASE job'.rev = job.rev /\ job'.at = job.at + 1
             /\ job.at < Len(Script(job.cmd, job.rev))
    <3>1. ~AtEnd(job')
      BY <1>1, <1>2, <2>1 DEF AtEnd
    <3>2. QED
      BY <1>2, <2>1, <3>1
  <2>2. CASE job'.rev = job.rev + 1 /\ job'.at = 1
    <3> SUFFICES ASSUME ~AtEnd(job')
                 PROVE  1 \in 1..Len(Script(job.cmd, job'.rev))
      BY <1>2, <2>2
    <3>1. job'.rev \in Release
      BY <1>2, <1>6, <1>9, ChainIs DEF AtEnd
    <3>2. job.cmd \in {"upgrade", "downgrade", "create_all"}
      BY <1>1 DEF JobStands
    <3>3. QED
      BY <3>1, <3>2, Scripts, Lengths DEF Script
  <2>3. QED
    BY <1>2, <2>1, <2>2
<1>11. JobStands'
  BY <1>1, <1>2, <1>3, <1>4, <1>5, <1>9, <1>10 DEF JobStands, IsJob, AtEnd, IsDatabase
<1>12. SchemaTypes'
  BY <1>1, <1>4, <1>7, <1>11 DEF SchemaTypes, IsDatabase
<1>13. InStep'
  BY <1>1, <1>2, <1>3, <1>4, <1>5 DEF InStep, SchemaInv, Made, Unmade, ToDrop, AtEnd
<1>14. AtLeast'
  <2>1. proc # "up"
    BY <1>1 DEF JobStands
  <2>2. QED
    BY <1>1, <1>2, <1>3, <1>4, <1>5, <2>1
       DEF AtLeast, SchemaInv, Made, Unmade, ToDrop, AtEnd, False
<1>15. Together'
  BY <1>3, <1>5 DEF Together, SchemaInv, Whole
<1>16. QED
  BY <1>12, <1>13, <1>14, <1>15 DEF SchemaInv

\* What a revision has yet to make once a statement has been run; the
\* indexes of a table that has come are among it.
LEMMA RestShrinks ==
    ASSUME NEW r \in Release, job.rev = r, ~AtEnd(job), job.at \in 1..Len(Chain[r]),
           \/ job'.rev = r /\ job'.at = job.at + 1 /\ job'.last = job.last
           \/ job.at = Len(Chain[r])
    PROVE  LET t == Chain[r][job.at] IN
           /\ Rest(job) \subseteq {t} \cup Rest(job')
           /\ IndexesOf(t) \subseteq Rest(job')
<1> DEFINE L == Len(Chain[r])
           t == Chain[r][job.at]
           after == {Chain[r][i] : i \in (job.at + 1)..L}
<1>1. L \in Nat /\ job.at..L = {job.at} \cup ((job.at + 1)..L)
  BY Lengths
<1>2. Rest(job) = {t} \cup after
  BY <1>1 DEF Rest
<1>3. IndexesOf(t) \subseteq after
  BY IndexesCome
<1>4. CASE job'.rev = r /\ job'.at = job.at + 1 /\ job'.last = job.last
  <2>1. Rest(job') = after
    BY <1>4 DEF Rest, AtEnd
  <2>2. QED
    BY <1>2, <1>3, <2>1
<1>5. CASE job.at = L
  <2>1. after = {}
    BY <1>1, <1>5
  <2>2. QED
    BY <1>2, <1>3, <2>1
<1>6. QED
  BY <1>4, <1>5

LEMMA UpgradeStatement ==
    ASSUME SchemaInv, Statement, job.cmd = "upgrade"
    PROVE  SchemaInv'
<1> DEFINE r == job.rev
           L == Len(Chain[r])
           w == job.work
           d == Effect(Coming(job), w, job.found)
<1>1. SchemaTypes /\ JobStands /\ IsDatabase(w) /\ w.ver = r - 1
  BY DEF SchemaInv, SchemaTypes, JobStands, Statement
<1>2. /\ r \in Release /\ job.at \in 1..(L + 1) /\ L \in Nat
      /\ job'.work = d
      /\ job.at < L + 1 => job'.rev = r /\ job'.at = job.at + 1
      /\ job.at = L + 1 => job'.rev = r + 1 /\ job'.at = 1
  BY <1>1, MovesOn, Scripts, Lengths DEF Script
<1>3. Coming(job) = Upgrade(r)[job.at]
  BY DEF Coming, Script
<1>4. ~strayed => w.has = Made(job)
  BY DEF SchemaInv, InStep
<1>5. /\ ~lied => Made(job) \subseteq w.has
      /\ ~InForceAtOnce =>
            \A u \in w.has : IndexesOf(u) \subseteq w.has \cup Rest(job)
      /\ ~AtEnd(job) /\ job'.cmd = "upgrade"
  BY <1>1, MovesOn DEF SchemaInv, AtLeast, Together, WorkStands, Statement
<1>6. CASE job.at <= L
  <2> DEFINE t == Chain[r][job.at]
  <2>1. job.at \in 1..L /\ job'.rev = r /\ job'.at = job.at + 1
    BY <1>2, <1>6
  <2>2. d = [has |-> w.has \cup {t}, ver |-> w.ver]
    <3>1. Coming(job) = Make(t)
      BY <1>2, <1>3, <2>1, Scripts
    <3> HIDE DEF t
    <3>2. Effect(Make(t), w, job.found) = [has |-> w.has \cup {t}, ver |-> w.ver]
      BY <1>1, Effects
    <3>3. QED
      BY <3>1, <3>2
  <2>3. Made(job') = Made(job) \cup {t}
    <3>1. job'.at - 1 = job.at
      BY <2>1
    <3>2. Made(job') = Needs(r - 1) \cup Part(r, job.at)
      BY <2>1, <3>1 DEF Made
    <3>3. QED
      BY <1>2, <2>1, <3>2, MadeGrows DEF Made
  <2>4. IsDatabase(d)
    BY <1>1, <2>2 DEF IsDatabase
  <2>5. d.ver = job'.rev - 1 /\ d.has = w.has \cup {t}
    BY <1>1, <2>1, <2>2
  <2>6. Rest(job) \subseteq {t} \cup Rest(job') /\ IndexesOf(t) \subseteq Rest(job')
    BY <1>1, <1>2, <1>5, <2>1, MovesOn, RestShrinks
  <2> HIDE DEF t, d
  <2>7. ~InForceAtOnce => WorkStands'
    BY <1>2, <1>5, <2>5, <2>6 DEF WorkStands
  <2>8. QED
    BY <1>2, <1>4, <1>5, <2>3, <2>4, <2>5, <2>7, StatementKeeps
<1>7. CASE job.at = L + 1
  <2>1. job'.rev = r + 1 /\ job'.at = 1
    BY <1>2, <1>7
  <2>2. d = [has |-> w.has, ver |-> r]
    <3>1. Coming(job) = Stamp(r)
      BY <1>2, <1>3, <1>7, Scripts
    <3>2. Effect(Stamp(r), w, job.found) = [has |-> w.has, ver |-> r]
      BY <1>1, EffectOfStamp
    <3>3. QED
      BY <3>1, <3>2
  <2>3. Made(job') = Made(job)
    <3>1. (r + 1) - 1 = r /\ 1 - 1 = 0 /\ (L + 1) - 1 = L
      BY <1>2, ChainIs
    <3>2. Made(job') = Needs(r) \cup Part(r + 1, 0)
      BY <2>1, <3>1 DEF Made
    <3>3. Made(job) = Needs(r - 1) \cup Part(r, L)
      BY <1>7, <3>1 DEF Made
    <3>4. QED
      BY <1>2, <3>2, <3>3, MadeGrows
  <2>4. IsDatabase(d)
    BY <1>2, <2>2, ChainIs DEF IsDatabase
  <2>5. d.ver = job'.rev - 1 /\ d.has = w.has
    BY <1>2, <2>1, <2>2, ChainIs
  <2>6. Rest(job) = {}
    BY <1>2, <1>7 DEF Rest
  <2> HIDE DEF d
  <2>7. ~InForceAtOnce => WorkStands'
    BY <1>2, <1>5, <2>5, <2>6 DEF WorkStands
  <2>8. QED
    BY <1>2, <1>4, <1>5, <2>3, <2>4, <2>5, <2>7, StatementKeeps
<1>8. QED
  BY <1>2, <1>6, <1>7

LEMMA DowngradeStatement ==
    ASSUME SchemaInv, Statement, job.cmd = "downgrade"
    PROVE  SchemaInv'
<1> DEFINE r == job.rev
           M == Len(Dropped(r))
           w == job.work
           d == Effect(Coming(job), w, job.found)
           k == M + 1 - job.at
<1>1. /\ SchemaTypes /\ JobStands /\ ~AtEnd(job)
      /\ IsDatabase(w) /\ w.ver = job.last
      /\ job.last \in Release /\ r >= job.last /\ r \in 1..(job.last + 1)
  BY DEF SchemaInv, SchemaTypes, JobStands, Statement
<1>2. /\ r \in Release /\ job.at \in 1..(M + 1) /\ M \in Nat
      /\ job'.work = d /\ job'.last = job.last /\ job'.cmd = "downgrade"
      /\ job.at < M + 1 => job'.rev = r /\ job'.at = job.at + 1
      /\ job.at = M + 1 => job'.rev = r + 1 /\ job'.at = 1
  BY <1>1, MovesOn, Scripts, DroppedIs DEF Script
<1>3. job.last = r
  BY <1>1, <1>2, ChainIs DEF AtEnd
<1>4. Coming(job) = Downgrade(r)[job.at]
  BY DEF Coming, Script
<1>5. /\ ~strayed => w.has = Unmade(job)
      /\ ~lied => Unmade(job) \subseteq w.has
      /\ ~InForceAtOnce =>
            \A u \in w.has : IndexesOf(u) \subseteq w.has \/ u \in Part(r, ToDrop(job))
  BY <1>3 DEF SchemaInv, InStep, AtLeast, Together, WorkStands
<1>6. ToDrop(job) = k /\ Unmade(job) = Needs(r - 1) \cup Kept(r, k)
  BY <1>1, <1>3 DEF Unmade, ToDrop
<1>7. CASE job.at <= M
  <2> DEFINE t == Dropped(r)[k]
  <2>1. /\ job.at \in 1..M /\ k \in 1..M /\ M + 1 - k = job.at
        /\ job'.rev = r /\ job'.at = job.at + 1
        /\ M + 1 - job'.at = k - 1
    <3>1. job.at \in Nat /\ job.at >= 1 /\ job.at < M + 1
      BY <1>2, <1>7
    <3>2. job'.rev = r /\ job'.at = job.at + 1
      BY <1>2, <3>1
    <3> HIDE DEF M
    <3>3. QED
      BY <1>2, <1>7, <3>1, <3>2
  <2>2. d = [has |-> w.has \ ({t} \cup PartsOf(t)), ver |-> w.ver]
    <3>1. Coming(job) = Drop(t)
      BY <1>2, <1>4, <2>1, Scripts
    <3> HIDE DEF t
    <3>2. Effect(Drop(t), w, job.found) =
             [has |-> w.has \ ({t} \cup PartsOf(t)), ver |-> w.ver]
      BY <1>1, Effects
    <3>3. QED
      BY <3>1, <3>2
  <2>3. ~AtEnd(job')
    <3>1. job'.rev = r /\ job'.last = r /\ r \in 1..5
      BY <1>2, <1>3, <2>1, ChainIs
    <3>2. QED
      BY <3>1 DEF AtEnd
  <2>4. ToDrop(job') = k - 1 /\ Unmade(job') = Needs(r - 1) \cup Kept(r, k - 1)
    BY <1>2, <1>3, <2>1, <2>3 DEF Unmade, ToDrop
  <2>5. Unmade(job') = Unmade(job) \ ({t} \cup PartsOf(t))
    <3>1. /\ Kept(r, k - 1) = Kept(r, k) \ ({t} \cup PartsOf(t))
          /\ ({t} \cup PartsOf(t)) \cap Needs(r - 1) = {}
      BY <1>2, <2>1, KeptShrinks
    <3>2. QED
      BY <1>6, <2>4, <3>1
  <2>6. /\ d.has = w.has \ ({t} \cup PartsOf(t)) /\ d.ver = job.last
        /\ IsDatabase(d)
    BY <1>1, <2>2 DEF IsDatabase
  <2>7. ASSUME ~InForceAtOnce, NEW u \in d.has
        PROVE  IndexesOf(u) \subseteq d.has \/ u \in Part(r, k - 1)
    <3>1. u \in w.has /\ u # t
      BY <2>6, <2>7
    <3>2. t = Chain[r][k] /\ k \in 1..Len(Chain[r])
      <4>1. \A i \in 1..M : Dropped(r)[i] = Chain[r][i]
        BY <1>2, DroppedIs
      <4>2. M \in 1..Len(Chain[r]) /\ Len(Chain[r]) \in Nat
        BY <1>2, DroppedIs, Lengths
      <4> HIDE DEF M, k
      <4>3. QED
        BY <2>1, <4>1, <4>2
    <3>3. Part(r, k) = Part(r, k - 1) \cup {t}
      <4>1. k - 1 \in Nat /\ (k - 1) + 1 = k
        BY <2>1
      <4>2. Part(r, (k - 1) + 1) = Part(r, k - 1) \cup {Chain[r][(k - 1) + 1]}
        BY <4>1, PartGrows
      <4>3. QED
        BY <3>2, <4>1, <4>2
    <3>4. CASE u \in Part(r, k)
      BY <3>1, <3>3, <3>4
    <3>5. CASE IndexesOf(u) \subseteq w.has
      <4>1. CASE t \notin IndexesOf(u)
        <5>1. IndexesOf(u) \cap PartsOf(t) = {}
          BY <3>1, PartOfOne DEF PartsOf
        <5>2. QED
          BY <2>6, <3>5, <4>1, <5>1
      <4>2. CASE t \in IndexesOf(u)
        <5>1. u \in Part(r, k - 1)
          BY <1>2, <3>2, <4>2, TableBefore
        <5>2. QED
          BY <5>1
      <4>3. QED
        BY <4>1, <4>2
    <3>6. QED
      BY <1>5, <1>6, <2>7, <3>1, <3>4, <3>5
  <2> HIDE DEF t, d, k
  <2>8. ~InForceAtOnce => WorkStands'
    BY <1>2, <1>3, <2>4, <2>7 DEF WorkStands
  <2>9. QED
    BY <1>1, <1>2, <1>5, <2>1, <2>3, <2>5, <2>6, <2>8, StatementKeeps
<1>8. CASE job.at = M + 1
  <2>1. job'.rev = r + 1 /\ job'.at = 1
    BY <1>2, <1>8
  <2>2. AtEnd(job') /\ job'.rev >= job'.last
    BY <1>2, <1>3, <2>1, ChainIs DEF AtEnd
  <2>3. d = [has |-> w.has, ver |-> r - 1]
    <3>1. Coming(job) = Stamp(r - 1)
      BY <1>2, <1>4, <1>8, Scripts
    <3>2. Effect(Stamp(r - 1), w, job.found) = [has |-> w.has, ver |-> r - 1]
      BY <1>1, EffectOfStamp
    <3>3. QED
      BY <3>1, <3>2
  <2>4. k = 0 /\ ToDrop(job') = ToDrop(job) /\ Unmade(job') = Unmade(job)
    <3>1. k = 0
      BY <1>2, <1>8
    <3>2. QED
      BY <1>2, <1>3, <1>6, <2>2, <3>1 DEF Unmade, ToDrop
  <2>5. IsDatabase(d)
    BY <1>2, <2>3, ChainIs DEF IsDatabase
  <2>6. d.ver = job'.last - 1 /\ d.has = w.has
    BY <1>2, <1>3, <2>3
  <2> HIDE DEF d
  <2>7. ~InForceAtOnce => WorkStands'
    BY <1>2, <1>3, <1>5, <2>4, <2>6 DEF WorkStands
  <2>8. QED
    BY <1>2, <1>5, <2>2, <2>4, <2>5, <2>6, <2>7, StatementKeeps
<1>9. QED
  BY <1>2, <1>7, <1>8

LEMMA CreateStatement ==
    ASSUME SchemaInv, Statement, job.cmd = "create_all"
    PROVE  SchemaInv'
<1> DEFINE r == job.rev
           L == Len(Chain[r])
           w == job.work
           t == Chain[r][job.at]
           d == Effect(Coming(job), w, job.found)
<1>1. /\ SchemaTypes /\ JobStands /\ IsDatabase(w) /\ ~AtEnd(job)
      /\ job.found \subseteq w.has
  BY DEF SchemaInv, SchemaTypes, JobStands, Statement
<1>2. /\ r \in Release /\ job.at \in 1..L /\ L \in Nat
      /\ job'.work = d /\ job'.found = job.found /\ job'.cmd = "create_all"
      /\ job'.last = job.last
      /\ job.at < L => job'.rev = r /\ job'.at = job.at + 1
      /\ job.at = L => job'.rev = r + 1 /\ job'.at = 1
  BY <1>1, MovesOn, Scripts, Lengths DEF Script
<1>3. Coming(job) = Ensure(t)
  BY <1>2, Scripts DEF Coming, Script
<1>4. d = [has |-> w.has \cup Missing(t, job.found), ver |-> w.ver]
  <2> HIDE DEF t
  <2>1. IsDatabase(w)
    BY <1>1
  <2>2. Effect(Ensure(t), w, job.found) =
           [has |-> w.has \cup Missing(t, job.found), ver |-> w.ver]
    BY <2>1, EffectOfEnsure
  <2>3. QED
    BY <1>3, <2>2
<1>5. d.has = w.has \cup Missing(t, job.found) /\ d.ver = w.ver /\ IsDatabase(d)
  BY <1>1, <1>4 DEF IsDatabase
<1>6. {t} \ Parts \subseteq d.has
  BY <1>1, <1>5 DEF Missing, Parts, Indexes, Columns
<1>7. Made(job') = Made(job) \cup {t}
  <2>1. Made(job) \cup {t} = Needs(r - 1) \cup Part(r, job.at)
    BY <1>2, MadeGrows DEF Made
  <2>2. CASE job.at < L
    <3>1. (job.at + 1) - 1 = job.at
      BY <1>2
    <3>2. QED
      BY <1>2, <2>1, <2>2, <3>1 DEF Made
  <2>3. CASE job.at = L
    <3>1. (r + 1) - 1 = r /\ 1 - 1 = 0
      BY <1>2, ChainIs
    <3>2. Made(job') = Needs(r) \cup Part(r + 1, 0)
      BY <1>2, <2>3, <3>1 DEF Made
    <3>3. QED
      BY <1>2, <2>1, <2>3, <3>2, MadeGrows
  <2>4. QED
    BY <1>2, <2>2, <2>3
<1>8. Made(job) \ Parts \subseteq w.has /\ (~lied => ~False(w))
  BY DEF SchemaInv, AtLeast
<1>9. Rest(job) \subseteq {t} \cup Rest(job') /\ IndexesOf(t) \subseteq Rest(job')
  BY <1>1, <1>2, RestShrinks
<1>10. /\ ~InForceAtOnce =>
            /\ Whole(job.found)
            /\ \A u \in w.has : IndexesOf(u) \subseteq w.has \cup Rest(job)
  BY DEF SchemaInv, Together, WorkStands
<1>11. ASSUME ~InForceAtOnce, NEW u \in d.has
       PROVE  IndexesOf(u) \subseteq d.has \cup Rest(job')
  <2>1. t \in d.has \/ t \in Columns
    BY <1>1, <1>5, <1>10, <1>11 DEF Missing, Whole
  <2>2. t \in Columns => t \notin IndexesOf(u)
    BY DEF Columns, IndexesOf
  <2>3. CASE u \in w.has
    BY <1>5, <1>9, <1>10, <1>11, <2>1, <2>2, <2>3
  <2>4. CASE u \notin w.has
    <3>1. u = t \/ u \in ColumnOf(t)
      BY <1>5, <2>4 DEF Missing
    <3>2. u \in ColumnOf(t) => IndexesOf(u) = {}
      BY PartsBehind DEF PartsOf
    <3>3. QED
      BY <1>9, <3>1, <3>2
  <2>5. QED
    BY <2>3, <2>4
<1> HIDE DEF t, d
<1>12. Made(job') \ Parts \subseteq d.has
  BY <1>5, <1>6, <1>7, <1>8
<1>13. ~lied => ~False(d)
  BY <1>5, <1>8 DEF False
<1>14. ~InForceAtOnce => WorkStands'
  BY <1>2, <1>10, <1>11 DEF WorkStands
<1>15. job'.found \subseteq d.has
  BY <1>1, <1>2, <1>5
<1>16. QED
  BY <1>2, <1>5, <1>12, <1>13, <1>14, <1>15, StatementKeeps

LEMMA StatementInv == SchemaInv /\ Statement => SchemaInv'
<1>1. SchemaInv /\ Statement
         => job.cmd \in {"upgrade", "downgrade", "create_all"}
  BY DEF SchemaInv, SchemaTypes, JobStands, Statement
<1>2. QED
  BY <1>1, UpgradeStatement, DowngradeStatement, CreateStatement

\* A command that has failed: what it did is undone where it was not in
\* force, and the backend falls back.
LEMMA FailsInv ==
    ASSUME SchemaInv, job # NoJob, NEW cause \in BOOLEAN, Fails(cause),
           ~strayed /\ ~cause => Sound(database, proc'),
           ~lied /\ ~cause => ~False(database)
    PROVE  SchemaInv'
<1>1. SchemaTypes /\ JobStands
  BY DEF SchemaInv, SchemaTypes
<1>2. /\ release \in Release /\ IsDatabase(database)
      /\ strayed \in BOOLEAN /\ lied \in BOOLEAN
  BY <1>1 DEF SchemaTypes
<1>3. Leaves(database, IF job' = NoJob THEN "down" ELSE proc, cause)
  BY DEF Fails
<1>4. UNCHANGED <<dialect, release>>
  BY DEF Fails
<1>5. /\ database' = database
      /\ proc' = IF job' = NoJob THEN "down" ELSE proc
      /\ strayed' \in BOOLEAN /\ lied' \in BOOLEAN
      /\ ~strayed' => Sound(database, proc')
      /\ ~lied' => ~False(database)
  BY <1>3 DEF Leaves
<1>6. ~InForceAtOnce => Whole(database.has)
  BY DEF SchemaInv, Together
<1>7. CASE job.by = "backend"
  <2>1. job' = Fallback
    BY <1>7 DEF Fails
  <2>2. job'.cmd = "create_all"
    BY <2>1 DEF Fallback, Begin
  <2>3. job' # NoJob
    BY <2>2 DEF NoJob
  <2>4. proc' = "starting"
    BY <1>1, <1>5, <1>7, <2>3 DEF JobStands
  <2>5. QED
    BY <1>2, <1>4, <1>5, <1>6, <2>1, <2>4, FallsBack DEF Sound
<1>8. CASE job.by # "backend"
  <2>1. job' = NoJob /\ proc' = "down"
    BY <1>5, <1>8 DEF Fails
  <2>2. IsDatabase(database)'
    BY <1>2, <1>5 DEF IsDatabase
  <2>3. QED
    BY <1>2, <1>4, <1>5, <1>6, <2>1, <2>2, JobOver DEF Sound
<1>9. QED
  BY <1>7, <1>8

\* A statement of an upgrade fails on what has strayed only, and one of a
\* downgrade on what is not there although its revision is recorded.
LEMMA FailsOnStrayed ==
    ASSUME SchemaInv, StatementFails
    PROVE  strayed /\ (job.cmd = "downgrade" => lied)
<1> DEFINE r == job.rev
           L == Len(Chain[r])
           M == Len(Dropped(r))
           w == job.work
<1>1. /\ SchemaTypes /\ JobStands /\ ~AtEnd(job)
      /\ job.cmd \in {"upgrade", "downgrade"}
      /\ ~Possible(Coming(job), w)
      /\ strayed \in BOOLEAN /\ lied \in BOOLEAN
  BY DEF SchemaInv, SchemaTypes, JobStands, StatementFails
<1>2. r \in Release /\ L \in Nat /\ M \in Nat
  <2>1. r \in Release
    BY <1>1, ChainIs DEF JobStands, AtEnd
  <2>2. QED
    BY <2>1, Lengths, DroppedIs
<1>3. CASE job.cmd = "upgrade"
  <2>1. Coming(job) = Upgrade(r)[job.at]
    BY <1>3 DEF Coming, Script
  <2>2. job.at \in 1..(L + 1)
    BY <1>1, <1>2, <1>3, Scripts DEF JobStands, Script
  <2>3. CASE job.at = L + 1
    <3>1. Coming(job) = Stamp(r)
      BY <1>2, <2>1, <2>3, Scripts
    <3>2. QED
      BY <1>1, <3>1, CanRun
  <2>4. CASE job.at \in 1..L
    <3> DEFINE t == Chain[r][job.at]
    <3>1. Coming(job) = Make(t)
      BY <1>2, <2>1, <2>4, Scripts
    <3>2. /\ t \notin Made(job)
          /\ t \in Parts => \E u \in Made(job) : t \in PartsOf(u)
      BY <1>2, <2>4, Ahead DEF Made
    <3>3. ~strayed => w.has = Made(job)
      BY <1>3 DEF SchemaInv, InStep
    <3> HIDE DEF t
    <3>4. ~(/\ t \notin w.has
            /\ t \in Parts => \E u \in w.has : t \in PartsOf(u))
      BY <1>1, <3>1, CanRun
    <3>5. QED
      BY <1>1, <1>3, <3>2, <3>3, <3>4
  <2>5. QED
    BY <1>2, <2>2, <2>3, <2>4
<1>4. CASE job.cmd = "downgrade"
  <2>1. Coming(job) = Downgrade(r)[job.at]
    BY <1>4 DEF Coming, Script
  <2>2. job.at \in 1..(M + 1)
    BY <1>1, <1>2, <1>4, Scripts DEF JobStands, Script
  <2>3. CASE job.at = M + 1
    <3>1. Coming(job) = Stamp(r - 1)
      BY <1>2, <2>1, <2>3, Scripts
    <3>2. QED
      BY <1>1, <3>1, CanRun
  <2>4. CASE job.at \in 1..M
    <3> DEFINE k == M + 1 - job.at
               t == Dropped(r)[k]
    <3>1. k \in 1..M
      <4> HIDE DEF M
      <4>1. QED
        BY <1>2, <2>4
    <3>2. Coming(job) = Drop(t)
      BY <1>2, <2>1, <2>4, Scripts
    <3>3. job.last = r
      BY <1>1, <1>2, <1>4, ChainIs DEF JobStands, AtEnd
    <3>4. t \in Unmade(job)
      <4>1. t \in Kept(r, k)
        BY <1>2, <3>1, KeptShrinks
      <4>2. ToDrop(job) = k
        BY <1>1, <3>3 DEF ToDrop
      <4>3. QED
        BY <3>3, <4>1, <4>2 DEF Unmade
    <3> HIDE DEF t
    <3>5. t \notin w.has
      BY <1>1, <3>2, CanRun
    <3>6. /\ ~strayed => w.has = Unmade(job)
          /\ ~lied => Unmade(job) \subseteq w.has
      BY <1>4 DEF SchemaInv, InStep, AtLeast
    <3>7. QED
      BY <1>1, <3>4, <3>5, <3>6
  <2>5. QED
    BY <1>2, <2>2, <2>3, <2>4
<1>5. QED
  BY <1>1, <1>3, <1>4

LEMMA StatementFailsInv == SchemaInv /\ StatementFails => SchemaInv'
<1> SUFFICES ASSUME SchemaInv, StatementFails PROVE SchemaInv'
  OBVIOUS
<1>1. strayed /\ (job.cmd = "downgrade" => lied)
  BY FailsOnStrayed
<1>2. /\ SchemaTypes /\ JobStands /\ AtLeast /\ job # NoJob
      /\ job.cmd \in {"upgrade", "downgrade"}
  BY DEF SchemaInv, SchemaTypes, JobStands, StatementFails
<1>3. ~lied => ~False(database)
  <2> SUFFICES ASSUME ~lied PROVE ~False(database)
    OBVIOUS
  <2>1. CASE ~InForceAtOnce
    BY <2>1, <1>2 DEF AtLeast
  <2>2. CASE InForceAtOnce
    <3>1. job.cmd = "upgrade"
      BY <1>1, <1>2
    <3>2. /\ database = job.work /\ job.work.ver = job.rev - 1
          /\ Made(job) \subseteq job.work.has
      BY <1>2, <2>2, <3>1 DEF JobStands, AtLeast
    <3>3. QED
      BY <3>2 DEF False, Made
  <2>3. QED
    BY <2>1, <2>2
<1>4. Fails(FALSE)
  BY DEF StatementFails
<1>5. QED
  BY <1>1, <1>2, <1>3, <1>4, FailsInv

\* A command that has run all its statements.
LEMMA EndsInv == SchemaInv /\ Ends => SchemaInv'
<1> SUFFICES ASSUME SchemaInv, Ends PROVE SchemaInv'
  OBVIOUS
<1> DEFINE w == job.work
           n == job.last
           p == IF job.by = "backend" /\ Seeded \subseteq w.has
                THEN "up" ELSE "down"
<1>1. /\ SchemaTypes /\ JobStands /\ InStep /\ AtLeast
      /\ job # NoJob /\ AtEnd(job) /\ job' = NoJob
      /\ IsDatabase(w) /\ n \in Release
      /\ release \in Release /\ strayed \in BOOLEAN /\ lied \in BOOLEAN
      /\ job.cmd \in {"upgrade", "downgrade", "create_all"}
      /\ Leaves(w, p, job.cmd = "create_all")
  BY DEF SchemaInv, SchemaTypes, JobStands, Ends
<1>2. UNCHANGED <<dialect, release>>
  BY DEF Ends
<1>3. job.rev = n + 1 /\ job.at = 1
  BY <1>1, ChainIs DEF JobStands, AtEnd
<1>4. Made(job) = Needs(n)
  <2>1. (n + 1) - 1 = n /\ 1 - 1 = 0
    BY <1>1, ChainIs
  <2>2. Made(job) = Needs(n) \cup Part(n + 1, 0)
    BY <1>3, <2>1 DEF Made
  <2>3. QED
    BY <1>1, <2>2, MadeGrows
<1>5. Unmade(job) = Needs(n - 1) /\ ToDrop(job) = 0
  BY <1>1, KeptShrinks DEF Unmade, ToDrop
<1>6. ~InForceAtOnce => Whole(w.has)
  <2>1. Rest(job) = {} /\ Part(n, 0) = {}
    BY <1>1, PartGrows DEF Rest
  <2>2. QED
    BY <1>1, <1>5, <2>1 DEF SchemaInv, Together, WorkStands, Whole
<1>7. CASE job.cmd = "create_all"
  <2>1. n = release /\ Needs(release) \ Parts \subseteq w.has
    BY <1>1, <1>4, <1>7 DEF JobStands, AtLeast
  <2>2. ~lied => ~False(w)
    BY <1>1, <1>7 DEF AtLeast
  <2>3. /\ database' = w /\ proc' = p
        /\ strayed' \in BOOLEAN /\ lied' \in BOOLEAN
        /\ ~strayed' => Sound(w, p)
        /\ ~lied' => ~False(w)
    BY <1>1, <1>7 DEF Leaves
  <2> HIDE DEF w
  <2>4. QED
    BY <1>1, <1>2, <1>6, <2>1, <2>3, JobOver DEF IsDatabase
<1>8. CASE job.cmd = "upgrade"
  <2>1. n = release /\ w.ver = release
    BY <1>1, <1>3, <1>8, ChainIs DEF JobStands
  <2>2. ~strayed => Sound(w, p)
    BY <1>1, <1>4, <1>8, <2>1, ChainIs DEF InStep, Sound
  <2>3. ~lied => ~False(w)
    BY <1>1, <1>4, <1>8, <2>1 DEF AtLeast, False
  <2>4. /\ database' = w /\ proc' = p
        /\ strayed' \in BOOLEAN /\ lied' \in BOOLEAN
        /\ ~strayed' => Sound(w, p)
        /\ ~lied' => ~False(w)
    BY <1>1, <1>8, <2>2, <2>3 DEF Leaves
  <2> HIDE DEF w
  <2>5. QED
    BY <1>1, <1>2, <1>6, <2>1, <2>4, JobOver DEF IsDatabase, False
<1>9. CASE job.cmd = "downgrade"
  <2>1. p = "down" /\ w.ver = n - 1
    BY <1>1, <1>9 DEF JobStands
  <2>2. ~strayed => Sound(w, p)
    BY <1>1, <1>5, <1>9, <2>1 DEF InStep, Sound
  <2>3. ~lied => ~False(w)
    BY <1>1, <1>5, <1>9, <2>1 DEF AtLeast, False
  <2>4. /\ database' = w /\ proc' = p
        /\ strayed' \in BOOLEAN /\ lied' \in BOOLEAN
        /\ ~strayed' => Sound(w, p)
        /\ ~lied' => ~False(w)
    BY <1>1, <1>9, <2>2, <2>3 DEF Leaves
  <2> HIDE DEF w
  <2>5. QED
    BY <1>1, <1>2, <1>6, <2>1, <2>4, JobOver DEF IsDatabase
<1>10. QED
  BY <1>1, <1>7, <1>8, <1>9

\* A command that is killed.  What a transaction had done is undone; what was
\* in force is a cause to stray.
LEMMA KillInv == SchemaInv /\ Kill => SchemaInv'
<1> SUFFICES ASSUME SchemaInv, Kill PROVE SchemaInv'
  OBVIOUS
<1>1. /\ SchemaTypes /\ InStep /\ AtLeast /\ job # NoJob /\ job' = NoJob
      /\ release \in Release /\ IsDatabase(database)
      /\ strayed \in BOOLEAN /\ lied \in BOOLEAN
      /\ Leaves(database, "down", InForceAtOnce)
      /\ InForceAtOnce \in BOOLEAN
  BY DEF SchemaInv, SchemaTypes, Kill, InForceAtOnce
<1>2. UNCHANGED <<dialect, release>>
  BY DEF Kill
<1>3. ~strayed /\ ~InForceAtOnce => Sound(database, "down")
  BY <1>1 DEF InStep, Sound
<1>4. ~lied /\ ~InForceAtOnce => ~False(database)
  BY <1>1 DEF AtLeast
<1>5. /\ database' = database /\ proc' = "down"
      /\ strayed' \in BOOLEAN /\ lied' \in BOOLEAN
      /\ ~strayed' => Sound(database, "down")
      /\ ~lied' => ~False(database)
  BY <1>1, <1>3, <1>4 DEF Leaves
<1>6. ~InForceAtOnce => Whole(database.has)
  BY DEF SchemaInv, Together
<1>7. QED
  BY <1>1, <1>2, <1>5, <1>6, JobOver DEF IsDatabase, Sound

\* The start of the backend.
LEMMA BootInv == SchemaInv /\ Boot => SchemaInv'
<1> SUFFICES ASSUME SchemaInv, Boot PROVE SchemaInv'
  OBVIOUS
<1>1. /\ job = NoJob /\ proc' = "starting"
      /\ UNCHANGED <<dialect, release, database, strayed, lied>>
  BY DEF Boot
<1>2. CASE database.ver <= release
  <2>1. job' = Begin("backend", "upgrade", database.ver + 1, release)
    BY <1>2 DEF Boot
  <2>2. QED
    BY <1>1, <1>2, <2>1, UpgradeBegins
<1>3. CASE ~(database.ver <= release)
  <2>1. job' = Fallback
    BY <1>3 DEF Boot
  <2>2. /\ release \in Release /\ IsDatabase(database)
        /\ strayed \in BOOLEAN /\ lied \in BOOLEAN
        /\ ~strayed => database.has = Needs(database.ver)
        /\ ~lied => ~False(database)
        /\ ~InForceAtOnce => Whole(database.has)
    BY <1>1 DEF SchemaInv, SchemaTypes, InStep, AtLeast, Together, Sound
  <2>3. QED
    BY <1>1, <2>1, <2>2, FallsBack
<1>4. QED
  BY <1>2, <1>3

\* What the operator does: he deploys, stamps and stops.
LEMMA OperatorInv ==
    ASSUME SchemaInv,
           (\E n \in Release : Deploy(n)) \/ StampCommand \/ StopBackend
    PROVE  SchemaInv'
<1>1. /\ SchemaTypes /\ InStep /\ AtLeast
      /\ release \in Release /\ IsDatabase(database)
      /\ strayed \in BOOLEAN /\ lied \in BOOLEAN
      /\ ~InForceAtOnce => Whole(database.has)
  BY DEF SchemaInv, SchemaTypes, Together
<1>2. ASSUME NEW n \in Release, Deploy(n)
      PROVE  SchemaInv'
  <2>1. /\ release' = n /\ proc = "down" /\ job = NoJob
        /\ UNCHANGED <<dialect, database, proc, job, strayed, lied>>
    BY <1>2 DEF Deploy, Chore
  <2>2. job.cmd = "none"
    BY <2>1 DEF NoJob
  <2>3. SchemaTypes'
    BY <1>1, <2>1 DEF SchemaTypes, IsDatabase
  <2>4. InStep'
    BY <1>1, <2>1, <2>2 DEF InStep, Sound
  <2>5. AtLeast'
    BY <1>1, <2>1, <2>2 DEF AtLeast, False
  <2>6. Together'
    BY <1>1, <2>1, <2>2 DEF Together, WorkStands, InForceAtOnce, Whole
  <2>7. QED
    BY <2>3, <2>4, <2>5, <2>6 DEF SchemaInv
<1>3. ASSUME StampCommand PROVE SchemaInv'
  <2> DEFINE d == [database EXCEPT !.ver = release]
  <2>1. /\ job' = NoJob /\ proc = "down" /\ Leaves(d, proc, TRUE)
        /\ UNCHANGED <<dialect, release>>
    BY <1>3 DEF StampCommand, Chore
  <2>2. d = [has |-> database.has, ver |-> release]
    BY <1>1 DEF IsDatabase
  <2>3. IsDatabase(d)
    BY <1>1, <2>2, ChainIs DEF IsDatabase
  <2>4. /\ database' = d /\ proc' = "down"
        /\ strayed' \in BOOLEAN /\ lied' \in BOOLEAN
        /\ ~strayed' => Sound(d, "down")
        /\ ~lied' => ~False(d)
        /\ ~InForceAtOnce => Whole(d.has)
    BY <1>1, <2>1, <2>2 DEF Leaves
  <2> HIDE DEF d
  <2>5. QED
    BY <1>1, <2>1, <2>3, <2>4, JobOver DEF IsDatabase
<1>4. ASSUME StopBackend PROVE SchemaInv'
  <2>1. /\ proc = "up" /\ proc' = "down"
        /\ UNCHANGED <<dialect, release, database, job, strayed, lied>>
    BY <1>4 DEF StopBackend
  <2>2. job = NoJob
    BY <1>1, <2>1 DEF SchemaTypes, JobStands
  <2>3. (~strayed => Sound(database, "down")) /\ (~lied => ~False(database))
    BY <1>1, <2>2 DEF InStep, AtLeast, Sound
  <2>4. QED
    BY <1>1, <2>1, <2>2, <2>3, JobOver DEF IsDatabase
<1>5. QED
  BY <1>2, <1>3, <1>4

LEMMA UpgradeCommandInv == SchemaInv /\ UpgradeCommand => SchemaInv'
<1> SUFFICES ASSUME SchemaInv, UpgradeCommand PROVE SchemaInv'
  OBVIOUS
<1>1. /\ job = NoJob /\ proc' = "down" /\ database.ver <= release
      /\ job' = Begin("operator", "upgrade", database.ver + 1, release)
      /\ UNCHANGED <<dialect, release, database, strayed, lied>>
  BY DEF UpgradeCommand, Chore
<1>2. QED
  BY <1>1, UpgradeBegins

LEMMA OutsideInv == SchemaInv /\ FailsFromOutside => SchemaInv'
<1>1. FailsFromOutside => job # NoJob /\ Fails(TRUE)
  BY DEF FailsFromOutside
<1>2. QED
  BY <1>1, FailsInv

\* Every step, and none.
LEMMA SchemaStep == SchemaInv /\ [SchemaNext]_schemaVars => SchemaInv'
<1> SUFFICES ASSUME SchemaInv, [SchemaNext]_schemaVars PROVE SchemaInv'
  OBVIOUS
<1>1. CASE Boot
  BY <1>1, BootInv
<1>2. CASE Statement
  BY <1>2, StatementInv
<1>3. CASE StatementFails
  BY <1>3, StatementFailsInv
<1>4. CASE Ends
  BY <1>4, EndsInv
<1>5. CASE FailsFromOutside
  BY <1>5, OutsideInv
<1>6. CASE Kill
  BY <1>6, KillInv
<1>7. CASE (\E n \in Release \ {release} : Deploy(n)) \/ StampCommand \/ StopBackend
  <2>1. (\E n \in Release : Deploy(n)) \/ StampCommand \/ StopBackend
    BY <1>7
  <2>2. QED
    BY <2>1, OperatorInv
<1>8. CASE UpgradeCommand
  BY <1>8, UpgradeCommandInv
<1>9. CASE DowngradeCommand
  BY <1>9, DowngradeBegins
<1>10. CASE UNCHANGED schemaVars
  BY <1>10 DEF schemaVars, SchemaInv, SchemaTypes, JobStands, InStep, AtLeast,
               IsJob, IsDatabase, InForceAtOnce, Made, Unmade, AtEnd, Sound, False,
               Together, WorkStands, Whole, Rest, ToDrop
<1>11. QED
  BY <1>1, <1>2, <1>3, <1>4, <1>5, <1>6, <1>7, <1>8, <1>9, <1>10 DEF SchemaNext

-------------------------------------------------------------------------------
(* What the migrations promise.                                            *)

\* The invariant holds in every state of every behaviour, whatever the bounds
\* on faults and chores.
THEOREM SchemaInvariance == SchemaSpec => []SchemaInv
BY SchemaStart, SchemaStep, PTL DEF SchemaSpec

\* The schema leaves its revision by a known cause only: while no process was
\* killed on SQLite, no start fell back to create_all and no revision was
\* stamped by hand, it is the one its revision names, and a backend that is up
\* has at least the revision of its release (db/init.py:55-78).
THEOREM StraysOnlyByCause == SchemaSpec => []StraysByCauseOnly
<1>1. SchemaInv => StraysByCauseOnly
  BY DEF SchemaInv, SchemaTypes, InStep, StraysByCauseOnly
<1>2. QED
  BY <1>1, SchemaInvariance, PTL

\* What a recorded revision made is there and a backend that is up finds every
\* table of its release, unless a revision was stamped that was not there or a
\* downgrade was killed on SQLite; and on PostgreSQL it finds the indexes of
\* these tables too, so that a column is all it can lack (db/init.py:75-78).
THEOREM MissesNoTable == SchemaSpec => []LacksNoTable
<1>1. SchemaInv => LacksNoTable
  <2> SUFFICES ASSUME SchemaInv, job = NoJob, ~lied PROVE LacksNoTable
    BY DEF LacksNoTable
  <2>1. /\ Needs(database.ver) \subseteq database.has
        /\ proc = "up" => Needs(release) \ database.has \subseteq Parts
        /\ ~InForceAtOnce => Whole(database.has)
        /\ release \in Release
    BY DEF SchemaInv, SchemaTypes, AtLeast, Together, False
  <2>2. ASSUME proc = "up", ~InForceAtOnce, NEW x \in Needs(release) \ database.has
        PROVE  x \in Columns
    <3> SUFFICES ASSUME x \notin Columns PROVE FALSE
      OBVIOUS
    <3>1. PICK u : x \in IndexesOf(u)
      BY <2>1, <2>2, PartHasTable
    <3>2. u \in Needs(release)
      BY <2>1, <2>2, <3>1, TableNeeded
    <3>3. u \notin Parts
      BY <3>1, PartOfNoPart DEF PartsOf
    <3>4. u \in database.has
      BY <2>1, <2>2, <3>2, <3>3
    <3>5. QED
      BY <2>1, <2>2, <3>1, <3>4 DEF Whole
  <2>3. QED
    BY <2>1, <2>2 DEF LacksNoTable
<1>2. QED
  BY <1>1, SchemaInvariance, PTL
===============================================================================
