------------------------------- MODULE Uploads -------------------------------
(***************************************************************************)
(* Attachments: the file on disk, its row, the sweep at start, and the     *)
(* send that forwards them to Dify (backend/app/files/router.py,           *)
(* files/cleanup.py, _resolve_files and send_message in chat/router.py).   *)
(*                                                                         *)
(* The file is written chunk by chunk with other requests in between, then *)
(* its row is committed.  The sweep has no await, so it is one step; it    *)
(* runs once after every start, at a moment the model leaves open.         *)
(***************************************************************************)
EXTENDS Naturals, SequencesExt

CONSTANTS
    User, File,
    NONE,
    MaxSends,   \* bound: sends, of all users
    MaxStarts,  \* bound: restarts
    MaxFiles    \* bound: file ids in one send

ASSUME UploadsAssumption ==
    /\ {MaxSends, MaxStarts, MaxFiles} \subseteq Nat
    /\ NONE \notin User

VARIABLES
    disk,       \* [File -> {"none", "part", "whole"}]: the upload volume
    aged,       \* files not written to for UPLOAD_TTL_DAYS
    owner,      \* [File -> User \cup {NONE}]: user_id of the upload_files rows
    upload,     \* [File -> Upload]: the request that writes the file
    send,       \* [User -> Send]: the send in progress
    taken,      \* files Dify has accepted
    questions,  \* the questions stored: what was asked for, what is recorded
    up, sweep,  \* is the process running, is its sweep still to run?
    sends, starts

fileVars == <<disk, aged, owner, upload>>
sendVars == <<send, taken, questions, sends>>
vars == <<fileVars, sendVars, up, sweep, starts>>

New == [phase |-> "new", by |-> NONE]

\* What a send holds: the list it was given, the rows it has read, and the
\* metadata so far.
Idle == [phase |-> "idle", asked |-> <<>>, rows |-> {}, meta |-> <<>>]

Init ==
    /\ disk = [f \in File |-> "none"] /\ aged = {}
    /\ owner = [f \in File |-> NONE] /\ upload = [f \in File |-> New]
    /\ send = [u \in User |-> Idle] /\ taken = {} /\ questions = {}
    /\ up = TRUE /\ sweep = TRUE /\ sends = 0 /\ starts = 0

-------------------------------------------------------------------------------
(* Faulty variants of the definitions below, for the sensitivity checks.   *)

\* A file that was too large is left where it is.
UnlinkedNot(f) == disk

\* Whoever knows the id may send the file.
ResolvesAny(u, f) == f \in send[u].rows /\ disk[f] # "none"

-------------------------------------------------------------------------------
(* upload_chat_file                                                        *)

To(f, phase) == upload' = [upload EXCEPT ![f].phase = phase]

\* The length and the type are fine: an empty file.
Open(u, f) ==
    /\ up /\ upload[f] = New
    /\ upload' = [upload EXCEPT ![f] = [phase |-> "writing", by |-> u]]
    /\ disk' = [disk EXCEPT ![f] = "part"]
    /\ UNCHANGED <<aged, owner, sendVars, up, sweep, starts>>

Unlinked(f) == [disk EXCEPT ![f] = "none"]

\* More came than was declared: 413.
TooLarge(f) ==
    /\ upload[f].phase = "writing" /\ To(f, "refused")
    /\ disk' = Unlinked(f)
    /\ UNCHANGED <<aged, owner, sendVars, up, sweep, starts>>

\* Any other exception leaves what was written.
WriteFails(f) ==
    /\ upload[f].phase = "writing" /\ To(f, "failed")
    /\ UNCHANGED <<disk, aged, owner, sendVars, up, sweep, starts>>

Close(f) ==
    /\ upload[f].phase = "writing" /\ To(f, "written")
    /\ disk' = [disk EXCEPT ![f] = "whole"]
    /\ UNCHANGED <<aged, owner, sendVars, up, sweep, starts>>

CommitRow(f) ==
    /\ upload[f].phase = "written" /\ To(f, "answered")
    /\ owner' = [owner EXCEPT ![f] = upload[f].by]
    /\ UNCHANGED <<disk, aged, sendVars, up, sweep, starts>>

CommitFails(f) ==
    /\ upload[f].phase = "written" /\ To(f, "failed")
    /\ UNCHANGED <<disk, aged, owner, sendVars, up, sweep, starts>>

-------------------------------------------------------------------------------
(* sweep_expired_uploads                                                   *)

\* Time passes for a file nobody writes to.
Age(f) ==
    /\ disk[f] # "none" /\ upload[f].phase \notin {"writing", "written"}
    /\ f \notin aged /\ aged' = aged \cup {f}
    /\ UNCHANGED <<disk, owner, upload, sendVars, up, sweep, starts>>

Expired == {f \in aged : disk[f] # "none"}

\* A file that cannot be removed is left for the next start; rows stay.
Sweep(removed) ==
    /\ up /\ sweep /\ sweep' = FALSE
    /\ removed \subseteq Expired
    /\ disk' = [f \in File |-> IF f \in removed THEN "none" ELSE disk[f]]
    /\ UNCHANGED <<aged, owner, upload, sendVars, up, starts>>

-------------------------------------------------------------------------------
(* send_message and _resolve_files                                         *)

\* dict.fromkeys: the ids in the order they were given, each once.
Recorded(u) == {m.file : m \in ToSet(send[u].meta)}
Pending(u)  == {i \in DOMAIN send[u].asked : send[u].asked[i] \notin Recorded(u)}
IsNext(u, f) == \E i \in Pending(u) :
                    f = send[u].asked[i] /\ \A k \in Pending(u) : i <= k

\* The gate has let the user through; the rows are read.  A workflow has no
\* attachments, whatever was sent.
Ask(u, asked, workflow) ==
    LET wanted == IF workflow THEN <<>> ELSE asked IN
    /\ up /\ send[u] = Idle /\ sends < MaxSends /\ sends' = sends + 1
    /\ send' = [send EXCEPT ![u] =
                  [phase |-> "files", asked |-> wanted,
                   rows |-> {f \in ToSet(wanted) : owner[f] # NONE}, meta |-> <<>>]]
    /\ UNCHANGED <<fileVars, taken, questions, up, sweep, starts>>

Resolves(u, f) == f \in send[u].rows /\ owner[f] = u /\ disk[f] # "none"

\* The content is read and forwarded; when Dify fails, or its answer is lost,
\* the file is recorded without an id and the send goes on.
Forward(u, f, took, told) ==
    /\ send[u].phase = "files" /\ IsNext(u, f)
    /\ Resolves(u, f) /\ (told => took)
    /\ taken' = IF took THEN taken \cup {f} ELSE taken
    /\ send' = [send EXCEPT ![u].meta =
                  Append(@, [file |-> f, id |-> told, content |-> disk[f]])]
    /\ UNCHANGED <<fileVars, questions, sends, up, sweep, starts>>

\* 404 for a file; or, behind the files, for the conversation, or the commit
\* fails.  What was forwarded stays forwarded.
Refuse(u) ==
    /\ send[u].phase = "files"
    /\ \A f \in File : IsNext(u, f) => ~Resolves(u, f)
    /\ send' = [send EXCEPT ![u] = Idle]
    /\ UNCHANGED <<fileVars, taken, questions, sends, up, sweep, starts>>

\* The question and its conversation are committed before the stream opens.
Store(u) ==
    /\ send[u].phase = "files" /\ Pending(u) = {}
    /\ questions' = questions \cup
          {[user |-> u, asked |-> send[u].asked, meta |-> send[u].meta]}
    /\ send' = [send EXCEPT ![u] = Idle]
    /\ UNCHANGED <<fileVars, taken, sends, up, sweep, starts>>

-------------------------------------------------------------------------------

Stop ==
    /\ up /\ up' = FALSE /\ sweep' = FALSE
    /\ upload' = [f \in File |->
                    IF upload[f].phase \in {"writing", "written"}
                    THEN [upload[f] EXCEPT !.phase = "failed"] ELSE upload[f]]
    /\ send' = [u \in User |-> Idle]
    /\ UNCHANGED <<disk, aged, owner, taken, questions, sends, starts>>

Start ==
    /\ ~up /\ starts < MaxStarts
    /\ up' = TRUE /\ sweep' = TRUE /\ starts' = starts + 1
    /\ UNCHANGED <<fileVars, sendVars>>

Lists == UNION {[1..n -> File] : n \in 0..MaxFiles}

Next ==
    \/ \E f \in File : \/ TooLarge(f) \/ WriteFails(f) \/ Close(f)
                       \/ CommitRow(f) \/ CommitFails(f) \/ Age(f)
                       \/ \E u \in User : Open(u, f)
    \/ \E u \in User : \/ \E asked \in Lists, workflow \in BOOLEAN : Ask(u, asked, workflow)
                       \/ \E f \in File, took, told \in BOOLEAN : Forward(u, f, took, told)
                       \/ Refuse(u) \/ Store(u)
    \/ \E removed \in SUBSET Expired : Sweep(removed)
    \/ Stop \/ Start

Spec == Init /\ [][Next]_vars

-------------------------------------------------------------------------------
(* What attachments promise.                                               *)

\* Disk and table agree as far as no transaction spans them.  A row means a
\* whole file, written before the row, until the file is older than the TTL:
\* no crash, failed write or sweep takes it.  A file without a row is being
\* uploaded, or its upload died on the way; a refused upload leaves nothing
\* (files/router.py:79).
FilesAccounted ==
    \A f \in File :
        IF owner[f] # NONE
        THEN disk[f] = "whole" \/ (f \in aged /\ disk[f] = "none")
        ELSE disk[f] # "none" => upload[f].phase \in {"writing", "written", "failed"}

\* A stored question records each file it was asked to send, once,
\* read whole, and its sender's own, with an id only if Dify took it:
\* no sweep, failed upload or crash among the files leaves a question with
\* some of them (chat/router.py:67).
SendWhole ==
    \A q \in questions :
        /\ \A i, j \in DOMAIN q.meta : q.meta[i].file = q.meta[j].file => i = j
        /\ {m.file : m \in ToSet(q.meta)} = ToSet(q.asked)
        /\ \A m \in ToSet(q.meta) :
              owner[m.file] = q.user /\ m.content = "whole" /\ (m.id => m.file \in taken)
===============================================================================
