---------------------------- MODULE KnowledgeBase ----------------------------
(***************************************************************************)
(* Writes to the knowledge base (backend/app/kb/router.py and the dataset  *)
(* calls of backend/app/dify/client.py): each is a call to Dify, then one  *)
(* local transaction with the audit row and what the database keeps of the *)
(* dataset.  Dify and the database share no transaction: an answer may be  *)
(* lost or come after the request gave up, the commit may fail, and the    *)
(* process may die in between.  The local transactions of requests overlap *)
(* at READ COMMITTED: a DELETE takes the rows that are there when it is    *)
(* executed, and is in force with the commit.                              *)
(*                                                                         *)
(* The ids Dify gives out are random, so a request that creates something  *)
(* carries the id it will get from the start.                              *)
(***************************************************************************)
EXTENDS Naturals, FiniteSets, Sequences, Bags

CONSTANTS
    Admin,      \* administrators at work, one request each at a time
    Dataset, Document,
    Member,     \* principals of user-level grants
    Group,      \* principals that are departments or roles
    NONE,
    MaxAsks     \* bound: requests

ASSUME KnowledgeBaseAssumption ==
    MaxAsks \in Nat /\ Member \cap Group = {}
    /\ NONE \notin Dataset \cup Document \cup Member \cup Group

VARIABLES
    taken,    \* ids of datasets and documents given to requests
    sets,     \* the datasets of Dify
    home,     \* [Document -> Dataset \cup {NONE}]: the documents of Dify
    done,     \* bag of the calls Dify has carried out
    late,     \* calls on their way whose request has ended
    grants,   \* dataset_authorizations: pairs of a principal and a dataset
    audit,    \* kb_audit_logs: the rows in the order of their ids
    broken,   \* bag of the calls whose request ended in a 5xx or a crash
    job,      \* [Admin -> Job]
    asks,     \* requests so far
    crossed   \* history: grants of which an addition and a removal were in
              \* their local transactions at once

upstream == <<taken, sets, home, done, late>>
database == <<grants, audit>>
vars == <<upstream, database, broken, job, asks, crossed>>

Call(a, action, d, item) ==
    [user |-> a, action |-> action, dataset |-> d, item |-> item]

Idle == [phase |-> "idle", call |-> NONE, ok |-> FALSE, took |-> {}]
Calling(c) == [Idle EXCEPT !.phase = "call", !.call = c]

UPSTREAM == {"dataset_create", "dataset_delete", "doc_create", "doc_delete"}

Added(b, c) == b (+) SetToBag({c})

\* Ids that Dify has shown: of what exists and of what was deleted.
Made(d) == \E c \in BagToSet(done) : c.action = "dataset_create" /\ c.dataset = d
MadeDocument(x) == \E c \in BagToSet(done) : c.action = "doc_create" /\ c.item = x

Init ==
    /\ taken = {} /\ sets = {} /\ home = [x \in Document |-> NONE]
    /\ done = EmptyBag /\ late = {}
    /\ grants = {} /\ audit = <<>> /\ broken = EmptyBag
    /\ job = [a \in Admin |-> Idle] /\ asks = 0 /\ crossed = {}

-------------------------------------------------------------------------------
(* Faulty variants of the definitions below, for the sensitivity checks.   *)

\* A status of 400 or more is not looked at.
SucceededAlways(j) == TRUE

\* A grant that is there already is audited all the same.
InsertsAnyway(c) == TRUE

\* The log names another dataset than the one the call was about.
LoggedWithoutDataset(c) == [c EXCEPT !.dataset = NONE]

-------------------------------------------------------------------------------
(* Dify.                                                                   *)

Possible(c) ==
    \/ c.action = "dataset_create"
    \/ c.action = "doc_delete" /\ home[c.item] = c.dataset
    \/ c.action \in {"dataset_delete", "doc_create"} /\ c.dataset \in sets

\* Deleting a dataset deletes its documents.
Effect(c) ==
    /\ sets' = CASE c.action = "dataset_create" -> sets \cup {c.dataset}
                 [] c.action = "dataset_delete" -> sets \ {c.dataset}
                 [] OTHER -> sets
    /\ home' = [x \in Document |->
                  CASE x = c.item /\ c.action = "doc_create" -> c.dataset
                    [] x = c.item /\ c.action = "doc_delete" -> NONE
                    [] c.action = "dataset_delete" /\ home[x] = c.dataset -> NONE
                    [] OTHER -> home[x]]
    /\ done' = Added(done, c)

Serve(a) ==
    LET c == job[a].call IN
    /\ job[a].phase = "call"
    /\ IF Possible(c) THEN Effect(c) ELSE UNCHANGED <<sets, home, done>>
    /\ job' = [job EXCEPT ![a] = [@ EXCEPT !.phase = "told", !.ok = Possible(c)]]
    /\ UNCHANGED <<taken, late, database, broken, asks, crossed>>

\* A call whose request has ended arrives, or never does.
ServeLate(c) ==
    /\ c \in late /\ late' = late \ {c}
    /\ Possible(c) /\ Effect(c)
    /\ UNCHANGED <<taken, database, broken, job, asks, crossed>>

DropLate(c) ==
    /\ c \in late /\ late' = late \ {c}
    /\ UNCHANGED <<taken, sets, home, done, database, broken, job, asks, crossed>>

-------------------------------------------------------------------------------
(* A write that calls Dify.                                                *)

Ask(a, c) ==
    /\ job[a] = Idle /\ asks < MaxAsks
    /\ job' = [job EXCEPT ![a] = Calling(c)] /\ asks' = asks + 1
    /\ UNCHANGED <<sets, home, done, late, database, broken, crossed>>

CreateDataset(a, d) ==
    /\ d \notin taken /\ taken' = taken \cup {d}
    /\ Ask(a, Call(a, "dataset_create", d, NONE))

DeleteDataset(a, d) ==
    /\ Made(d) /\ taken' = taken
    /\ Ask(a, Call(a, "dataset_delete", d, NONE))

\* By text or by file.
CreateDocument(a, d, x) ==
    /\ Made(d) /\ x \notin taken /\ taken' = taken \cup {x}
    /\ Ask(a, Call(a, "doc_create", d, x))

DeleteDocument(a, d, x) ==
    /\ Made(d) /\ MadeDocument(x) /\ taken' = taken
    /\ Ask(a, Call(a, "doc_delete", d, x))

\* _check_dataset_resp
Succeeded(j) == j.ok

\* _call: a 4xx is passed on; otherwise the local transaction follows.
Receive(a) ==
    /\ job[a].phase = "told"
    /\ job' = [job EXCEPT ![a] = IF Succeeded(job[a])
                                 THEN [@ EXCEPT !.phase = "commit"] ELSE Idle]
    /\ UNCHANGED <<upstream, database, broken, asks, crossed>>

\* A timeout, a broken connection, a 5xx or a body that is no JSON: 502.
Lose(a) ==
    /\ job[a].phase \in {"call", "told"}
    /\ late' = late \cup {c \in {job[a].call} : job[a].phase = "call"}
    /\ broken' = Added(broken, job[a].call)
    /\ job' = [job EXCEPT ![a] = Idle]
    /\ UNCHANGED <<taken, sets, home, done, database, asks, crossed>>

-------------------------------------------------------------------------------
(* The local transaction.                                                  *)

Principals == Member \cup Group
Takers == {"grant_remove", "dataset_delete"}

\* The grants that the statements of a call are about.
Covers(c) ==
    CASE c.action \in {"grant_add", "grant_remove"} -> {<<c.item, c.dataset>>}
      [] c.action = "dataset_delete" -> Principals \X {c.dataset}
      [] OTHER -> {}

Local(b) == job[b].phase \in {"commit", "deleted"}

\* Rows that a transaction has deleted and not yet committed: who would
\* delete or insert the same waits for it.
Locked(a, G) == \E b \in Admin \ {a} : job[b].took \cap G # {}

\* The grants of which c, at its commit, meets the opposite under way.
Meets(a, c) ==
    UNION {Covers(c) \cap Covers(job[b].call) :
              b \in {x \in Admin \ {a} :
                       /\ Local(x)
                       /\ (job[x].call.action = "grant_add")
                             # (c.action = "grant_add")}}

\* The executed DELETE of remove_dataset_grant and delete_dataset.
Delete(a) ==
    LET rows == grants \cap Covers(job[a].call) IN
    /\ job[a].phase = "commit" /\ job[a].call.action \in Takers
    /\ ~Locked(a, rows)
    /\ job' = [job EXCEPT ![a] = [@ EXCEPT !.phase = "deleted", !.took = rows]]
    /\ UNCHANGED <<upstream, database, broken, asks, crossed>>

\* add_dataset_grant inserts; another request may have inserted meanwhile.
Inserts(c) == <<c.item, c.dataset>> \notin grants

\* _audit
Logged(c) == c

\* The INSERTs, of a grant and then of the audit row, the commit and the
\* answer.  The log is in the order of commits: ids that are drawn in another
\* one belong to transactions that overlap.
Commit(a) ==
    LET c == job[a].call
        new == IF c.action = "grant_add" THEN Covers(c) ELSE {}
    IN  /\ Local(a)
        /\ job[a].phase = IF c.action \in Takers THEN "deleted" ELSE "commit"
        /\ c.action = "grant_add" => Inserts(c) /\ ~Locked(a, new)
        /\ grants' = (grants \ job[a].took) \cup new
        /\ audit' = Append(audit, Logged(c))
        /\ crossed' = crossed \cup Meets(a, c)
        /\ job' = [job EXCEPT ![a] = Idle]
        /\ UNCHANGED <<upstream, broken, asks>>

\* The statements or the commit raise: rolled back, 500.
Fail(a) ==
    /\ Local(a)
    /\ broken' = Added(broken, job[a].call)
    /\ job' = [job EXCEPT ![a] = Idle]
    /\ UNCHANGED <<upstream, database, asks, crossed>>

-------------------------------------------------------------------------------
(* Grants: no call to Dify, and the dataset is not looked up.              *)

GrantWrite(a, c) ==
    /\ job[a] = Idle /\ asks < MaxAsks /\ Made(c.dataset)
    /\ job' = [job EXCEPT ![a] =
                  [phase |-> "commit", call |-> c, ok |-> TRUE, took |-> {}]]
    /\ asks' = asks + 1
    /\ UNCHANGED <<upstream, database, broken, crossed>>

\* Nothing is done for a grant that is there.
AddGrant(a, d, p) ==
    <<p, d>> \notin grants /\ GrantWrite(a, Call(a, "grant_add", d, p))

RemoveGrant(a, d, p) == GrantWrite(a, Call(a, "grant_remove", d, p))

\* set_user_datasets: replaced as a whole, not audited.
SetUserDatasets(a, m, S) ==
    /\ job[a] = Idle /\ asks < MaxAsks /\ asks' = asks + 1
    /\ ~Locked(a, {m} \X Dataset)
    /\ grants' = {x \in grants : x[1] # m} \cup ({m} \X S)
    /\ UNCHANGED <<upstream, audit, broken, job, crossed>>

-------------------------------------------------------------------------------

Busy == {a \in Admin : job[a].phase # "idle"}

\* The process dies; what was on its way to Dify still is.
Crash ==
    /\ Busy # {}
    /\ late' = late \cup {job[a].call : a \in {b \in Admin : job[b].phase = "call"}}
    /\ broken' = broken (+) SetToBag({job[a].call : a \in Busy})
    /\ job' = [a \in Admin |-> Idle]
    /\ UNCHANGED <<taken, sets, home, done, database, asks, crossed>>

Step(a) ==
    \/ \E d \in Dataset : CreateDataset(a, d) \/ DeleteDataset(a, d)
    \/ \E d \in Dataset, x \in Document : CreateDocument(a, d, x) \/ DeleteDocument(a, d, x)
    \/ Serve(a) \/ Receive(a) \/ Lose(a) \/ Delete(a) \/ Commit(a) \/ Fail(a)
    \/ \E d \in Dataset, p \in Member \cup Group : AddGrant(a, d, p) \/ RemoveGrant(a, d, p)
    \/ \E m \in Member, S \in SUBSET {d \in Dataset : Made(d)} : SetUserDatasets(a, m, S)

Next ==
    \/ \E a \in Admin : Step(a)
    \/ \E c \in late : ServeLate(c) \/ DropLate(c)
    \/ Crash

Spec == Init /\ [][Next]_vars

-------------------------------------------------------------------------------
(* What the audit log and the grants promise.                              *)

\* How often a call was carried out or broke off, and how often it is logged.
Times(c, b) == IF BagIn(c, b) THEN b[c] ELSE 0
Entries(c) == Cardinality({i \in DOMAIN audit : audit[i] = c})

\* An audit row about a dataset or a document is about something Dify has
\* done, for that user, and no more often than Dify did it: whatever was
\* refused, given up, repeated or rolled back leaves none (kb/router.py:64).
AuditIsTrue ==
    \A i \in DOMAIN audit : audit[i].action \in UPSTREAM =>
        Entries(audit[i]) <= Times(audit[i], done)

\* What Dify has done is in the log, or the request is still at it, or the
\* administrator was told of a failure: no success without its row, and no
\* change behind everybody's back (kb/router.py:4, api-contract.md:188).
ChangesAreTraced ==
    \A c \in BagToSet(done) :
        Times(c, done) <= Entries(c) + Times(c, broken)
            + Cardinality({a \in Admin : job[a].call = c /\ job[a].ok})

Adds(i, p, d)  == /\ audit[i].action = "grant_add"
                  /\ audit[i].item = p /\ audit[i].dataset = d
Takes(i, p, d) == /\ audit[i].dataset = d
                  /\ \/ audit[i].action = "dataset_delete"
                     \/ audit[i].action = "grant_remove" /\ audit[i].item = p

\* The log accounts for the grants of departments and roles: a row is there
\* exactly if its last addition has neither a removal nor a deletion of the
\* dataset behind it, and two additions have one of them between them, even
\* when two requests add the same grant at once (kb/router.py:188).  Only an
\* addition and a removal of one grant that overlap in their transactions may
\* break it for this grant: the DELETE does not see what is inserted behind
\* it, and is logged all the same.
GrantsAccounted ==
    \A p \in Group, d \in Dataset : <<p, d>> \notin crossed =>
        /\ <<p, d>> \in grants <=>
               \E i \in DOMAIN audit :
                   Adds(i, p, d) /\ \A k \in i..Len(audit) : ~Takes(k, p, d)
        /\ \A i, j \in DOMAIN audit :
               i < j /\ Adds(i, p, d) /\ Adds(j, p, d)
                   => \E k \in i..j : Takes(k, p, d)

\* A request to delete a dataset that ends with the dataset gone leaves none
\* of its grants, whoever deleted it and however the request ends
\* (kb/router.py:137).
DeleteLeavesNoGrants ==
    [][\A a \in Admin :
          LET c == job[a].call IN
          /\ job[a] # Idle /\ job'[a] = Idle
          /\ c.action = "dataset_delete" /\ c.dataset \notin sets'
          => \A x \in grants' : x[2] # c.dataset]_vars
===============================================================================
