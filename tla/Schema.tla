-------------------------------- MODULE Schema --------------------------------
(***************************************************************************)
(* The schema of the database: the Alembic revisions, the start of the     *)
(* backend that upgrades to the newest one and falls back to create_all    *)
(* (backend/app/db/init.py), the operator's commands                       *)
(* (backend/scripts/migrate.sh), and the releases that are deployed        *)
(* forward and back.  Release n is the code that ships revisions 1..n.     *)
(*                                                                         *)
(* A database is the set of its tables, their indexes and the one column   *)
(* that was added later, and the row of alembic_version (0: none).  An     *)
(* index is made by a statement of its own behind the one of its table.    *)
(* PostgreSQL runs an upgrade in one transaction; on SQLite every          *)
(* statement is in force at once.                                          *)
(***************************************************************************)
EXTENDS Naturals, SequencesExt

CONSTANTS
    MaxFaults,  \* bound: processes killed, upgrades that fail from outside
    MaxChores   \* bound: deployments, stops and commands of the operator

ASSUME SchemaAssumption == MaxFaults \in Nat /\ MaxChores \in Nat

VARIABLES
    dialect,   \* "postgres" or "sqlite"
    release,   \* the release that is deployed
    database,  \* [has: set of tables, indexes and columns, ver: revision]
    proc,      \* the backend: "down", "starting" or "up"
    job,       \* the script that is being run, or NoJob
    strayed,   \* the schema has left its revision, by a cause that is known
    lied,      \* the revision is recorded, and what it made is not all there
    faults, chores

schemaVars ==
    <<dialect, release, database, proc, job, strayed, lied, faults, chores>>

-------------------------------------------------------------------------------
(* The revisions, each as the list of what its upgrade makes.              *)

Baseline ==
    <<"apps", "departments", "roles", "ix_roles_code", "users", "ix_users_email",
      "app_authorizations", "conversations", "ix_conversations_app_id",
      "ix_conversations_user_id", "refresh_tokens",
      "ix_refresh_tokens_token_hash", "ix_refresh_tokens_user_id",
      "user_roles", "messages", "ix_messages_conversation_id">>
UploadFiles           == <<"upload_files", "ix_upload_files_user_id">>
MessagesReasoning     == <<"messages.reasoning">>
DatasetAuthorizations == <<"dataset_authorizations">>
KbAuditLogs           == <<"kb_audit_logs", "ix_kb_audit_logs_user_id">>

Chain == <<Baseline, UploadFiles, MessagesReasoning, DatasetAuthorizations, KbAuditLogs>>
Release == 1..Len(Chain)

\* What the models of release n name; it is what revisions 1..n make.
Needs(n) == UNION {ToSet(Chain[i]) : i \in 1..n}

\* The column a model brings along, and all there are of them.
ColumnOf(t) == IF t = "messages" THEN {"messages.reasoning"} ELSE {}
Columns == {"messages.reasoning"}

Indexed == {"roles", "users", "conversations", "refresh_tokens", "messages",
            "upload_files", "kb_audit_logs"}
IndexesOf(t) ==
    CASE t = "roles"          -> {"ix_roles_code"}
      [] t = "users"          -> {"ix_users_email"}
      [] t = "conversations"  -> {"ix_conversations_app_id",
                                  "ix_conversations_user_id"}
      [] t = "refresh_tokens" -> {"ix_refresh_tokens_token_hash",
                                  "ix_refresh_tokens_user_id"}
      [] t = "messages"       -> {"ix_messages_conversation_id"}
      [] t = "upload_files"   -> {"ix_upload_files_user_id"}
      [] t = "kb_audit_logs"  -> {"ix_kb_audit_logs_user_id"}
      [] OTHER                -> {}
Indexes == UNION {IndexesOf(t) : t \in Indexed}

\* What goes with a table when it is dropped.
PartsOf(t) == ColumnOf(t) \cup IndexesOf(t)
Parts == Columns \cup Indexes

\* The tables that the seeding behind every start reads and writes.
Seeded == {"roles", "users", "user_roles", "apps", "app_authorizations"}

Make(x)   == [op |-> "make", what |-> x, ver |-> 0]
Ensure(x) == [op |-> "ensure", what |-> x, ver |-> 0]
Drop(x)   == [op |-> "drop", what |-> x, ver |-> 0]
Stamp(n)  == [op |-> "stamp", what |-> "", ver |-> n]

NoJob == [by |-> "nobody", cmd |-> "none", rev |-> 0, last |-> 0, at |-> 0,
          work |-> [has |-> {}, ver |-> 0], found |-> {}]

-------------------------------------------------------------------------------
(* Faulty variants of the definitions below, for the sensitivity checks.   *)

\* The version is written before the statements of its revision.
StampsFirst(n) == <<Stamp(n)>> \o [i \in DOMAIN Chain[n] |-> Make(Chain[n][i])]

\* The migrations run outside begin_transaction.
EveryStatement == TRUE

\* The exception of the upgrade is not caught.
GivesUp == NoJob

-------------------------------------------------------------------------------
(* Scripts: the statements of one revision.                                *)

Upgrade(n) == Append([i \in DOMAIN Chain[n] |-> Make(Chain[n][i])], Stamp(n))

\* upload_files is dropped with its index; the other indexes one by one.
Dropped(n) == IF n = 2 THEN <<"upload_files">> ELSE Chain[n]

Downgrade(n) ==
    LET gone == Reverse(Dropped(n)) IN
    Append([i \in DOMAIN gone |-> Drop(gone[i])], Stamp(n - 1))

CreateAll(n) == [i \in DOMAIN Chain[n] |-> Ensure(Chain[n][i])]

Script(cmd, n) ==
    CASE cmd = "upgrade"    -> Upgrade(n)
      [] cmd = "downgrade"  -> Downgrade(n)
      [] cmd = "create_all" -> CreateAll(n)

Possible(s, d) ==
    CASE s.op = "make" -> /\ s.what \notin d.has
                          /\ s.what \in Parts =>
                                \E t \in d.has : s.what \in PartsOf(t)
      [] s.op = "drop" -> s.what \in d.has
      [] OTHER -> TRUE

\* create_all makes the tables that it has not found when it began, each as
\* its model is now and then its indexes; what a table that it has found
\* lacks it does not look at.
Missing(x, found) ==
    IF x \in Columns \/ x \in found \/ \E t \in found : x \in IndexesOf(t)
    THEN {} ELSE {x} \cup (ColumnOf(x) \cap Needs(release))

Effect(s, d, found) ==
    CASE s.op = "make"   -> [d EXCEPT !.has = @ \cup {s.what}]
      [] s.op = "ensure" -> [d EXCEPT !.has = @ \cup Missing(s.what, found)]
      [] s.op = "drop"   -> [d EXCEPT !.has = @ \ ({s.what} \cup PartsOf(s.what))]
      [] s.op = "stamp"  -> [d EXCEPT !.ver = s.ver]

\* transactional_ddl: what has been run is in force before the commit.
InForceAtOnce == dialect = "sqlite"

Sound(d, p) ==
    /\ d.has = Needs(d.ver)
    /\ p = "up" => d.ver >= release

False(d) == ~(Needs(d.ver) \subseteq d.has)

\* What the end of a job leaves, and whether the way it ended is a cause
\* for the schema to stray.
Leaves(d, p, cause) ==
    /\ database' = d /\ proc' = p
    /\ strayed' = (~Sound(d, p) /\ (strayed \/ cause))
    /\ lied' = (False(d) /\ (lied \/ cause))

\* A command runs the scripts of the revisions from first to last, one
\* statement after the other; at is the next of rev's script, found is what
\* was there when it began.
Begin(by, cmd, first, last) ==
    [by |-> by, cmd |-> cmd, rev |-> first, last |-> last, at |-> 1,
     work |-> database, found |-> database.has]

AtEnd(j) == j.rev > j.last
Coming(j) == Script(j.cmd, j.rev)[j.at]

Advanced(j) ==
    IF j.at < Len(Script(j.cmd, j.rev)) THEN [j EXCEPT !.at = @ + 1]
    ELSE [j EXCEPT !.rev = @ + 1, !.at = 1]

SchemaInit ==
    /\ dialect \in {"postgres", "sqlite"} /\ release \in Release
    /\ \/ database = [has |-> {}, ver |-> 0] /\ strayed = FALSE
       \* made before Alembic was taken up (backend/MIGRATIONS.md:21)
       \/ database = [has |-> Needs(1), ver |-> 0] /\ strayed = TRUE
    /\ proc = "down" /\ job = NoJob /\ lied = FALSE
    /\ faults = 0 /\ chores = 0

-------------------------------------------------------------------------------
(* The start of the backend.                                               *)

\* The upgrade failed: create_all, on what is there by now.
Fallback == Begin("backend", "create_all", 1, release)

\* A revision that the release does not know cannot be upgraded from.
Boot ==
    /\ proc = "down" /\ job = NoJob
    /\ proc' = "starting"
    /\ job' = IF database.ver <= release
              THEN Begin("backend", "upgrade", database.ver + 1, release)
              ELSE Fallback
    /\ UNCHANGED <<dialect, release, database, strayed, lied, faults, chores>>

Statement ==
    /\ job # NoJob /\ ~AtEnd(job) /\ Possible(Coming(job), job.work)
    /\ LET d == Effect(Coming(job), job.work, job.found) IN
       /\ job' = [Advanced(job) EXCEPT !.work = d]
       /\ database' = IF InForceAtOnce THEN d ELSE database
    /\ UNCHANGED <<dialect, release, proc, strayed, lied, faults, chores>>

\* The job is rolled back, as far as it is not in force; the backend falls
\* back to create_all, a command of the operator ends.
Fails(cause) ==
    /\ job' = IF job.by = "backend" THEN Fallback ELSE NoJob
    /\ Leaves(database, IF job' = NoJob THEN "down" ELSE proc, cause)
    /\ UNCHANGED <<dialect, release, chores>>

StatementFails ==
    /\ job # NoJob /\ job.cmd # "create_all"
    /\ ~AtEnd(job) /\ ~Possible(Coming(job), job.work)
    /\ Fails(FALSE) /\ UNCHANGED faults

\* The database cannot be reached for a moment, the image lacks the scripts.
FailsFromOutside ==
    /\ job # NoJob /\ job.cmd # "create_all" /\ faults < MaxFaults
    /\ faults' = faults + 1
    /\ Fails(TRUE)

\* All statements are run: the commit, and the seeding in a start.
Ends ==
    /\ job # NoJob /\ AtEnd(job) /\ job' = NoJob
    /\ Leaves(job.work,
              IF job.by = "backend" /\ Seeded \subseteq job.work.has
              THEN "up" ELSE "down",
              job.cmd = "create_all")
    /\ UNCHANGED <<dialect, release, faults, chores>>

\* The process that runs the statements is killed.
Kill ==
    /\ job # NoJob /\ faults < MaxFaults
    /\ faults' = faults + 1 /\ job' = NoJob
    /\ Leaves(database, "down", dialect = "sqlite")
    /\ UNCHANGED <<dialect, release, chores>>

-------------------------------------------------------------------------------
(* The operator, while no backend runs.                                    *)

Chore ==
    /\ proc = "down" /\ job = NoJob
    /\ chores < MaxChores /\ chores' = chores + 1
    /\ UNCHANGED <<dialect, faults>>

Deploy(n) ==
    /\ Chore /\ release' = n
    /\ UNCHANGED <<database, proc, job, strayed, lied>>

UpgradeCommand ==
    /\ Chore /\ database.ver <= release
    /\ job' = Begin("operator", "upgrade", database.ver + 1, release)
    /\ UNCHANGED <<release, database, proc, strayed, lied>>

\* downgrade -1
DowngradeCommand ==
    /\ Chore /\ database.ver \in 1..release
    /\ job' = Begin("operator", "downgrade", database.ver, database.ver)
    /\ UNCHANGED <<release, database, proc, strayed, lied>>

\* stamp head, of a database that has the tables of the baseline.
StampCommand ==
    /\ Chore /\ Needs(1) \ Parts \subseteq database.has
    /\ database.ver <= release
    /\ Leaves([database EXCEPT !.ver = release], proc, TRUE)
    /\ UNCHANGED <<release, job>>

StopBackend ==
    /\ proc = "up" /\ proc' = "down"
    /\ chores < MaxChores /\ chores' = chores + 1
    /\ UNCHANGED <<dialect, release, database, job, strayed, lied, faults>>

SchemaNext ==
    \/ Boot \/ Statement \/ StatementFails \/ Ends
    \/ FailsFromOutside \/ Kill
    \/ (\E n \in Release \ {release} : Deploy(n))
    \/ UpgradeCommand \/ DowngradeCommand \/ StampCommand
    \/ StopBackend

\* Compose starts the container again whenever it has ended, and a process
\* that runs goes on.
SchemaSpec ==
    /\ SchemaInit /\ [][SchemaNext]_schemaVars
    /\ WF_schemaVars(Boot) /\ WF_schemaVars(Ends)
    /\ WF_schemaVars(Statement) /\ WF_schemaVars(StatementFails)

-------------------------------------------------------------------------------
(* What the migrations promise.                                            *)

\* Upgrades, downgrades, releases forward and back and processes killed on
\* PostgreSQL keep the schema what its revision says, and a backend that is
\* up has at least the revision of its release.  Only these end that: a
\* process killed on SQLite, a start that fell back to create_all, and a
\* revision stamped by hand (db/init.py:69, alembic/env.py:52).
StraysByCauseOnly == job = NoJob /\ ~Sound(database, proc) => strayed

\* Whatever has happened, unless a revision was stamped that was not there
\* or a downgrade was killed on SQLite: what the recorded revision made is
\* there, and a backend that is up finds every table it needs.  What it may
\* lack is a column and, on SQLite only, where a process may be killed between
\* a table and its indexes, an index: create_all repairs neither
\* (db/init.py:76).
LacksNoTable ==
    job = NoJob /\ ~lied =>
        /\ Needs(database.ver) \subseteq database.has
        /\ proc = "up" =>
              Needs(release) \ database.has \subseteq
                  IF InForceAtOnce THEN Parts ELSE Columns

\* A migration that fails stops no start: the backend comes up in the end,
\* unless a downgrade of the baseline was killed on SQLite half way
\* (db/init.py:5).
ComesUp ==
    \/ <>[](proc = "up")
    \/ <>(job = NoJob /\ database.ver >= 1 /\ ~(Seeded \subseteq database.has))
===============================================================================
