---------------------------- MODULE Authorization ----------------------------
(***************************************************************************)
(* Users, roles and grants (backend/app/authz.py, auth/deps.py, admin/,    *)
(* roles/, and what db/init.py does to them at every start).               *)
(*                                                                         *)
(* A request of an administrator passes the gate (require_platform_admin)  *)
(* in one step and works in later ones, so the gate's answer may be stale. *)
(* The full replacements (roles of a user, grants of a principal) delete   *)
(* the rows they see, insert the new ones and commit: two of them on the   *)
(* same rows may overlap, each deleting what its own statement saw (READ   *)
(* COMMITTED), the second failing when both insert the same key.           *)
(***************************************************************************)
EXTENDS Naturals, FiniteSets

CONSTANTS
    User, Dept, App, Dataset,
    Seed,       \* the user the first start creates
    SeedApp,    \* the apps of SEED_APPS that are registered
    Custom,     \* role codes that may be created
    CodeLists,  \* bound: the role codes a request may send
    MaxRole,    \* bound: ids the sequence of roles gives out
    MaxWrites,  \* bound: updates of users and grants
    NONE

USER == "USER"
PLATFORM_ADMIN == "PLATFORM_ADMIN"
BUILTIN_CODES == {USER, PLATFORM_ADMIN}
Code == BUILTIN_CODES \cup Custom
RoleId == 1..MaxRole

ASSUME AuthorizationAssumption ==
    /\ Seed \in User /\ SeedApp \subseteq App
    /\ MaxRole \in Nat /\ MaxRole >= 2 /\ MaxWrites \in Nat
    /\ CodeLists \subseteq SUBSET Code
    /\ Custom \cap BUILTIN_CODES = {} /\ NONE \notin Code \cup Dept

VARIABLES
    users, enabled, \* the rows of users, and those with status 1
    dept,           \* [User -> Dept \cup {NONE}]: dept_id
    snapshot,       \* [User -> SUBSET Code]: the JSON column users.roles
    role,           \* [RoleId -> Code \cup {NONE}]: the rows of roles
    seq,            \* the last id the sequence of roles gave out
    holds,          \* user_roles: pairs of a user and a role id
    appGrants,      \* app_authorizations: pairs of a principal and an app
    setGrants,      \* dataset_authorizations: of a principal and a dataset
    mixed,          \* users two overlapping requests gave roles
    up,             \* is the process running?
    writes,         \* updates so far
    job             \* [User -> Job]: the request of an administrator

userVars  == <<users, enabled, dept, snapshot, holds, mixed>>
roleVars  == <<role, seq>>
grantVars == <<appGrants, setGrants>>
vars == <<userVars, roleVars, grantVars, up, writes, job>>

ByUser(u) == <<"user", u>>
ByDept(d) == <<"dept", d>>
ByRole(r) == <<"role", r>>
Principal == {ByUser(u) : u \in User} \cup {ByDept(d) : d \in Dept}
             \cup {ByRole(r) : r \in RoleId}

\* What a request holds between its reads and its commit: the owner of the
\* rows it replaces, the rows it saw and the ones it inserts, and the columns
\* of users it changes, each with the one new value or none.
Idle == [op |-> "idle", who |-> NONE, seen |-> {}, new |-> {},
         codes |-> {}, on |-> {}, dept |-> {}]
Gate == [Idle EXCEPT !.op = "gate"]

Init ==
    /\ users = {} /\ enabled = {} /\ dept = [u \in User |-> NONE]
    /\ snapshot = [u \in User |-> {}] /\ holds = {} /\ mixed = {}
    /\ role = [r \in RoleId |-> NONE] /\ seq = 0
    /\ appGrants = {} /\ setGrants = {}
    /\ up = FALSE /\ writes = 0 /\ job = [a \in User |-> Idle]

-------------------------------------------------------------------------------
(* Who may do what (authz.py).                                             *)

\* The rows of a table that belong to one owner.
Of(table, who) == {row[2] : row \in {x \in table : x[1] = who}}
With(who, S)   == {who} \X S

Roles == {r \in RoleId : role[r] # NONE}
OrUser(codes) == IF codes = {} THEN {USER} ELSE codes

\* The codes of the rows, else the snapshot, else USER.
RoleCodes(u) ==
    LET codes == {role[r] : r \in Of(holds, u) \cap Roles} IN
    IF codes # {} THEN codes ELSE OrUser(snapshot[u])

IsAdmin(u) == PLATFORM_ADMIN \in RoleCodes(u)

\* The principals whose grants count for u.
PrincipalsOf(u) ==
    {ByUser(u)} \cup {ByRole(r) : r \in Of(holds, u)}
    \cup (IF dept[u] = NONE THEN {} ELSE {ByDept(dept[u])})

\* None in the code, everything here, for an administrator.
VisibleIds(u, table, all) ==
    IF IsAdmin(u) THEN all
    ELSE {x[2] : x \in {y \in table : y[1] \in PrincipalsOf(u)}}

VisibleApps(u)     == VisibleIds(u, appGrants, App)
VisibleDatasets(u) == VisibleIds(u, setGrants, Dataset)

\* _role_map and user_out: the list of users, which knows no snapshot.
RoleMap(u) == {role[r] : r \in Of(holds, u) \cap Roles}
ListedRoles(u) == OrUser(RoleMap(u))

-------------------------------------------------------------------------------
(* Replacing the rows of one owner.                                        *)

\* Rows that came after this request's DELETE had looked.
Left(table, j) == Of(table, j.who) \ j.seen

\* An insert meets a key that is there: IntegrityError, everything undone.
Clash(table, j) == Left(table, j) \cap j.new # {}

Same(j, k) == j.op = k.op /\ j.who = k.who

\* a is answered; the rows it deleted are gone for those that saw them too.
Done(a) ==
    job' = [b \in User |->
               IF b = a THEN Idle
               ELSE IF Same(job[b], job[a])
               THEN [job[b] EXCEPT !.seen = @ \ job[a].seen]
               ELSE job[b]]

Answered(a) == job' = [job EXCEPT ![a] = Idle]

IdsOf(codes) == {r \in Roles : role[r] \in codes}
Known(codes) == codes \subseteq {role[r] : r \in Roles}

\* Has user columns to write: waits for the lock of the row.
Dirty(j) == j.on \cup j.dept # {}

\* One new value of an optional column.
Set(f, u, val) == IF val = {} THEN f ELSE [f EXCEPT ![u] = CHOOSE v \in val : TRUE]

-------------------------------------------------------------------------------
(* Faulty variants of the definitions below, for the sensitivity checks.   *)

\* The old rows are not deleted.
ReplacedKeepsRows(table, j) == table \cup With(j.who, j.new)

\* An administrator may disable himself.
SelfDisableAllowed(a, u, on) == FALSE

\* Ids as SQLite gives them out: one more than the largest row.
NextRoleIdReused == 1 + CHOOSE r \in Roles : \A x \in Roles : x <= r

\* Builtin roles may be deleted.
DeletableAny(r) == r \in Roles

\* The gate does not look at the user's status.
MayAdministerDisabled(a) == a \in users /\ IsAdmin(a)

-------------------------------------------------------------------------------
(* The gate and the end of a request.                                      *)

Replaced(table, j) == (table \ With(j.who, j.seen)) \cup With(j.who, j.new)

\* current_user, require_platform_admin.
MayAdminister(a) == a \in enabled /\ IsAdmin(a)

Admit(a) ==
    /\ up /\ job[a] = Idle
    /\ MayAdminister(a)
    /\ job' = [job EXCEPT ![a] = Gate]
    /\ UNCHANGED <<userVars, roleVars, grantVars, up, writes>>

\* Refused (400, 404, 409), rolled back, only read, or only a name or a
\* password was changed (update_role, reset_password).
Refuse(a) ==
    /\ job[a] # Idle
    /\ Answered(a)
    /\ UNCHANGED <<userVars, roleVars, grantVars, up, writes>>

-------------------------------------------------------------------------------
(* Users.                                                                  *)

CreateUser(a, u, sent, d) ==
    LET codes == OrUser(sent) IN
    /\ u \notin users
    /\ Known(codes)
    /\ users' = users \cup {u} /\ enabled' = enabled \cup {u}
    /\ dept' = [dept EXCEPT ![u] = d]
    /\ snapshot' = [snapshot EXCEPT ![u] = codes]
    /\ holds' = holds \cup With(u, IdsOf(codes))
    /\ Answered(a)
    /\ UNCHANGED <<mixed, roleVars, grantVars, up, writes>>

SelfDisable(a, u, on) == u = a /\ on = {FALSE}

\* sent, on and d have one value, or none for a field that was not sent.
\* A column that keeps its value is not written.
UpdateRead(a, u, sent, on, d) ==
    LET codes == UNION sent
        j == [op |-> IF sent = {} THEN "fields" ELSE "roles", who |-> u,
              seen |-> IF sent = {} THEN {} ELSE Of(holds, u),
              new |-> IdsOf(codes), codes |-> sent \ {snapshot[u]},
              on |-> on \ {u \in enabled}, dept |-> d \ {dept[u]}]
    IN  /\ writes < MaxWrites /\ u \in users
        /\ ~SelfDisable(a, u, on)
        /\ Known(codes)
        /\ Dirty(j) => \A b \in User : ~(job[b].who = u /\ Dirty(job[b]))
        /\ job' = [job EXCEPT ![a] = j] /\ writes' = writes + 1
        /\ UNCHANGED <<userVars, roleVars, grantVars, up>>

\* _set_roles for a role update, the columns, commit.
UpdateCommit(a) ==
    LET j == job[a] IN
    /\ j.op \in {"fields", "roles"}
    /\ ~Clash(holds, j) /\ j.new \subseteq Roles
    /\ holds' = Replaced(holds, j)
    /\ snapshot' = Set(snapshot, j.who, j.codes)
    /\ dept' = Set(dept, j.who, j.dept)
    /\ enabled' = (enabled \ {u \in {j.who} : FALSE \in j.on})
                  \cup {u \in {j.who} : TRUE \in j.on}
    /\ mixed' = mixed \cup {u \in {j.who} : \E b \in User \ {a} :
                               job[b].op = "roles" /\ Same(job[b], j)}
    /\ Done(a)
    /\ UNCHANGED <<users, roleVars, grantVars, up, writes>>

-------------------------------------------------------------------------------
(* Roles (roles/service.py).                                               *)

\* The sequence goes on also when the insert fails: the ids of the seeded
\* roles were not taken from it, so the first two roles meet their keys.
NextRoleId == seq + 1

CreateRole(a, c) ==
    /\ NextRoleId \in RoleId /\ ~Known({c})
    /\ seq' = NextRoleId
    /\ role' = IF role[seq'] = NONE THEN [role EXCEPT ![seq'] = c] ELSE role
    /\ Answered(a)
    /\ UNCHANGED <<userVars, grantVars, up, writes>>

Deletable(r) == r \in Roles /\ role[r] \notin BUILTIN_CODES

\* The dataset grants of the role stay.
DeleteRole(a, r) ==
    /\ Deletable(r)
    /\ role' = [role EXCEPT ![r] = NONE]
    /\ holds' = {x \in holds : x[2] # r}
    /\ appGrants' = {x \in appGrants : x[1] # ByRole(r)}
    /\ Answered(a)
    /\ UNCHANGED <<users, enabled, dept, snapshot, mixed, seq, setGrants, up,
                   writes>>

-------------------------------------------------------------------------------
(* Grants.                                                                 *)

Exists(p) ==
    \/ \E u \in users : p = ByUser(u)
    \/ \E d \in Dept : p = ByDept(d)
    \/ \E r \in Roles : p = ByRole(r)

Replacing(op, p, seen, new) ==
    [Idle EXCEPT !.op = op, !.who = p, !.seen = seen, !.new = new]

\* set_user_apps, set_principal_apps.
AppsRead(a, p, S) ==
    /\ writes < MaxWrites /\ Exists(p)
    /\ job' = [job EXCEPT ![a] = Replacing("apps", p, Of(appGrants, p), S)]
    /\ writes' = writes + 1
    /\ UNCHANGED <<userVars, roleVars, grantVars, up>>

AppsCommit(a) ==
    /\ job[a].op = "apps" /\ ~Clash(appGrants, job[a])
    /\ appGrants' = Replaced(appGrants, job[a])
    /\ Done(a)
    /\ UNCHANGED <<userVars, roleVars, setGrants, up, writes>>

\* set_user_datasets: the ids are not looked up.
SetsRead(a, u, S) ==
    /\ writes < MaxWrites /\ u \in users
    /\ job' = [job EXCEPT ![a] =
                  Replacing("sets", ByUser(u), Of(setGrants, ByUser(u)), S)]
    /\ writes' = writes + 1
    /\ UNCHANGED <<userVars, roleVars, grantVars, up>>

SetsCommit(a) ==
    /\ job[a].op = "sets" /\ ~Clash(setGrants, job[a])
    /\ setGrants' = Replaced(setGrants, job[a])
    /\ Done(a)
    /\ UNCHANGED <<userVars, roleVars, appGrants, up, writes>>

\* add_dataset_grant, remove_dataset_grant.
AddGrant(a, p, k) ==
    /\ writes < MaxWrites /\ Exists(p)
    /\ setGrants' = setGrants \cup {<<p, k>>}
    /\ Answered(a) /\ writes' = writes + 1
    /\ UNCHANGED <<userVars, roleVars, appGrants, up>>

\* Waits for a request that is deleting the row.
RemoveGrant(a, p, k) ==
    /\ <<p, k>> \in setGrants
    /\ \A b \in User : ~(job[b].op = "sets" /\ job[b].who = p /\ k \in job[b].seen)
    /\ setGrants' = setGrants \ {<<p, k>>}
    /\ Answered(a)
    /\ UNCHANGED <<userVars, roleVars, appGrants, up, writes>>

-------------------------------------------------------------------------------
(* init_db, in one transaction, and the end of the process.                *)

\* _seed_roles
Seeded ==
    [role EXCEPT ![1] = IF Known({USER}) THEN @ ELSE USER,
                 ![2] = IF Known({PLATFORM_ADMIN}) THEN @ ELSE PLATFORM_ADMIN]

\* _migrate_json_roles for one user, with the roles and the snapshot of now.
Migrated(u, roles, codes) ==
    LET known == {r \in RoleId : roles[r] \in OrUser(codes)} IN
    IF known \cup Of(holds, u) = {}
    THEN {r \in RoleId : roles[r] = USER}
    ELSE known \cup Of(holds, u)

\* _seed_user_role_grants
UserRoleGrants(roles) ==
    {ByRole(r) : r \in {x \in RoleId : roles[x] = USER}} \X SeedApp

Start ==
    /\ ~up /\ up' = TRUE
    /\ role' = Seeded
    /\ IF users = {}
       THEN /\ users' = {Seed} /\ enabled' = {Seed}
            /\ snapshot' = [snapshot EXCEPT ![Seed] = BUILTIN_CODES]
       ELSE UNCHANGED <<users, enabled, snapshot>>
    /\ holds' = UNION {With(u, Migrated(u, role', snapshot'[u])) : u \in users'}
    /\ appGrants' = appGrants \cup UserRoleGrants(role')
    /\ UNCHANGED <<dept, mixed, seq, setGrants, writes, job>>

Stop ==
    /\ up /\ up' = FALSE
    /\ job' = [a \in User |-> Idle]
    /\ UNCHANGED <<userVars, roleVars, grantVars, writes>>

-------------------------------------------------------------------------------

Optional(S) == {{}} \cup {{x} : x \in S}

\* What a request that has passed the gate does.
Work(a) ==
    \/ \E u \in User, sent \in CodeLists, d \in Dept \cup {NONE} :
           CreateUser(a, u, sent, d)
    \/ \E u \in users, sent \in Optional(CodeLists), on \in Optional(BOOLEAN),
          d \in Optional(Dept \cup {NONE}) : UpdateRead(a, u, sent, on, d)
    \/ \E c \in Custom : CreateRole(a, c)
    \/ \E r \in RoleId : DeleteRole(a, r)
    \/ \E p \in Principal, S \in SUBSET App : AppsRead(a, p, S)
    \/ \E u \in users, S \in SUBSET Dataset : SetsRead(a, u, S)
    \/ \E p \in Principal, k \in Dataset : AddGrant(a, p, k) \/ RemoveGrant(a, p, k)

Step(a) ==
    \/ Admit(a) \/ Refuse(a)
    \/ job[a] = Gate /\ Work(a)
    \/ UpdateCommit(a) \/ AppsCommit(a) \/ SetsCommit(a)

Next == (\E a \in User : Step(a)) \/ Start \/ Stop

Spec == Init /\ [][Next]_vars

-------------------------------------------------------------------------------
(* What authorization promises.                                            *)

\* The variables have their types.
TypeOK ==
    /\ users \subseteq User /\ enabled \subseteq users /\ mixed \subseteq users
    /\ dept \in [User -> Dept \cup {NONE}] /\ snapshot \in [User -> SUBSET Code]
    /\ role \in [RoleId -> Code \cup {NONE}] /\ seq \in 0..MaxRole
    /\ holds \subseteq users \X RoleId
    /\ appGrants \subseteq Principal \X App
    /\ setGrants \subseteq Principal \X Dataset
    /\ up \in BOOLEAN /\ writes \in 0..MaxWrites

\* A user's roles exist, and unless two requests overlapped on him each is
\* one that the last request about them named, or USER: no restart, deleted
\* role or failed request leaves another one behind (admin/service.py:134).
RolesAreAsked ==
    \A u \in users : \A r \in Of(holds, u) :
        /\ r \in Roles
        /\ u \notin mixed => role[r] \in snapshot[u] \cup {USER}

\* The administrators are the users whose last roles named it: the fallback
\* to the snapshot, the migration of every start and the deletion of roles
\* make nobody one and unmake nobody; only overlapping requests about one
\* user may leave the role with somebody the last one took it from.  The list
\* of users, which does not fall back, shows exactly the administrators.
AdminsAreChosen ==
    \A u \in users :
        /\ PLATFORM_ADMIN \in snapshot[u] => IsAdmin(u)
        /\ IsAdmin(u) => u \in mixed \/ PLATFORM_ADMIN \in snapshot[u]
        /\ IsAdmin(u) <=> PLATFORM_ADMIN \in ListedRoles(u)

ActiveAdmins == {u \in enabled : IsAdmin(u)}

\* The last enabled administrator goes only by giving up the role himself or
\* by a request whose sender had lost his own standing behind the gate
\* (SELF_DISABLE): no disable, role deletion or restart locks everybody out.
LockedOutOnlyBySelf ==
    [][ActiveAdmins # {} /\ ActiveAdmins' = {} =>
          \E a \in User :
              /\ job[a] # Idle /\ job'[a] = Idle
              /\ \/ a \notin ActiveAdmins
                 \/ job[a].op = "roles" /\ job[a].who = a]_vars

\* A role that is created starts with no member and no grant, although the
\* dataset grants of deleted roles stay in their table (roles/service.py:61).
NewRoleGivesNothing ==
    [][\A r \in RoleId : role[r] = NONE /\ role'[r] \notin BUILTIN_CODES \cup {NONE} =>
          /\ \A u \in User : r \notin Of(holds', u)
          /\ Of(appGrants', ByRole(r)) = {} /\ Of(setGrants', ByRole(r)) = {}]_vars

Things == App \cup Dataset

Access == INSTANCE AccessControl WITH
    Thing <- Things, begun <- users # {}, admins <- ActiveAdmins,
    sees <- [u \in User |-> IF u \in users
                            THEN VisibleApps(u) \cup VisibleDatasets(u) ELSE {}],
    open <- {a \in User : job[a] # Idle}

\* Rights change as the abstract specification says.
AccessRefined == Access!Spec
===============================================================================
