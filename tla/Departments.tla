----------------------------- MODULE Departments -----------------------------
(***************************************************************************)
(* The department tree and what refers to it                               *)
(* (backend/app/depts/service.py; the dept grants of set_principal_apps    *)
(* and the dept_id of update_user in backend/app/admin/service.py).        *)
(*                                                                         *)
(* An operation of an administrator reads, executes statements and commits *)
(* in steps of its own; the operations of several administrators overlap,  *)
(* at READ COMMITTED.  A path /1/3/7/ is the sequence <<1,3,7>>.  Of the   *)
(* row locks only those behind a DELETE of grants are modelled: the others *)
(* order commits that are possible in both orders.                         *)
(***************************************************************************)
EXTENDS Naturals, Sequences, FiniteSets

CONSTANTS
    Dept,      \* ids of departments, never used twice
    App,
    User,
    Admin,     \* administrators at work
    NONE

ASSUME DeptAssumption == NONE \notin Dept \cup User \cup Admin

VARIABLES
    born,      \* the ids that have been given out
    exist,     \* the rows of departments
    parent,    \* [Dept -> Dept \cup {NONE}]: parent_id
    path,      \* [Dept -> Seq(Dept)]: the materialised path
    apps,      \* the rows of app_authorizations: <<department, app>>
    member,    \* [User -> Dept \cup {NONE}]: users.dept_id
    job,       \* [Admin -> Job]: what an operation holds between its steps
    stale      \* history: what was committed although the rows read had
               \* changed; a subset of {"path", "parent", "child", "grant"}

treeVars == <<born, exist, parent, path>>
vars     == <<treeVars, apps, member, job, stale>>

\* What an operation holds before its commit: the department it is about, the
\* parent it was given, parent_id and path as read, the path it will write,
\* those it will write with the descendants', and the grants it has deleted.
Idle == [op |-> "idle", dept |-> NONE, to |-> NONE, was |-> NONE,
         from |-> <<>>, into |-> <<>>, new |-> [x \in {} |-> <<>>],
         taken |-> {}]

Init ==
    /\ born = {} /\ exist = {}
    /\ parent = [d \in Dept |-> NONE] /\ path = [d \in Dept |-> <<>>]
    /\ apps = {} /\ member = [u \in User |-> NONE]
    /\ job = [a \in Admin |-> Idle] /\ stale = {}

Maybe(S) == S \cup {NONE}
Base(p)  == IF p = NONE THEN <<>> ELSE path[p]

\* path LIKE '/1/3/%': the path goes through the end of p.
Under(p, q)  == Len(p) <= Len(q) /\ SubSeq(q, 1, Len(p)) = p
\* What follows p in a path that goes through its end: old[len(p):].
Rest(p, q)   == SubSeq(q, Len(p) + 1, Len(q))
Holds(q, d)  == \E i \in 1..Len(q) : q[i] = d

\* The grants of a department.
GrantsOf(d) == {g \in apps : g[1] = d}

-------------------------------------------------------------------------------
(* The rows an operation has read, at its commit.                          *)

\* The path of the parent it was given is what it was, or the parent is gone.
PathStands(to, base) == to \in Maybe(exist) => base = Base(to)

\* What commits that are made on rows that have changed are marked with.
Mark(c, stands) == IF stands THEN {} ELSE {c}

-------------------------------------------------------------------------------
(* Faulty variants of the definitions below, for the sensitivity checks.   *)

\* Only the row that was moved gets a new path.
NewPathsOfSelf(j) == [x \in {j.dept} |-> j.into]

\* The cycle check looks at the parent only.
MayMoveUnderChild(d, p) == p # d /\ (p # NONE => p \in exist)

\* The grants of a deleted department stay.
DeleteCommitKeepsGrants(a) ==
    /\ job[a].op = "deleting"
    /\ exist' = exist \ {job[a].dept}
    /\ job' = [job EXCEPT ![a] = Idle]
    /\ UNCHANGED <<born, parent, path, apps, member, stale>>

-------------------------------------------------------------------------------
(* create_dept                                                             *)

CreateRead(a, p) ==
    /\ job[a] = Idle
    /\ p # NONE => p \in exist
    /\ job' = [job EXCEPT ![a] =
                  [Idle EXCEPT !.op = "create", !.to = p, !.from = Base(p)]]
    /\ UNCHANGED <<treeVars, apps, member, stale>>

CreateCommit(a, d) ==
    LET j == job[a] IN
    /\ j.op = "create" /\ d \notin born
    /\ born' = born \cup {d} /\ exist' = exist \cup {d}
    /\ parent' = [parent EXCEPT ![d] = j.to]
    /\ path' = [path EXCEPT ![d] = Append(j.from, d)]
    /\ job' = [job EXCEPT ![a] = Idle]
    /\ stale' = stale \cup Mark("parent", j.to \in Maybe(exist))
                     \cup Mark("path", PathStands(j.to, j.from))
    /\ UNCHANGED <<apps, member>>

-------------------------------------------------------------------------------
(* update_dept with a parent_id.                                           *)

\* Not itself, an existing department, and none below the one that moves.
MayMove(d, p) ==
    /\ p # d
    /\ p # NONE => p \in exist /\ ~Holds(path[p], d)

MoveRead(a, d, p) ==
    /\ job[a] = Idle /\ d \in exist
    /\ MayMove(d, p)
    /\ job' = [job EXCEPT ![a] =
                  [Idle EXCEPT !.op = "move", !.dept = d, !.to = p,
                               !.was = parent[d], !.from = path[d],
                               !.into = Append(Base(p), d)]]
    /\ UNCHANGED <<treeVars, apps, member, stale>>

\* The paths that a move writes: its own, and below the old one the prefix
\* is replaced.  The row of the new parent is the one that was loaded.
NewPaths(j) ==
    LET loaded(x) == IF x = j.to THEN SubSeq(j.into, 1, Len(j.into) - 1)
                     ELSE path[x]
        below     == {x \in exist : Under(j.from, path[x])}
    IN  [x \in below \cup {j.dept} |->
            IF x = j.dept THEN j.into ELSE j.into \o Rest(j.from, loaded(x))]

\* The query for the descendants, behind the flush of the moved row.
MoveCascade(a) ==
    LET j == job[a] IN
    /\ j.op = "move" /\ j.dept \in exist /\ j.into # j.from
    /\ job' = [job EXCEPT ![a] = [j EXCEPT !.op = "cascade", !.new = NewPaths(j)]]
    /\ UNCHANGED <<treeVars, apps, member, stale>>

\* What the move has read stands: the row, the path of the new parent, and
\* who is below.
MoveStands(j) ==
    /\ j.was = parent[j.dept] /\ j.from = path[j.dept]
    /\ j.to \in Maybe(exist) => j.into = Append(Base(j.to), j.dept)
    /\ j.op = "cascade" => j.new = NewPaths(j)

\* Columns that did not change in the session are not written.
MoveCommit(a) ==
    LET j == job[a] IN
    /\ j.op = "cascade" \/ (j.op = "move" /\ j.into = j.from)
    /\ {j.dept} \cup DOMAIN j.new \subseteq exist
    /\ parent' = IF j.to = j.was THEN parent
                 ELSE [parent EXCEPT ![j.dept] = j.to]
    /\ path' = [x \in Dept |-> IF x \in DOMAIN j.new THEN j.new[x] ELSE path[x]]
    /\ job' = [job EXCEPT ![a] = Idle]
    /\ stale' = stale \cup Mark("parent", j.to \in Maybe(exist))
                     \cup Mark("path", MoveStands(j))
    /\ UNCHANGED <<born, exist, apps, member>>

-------------------------------------------------------------------------------
(* delete_dept, and set_principal_apps for a department.                   *)

\* 409 while it has children or users.
DeleteRead(a, d) ==
    /\ job[a] = Idle /\ d \in exist
    /\ \A x \in exist : parent[x] # d
    /\ \A u \in User : member[u] # d
    /\ job' = [job EXCEPT ![a] = [Idle EXCEPT !.op = "delete", !.dept = d]]
    /\ UNCHANGED <<treeVars, apps, member, stale>>

GrantRead(a, d) ==
    /\ job[a] = Idle /\ d \in exist
    /\ job' = [job EXCEPT ![a] = [Idle EXCEPT !.op = "grant", !.dept = d]]
    /\ UNCHANGED <<treeVars, apps, member, stale>>

\* Rows that a transaction has deleted and not yet committed: who would
\* delete or insert the same waits for it.
Locked(a, G) == \E b \in Admin \ {a} : job[b].taken \cap G # {}

\* Both execute the DELETE of the grants that are there by now.
TakeGrants(a) ==
    LET j == job[a] IN
    /\ j.op \in {"delete", "grant"} /\ ~Locked(a, GrantsOf(j.dept))
    /\ job' = [job EXCEPT ![a] =
                  [j EXCEPT !.op = IF j.op = "delete" THEN "deleting" ELSE "granting",
                            !.taken = GrantsOf(j.dept)]]
    /\ UNCHANGED <<treeVars, apps, member, stale>>

DeleteCommit(a) ==
    LET j == job[a] IN
    /\ j.op = "deleting"
    /\ exist' = exist \ {j.dept}
    /\ parent' = [parent EXCEPT ![j.dept] = NONE]
    /\ path' = [path EXCEPT ![j.dept] = <<>>]
    /\ apps' = apps \ j.taken
    /\ job' = [job EXCEPT ![a] = Idle]
    /\ stale' = stale \cup Mark("child", \A x \in exist : parent[x] # j.dept)
                     \cup Mark("grant", GrantsOf(j.dept) \subseteq j.taken)
    /\ UNCHANGED <<born, member>>

\* The grants are replaced by the ones that were sent; one that another
\* request has inserted meanwhile is a key clash.
GrantCommit(a, S) ==
    LET j == job[a]  G == {j.dept} \X S IN
    /\ j.op = "granting"
    /\ ~Locked(a, G) /\ G \cap (apps \ j.taken) = {}
    /\ apps' = (apps \ j.taken) \cup G
    /\ job' = [job EXCEPT ![a] = Idle]
    /\ stale' = stale \cup Mark("grant", S = {} \/ j.dept \in exist)
    /\ UNCHANGED <<treeVars, member>>

-------------------------------------------------------------------------------
(* Users, failures.                                                        *)

\* create_user, update_user: the dept_id is not looked up.
SetMember(u, d) ==
    /\ member[u] # d
    /\ member' = [member EXCEPT ![u] = d]
    /\ UNCHANGED <<treeVars, apps, job, stale>>

\* The commit raises (also for a moved row that is gone), or the process dies.
RollBack(a) ==
    /\ job[a] # Idle
    /\ job' = [job EXCEPT ![a] = Idle]
    /\ UNCHANGED <<treeVars, apps, member, stale>>

Step(a) ==
    \/ \E p \in Dept \cup {NONE} : CreateRead(a, p)
    \/ \E d \in Dept : CreateCommit(a, d)
    \/ \E d \in Dept, p \in Dept \cup {NONE} : MoveRead(a, d, p)
    \/ MoveCascade(a) \/ MoveCommit(a)
    \/ \E d \in Dept : DeleteRead(a, d) \/ GrantRead(a, d)
    \/ TakeGrants(a) \/ DeleteCommit(a)
    \/ \E S \in SUBSET App : GrantCommit(a, S)
    \/ RollBack(a)

Next ==
    \/ \E a \in Admin : Step(a)
    \/ \E u \in User, d \in Dept \cup {NONE} : SetMember(u, d)

Spec == Init /\ [][Next]_vars

-------------------------------------------------------------------------------
(* What the tree promises.  Operations overlap, and nothing re-reads a row *)
(* at the commit: each property names the commits that may break it, and   *)
(* there is no other way.                                                  *)

\* The variables have their types.
TypeOK ==
    /\ born \subseteq Dept /\ exist \subseteq born
    /\ parent \in [Dept -> Maybe(Dept)] /\ path \in [Dept -> Seq(Dept)]
    /\ apps \subseteq Dept \X App /\ member \in [User -> Maybe(Dept)]
    /\ job \in [Admin -> [op : {"idle", "create", "move", "cascade", "delete",
                                "deleting", "grant", "granting"},
                          dept : Maybe(Dept), to : Maybe(Dept),
                          was : Maybe(Dept), from : Seq(Dept), into : Seq(Dept),
                          new : UNION {[S -> Seq(Dept)] : S \in SUBSET Dept},
                          taken : SUBSET (Dept \X App)]]
    /\ stale \subseteq {"path", "parent", "child", "grant"}

\* The materialised path is the chain of ancestors after any sequence of
\* moves of whole subtrees (service.py: /1/3/7/ is the chain 1, 3, 7),
\* whatever runs meanwhile, unless a creation or a move was committed over
\* a path or a set of descendants that had changed since it was read.
PathIsChain ==
    "path" \notin stale =>
        \A d \in exist : parent[d] \in Maybe(exist) =>
            path[d] = Append(Base(parent[d]), d)

\* The tree is one: every group of departments has one whose parent is not
\* in the group, so no chain of parents closes (service.py: CYCLE).  The
\* same commits may break it; deletions and grants that overlap do not.
NoCycle ==
    "path" \notin stale =>
        \A S \in (SUBSET exist) \ {{}} : \E d \in S : parent[d] \notin S

\* Nothing dangles, there being no foreign key to see to it, whatever becomes
\* of the paths (service.py: HAS_CHILDREN, delete_dept): a department keeps
\* its parent unless a child was put under one that was being deleted, and
\* no app grant outlives its department unless it was given meanwhile.
NothingDangles ==
    /\ stale \cap {"parent", "child"} = {} =>
           \A d \in exist : parent[d] \in Maybe(exist)
    /\ "grant" \notin stale => \A g \in apps : g[1] \in exist
===============================================================================
