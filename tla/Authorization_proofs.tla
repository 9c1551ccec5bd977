------------------------- MODULE Authorization_proofs -------------------------
(***************************************************************************)
(* Proofs about Authorization, for any users, roles, grants and requests.  *)
(***************************************************************************)
EXTENDS Authorization, TLAPS

\* Requests in progress hold what their reads can give.
Fields == {"fields", "roles"}
Job ==
    [op : {"idle", "gate", "fields", "roles", "apps", "sets"},
     who : User \cup Principal \cup {NONE},
     seen : SUBSET (RoleId \cup App \cup Dataset),
     new : SUBSET (RoleId \cup App \cup Dataset),
     codes : SUBSET (SUBSET Code), on : SUBSET BOOLEAN,
     dept : SUBSET (Dept \cup {NONE})]

JobTypes ==
    /\ job \in [User -> Job]
    /\ \A a \in User :
        /\ job[a].op = "idle" => job[a] = Idle
        /\ job[a] # Idle => up /\ users # {}
        /\ job[a].op \in Fields => job[a].who \in users /\ job[a].new \subseteq RoleId
        /\ job[a].op = "fields" =>
              job[a].seen = {} /\ job[a].new = {} /\ job[a].codes = {}
        /\ job[a].op \in {"apps", "sets"} => job[a].who \in Principal
        /\ job[a].op = "apps" => job[a].new \subseteq App
        /\ job[a].op = "sets" => job[a].new \subseteq Dataset

\* The seeded roles keep their ids, and an administrator asked for is one.
RolesStand ==
    /\ role[1] \in {NONE, USER} /\ role[2] \in {NONE, PLATFORM_ADMIN}
    /\ \A r \in RoleId \ {1, 2} : role[r] \in Custom \cup {NONE}
    /\ up \/ users # {} => role[1] = USER /\ role[2] = PLATFORM_ADMIN

\* The id of a role is named nowhere.
Unnamed(r) ==
    /\ role[r] = NONE
    /\ \A u \in User : <<u, r>> \notin holds
    /\ \A x \in App : <<ByRole(r), x>> \notin appGrants
    /\ \A k \in Dataset : <<ByRole(r), k>> \notin setGrants
    /\ \A a \in User :
          /\ job[a].op \in Fields => r \notin job[a].new
          /\ job[a].op \in {"apps", "sets"} => job[a].who # ByRole(r)

\* The ids of roles that are named anywhere have been given out.
IdsGivenOut == \A r \in RoleId \ {1, 2} : r <= seq \/ Unnamed(r)

\* Rows of user_roles: foreign keys, and what they owe to the snapshot.
RowsOfUsers ==
    /\ \A u \in users, r \in RoleId : <<u, r>> \in holds =>
          /\ role[r] # NONE
          /\ u \notin mixed => role[r] \in snapshot[u] \cup {USER}
    /\ \A u \in users : PLATFORM_ADMIN \in snapshot[u] => <<u, 2>> \in holds

\* What a role update has read, and what it will write.
UpdateInProgress(a) ==
    job[a].op = "roles" =>
        LET u == job[a].who IN
        /\ 2 \in job[a].seen => <<u, 2>> \in holds
        /\ \A C \in job[a].codes :
              /\ job[a].codes = {C}
              /\ PLATFORM_ADMIN \in C => 2 \in job[a].new
              /\ \A r \in job[a].new : role[r] \in C \cup {NONE}
        /\ job[a].codes = {} /\ 2 \in job[a].seen /\ PLATFORM_ADMIN \in snapshot[u]
              => 2 \in job[a].new
        /\ u \notin mixed =>
              /\ \A r \in RoleId : <<u, r>> \in holds => r \in job[a].seen
              /\ job[a].codes = {} =>
                    \A r \in job[a].new : role[r] \in snapshot[u] \cup {NONE}

UpdatesInProgress == \A a \in User : UpdateInProgress(a)

\* Nobody disables himself.
OthersDisable ==
    \A a \in User : job[a].op \in Fields /\ job[a].who = a => FALSE \notin job[a].on

AuthInv ==
    /\ TypeOK /\ JobTypes /\ RolesStand /\ IdsGivenOut
    /\ RowsOfUsers /\ UpdatesInProgress /\ OthersDisable

-------------------------------------------------------------------------------
(* Facts about the parts of a state.                                       *)

LEMMA Constants ==
    /\ MaxRole \in Nat /\ MaxWrites \in Nat /\ 1 \in RoleId /\ 2 \in RoleId
    /\ USER # PLATFORM_ADMIN /\ USER \in Code /\ PLATFORM_ADMIN \in Code
    /\ NONE # USER /\ NONE # PLATFORM_ADMIN /\ NONE \notin Custom
    /\ USER \notin Custom /\ PLATFORM_ADMIN \notin Custom
    /\ Code = {USER, PLATFORM_ADMIN} \cup Custom
BY AuthorizationAssumption
   DEF RoleId, Code, BUILTIN_CODES, USER, PLATFORM_ADMIN

LEMMA Jobs ==
    /\ Idle \in Job /\ Gate \in Job
    /\ Idle.op = "idle" /\ Gate.op = "gate" /\ Gate # Idle
    /\ Idle.who = NONE /\ Gate.who = NONE
    /\ Idle.new = {} /\ Gate.new = {}
BY DEF Idle, Gate, Job

LEMMA Principals ==
    /\ \A u \in User : ByUser(u) \in Principal
    /\ \A d \in Dept : ByDept(d) \in Principal
    /\ \A r \in RoleId : ByRole(r) \in Principal
    /\ \A r, s \in RoleId : ByRole(r) = ByRole(s) => r = s
    /\ \A u \in User, r \in RoleId : ByUser(u) # ByRole(r)
    /\ \A d \in Dept, r \in RoleId : ByDept(d) # ByRole(r)
BY DEF Principal, ByUser, ByDept, ByRole

\* The rows of one owner, by the rows of the table.
LEMMA Rows ==
    ASSUME NEW S, NEW T, NEW table \in SUBSET (S \X T), NEW who
    PROVE  /\ \A x : x \in Of(table, who) <=> x \in T /\ <<who, x>> \in table
           /\ Of(table, who) \subseteq T
<1>1. ASSUME NEW x \in Of(table, who) PROVE x \in T /\ <<who, x>> \in table
  <2>1. PICK row \in table : row[1] = who /\ x = row[2]
    BY <1>1 DEF Of
  <2>2. row = <<who, x>> /\ x \in T
    BY <2>1
  <2>3. QED
    BY <2>1, <2>2
<1>2. ASSUME NEW x, <<who, x>> \in table PROVE x \in Of(table, who)
  <2>1. <<who, x>>[1] = who /\ <<who, x>>[2] = x
    OBVIOUS
  <2>2. QED
    BY <1>2, <2>1 DEF Of
<1>3. QED
  BY <1>1, <1>2

LEMMA RowsReplaced ==
    ASSUME NEW S, NEW T, NEW table \in SUBSET (S \X T), NEW j,
           j.who \in S, j.new \subseteq T
    PROVE  /\ Replaced(table, j) \in SUBSET (S \X T)
           /\ \A s \in S, x \in T : <<s, x>> \in Replaced(table, j) <=>
                 IF s = j.who
                 THEN x \in j.new \/ (<<s, x>> \in table /\ x \notin j.seen)
                 ELSE <<s, x>> \in table
BY DEF Replaced, With

\* A request that is over; what it leaves to the others.
LEMMA Answers ==
    ASSUME JobTypes, NEW a \in User, Answered(a)
    PROVE  /\ job' \in [User -> Job] /\ job'[a] = Idle
           /\ \A b \in User \ {a} : job'[b] = job[b]
BY Jobs DEF JobTypes, Answered

LEMMA Finishes ==
    ASSUME JobTypes, NEW a \in User, Done(a)
    PROVE  /\ job' \in [User -> Job] /\ job'[a] = Idle
           /\ \A b \in User \ {a} :
                 /\ job'[b].op = job[b].op /\ job'[b].who = job[b].who
                 /\ job'[b].new = job[b].new /\ job'[b].codes = job[b].codes
                 /\ job'[b].on = job[b].on /\ job'[b].dept = job[b].dept
                 /\ job'[b].seen = IF Same(job[b], job[a])
                                   THEN job[b].seen \ job[a].seen
                                   ELSE job[b].seen
                 /\ job[b].op = "idle" => job'[b] = Idle
                 /\ job'[b] # Idle => job[b] # Idle
<1>1. \A b \in User : job[b] \in Job
  BY DEF JobTypes
<1>2. ASSUME NEW b \in User \ {a}
      PROVE  /\ job'[b] \in Job
             /\ job'[b].op = job[b].op /\ job'[b].who = job[b].who
             /\ job'[b].new = job[b].new /\ job'[b].codes = job[b].codes
             /\ job'[b].on = job[b].on /\ job'[b].dept = job[b].dept
             /\ job'[b].seen = IF Same(job[b], job[a])
                               THEN job[b].seen \ job[a].seen
                               ELSE job[b].seen
  BY <1>1 DEF Done, Job
<1>3. ASSUME NEW b \in User \ {a}, job[b].op = "idle" PROVE job'[b] = Idle
  <2>1. job[b] = Idle
    BY <1>3 DEF JobTypes
  <2>2. job'[b] \in {job[b], [job[b] EXCEPT !.seen = @ \ job[a].seen]}
    BY DEF Done
  <2>3. [Idle EXCEPT !.seen = @ \ job[a].seen] = Idle
    BY DEF Idle
  <2>4. QED
    BY <2>1, <2>2, <2>3
<1>4. job' \in [User -> Job] /\ job'[a] = Idle
  BY <1>2, Jobs DEF Done
<1>5. \A b \in User \ {a} : job'[b] # Idle => job[b] # Idle
  BY <1>3, Jobs
<1>6. QED
  BY <1>2, <1>3, <1>4, <1>5

LEMMA FinishedTypes ==
    ASSUME JobTypes, NEW a \in User, Done(a), up' = up, users' = users
    PROVE  JobTypes'
<1>1. job' \in [User -> Job]
  BY Finishes
<1>2. ASSUME NEW b \in User
      PROVE  /\ job'[b].op = "idle" => job'[b] = Idle
             /\ job'[b] # Idle => up /\ users # {}
             /\ job'[b].op \in Fields =>
                   job'[b].who \in users /\ job'[b].new \subseteq RoleId
             /\ job'[b].op = "fields" =>
                   job'[b].seen = {} /\ job'[b].new = {} /\ job'[b].codes = {}
             /\ job'[b].op \in {"apps", "sets"} => job'[b].who \in Principal
             /\ job'[b].op = "apps" => job'[b].new \subseteq App
             /\ job'[b].op = "sets" => job'[b].new \subseteq Dataset
  <2>1. CASE b = a
    BY <2>1, Finishes, Jobs DEF Fields
  <2>2. CASE b # a
    <3>1. /\ job'[b].op = job[b].op /\ job'[b].who = job[b].who
          /\ job'[b].new = job[b].new /\ job'[b].codes = job[b].codes
          /\ job[b].seen = {} => job'[b].seen = {}
          /\ job[b].op = "idle" => job'[b] = Idle
          /\ job'[b] # Idle => job[b] # Idle
      BY <2>2, Finishes
    <3>2. QED
      BY <3>1 DEF JobTypes
  <2>3. QED
    BY <2>1, <2>2
<1>3. QED
  BY <1>1, <1>2 DEF JobTypes

\* Every step keeps the types.
LEMMA TypesKept ==
    ASSUME AuthInv, [Next]_vars
    PROVE  TypeOK' /\ JobTypes'
<1>1. TypeOK /\ JobTypes
  BY DEF AuthInv
<1> USE DEF TypeOK, userVars, roleVars, grantVars
<1>2. ASSUME NEW a \in User, Admit(a) \/ Refuse(a)
      PROVE  TypeOK' /\ JobTypes'
  <2>1. TypeOK'
    BY <1>1, <1>2 DEF Admit, Refuse
  <2>2. JobTypes'
    <3>1. CASE Admit(a)
      <4>1. /\ job' = [job EXCEPT ![a] = Gate] /\ up' = up /\ users' = users
            /\ up /\ users # {}
        BY <1>1, <3>1 DEF Admit, MayAdminister
      <4>2. job' \in [User -> Job] /\ job'[a] = Gate
            /\ \A b \in User \ {a} : job'[b] = job[b]
        BY <1>1, <4>1, Jobs DEF JobTypes
      <4>3. QED
        BY <1>1, <4>1, <4>2, Jobs DEF JobTypes, Fields
    <3>2. CASE Refuse(a)
      BY <1>1, <3>2, Answers, Jobs DEF Refuse, JobTypes, Fields
    <3>3. QED
      BY <1>2, <3>1, <3>2
  <2>3. QED
    BY <2>1, <2>2
<1>3. ASSUME NEW a \in User, job[a] = Gate, NEW u \in User,
             NEW sent \in CodeLists, NEW d \in Dept \cup {NONE},
             CreateUser(a, u, sent, d)
      PROVE  TypeOK' /\ JobTypes'
  <2>1. OrUser(sent) \subseteq Code
    BY AuthorizationAssumption, Constants DEF OrUser
  <2>2. With(u, IdsOf(OrUser(sent))) \subseteq users' \X RoleId
    BY <1>3 DEF CreateUser, With, IdsOf, Roles
  <2>3. TypeOK'
    BY <1>1, <1>3, <2>1, <2>2 DEF CreateUser
  <2>4. JobTypes'
    BY <1>1, <1>3, Answers, Jobs DEF CreateUser, JobTypes, Fields
  <2>5. QED
    BY <2>3, <2>4
<1>4. ASSUME NEW a \in User, job[a] = Gate, NEW u \in users,
             NEW sent \in Optional(CodeLists), NEW on \in Optional(BOOLEAN),
             NEW d \in Optional(Dept \cup {NONE}), UpdateRead(a, u, sent, on, d)
      PROVE  TypeOK' /\ JobTypes'
  <2> DEFINE j == [op |-> IF sent = {} THEN "fields" ELSE "roles", who |-> u,
                   seen |-> IF sent = {} THEN {} ELSE Of(holds, u),
                   new |-> IdsOf(UNION sent), codes |-> sent \ {snapshot[u]},
                   on |-> on \ {u \in enabled}, dept |-> d \ {dept[u]}]
  <2>1. sent \subseteq SUBSET Code /\ on \subseteq BOOLEAN
        /\ d \subseteq Dept \cup {NONE}
    BY AuthorizationAssumption DEF Optional
  <2>2. Of(holds, u) \subseteq RoleId /\ IdsOf(UNION sent) \subseteq RoleId
    BY <1>1, Rows DEF IdsOf, Roles
  <2>3. j \in Job
    BY <1>1, <2>1, <2>2 DEF Job
  <2>4. sent = {} => IdsOf(UNION sent) = {}
    BY DEF IdsOf
  <2>5. job' = [job EXCEPT ![a] = j]
    BY <1>4 DEF UpdateRead
  <2>6. TypeOK'
    BY <1>1, <1>4, Constants DEF UpdateRead
  <2>7. job' \in [User -> Job] /\ job'[a] = j
        /\ \A b \in User \ {a} : job'[b] = job[b]
    BY <1>1, <2>3, <2>5 DEF JobTypes
  <2>8. JobTypes'
    <3>1. up' = up /\ users' = users /\ up /\ users # {}
      BY <1>1, <1>4, Jobs DEF UpdateRead, JobTypes
    <3>2. /\ j.op \in Fields /\ j.who \in users /\ j.new \subseteq RoleId
          /\ j.op = "fields" => j.seen = {} /\ j.new = {} /\ j.codes = {}
      BY <2>2, <2>4 DEF Fields
    <3>3. j.op \notin {"idle", "apps", "sets"}
      OBVIOUS
    <3> HIDE DEF j
    <3>4. QED
      BY <1>1, <2>7, <3>1, <3>2, <3>3 DEF JobTypes
  <2>9. QED
    BY <2>6, <2>8
<1>5. ASSUME NEW a \in User, UpdateCommit(a)
      PROVE  TypeOK' /\ JobTypes'
  <2> DEFINE j == job[a]
  <2>1. /\ j \in Job /\ j.who \in users /\ j.who \in User /\ j.new \subseteq RoleId
        /\ j.codes \subseteq SUBSET Code /\ j.dept \subseteq Dept \cup {NONE}
    BY <1>1, <1>5 DEF UpdateCommit, JobTypes, Fields, Job
  <2>2. holds' \in SUBSET (users \X RoleId)
    BY <1>1, <1>5, <2>1, RowsReplaced DEF UpdateCommit
  <2>3. snapshot' \in [User -> SUBSET Code] /\ dept' \in [User -> Dept \cup {NONE}]
    <3>1. j.codes # {} => (CHOOSE v \in j.codes : TRUE) \in SUBSET Code
      BY <2>1
    <3>2. j.dept # {} => (CHOOSE v \in j.dept : TRUE) \in Dept \cup {NONE}
      BY <2>1
    <3>3. QED
      BY <1>1, <1>5, <3>1, <3>2 DEF UpdateCommit, Set
  <2>4. TypeOK'
    BY <1>1, <1>5, <2>1, <2>2, <2>3 DEF UpdateCommit
  <2>5. JobTypes'
    BY <1>1, <1>5, FinishedTypes DEF UpdateCommit
  <2>6. QED
    BY <2>4, <2>5
<1>6. ASSUME NEW a \in User, NEW c \in Custom, CreateRole(a, c)
      PROVE  TypeOK' /\ JobTypes'
  <2>1. TypeOK'
    BY <1>1, <1>6, Constants DEF CreateRole, NextRoleId, RoleId
  <2>2. JobTypes'
    BY <1>1, <1>6, Answers, Jobs DEF CreateRole, JobTypes, Fields
  <2>3. QED
    BY <2>1, <2>2
<1>7. ASSUME NEW a \in User, NEW r \in RoleId, DeleteRole(a, r)
      PROVE  TypeOK' /\ JobTypes'
  <2>1. TypeOK'
    BY <1>1, <1>7 DEF DeleteRole
  <2>2. JobTypes'
    BY <1>1, <1>7, Answers, Jobs DEF DeleteRole, JobTypes, Fields
  <2>3. QED
    BY <2>1, <2>2
<1>8. ASSUME NEW a \in User, NEW p \in Principal, NEW S \in SUBSET App,
             job[a] = Gate, AppsRead(a, p, S)
      PROVE  TypeOK' /\ JobTypes'
  <2>1. TypeOK'
    BY <1>1, <1>8, Constants DEF AppsRead
  <2> DEFINE j == Replacing("apps", p, Of(appGrants, p), S)
  <2>2. j \in Job /\ j.op = "apps" /\ j.who = p /\ j.new = S
    BY <1>1, Rows DEF Replacing, Idle, Job
  <2>3. job' \in [User -> Job] /\ job'[a] = j
        /\ \A b \in User \ {a} : job'[b] = job[b]
    BY <1>1, <1>8, <2>2 DEF AppsRead, JobTypes
  <2>4. JobTypes'
    BY <1>1, <1>8, <2>2, <2>3, Jobs DEF AppsRead, JobTypes, Fields
  <2>5. QED
    BY <2>1, <2>4
<1>9. ASSUME NEW a \in User, NEW u \in users, NEW S \in SUBSET Dataset,
             job[a] = Gate, SetsRead(a, u, S)
      PROVE  TypeOK' /\ JobTypes'
  <2>1. TypeOK'
    BY <1>1, <1>9, Constants DEF SetsRead
  <2> DEFINE j == Replacing("sets", ByUser(u), Of(setGrants, ByUser(u)), S)
  <2>2. j \in Job /\ j.op = "sets" /\ j.who \in Principal /\ j.new = S
    BY <1>1, Rows, Principals DEF Replacing, Idle, Job
  <2>3. job' \in [User -> Job] /\ job'[a] = j
        /\ \A b \in User \ {a} : job'[b] = job[b]
    BY <1>1, <1>9, <2>2 DEF SetsRead, JobTypes
  <2>4. JobTypes'
    BY <1>1, <1>9, <2>2, <2>3, Jobs DEF SetsRead, JobTypes, Fields
  <2>5. QED
    BY <2>1, <2>4
<1>10. ASSUME NEW a \in User, NEW p \in Principal, NEW k \in Dataset,
              job[a] = Gate, AddGrant(a, p, k) \/ RemoveGrant(a, p, k)
       PROVE  TypeOK' /\ JobTypes'
  <2>1. TypeOK'
    BY <1>1, <1>10, Constants DEF AddGrant, RemoveGrant
  <2>2. JobTypes'
    BY <1>1, <1>10, Answers, Jobs DEF AddGrant, RemoveGrant, JobTypes, Fields
  <2>3. QED
    BY <2>1, <2>2
<1>11. ASSUME NEW a \in User, AppsCommit(a) \/ SetsCommit(a)
       PROVE  TypeOK' /\ JobTypes'
  <2>1. job[a].op \in {"apps", "sets"}
    BY <1>11 DEF AppsCommit, SetsCommit
  <2>2. /\ AppsCommit(a) => appGrants' \in SUBSET (Principal \X App)
        /\ SetsCommit(a) => setGrants' \in SUBSET (Principal \X Dataset)
    BY <1>1, RowsReplaced DEF AppsCommit, SetsCommit, JobTypes
  <2>3. TypeOK'
    BY <1>1, <1>11, <2>2 DEF AppsCommit, SetsCommit
  <2>4. JobTypes'
    BY <1>1, <1>11, FinishedTypes DEF AppsCommit, SetsCommit
  <2>5. QED
    BY <2>3, <2>4
<1>12. CASE Start
  <2>1. Seed \in User /\ SeedApp \subseteq App /\ BUILTIN_CODES \subseteq Code
    BY AuthorizationAssumption DEF Code
  <2>2. role' \in [RoleId -> Code \cup {NONE}]
    BY <1>1, <1>12, Constants DEF Start, Seeded
  <2>3. users' \subseteq User /\ enabled' \subseteq users' /\ users \subseteq users'
        /\ snapshot' \in [User -> SUBSET Code] /\ users' # {}
    BY <1>1, <1>12, <2>1 DEF Start
  <2>4. \A u \in users' : Migrated(u, role', snapshot'[u]) \subseteq RoleId
    BY <1>1, Rows DEF Migrated
  <2>5. holds' \subseteq users' \X RoleId
    BY <1>12, <2>4 DEF Start, With
  <2>6. appGrants' \subseteq Principal \X App
    BY <1>1, <1>12, <2>1, Principals DEF Start, UserRoleGrants
  <2>7. TypeOK'
    BY <1>1, <1>12, <2>2, <2>3, <2>5, <2>6 DEF Start
  <2>8. JobTypes'
    BY <1>1, <1>12, <2>3 DEF Start, JobTypes
  <2>9. QED
    BY <2>7, <2>8
<1>13. CASE Stop
  BY <1>1, <1>13, Jobs DEF Stop, JobTypes, Fields
<1>14. CASE UNCHANGED vars
  BY <1>1, <1>14 DEF vars, JobTypes, Job, Principal
<1>15. QED
  BY <1>2, <1>3, <1>4, <1>5, <1>6, <1>7, <1>8, <1>9, <1>10, <1>11, <1>12,
     <1>13, <1>14 DEF Next, Step, Work

\* The steps that touch roles.
LEMMA RoleSteps ==
    ASSUME AuthInv, [Next]_vars
    PROVE  \/ Start
           \/ \E a \in User, c \in Custom : job[a] = Gate /\ CreateRole(a, c)
           \/ \E a \in User, r \in RoleId : job[a] = Gate /\ DeleteRole(a, r)
           \/ /\ role' = role /\ seq' = seq
              /\ up' \/ users' # {} => up \/ users # {}
<1> USE DEF userVars, roleVars, grantVars
<1>1. ASSUME NEW a \in User, job[a] # Idle PROVE up
  BY <1>1 DEF AuthInv, JobTypes
<1>2. ASSUME NEW a \in User,
             \/ Admit(a) \/ Refuse(a) \/ UpdateCommit(a) \/ AppsCommit(a)
             \/ SetsCommit(a)
      PROVE  /\ role' = role /\ seq' = seq
             /\ up' \/ users' # {} => up \/ users # {}
  <2>1. CASE Admit(a) \/ Refuse(a)
    BY <2>1 DEF Admit, Refuse
  <2>2. CASE UpdateCommit(a)
    BY <2>2 DEF UpdateCommit
  <2>3. CASE AppsCommit(a) \/ SetsCommit(a)
    BY <2>3 DEF AppsCommit, SetsCommit
  <2>4. QED
    BY <1>2, <2>1, <2>2, <2>3
<1>3. ASSUME NEW a \in User, job[a] = Gate, Work(a)
      PROVE  \/ \E c \in Custom : CreateRole(a, c)
             \/ \E r \in RoleId : DeleteRole(a, r)
             \/ role' = role /\ seq' = seq
  <2>1. ASSUME NEW u \in User, NEW sent, NEW d, CreateUser(a, u, sent, d)
        PROVE  role' = role /\ seq' = seq
    BY <2>1 DEF CreateUser
  <2>2. ASSUME NEW u, NEW sent, NEW on, NEW d, UpdateRead(a, u, sent, on, d)
        PROVE  role' = role /\ seq' = seq
    BY <2>2 DEF UpdateRead
  <2>3. ASSUME NEW p, NEW x,
               \/ AppsRead(a, p, x) \/ SetsRead(a, p, x) \/ AddGrant(a, p, x)
               \/ RemoveGrant(a, p, x)
        PROVE  role' = role /\ seq' = seq
    BY <2>3 DEF AppsRead, SetsRead, AddGrant, RemoveGrant
  <2>4. QED
    BY <1>3, <2>1, <2>2, <2>3 DEF Work
<1>4. CASE Stop
  BY <1>4 DEF Stop
<1>5. CASE UNCHANGED vars
  BY <1>5 DEF vars
<1>6. ASSUME NEW a \in User, Step(a)
      PROVE  \/ \E c \in Custom : job[a] = Gate /\ CreateRole(a, c)
             \/ \E r \in RoleId : job[a] = Gate /\ DeleteRole(a, r)
             \/ /\ role' = role /\ seq' = seq
                /\ up' \/ users' # {} => up \/ users # {}
  BY <1>1, <1>2, <1>3, <1>6, Jobs DEF Step
<1>7. QED
  BY <1>4, <1>5, <1>6 DEF Next

LEMMA RolesStandKept ==
    ASSUME AuthInv, [Next]_vars
    PROVE  RolesStand'
<1>1. TypeOK /\ JobTypes /\ RolesStand
  BY DEF AuthInv
<1>2. CASE Start
  <2>1. Known({USER}) => role[1] = USER
    BY <1>1, Constants DEF Known, Roles, RolesStand
  <2>2. Known({PLATFORM_ADMIN}) => role[2] = PLATFORM_ADMIN
    BY <1>1, Constants DEF Known, Roles, RolesStand
  <2>3. role'[1] = USER /\ role'[2] = PLATFORM_ADMIN
        /\ \A r \in RoleId \ {1, 2} : role'[r] = role[r]
    BY <1>1, <1>2, <2>1, <2>2, Constants DEF Start, Seeded, TypeOK
  <2>4. QED
    BY <1>1, <2>3, Constants DEF RolesStand
<1>3. ASSUME NEW a \in User, NEW c \in Custom, job[a] = Gate, CreateRole(a, c)
      PROVE  RolesStand'
  <2>1. role[1] = USER /\ role[2] = PLATFORM_ADMIN
    BY <1>1, <1>3, Jobs DEF JobTypes, RolesStand
  <2>2. \/ role' = role
        \/ \E r \in RoleId \ {1, 2} : role' = [role EXCEPT ![r] = c]
    BY <1>3, <2>1, Constants DEF CreateRole
  <2>3. role'[1] = USER /\ role'[2] = PLATFORM_ADMIN
        /\ \A r \in RoleId \ {1, 2} : role'[r] \in Custom \cup {NONE}
    BY <1>1, <2>1, <2>2, Constants DEF TypeOK, RolesStand
  <2>4. QED
    BY <2>3 DEF RolesStand
<1>4. ASSUME NEW a \in User, NEW r \in RoleId, job[a] = Gate, DeleteRole(a, r)
      PROVE  RolesStand'
  <2>1. role[1] = USER /\ role[2] = PLATFORM_ADMIN
    BY <1>1, <1>4, Jobs DEF JobTypes, RolesStand
  <2>2. r \notin {1, 2} /\ role' = [role EXCEPT ![r] = NONE]
    BY <1>4, <2>1 DEF DeleteRole, Deletable, BUILTIN_CODES
  <2>3. QED
    BY <1>1, <2>1, <2>2 DEF TypeOK, RolesStand
<1>5. CASE /\ role' = role /\ seq' = seq
           /\ up' \/ users' # {} => up \/ users # {}
  BY <1>1, <1>5 DEF RolesStand
<1>6. QED
  BY <1>2, <1>3, <1>4, <1>5, RoleSteps

\* An id beyond the sequence stays unnamed.
LEMMA StartUnnamed ==
    ASSUME AuthInv, Start, NEW r \in RoleId \ {1, 2}, Unnamed(r)
    PROVE  Unnamed(r)'
<1>1. TypeOK /\ JobTypes /\ TypeOK'
  BY TypesKept DEF AuthInv, Next
<1>2. role'[r] = NONE
  BY <1>1, Constants DEF Start, Seeded, TypeOK, Unnamed
<1>3. \A u \in User : <<u, r>> \notin holds'
  <2>1. \A u \in users' : r \notin Migrated(u, role', snapshot'[u])
    <3> SUFFICES ASSUME NEW u \in users'
                 PROVE  r \notin Migrated(u, role', snapshot'[u])
      OBVIOUS
    <3>1. role'[r] \notin OrUser(snapshot'[u]) /\ role'[r] # USER
      BY <1>1, <1>2, Constants, AuthorizationAssumption DEF OrUser, TypeOK
    <3>2. r \notin Of(holds, u)
      <4>1. u \in User /\ <<u, r>> \notin holds
        BY <1>1 DEF Unnamed, TypeOK
      <4>2. holds \in SUBSET (users \X RoleId)
        BY <1>1 DEF TypeOK
      <4>3. QED
        BY <4>1, <4>2, Rows
    <3>3. QED
      BY <3>1, <3>2 DEF Migrated
  <2>2. QED
    BY <1>1, <2>1 DEF Start, With
<1>4. \A x \in App : <<ByRole(r), x>> \notin appGrants'
  BY <1>2, Constants, Principals DEF Start, UserRoleGrants, Unnamed
<1>5. QED
  BY <1>2, <1>3, <1>4 DEF Start, Unnamed

LEMMA StepUnnamed ==
    ASSUME AuthInv, NEW a \in User, Step(a), NEW r \in RoleId \ {1, 2},
           Unnamed(r), r > seq'
    PROVE  Unnamed(r)'
<1> USE DEF Unnamed, userVars, roleVars, grantVars
<1>1. TypeOK /\ JobTypes
  BY DEF AuthInv
<1>2. CASE Admit(a) \/ Refuse(a)
  BY <1>1, <1>2, Answers, Jobs DEF Admit, Refuse, JobTypes, Fields
<1>3. ASSUME job[a] = Gate, NEW u \in User, NEW sent, NEW d,
             CreateUser(a, u, sent, d)
      PROVE  Unnamed(r)'
  BY <1>1, <1>3, Answers, Jobs DEF CreateUser, With, IdsOf, Roles, Fields
<1>4. ASSUME job[a] = Gate, NEW u \in users, NEW sent, NEW on, NEW d,
             UpdateRead(a, u, sent, on, d)
      PROVE  Unnamed(r)'
  <2>1. r \notin IdsOf(UNION sent)
    BY DEF IdsOf, Roles
  <2>2. /\ job'[a].op \in Fields /\ job'[a].new = IdsOf(UNION sent)
        /\ \A b \in User \ {a} : job'[b] = job[b]
    BY <1>1, <1>4 DEF UpdateRead, JobTypes, Fields
  <2>3. UNCHANGED <<role, holds, appGrants, setGrants>>
    BY <1>4 DEF UpdateRead
  <2>4. job'[a].op \notin {"apps", "sets"}
    BY <2>2 DEF Fields
  <2>5. QED
    BY <2>1, <2>2, <2>3, <2>4
<1>5. CASE UpdateCommit(a)
  <2>1. job[a].who \in users /\ r \notin job[a].new /\ job[a].new \subseteq RoleId
    BY <1>1, <1>5 DEF UpdateCommit, JobTypes, Fields
  <2>2. holds \in SUBSET (users \X RoleId) /\ holds' = Replaced(holds, job[a])
    BY <1>1, <1>5 DEF UpdateCommit, TypeOK
  <2>3. \A u \in User : <<u, r>> \notin holds'
    BY <2>1, <2>2 DEF Replaced, With
  <2>4. Done(a) /\ UNCHANGED <<role, appGrants, setGrants>>
    BY <1>5 DEF UpdateCommit
  <2>5. \A b \in User :
           /\ job'[b].op \in Fields => r \notin job'[b].new
           /\ job'[b].op \in {"apps", "sets"} => job'[b].who # ByRole(r)
    BY <1>1, <2>4, Finishes, Jobs DEF Fields
  <2>6. QED
    BY <2>3, <2>4, <2>5
<1>6. ASSUME NEW c \in Custom, CreateRole(a, c) PROVE Unnamed(r)'
  <2>1. seq' = seq + 1 /\ seq \in Nat /\ r \in Nat
    BY <1>1, <1>6, Constants DEF CreateRole, NextRoleId, TypeOK, RoleId
  <2>2. role'[r] = NONE
    BY <1>1, <1>6, <2>1 DEF CreateRole, TypeOK
  <2>3. QED
    BY <1>1, <1>6, <2>2, Answers, Jobs DEF CreateRole, Fields
<1>7. ASSUME NEW s \in RoleId, DeleteRole(a, s) PROVE Unnamed(r)'
  <2>1. role'[r] = NONE
    BY <1>1, <1>7 DEF DeleteRole, TypeOK
  <2>2. QED
    BY <1>1, <1>7, <2>1, Answers, Jobs DEF DeleteRole, Fields
<1>8. \A p : Exists(p) => p # ByRole(r)
  BY <1>1, Principals DEF Exists, Roles, TypeOK
<1>9. ASSUME NEW p, NEW S, AppsRead(a, p, S) PROVE Unnamed(r)'
  <2>1. /\ job'[a].op = "apps" /\ job'[a].who = p
        /\ \A b \in User \ {a} : job'[b] = job[b]
        /\ UNCHANGED <<role, holds, appGrants, setGrants>>
    BY <1>1, <1>9 DEF AppsRead, JobTypes, Replacing, Idle
  <2>2. p # ByRole(r)
    BY <1>8, <1>9 DEF AppsRead
  <2>3. QED
    BY <2>1, <2>2 DEF Fields
<1>10. ASSUME NEW u \in users, NEW S, SetsRead(a, u, S) PROVE Unnamed(r)'
  <2>1. /\ job'[a].op = "sets" /\ job'[a].who = ByUser(u)
        /\ \A b \in User \ {a} : job'[b] = job[b]
        /\ UNCHANGED <<role, holds, appGrants, setGrants>>
    BY <1>1, <1>10 DEF SetsRead, JobTypes, Replacing, Idle
  <2>2. ByUser(u) # ByRole(r)
    BY <1>1, Principals DEF TypeOK
  <2>3. QED
    BY <2>1, <2>2 DEF Fields
<1>11. ASSUME NEW p, NEW k, AddGrant(a, p, k) \/ RemoveGrant(a, p, k)
       PROVE  Unnamed(r)'
  <2>1. setGrants' \subseteq setGrants \/ (Exists(p)
          /\ setGrants' = setGrants \cup {<<p, k>>})
    BY <1>11 DEF AddGrant, RemoveGrant
  <2>2. \A x \in Dataset : <<ByRole(r), x>> \notin setGrants'
    BY <1>8, <2>1
  <2>3. Answered(a) /\ UNCHANGED <<role, holds, appGrants>>
    BY <1>11 DEF AddGrant, RemoveGrant
  <2>4. QED
    BY <1>1, <2>2, <2>3, Answers, Jobs DEF Fields
<1>12. CASE AppsCommit(a) \/ SetsCommit(a)
  <2>1. job[a].who # ByRole(r)
    BY <1>12 DEF AppsCommit, SetsCommit
  <2>2. /\ \A x \in App : <<ByRole(r), x>> \notin appGrants'
        /\ \A x \in Dataset : <<ByRole(r), x>> \notin setGrants'
    BY <1>12, <2>1 DEF AppsCommit, SetsCommit, Replaced, With
  <2>3. Done(a) /\ UNCHANGED <<role, holds>>
    BY <1>12 DEF AppsCommit, SetsCommit
  <2>4. \A b \in User :
           /\ job'[b].op \in Fields => r \notin job'[b].new
           /\ job'[b].op \in {"apps", "sets"} => job'[b].who # ByRole(r)
    BY <1>1, <2>3, Finishes, Jobs DEF Fields
  <2>5. QED
    BY <2>2, <2>3, <2>4
<1>13. QED
  BY <1>2, <1>3, <1>4, <1>5, <1>6, <1>7, <1>9, <1>10, <1>11, <1>12
     DEF Step, Work

LEMMA IdsGivenOutKept ==
    ASSUME AuthInv, [Next]_vars
    PROVE  IdsGivenOut'
<1> SUFFICES ASSUME NEW r \in RoleId \ {1, 2}, ~(r <= seq')
             PROVE  Unnamed(r)'
  BY DEF IdsGivenOut
<1>1. /\ TypeOK /\ JobTypes /\ TypeOK' /\ IdsGivenOut
      /\ r \in Nat /\ seq \in Nat /\ seq' \in Nat
  BY TypesKept, Constants DEF AuthInv, RoleId, TypeOK
<1>2. seq <= seq'
  <2>1. CASE Start
    BY <1>1, <2>1 DEF Start
  <2>2. ASSUME NEW a \in User, NEW c \in Custom, CreateRole(a, c)
        PROVE  seq' = seq + 1
    BY <2>2 DEF CreateRole, NextRoleId
  <2>3. ASSUME NEW a \in User, NEW x \in RoleId, DeleteRole(a, x)
        PROVE  seq' = seq
    BY <2>3 DEF DeleteRole
  <2>4. QED
    BY <1>1, <2>1, <2>2, <2>3, RoleSteps
<1>3. Unnamed(r) /\ r > seq'
  BY <1>1, <1>2 DEF IdsGivenOut
<1>4. CASE Start
  BY <1>3, <1>4, StartUnnamed
<1>5. ASSUME NEW a \in User, Step(a) PROVE Unnamed(r)'
  BY <1>3, <1>5, StepUnnamed
<1>6. CASE Stop
  BY <1>3, <1>6, Jobs
     DEF Stop, Unnamed, userVars, roleVars, grantVars, Fields
<1>7. CASE UNCHANGED vars
  BY <1>3, <1>7 DEF vars, Unnamed, userVars, roleVars, grantVars
<1>8. QED
  BY <1>4, <1>5, <1>6, <1>7 DEF Next

\* What the rows of one user owe, in one formula.
RowsOf(u) ==
    /\ \A r \in RoleId : <<u, r>> \in holds =>
          /\ role[r] # NONE
          /\ u \notin mixed => role[r] \in snapshot[u] \cup {USER}
    /\ PLATFORM_ADMIN \in snapshot[u] => <<u, 2>> \in holds

LEMMA RowsKeptByStart ==
    ASSUME AuthInv, Start, NEW u \in users'
    PROVE  RowsOf(u)'
<1>1. TypeOK /\ TypeOK' /\ RolesStand' /\ RowsOfUsers
  BY TypesKept, RolesStandKept DEF AuthInv, Next
<1>2. role'[1] = USER /\ role'[2] = PLATFORM_ADMIN
  BY <1>1 DEF Start, RolesStand
<1>3. \A r \in RoleId : role[r] # NONE => role'[r] = role[r]
  <2>1. role[1] \in {NONE, USER} /\ role[2] \in {NONE, PLATFORM_ADMIN}
    BY DEF AuthInv, RolesStand
  <2>2. \A r \in RoleId \ {1, 2} : role'[r] = role[r]
    BY <1>1, Constants DEF Start, Seeded, TypeOK
  <2>3. QED
    BY <1>2, <2>1, <2>2
<1>4. \A r \in RoleId : <<u, r>> \in holds' <=>
                        r \in Migrated(u, role', snapshot'[u])
  <2> DEFINE M(v) == Migrated(v, role', snapshot'[v])
  <2>1. holds' = UNION {{v} \X M(v) : v \in users'}
    BY DEF Start, With
  <2> HIDE DEF M
  <2>2. \A r \in RoleId : <<u, r>> \in holds' <=> r \in M(u)
    BY <2>1
  <2>3. QED
    BY <2>2 DEF M
<1>5. \A r : r \in Of(holds, u) <=> r \in RoleId /\ <<u, r>> \in holds
  BY <1>1, Rows DEF TypeOK
<1>6. u \in users => snapshot'[u] = snapshot[u]
  BY <1>1 DEF Start
<1>7. ASSUME NEW r \in RoleId, <<u, r>> \in holds
      PROVE  /\ role'[r] = role[r] /\ role'[r] # NONE
             /\ u \notin mixed' => role'[r] \in snapshot'[u] \cup {USER}
  <2>1. u \in users
    BY <1>1, <1>7 DEF TypeOK
  <2>2. QED
    BY <1>1, <1>3, <1>6, <1>7, <2>1 DEF RowsOfUsers, Start
<1>8. ASSUME NEW r \in RoleId, <<u, r>> \in holds'
      PROVE  /\ role'[r] # NONE
             /\ u \notin mixed' => role'[r] \in snapshot'[u] \cup {USER}
  <2>1. CASE r \in Of(holds, u)
    BY <1>5, <1>7, <2>1
  <2>2. CASE role'[r] \in OrUser(snapshot'[u]) \/ role'[r] = USER
    BY <1>1, <2>2, Constants, AuthorizationAssumption DEF OrUser, TypeOK
  <2>3. QED
    BY <1>4, <1>8, <2>1, <2>2 DEF Migrated
<1>9. PLATFORM_ADMIN \in snapshot'[u] => <<u, 2>> \in holds'
  BY <1>2, <1>4, Constants DEF Migrated, OrUser
<1>10. QED
  BY <1>8, <1>9 DEF RowsOf

\* The commit of an update, seen from the user it is about.
LEMMA RowsKeptByUpdate ==
    ASSUME AuthInv, NEW a \in User, UpdateCommit(a), NEW u \in users
    PROVE  RowsOf(u)'
<1> DEFINE j == job[a]
<1>1. TypeOK /\ JobTypes /\ RolesStand /\ RowsOfUsers /\ UpdatesInProgress
  BY DEF AuthInv
<1>2. /\ j.op \in Fields /\ j.who \in users /\ j.new \subseteq Roles
      /\ j.op = "fields" => j.seen = {} /\ j.new = {} /\ j.codes = {}
      /\ role' = role /\ snapshot' = Set(snapshot, j.who, j.codes)
      /\ mixed' = mixed \cup {x \in {j.who} : \E b \in User \ {a} :
                                 job[b].op = "roles" /\ Same(job[b], j)}
  BY <1>1 DEF UpdateCommit, Fields, JobTypes, roleVars
<1>3. holds \in SUBSET (users \X RoleId) /\ holds' = Replaced(holds, j)
      /\ j.new \subseteq RoleId
  BY <1>1, <1>2 DEF UpdateCommit, TypeOK, Roles
<1>4. \A r \in RoleId : <<u, r>> \in holds' <=>
         IF u = j.who
         THEN r \in j.new \/ (<<u, r>> \in holds /\ r \notin j.seen)
         ELSE <<u, r>> \in holds
  BY <1>2, <1>3, RowsReplaced
<1>now. RowsOf(u)
  BY <1>1 DEF RowsOfUsers, RowsOf
<1> HIDE DEF j
<1>5. CASE u # j.who
  <2>1. snapshot'[u] = snapshot[u] /\ (u \in mixed <=> u \in mixed')
    BY <1>2, <1>5 DEF Set
  <2>2. \A r \in RoleId : <<u, r>> \in holds' <=> <<u, r>> \in holds
    BY <1>4, <1>5
  <2>3. QED
    BY <1>2, <1>now, <2>1, <2>2, Constants DEF RowsOf
<1>6. CASE u = j.who /\ j.op = "fields"
  <2>1. snapshot' = snapshot /\ mixed \subseteq mixed'
    BY <1>2, <1>6 DEF Set
  <2>2. \A r \in RoleId : <<u, r>> \in holds' <=> <<u, r>> \in holds
    BY <1>2, <1>4, <1>6
  <2>3. QED
    BY <1>2, <1>now, <2>1, <2>2, Constants DEF RowsOf
<1>7. CASE u = j.who /\ j.op = "roles"
  <2>1. /\ \A C \in j.codes : /\ j.codes = {C}
                              /\ PLATFORM_ADMIN \in C => 2 \in j.new
                              /\ \A r \in j.new : role[r] \in C \cup {NONE}
        /\ j.codes = {} /\ 2 \in j.seen /\ PLATFORM_ADMIN \in snapshot[u]
              => 2 \in j.new
        /\ u \notin mixed =>
              /\ \A r \in RoleId : <<u, r>> \in holds => r \in j.seen
              /\ j.codes = {} =>
                    \A r \in j.new : role[r] \in snapshot[u] \cup {NONE}
    BY <1>1, <1>7 DEF UpdatesInProgress, UpdateInProgress, j
  <2>2. \A r \in j.new : role[r] # NONE
    BY <1>2 DEF Roles
  <2>3. \A r \in RoleId : <<u, r>> \in holds' => role'[r] # NONE
    BY <1>1, <1>2, <1>4, <2>2 DEF RowsOfUsers
  <2>4. mixed \subseteq mixed'
    BY <1>2
  <2>5. CASE j.codes = {}
    <3>1. snapshot' = snapshot
      BY <1>2, <2>5 DEF Set
    <3>2. u \notin mixed' => \A r \in RoleId : <<u, r>> \in holds' =>
             role'[r] \in snapshot'[u] \cup {USER}
      BY <1>2, <1>4, <1>7, <2>1, <2>2, <2>4, <2>5, <3>1
    <3>3. PLATFORM_ADMIN \in snapshot'[u] => <<u, 2>> \in holds'
      BY <1>1, <1>4, <1>7, <2>1, <2>5, <3>1, Constants DEF RowsOfUsers
    <3>4. QED
      BY <2>3, <3>2, <3>3 DEF RowsOf
  <2>6. ASSUME NEW C \in j.codes PROVE RowsOf(u)'
    <3>1. j.codes = {C}
      BY <2>1
    <3>2. (CHOOSE v \in j.codes : TRUE) = C
      BY <3>1
    <3>3. snapshot'[u] = C
      BY <1>1, <1>2, <1>7, <2>6, <3>2 DEF Set, TypeOK
    <3>4. u \notin mixed' => \A r \in RoleId : <<u, r>> \in holds' =>
             role'[r] \in snapshot'[u] \cup {USER}
      BY <1>2, <1>4, <1>7, <2>1, <2>2, <2>4, <3>3
    <3>5. PLATFORM_ADMIN \in snapshot'[u] => <<u, 2>> \in holds'
      BY <1>4, <1>7, <2>1, <3>3, Constants
    <3>6. QED
      BY <2>3, <3>4, <3>5 DEF RowsOf
  <2>7. QED
    BY <2>5, <2>6
<1>8. QED
  BY <1>2, <1>5, <1>6, <1>7 DEF Fields

LEMMA RowsOfUsersKept ==
    ASSUME AuthInv, [Next]_vars
    PROVE  RowsOfUsers'
<1> SUFFICES ASSUME NEW u \in users' PROVE RowsOf(u)'
  BY DEF RowsOfUsers, RowsOf
<1> USE DEF userVars, roleVars, grantVars
<1>1. TypeOK /\ JobTypes /\ RolesStand /\ RowsOfUsers /\ TypeOK'
  BY TypesKept DEF AuthInv
<1>2. u \in users => RowsOf(u)
  BY <1>1 DEF RowsOfUsers, RowsOf
<1>3. CASE Start
  BY <1>3, RowsKeptByStart
<1>4. ASSUME NEW a \in User, UpdateCommit(a) PROVE RowsOf(u)'
  <2>1. u \in users
    BY <1>4 DEF UpdateCommit
  <2>2. QED
    BY <1>4, <2>1, RowsKeptByUpdate
<1>5. ASSUME NEW a \in User, job[a] = Gate, NEW v \in User,
             NEW sent \in CodeLists, NEW d, CreateUser(a, v, sent, d)
      PROVE  RowsOf(u)'
  <2> DEFINE codes == OrUser(sent)
  <2>1. /\ v \notin users /\ users' = users \cup {v} /\ role' = role
        /\ snapshot' = [snapshot EXCEPT ![v] = codes] /\ mixed' = mixed
        /\ holds' = holds \cup With(v, IdsOf(codes))
    BY <1>5 DEF CreateUser
  <2>2. CASE u = v
    <3>1. \A r \in RoleId : <<u, r>> \in holds' <=> r \in IdsOf(codes)
      BY <1>1, <2>1, <2>2 DEF TypeOK, With, IdsOf, Roles
    <3>2. snapshot'[u] = codes
      BY <1>1, <2>1, <2>2 DEF TypeOK
    <3>3. role[2] = PLATFORM_ADMIN
      BY <1>1, <1>5, Jobs DEF RolesStand, JobTypes
    <3>4. QED
      BY <2>1, <3>1, <3>2, <3>3, Constants DEF RowsOf, IdsOf, Roles
  <2>3. CASE u # v
    <3>1. \A r \in RoleId : <<u, r>> \in holds' <=> <<u, r>> \in holds
      BY <2>1, <2>3 DEF With
    <3>2. snapshot'[u] = snapshot[u] /\ u \in users
      BY <1>1, <2>1, <2>3 DEF TypeOK
    <3>3. QED
      BY <1>2, <2>1, <3>1, <3>2, Constants DEF RowsOf
  <2>4. QED
    BY <2>2, <2>3
<1>6. ASSUME NEW a \in User, NEW c \in Custom, CreateRole(a, c)
      PROVE  RowsOf(u)'
  <2>1. \A r \in RoleId : role[r] # NONE => role'[r] = role[r]
    BY <1>1, <1>6 DEF CreateRole, TypeOK
  <2>2. QED
    BY <1>2, <1>6, <2>1 DEF CreateRole, RowsOf
<1>7. ASSUME NEW a \in User, NEW s \in RoleId, job[a] = Gate, DeleteRole(a, s)
      PROVE  RowsOf(u)'
  <2>1. role[2] = PLATFORM_ADMIN /\ s # 2
    BY <1>1, <1>7, Jobs
       DEF RolesStand, JobTypes, DeleteRole, Deletable, BUILTIN_CODES
  <2>2. /\ users' = users /\ snapshot' = snapshot /\ mixed' = mixed
        /\ role' = [role EXCEPT ![s] = NONE]
        /\ holds' = {x \in holds : x[2] # s}
    BY <1>7 DEF DeleteRole
  <2>3. \A r \in RoleId : <<u, r>> \in holds' <=> <<u, r>> \in holds /\ r # s
    BY <2>2
  <2>4. \A r \in RoleId : r # s => role'[r] = role[r]
    BY <1>1, <2>2 DEF TypeOK
  <2>5. QED
    BY <1>2, <2>1, <2>2, <2>3, <2>4, Constants DEF RowsOf
<1>8. CASE UNCHANGED <<users, snapshot, holds, mixed, role>>
  BY <1>2, <1>8 DEF RowsOf
<1>9. ASSUME NEW a \in User,
             \/ Admit(a) \/ Refuse(a) \/ AppsCommit(a) \/ SetsCommit(a)
      PROVE  UNCHANGED <<users, snapshot, holds, mixed, role>>
  BY <1>9 DEF Admit, Refuse, AppsCommit, SetsCommit
<1>10. ASSUME NEW a \in User, job[a] = Gate, Work(a)
       PROVE  RowsOf(u)'
  <2>1. ASSUME NEW p, NEW sent, NEW on, NEW d,
               \/ UpdateRead(a, p, sent, on, d) \/ AppsRead(a, p, d)
               \/ SetsRead(a, p, d) \/ AddGrant(a, p, d) \/ RemoveGrant(a, p, d)
        PROVE  UNCHANGED <<users, snapshot, holds, mixed, role>>
    BY <2>1 DEF UpdateRead, AppsRead, SetsRead, AddGrant, RemoveGrant
  <2>2. QED
    BY <1>5, <1>6, <1>7, <1>8, <1>10, <2>1 DEF Work
<1>11. CASE Stop
  BY <1>8, <1>11 DEF Stop
<1>12. CASE UNCHANGED vars
  BY <1>8, <1>12 DEF vars
<1>13. QED
  BY <1>3, <1>4, <1>8, <1>9, <1>10, <1>11, <1>12 DEF Next, Step

\* Steps that leave a role update, its user and its roles alone.
LEMMA UpdateUndisturbed ==
    ASSUME AuthInv, NEW a \in User, job'[a] = job[a],
           snapshot'[job[a].who] = snapshot[job[a].who], mixed \subseteq mixed',
           \A r \in job[a].new : role'[r] \in {role[r], NONE},
           \A r \in RoleId : <<job[a].who, r>> \in holds' => <<job[a].who, r>> \in holds,
           <<job[a].who, 2>> \in holds => <<job[a].who, 2>> \in holds'
    PROVE  UpdateInProgress(a)'
BY DEF AuthInv, UpdatesInProgress, UpdateInProgress

\* A role update as its reads leave it.
LEMMA UpdateBegins ==
    ASSUME AuthInv, NEW a \in User, job[a] = Gate, NEW u \in users,
           NEW sent \in Optional(CodeLists), NEW on, NEW d,
           UpdateRead(a, u, sent, on, d)
    PROVE  UpdateInProgress(a)'
<1>1. TypeOK /\ JobTypes /\ role[2] = PLATFORM_ADMIN
  BY Jobs DEF AuthInv, JobTypes, RolesStand
<1>2. /\ job'[a].op = IF sent = {} THEN "fields" ELSE "roles"
      /\ job'[a].who = u /\ job'[a].codes = sent \ {snapshot[u]}
      /\ job'[a].new = IdsOf(UNION sent)
      /\ sent # {} => job'[a].seen = Of(holds, u)
  BY <1>1 DEF UpdateRead, JobTypes
<1>3. UNCHANGED <<users, snapshot, holds, mixed, role>>
  BY DEF UpdateRead, userVars, roleVars
<1>4. CASE sent = {}
  BY <1>2, <1>4 DEF UpdateInProgress
<1>5. ASSUME NEW C \in CodeLists, sent = {C} PROVE UpdateInProgress(a)'
  <2>1. job'[a].new = {r \in RoleId : role[r] # NONE /\ role[r] \in C}
    BY <1>2, <1>5 DEF IdsOf, Roles
  <2>2. \A r : r \in job'[a].seen <=> r \in RoleId /\ <<u, r>> \in holds
    <3>1. job'[a].seen = Of(holds, u)
      BY <1>2, <1>5
    <3>2. holds \subseteq users \X RoleId
      BY <1>1 DEF TypeOK
    <3>3. \A r : r \in Of(holds, u) <=> r \in RoleId /\ <<u, r>> \in holds
      BY <3>2, Rows
    <3>4. QED
      BY <3>1, <3>3
  <2>3. job'[a].codes = {} => C = snapshot[u]
    BY <1>2, <1>5
  <2>4. \A D \in job'[a].codes : D = C /\ job'[a].codes = {C}
    BY <1>2, <1>5
  <2>5. PLATFORM_ADMIN \in C => 2 \in job'[a].new
    BY <1>1, <2>1, Constants
  <2>6. QED
    BY <1>2, <1>3, <2>1, <2>2, <2>3, <2>4, <2>5 DEF UpdateInProgress
<1>6. QED
  BY <1>4, <1>5 DEF Optional

\* A role update of b while one of a on the same user is in progress: b's
\* rows were seen by a, or b would have met them.
LEMMA UpdateOvertaken ==
    ASSUME AuthInv, NEW b \in User, UpdateCommit(b), NEW a \in User \ {b}
    PROVE  UpdateInProgress(a)'
<1> DEFINE u == job[a].who
<1> DEFINE j == job[b]
<1>1. TypeOK /\ JobTypes /\ UpdateInProgress(a) /\ UpdateInProgress(b)
  BY DEF AuthInv, UpdatesInProgress
<1>2. /\ job'[a].op = job[a].op /\ job'[a].who = job[a].who
      /\ job'[a].new = job[a].new /\ job'[a].codes = job[a].codes
      /\ job'[a].seen = IF Same(job[a], j) THEN job[a].seen \ j.seen
                                           ELSE job[a].seen
  BY <1>1, Finishes DEF UpdateCommit
<1>3. /\ j.op \in Fields /\ j.who \in users /\ j.new \subseteq RoleId
      /\ j.op = "fields" => j.seen = {} /\ j.new = {} /\ j.codes = {}
      /\ role' = role /\ snapshot' = Set(snapshot, j.who, j.codes)
      /\ mixed' = mixed \cup {x \in {j.who} : \E c \in User \ {b} :
                                 job[c].op = "roles" /\ Same(job[c], j)}
      /\ ~Clash(holds, j) /\ holds' = Replaced(holds, j)
  BY <1>1 DEF UpdateCommit, Fields, JobTypes, roleVars
<1> SUFFICES ASSUME job[a].op = "roles" PROVE UpdateInProgress(a)'
  BY <1>2 DEF UpdateInProgress
<1>4. u \in users /\ holds \in SUBSET (users \X RoleId)
  BY <1>1 DEF JobTypes, Fields, TypeOK
<1>5. \A r \in RoleId : <<u, r>> \in holds' <=>
         IF u = j.who
         THEN r \in j.new \/ (<<u, r>> \in holds /\ r \notin j.seen)
         ELSE <<u, r>> \in holds
  BY <1>3, <1>4, RowsReplaced
<1>6. mixed \subseteq mixed'
  BY <1>3
<1>7. CASE u # j.who
  <2>1. ~Same(job[a], j) /\ snapshot'[u] = snapshot[u]
    BY <1>3, <1>7 DEF Same, Set
  <2> HIDE DEF j
  <2>2. QED
    BY <1>1, <1>2, <1>3, <1>5, <1>6, <1>7, <2>1, Constants
       DEF UpdateInProgress
<1>8. CASE u = j.who /\ j.op = "fields"
  <2>1. ~Same(job[a], j) /\ snapshot' = snapshot
    BY <1>3, <1>8 DEF Same, Set
  <2>2. \A r \in RoleId : <<u, r>> \in holds' <=> <<u, r>> \in holds
    BY <1>3, <1>5, <1>8
  <2> HIDE DEF j
  <2>3. QED
    BY <1>1, <1>2, <1>3, <1>6, <2>1, <2>2, Constants DEF UpdateInProgress
<1>9. CASE u = j.who /\ j.op = "roles"
  <2>1. Same(job[a], j) /\ u \in mixed'
    BY <1>3, <1>9 DEF Same
  <2>2. job'[a].seen = job[a].seen \ j.seen
    BY <1>2, <2>1
  <2>3. 2 \in job'[a].seen => <<u, 2>> \in holds /\ <<u, 2>> \in holds'
    BY <1>1, <1>5, <1>9, <2>2, Constants DEF UpdateInProgress
  <2>4. ASSUME 2 \in job'[a].seen PROVE 2 \notin j.new
    <3>1. <<u, 2>> \in holds /\ 2 \notin j.seen
      BY <2>2, <2>3, <2>4
    <3>2. 2 \in Of(holds, u)
      BY <1>4, <3>1, Constants, Rows
    <3>3. QED
      BY <1>3, <1>9, <3>1, <3>2 DEF Clash, Left
  <2>5. CASE j.codes = {}
    <3>1. snapshot' = snapshot
      BY <1>3, <2>5 DEF Set
    <3>2. QED
      BY <1>1, <1>2, <1>3, <2>1, <2>2, <2>3, <3>1 DEF UpdateInProgress
  <2>6. ASSUME NEW C \in j.codes PROVE UpdateInProgress(a)'
    <3>1. j.codes = {C} /\ (PLATFORM_ADMIN \in C => 2 \in j.new)
      BY <1>1, <1>9, <2>6 DEF UpdateInProgress
    <3>2. (CHOOSE v \in j.codes : TRUE) = C
      BY <3>1
    <3>3. snapshot'[u] = C
      BY <1>1, <1>3, <1>9, <2>6, <3>2 DEF Set, TypeOK
    <3>4. 2 \in job'[a].seen => PLATFORM_ADMIN \notin snapshot'[u]
      BY <2>4, <3>1, <3>3
    <3>5. QED
      BY <1>1, <1>2, <1>3, <2>1, <2>2, <2>3, <3>4 DEF UpdateInProgress
  <2>7. QED
    BY <2>5, <2>6
<1>10. QED
  BY <1>3, <1>7, <1>8, <1>9 DEF Fields

\* A role that is created is in no list of ids.
LEMMA CreatedIsNew ==
    ASSUME AuthInv, NEW a \in User, job[a] # Idle, NEW c \in Custom,
           CreateRole(a, c), NEW r \in RoleId, role'[r] # role[r]
    PROVE  Unnamed(r) /\ r \notin {1, 2}
<1>1. TypeOK /\ JobTypes /\ RolesStand /\ IdsGivenOut
  BY DEF AuthInv
<1>2. seq' = seq + 1 /\ r = seq' /\ role[r] = NONE /\ seq \in Nat
  BY <1>1, Constants DEF CreateRole, NextRoleId, TypeOK, RoleId
<1>3. role[1] = USER /\ role[2] = PLATFORM_ADMIN
  BY <1>1 DEF RolesStand, JobTypes
<1>4. r \notin {1, 2} /\ ~(r <= seq)
  BY <1>2, <1>3, Constants
<1>5. QED
  BY <1>1, <1>4 DEF IdsGivenOut

LEMMA GrantsRead ==
    ASSUME JobTypes, NEW b \in User, NEW p, NEW x,
           AppsRead(b, p, x) \/ SetsRead(b, p, x)
    PROVE  /\ job'[b].op \in {"apps", "sets"}
           /\ \A a \in User \ {b} : job'[a] = job[a]
<1>1. ASSUME NEW op, NEW who, NEW seen
      PROVE  Replacing(op, who, seen, x).op = op
  BY DEF Replacing, Idle
<1>2. ASSUME NEW op \in {"apps", "sets"}, NEW who, NEW seen,
             job' = [job EXCEPT ![b] = Replacing(op, who, seen, x)]
      PROVE  /\ job'[b].op \in {"apps", "sets"}
             /\ \A a \in User \ {b} : job'[a] = job[a]
  BY <1>1, <1>2 DEF JobTypes
<1>3. QED
  BY <1>2 DEF AppsRead, SetsRead

LEMMA UpdatesInProgressKept ==
    ASSUME AuthInv, [Next]_vars
    PROVE  UpdatesInProgress'
<1> SUFFICES ASSUME NEW a \in User PROVE UpdateInProgress(a)'
  BY DEF UpdatesInProgress
<1> USE DEF userVars, roleVars, grantVars
<1>1. TypeOK /\ JobTypes /\ RolesStand /\ UpdateInProgress(a)
  BY DEF AuthInv, UpdatesInProgress
<1>2. job'[a] = Idle => UpdateInProgress(a)'
  BY Jobs DEF UpdateInProgress
<1>3. CASE UNCHANGED <<users, snapshot, holds, mixed, role>> /\ job'[a] = job[a]
  BY <1>1, <1>3 DEF UpdateInProgress
<1>4. ASSUME NEW b \in User, Admit(b) \/ Refuse(b) PROVE UpdateInProgress(a)'
  <2>1. CASE a = b
    BY <1>1, <1>4, <2>1, Answers, Jobs
       DEF Admit, Refuse, JobTypes, UpdateInProgress
  <2>2. CASE a # b
    BY <1>1, <1>3, <1>4, <2>2, Answers DEF Admit, Refuse, JobTypes
  <2>3. QED
    BY <2>1, <2>2
<1>5. ASSUME NEW b \in User, NEW v \in User, NEW sent, NEW d,
             CreateUser(b, v, sent, d)
      PROVE  UpdateInProgress(a)'
  <2>1. /\ v \notin users /\ snapshot' = [snapshot EXCEPT ![v] = OrUser(sent)]
        /\ holds' = holds \cup With(v, IdsOf(OrUser(sent)))
        /\ mixed' = mixed /\ role' = role /\ Answered(b)
    BY <1>5 DEF CreateUser
  <2>2. CASE a # b /\ job[a].op = "roles"
    <3>1. job[a].who # v /\ job'[a] = job[a]
      BY <1>1, <2>1, <2>2, Answers DEF JobTypes, Fields
    <3>2. snapshot'[job[a].who] = snapshot[job[a].who]
      BY <1>1, <2>1, <3>1 DEF TypeOK
    <3>3. \A r : <<job[a].who, r>> \in holds' <=> <<job[a].who, r>> \in holds
      BY <2>1, <3>1 DEF With
    <3>4. QED
      BY <2>1, <3>1, <3>2, <3>3, UpdateUndisturbed
  <2>3. QED
    BY <1>1, <1>2, <2>1, <2>2, Answers DEF UpdateInProgress
<1>6. ASSUME NEW b \in User, job[b] = Gate, NEW u \in users,
             NEW sent \in Optional(CodeLists), NEW on, NEW d,
             UpdateRead(b, u, sent, on, d)
      PROVE  UpdateInProgress(a)'
  <2>1. a # b => job'[a] = job[a]
    BY <1>1, <1>6 DEF UpdateRead, JobTypes
  <2>2. UNCHANGED <<users, snapshot, holds, mixed, role>>
    BY <1>6 DEF UpdateRead
  <2>3. QED
    BY <1>3, <1>6, <2>1, <2>2, UpdateBegins
<1>7. ASSUME NEW b \in User, UpdateCommit(b) PROVE UpdateInProgress(a)'
  <2>1. job'[b] = Idle
    BY <1>1, <1>7, Finishes DEF UpdateCommit
  <2>2. QED
    BY <1>2, <1>7, <2>1, UpdateOvertaken
<1>8. ASSUME NEW b \in User, job[b] = Gate, NEW c \in Custom, CreateRole(b, c)
      PROVE  UpdateInProgress(a)'
  <2>1. Answered(b) /\ UNCHANGED <<users, snapshot, holds, mixed>>
    BY <1>8 DEF CreateRole
  <2>2. CASE a # b /\ job[a].op = "roles"
    <3>1. ASSUME NEW r \in job[a].new PROVE role'[r] \in {role[r], NONE}
      <4>1. r \in RoleId
        BY <1>1, <2>2, <3>1 DEF JobTypes, Fields
      <4>2. role'[r] # role[r] => Unnamed(r)
        BY <1>8, <4>1, CreatedIsNew, Jobs
      <4>3. QED
        BY <2>2, <3>1, <4>2 DEF Unnamed, Fields
    <3>2. job'[a] = job[a]
      BY <1>1, <2>1, <2>2, Answers
    <3>3. QED
      BY <2>1, <3>1, <3>2, UpdateUndisturbed
  <2>3. QED
    BY <1>1, <1>2, <2>1, <2>2, Answers DEF UpdateInProgress
<1>9. ASSUME NEW b \in User, job[b] = Gate, NEW s \in RoleId, DeleteRole(b, s)
      PROVE  UpdateInProgress(a)'
  <2>1. /\ Answered(b) /\ UNCHANGED <<users, snapshot, mixed>>
        /\ role' = [role EXCEPT ![s] = NONE]
        /\ holds' = {x \in holds : x[2] # s}
    BY <1>9 DEF DeleteRole
  <2>2. s # 2
    BY <1>1, <1>9, Jobs
       DEF RolesStand, JobTypes, DeleteRole, Deletable, BUILTIN_CODES
  <2>3. CASE a # b /\ job[a].op = "roles"
    <3>1. \A r \in job[a].new : role'[r] \in {role[r], NONE}
      BY <1>1, <2>1, <2>3 DEF JobTypes, Fields, TypeOK
    <3>2. job'[a] = job[a]
      BY <1>1, <2>1, <2>3, Answers
    <3>3. QED
      BY <2>1, <2>2, <3>1, <3>2, UpdateUndisturbed
  <2>4. QED
    BY <1>1, <1>2, <2>1, <2>3, Answers DEF UpdateInProgress
<1>10. ASSUME NEW b \in User, job[b] = Gate, NEW p, NEW x,
              AppsRead(b, p, x) \/ SetsRead(b, p, x)
       PROVE  UpdateInProgress(a)'
  <2>1. UNCHANGED <<users, snapshot, holds, mixed, role>>
    BY <1>10 DEF AppsRead, SetsRead
  <2>2. QED
    BY <1>1, <1>3, <1>10, <2>1, GrantsRead DEF UpdateInProgress
<1>11. ASSUME NEW b \in User, NEW p, NEW x, AddGrant(b, p, x) \/ RemoveGrant(b, p, x)
       PROVE  UpdateInProgress(a)'
  BY <1>1, <1>2, <1>3, <1>11, Answers DEF AddGrant, RemoveGrant
<1>12. ASSUME NEW b \in User, AppsCommit(b) \/ SetsCommit(b)
       PROVE  UpdateInProgress(a)'
  <2>1. /\ UNCHANGED <<users, snapshot, holds, mixed, role>> /\ Done(b)
        /\ job[b].op \in {"apps", "sets"}
    BY <1>12 DEF AppsCommit, SetsCommit
  <2>2. CASE a # b /\ job[a].op = "roles"
    <3>1. ~Same(job[a], job[b])
      BY <2>1, <2>2 DEF Same
    <3>2. job'[a] = job[a]
      BY <1>1, <2>1, <2>2, <3>1 DEF Done
    <3>3. QED
      BY <1>3, <2>1, <3>2
  <2>3. QED
    BY <1>1, <1>2, <2>1, <2>2, Finishes DEF UpdateInProgress
<1>13. CASE Start
  <2>1. job[a] = Idle /\ job'[a] = Idle
    BY <1>1, <1>13 DEF Start, JobTypes
  <2>2. QED
    BY <1>2, <2>1
<1>14. CASE Stop
  BY <1>2, <1>14 DEF Stop
<1>15. CASE UNCHANGED vars
  BY <1>3, <1>15 DEF vars
<1>16. QED
  BY <1>4, <1>5, <1>6, <1>7, <1>8, <1>9, <1>10, <1>11, <1>12, <1>13, <1>14,
     <1>15 DEF Next, Step, Work

LEMMA OthersDisableKept ==
    ASSUME AuthInv, [Next]_vars
    PROVE  OthersDisable'
<1> SUFFICES ASSUME NEW a \in User, job'[a].op \in Fields, job'[a].who = a
             PROVE  FALSE \notin job'[a].on
  BY DEF OthersDisable
<1> USE DEF Fields
<1>1. JobTypes /\ OthersDisable
  BY DEF AuthInv
<1>2. /\ job'[a] \notin {Idle, Gate}
      /\ job'[a].op \notin {"apps", "sets"}
  BY Jobs
<1>3. CASE job'[a] = job[a]
  BY <1>1, <1>3 DEF OthersDisable
<1>4. ASSUME NEW b \in User, NEW u \in users, NEW sent,
             NEW on \in Optional(BOOLEAN), NEW d, UpdateRead(b, u, sent, on, d)
      PROVE  FALSE \notin job'[a].on
  <2>1. CASE a = b
    <3>1. job'[a].who = u /\ job'[a].on = on \ {u \in enabled}
      BY <1>1, <1>4, <2>1 DEF UpdateRead, JobTypes
    <3>2. on # {FALSE}
      BY <1>4, <2>1, <3>1 DEF UpdateRead, SelfDisable
    <3>3. QED
      BY <3>1, <3>2 DEF Optional
  <2>2. CASE a # b
    BY <1>1, <1>3, <1>4, <2>2 DEF UpdateRead, JobTypes
  <2>3. QED
    BY <2>1, <2>2
<1>5. ASSUME NEW b \in User, Answered(b) PROVE FALSE \notin job'[a].on
  BY <1>1, <1>2, <1>3, <1>5, Answers
<1>6. ASSUME NEW b \in User, Done(b) PROVE FALSE \notin job'[a].on
  BY <1>1, <1>2, <1>6, Finishes DEF OthersDisable
<1>7. ASSUME NEW b \in User, Admit(b) PROVE FALSE \notin job'[a].on
  BY <1>1, <1>2, <1>3, <1>7 DEF Admit, JobTypes
<1>8. ASSUME NEW b \in User, NEW p, NEW x, AppsRead(b, p, x) \/ SetsRead(b, p, x)
      PROVE  FALSE \notin job'[a].on
  BY <1>1, <1>2, <1>3, <1>8, GrantsRead
<1>9. CASE Start \/ UNCHANGED vars
  BY <1>3, <1>9 DEF Start, vars
<1>10. CASE Stop
  BY <1>2, <1>10 DEF Stop
<1>11. QED
  BY <1>4, <1>5, <1>6, <1>7, <1>8, <1>9, <1>10
     DEF Next, Step, Work, Refuse, CreateUser, UpdateCommit, CreateRole,
         DeleteRole, AddGrant, RemoveGrant, AppsCommit, SetsCommit

THEOREM AuthInvariance == Spec => []AuthInv
<1>1. Init => AuthInv
  <2> SUFFICES ASSUME Init PROVE AuthInv
    OBVIOUS
  <2> USE DEF Init
  <2>1. TypeOK
    <3>1. seq \in 0..MaxRole /\ writes \in 0..MaxWrites
      BY Constants
    <3>2. snapshot \in [User -> SUBSET Code] /\ role \in [RoleId -> Code \cup {NONE}]
          /\ dept \in [User -> Dept \cup {NONE}]
      OBVIOUS
    <3>3. QED
      BY <3>1, <3>2 DEF TypeOK
  <2>2. JobTypes
    BY Jobs DEF JobTypes, Fields
  <2>3. RolesStand /\ RowsOfUsers
    BY Constants DEF RolesStand, RowsOfUsers
  <2>4. IdsGivenOut /\ UpdatesInProgress /\ OthersDisable
    BY Jobs DEF IdsGivenOut, Unnamed, UpdatesInProgress, UpdateInProgress,
                OthersDisable, Fields
  <2>5. QED
    BY <2>1, <2>2, <2>3, <2>4 DEF AuthInv
<1>2. AuthInv /\ [Next]_vars => AuthInv'
  BY TypesKept, RolesStandKept, IdsGivenOutKept, RowsOfUsersKept,
     UpdatesInProgressKept, OthersDisableKept DEF AuthInv
<1>3. QED
  BY <1>1, <1>2, PTL DEF Spec

-------------------------------------------------------------------------------
(* What follows from the invariant.                                        *)

\* The variables keep their types.
THEOREM AuthTypes == Spec => []TypeOK
<1>1. AuthInv => TypeOK
  BY DEF AuthInv
<1>2. QED
  BY <1>1, AuthInvariance, PTL

\* A user's roles exist and are those asked for, whatever restarts, deletions
\* and failures come between (RolesAreAsked).
THEOREM RolesAlwaysAsked == Spec => []RolesAreAsked
<1>1. AuthInv => RolesAreAsked
  <2> SUFFICES ASSUME AuthInv, NEW u \in users, NEW r \in Of(holds, u)
               PROVE  /\ r \in Roles
                      /\ u \notin mixed => role[r] \in snapshot[u] \cup {USER}
    BY DEF RolesAreAsked
  <2>1. TypeOK /\ RowsOfUsers
    BY DEF AuthInv
  <2>2. r \in RoleId /\ <<u, r>> \in holds
    BY <2>1, Rows DEF TypeOK
  <2>3. QED
    BY <2>1, <2>2 DEF RowsOfUsers, Roles
<1>2. QED
  BY <1>1, AuthInvariance, PTL

\* Administrators, by the rows of user_roles alone.
RowAdmins == {u \in users : <<u, 2>> \in holds}

AdminsByRow == \A u \in users : IsAdmin(u) <=> u \in RowAdmins

LEMMA AdminIsRow == AuthInv => AdminsByRow
<1> SUFFICES ASSUME AuthInv, NEW u \in users
             PROVE  IsAdmin(u) <=> <<u, 2>> \in holds
  BY DEF AdminsByRow, RowAdmins
<1>1. TypeOK /\ RowsOfUsers /\ RolesStand /\ role[2] = PLATFORM_ADMIN
  BY DEF AuthInv, RolesStand
<1>2. \A r : r \in Of(holds, u) <=> r \in RoleId /\ <<u, r>> \in holds
  BY <1>1, Rows DEF TypeOK
<1> DEFINE codes == {role[r] : r \in Of(holds, u) \cap Roles}
<1>3. ASSUME <<u, 2>> \in holds PROVE IsAdmin(u)
  <2>1. 2 \in Of(holds, u) \cap Roles
    BY <1>1, <1>2, <1>3, Constants DEF Roles
  <2>2. PLATFORM_ADMIN \in codes
    BY <1>1, <2>1
  <2>3. QED
    BY <2>2 DEF IsAdmin, RoleCodes
<1>4. ASSUME IsAdmin(u) PROVE <<u, 2>> \in holds
  <2>1. CASE codes # {}
    <3>1. PICK r \in Of(holds, u) \cap Roles : role[r] = PLATFORM_ADMIN
      BY <1>4, <2>1 DEF IsAdmin, RoleCodes
    <3>2. r = 2
      BY <1>1, <3>1, Constants DEF RolesStand, Roles
    <3>3. QED
      BY <1>2, <3>1, <3>2
  <2>2. CASE codes = {}
    <3>1. PLATFORM_ADMIN \in OrUser(snapshot[u])
      BY <1>4, <2>2 DEF IsAdmin, RoleCodes
    <3>2. PLATFORM_ADMIN \in snapshot[u]
      BY <3>1, Constants DEF OrUser
    <3>3. QED
      BY <1>1, <3>2 DEF RowsOfUsers
  <2>3. QED
    BY <2>1, <2>2
<1>5. QED
  BY <1>3, <1>4

LEMMA AdminIsRowNext == AuthInv' => AdminsByRow'
BY AdminIsRow, PTL

\* The administrators are those whose last roles named it, and those the
\* list of users shows as such (AdminsAreChosen).
THEOREM AdminsAlwaysChosen == Spec => []AdminsAreChosen
<1>1. AuthInv => AdminsAreChosen
  <2> SUFFICES ASSUME AuthInv, NEW u \in users
               PROVE  /\ PLATFORM_ADMIN \in snapshot[u] => IsAdmin(u)
                      /\ IsAdmin(u) => u \in mixed \/ PLATFORM_ADMIN \in snapshot[u]
                      /\ IsAdmin(u) <=> PLATFORM_ADMIN \in ListedRoles(u)
    BY DEF AdminsAreChosen
  <2>1. IsAdmin(u) <=> <<u, 2>> \in holds
    BY AdminIsRow DEF AdminsByRow, RowAdmins
  <2>2. RowsOfUsers /\ RolesStand /\ role[2] = PLATFORM_ADMIN
    BY DEF AuthInv, RolesStand
  <2>3. PLATFORM_ADMIN \in ListedRoles(u) <=> PLATFORM_ADMIN \in RoleMap(u)
    BY Constants DEF ListedRoles, OrUser
  <2>4. \A r : r \in Of(holds, u) <=> r \in RoleId /\ <<u, r>> \in holds
    BY Rows DEF AuthInv, TypeOK
  <2>5. PLATFORM_ADMIN \in RoleMap(u) <=> <<u, 2>> \in holds
    <3>1. ASSUME <<u, 2>> \in holds PROVE PLATFORM_ADMIN \in RoleMap(u)
      <4>1. 2 \in Of(holds, u) \cap Roles
        BY <2>2, <2>4, <3>1, Constants DEF Roles
      <4>2. QED
        BY <2>2, <4>1 DEF RoleMap
    <3>2. ASSUME PLATFORM_ADMIN \in RoleMap(u) PROVE <<u, 2>> \in holds
      <4>1. PICK r \in Of(holds, u) \cap Roles : role[r] = PLATFORM_ADMIN
        BY <3>2 DEF RoleMap
      <4>2. r = 2
        BY <2>2, <4>1, Constants DEF RolesStand, Roles
      <4>3. QED
        BY <2>4, <4>1, <4>2
    <3>3. QED
      BY <3>1, <3>2
  <2>6. QED
    BY <2>1, <2>2, <2>3, <2>5, Constants DEF RowsOfUsers
<1>2. QED
  BY <1>1, AuthInvariance, PTL

\* A role that is created starts without members and grants
\* (NewRoleGivesNothing).
THEOREM NewRolesGiveNothing == Spec => NewRoleGivesNothing
<1>1. ASSUME AuthInv, [Next]_vars, NEW r \in RoleId, role[r] = NONE,
             role'[r] \notin BUILTIN_CODES \cup {NONE}
      PROVE  /\ \A u \in User : r \notin Of(holds', u)
             /\ Of(appGrants', ByRole(r)) = {} /\ Of(setGrants', ByRole(r)) = {}
  <2>1. TypeOK /\ RolesStand /\ RolesStand' /\ TypeOK'
    BY <1>1, TypesKept, RolesStandKept DEF AuthInv
  <2>2. r \notin {1, 2}
    BY <1>1, <2>1, Constants DEF RolesStand, BUILTIN_CODES
  <2>3. ~Start
    BY <1>1, <2>1, <2>2 DEF Start, Seeded, TypeOK
  <2>4. ASSUME NEW a \in User, NEW s \in RoleId, DeleteRole(a, s)
        PROVE  role'[r] = NONE
    BY <1>1, <2>1, <2>4 DEF DeleteRole, TypeOK
  <2>5. PICK a \in User, c \in Custom : job[a] = Gate /\ CreateRole(a, c)
    BY <1>1, <2>3, <2>4, RoleSteps DEF BUILTIN_CODES
  <2>6. Unnamed(r)
    BY <1>1, <2>5, CreatedIsNew, Jobs
  <2>7. UNCHANGED <<holds, appGrants, setGrants>>
    BY <2>5 DEF CreateRole, userVars, grantVars
  <2>8. \A u \in User : r \notin Of(holds', u)
    BY <2>1, <2>6, <2>7, Rows DEF Unnamed, TypeOK
  <2>9. /\ \A x : x \notin Of(appGrants', ByRole(r))
        /\ \A x : x \notin Of(setGrants', ByRole(r))
    <3>1. /\ appGrants' \in SUBSET (Principal \X App)
          /\ setGrants' \in SUBSET (Principal \X Dataset)
      BY <2>1 DEF TypeOK
    <3>2. \A x \in App : <<ByRole(r), x>> \notin appGrants'
      BY <2>6, <2>7 DEF Unnamed
    <3>3. \A x \in Dataset : <<ByRole(r), x>> \notin setGrants'
      BY <2>6, <2>7 DEF Unnamed
    <3>4. ASSUME NEW x \in Of(appGrants', ByRole(r)) PROVE FALSE
      <4>1. x \in App /\ <<ByRole(r), x>> \in appGrants'
        BY <3>1, Rows
      <4>2. QED
        BY <3>2, <4>1
    <3>5. \A x : x \notin Of(setGrants', ByRole(r))
      BY <3>1, <3>3, Rows
    <3>6. QED
      BY <3>4, <3>5
  <2>10. QED
    BY <2>8, <2>9
<1>2. AuthInv /\ [Next]_vars =>
         [\A r \in RoleId : role[r] = NONE /\ role'[r] \notin BUILTIN_CODES \cup {NONE} =>
             /\ \A u \in User : r \notin Of(holds', u)
             /\ Of(appGrants', ByRole(r)) = {} /\ Of(setGrants', ByRole(r)) = {}]_vars
  BY <1>1
<1>3. QED
  BY <1>2, AuthInvariance, PTL DEF Spec, NewRoleGivesNothing

-------------------------------------------------------------------------------
(* Who is an enabled administrator, step by step.                          *)

RowActive == {u \in enabled : <<u, 2>> \in holds}

LEMMA ActiveByRow ==
    /\ AuthInv => ActiveAdmins = RowActive
    /\ AuthInv' => ActiveAdmins' = RowActive'
<1>1. AuthInv => ActiveAdmins = RowActive
  BY AdminIsRow DEF AdminsByRow, RowAdmins, RowActive, ActiveAdmins, AuthInv, TypeOK
<1>2. AuthInv' => ActiveAdmins' = RowActive'
  BY AdminIsRowNext DEF AdminsByRow, RowAdmins, RowActive, ActiveAdmins, AuthInv, TypeOK
<1>3. QED
  BY <1>1, <1>2

LEMMA AuthInvKept == AuthInv /\ [Next]_vars => AuthInv'
BY TypesKept, RolesStandKept, IdsGivenOutKept, RowsOfUsersKept,
   UpdatesInProgressKept, OthersDisableKept DEF AuthInv

\* An update changes the standing of its user only, and its own sender's
\* only by a list of roles.
LEMMA StandingOfUpdate ==
    ASSUME AuthInv, NEW a \in User, UpdateCommit(a)
    PROVE  /\ job[a].who \in User
           /\ \A v \in User \ {job[a].who} : v \in RowActive' <=> v \in RowActive
           /\ a \in RowActive /\ (job[a].op = "roles" => job[a].who # a)
                 => a \in RowActive'
<1> DEFINE j == job[a]
<1>1. TypeOK /\ JobTypes /\ OthersDisable
  BY DEF AuthInv
<1>2. /\ j.op \in Fields /\ j.who \in users /\ j.who \in User
      /\ j.new \subseteq RoleId
      /\ j.op = "fields" => j.seen = {} /\ j.new = {}
      /\ enabled' = (enabled \ {u \in {j.who} : FALSE \in j.on})
                       \cup {u \in {j.who} : TRUE \in j.on}
      /\ holds' = Replaced(holds, j)
  BY <1>1 DEF UpdateCommit, Fields, JobTypes, TypeOK
<1>3. \A v \in users : <<v, 2>> \in holds' <=>
         IF v = j.who
         THEN 2 \in j.new \/ (<<v, 2>> \in holds /\ 2 \notin j.seen)
         ELSE <<v, 2>> \in holds
  BY <1>1, <1>2, RowsReplaced, Constants DEF TypeOK
<1>4. enabled \subseteq users /\ enabled' \subseteq users
  BY <1>1, <1>2 DEF TypeOK
<1>5. j.who = a /\ j.op = "fields" => FALSE \notin j.on
  BY <1>1, <1>2 DEF OthersDisable
<1> HIDE DEF j
<1>6. \A v \in User \ {j.who} : v \in RowActive' <=> v \in RowActive
  BY <1>2, <1>3, <1>4 DEF RowActive
<1>7. a \in RowActive /\ (j.op = "roles" => j.who # a) => a \in RowActive'
  <2>1. CASE j.who # a
    BY <1>6, <2>1
  <2>2. CASE j.who = a /\ j.op = "fields"
    BY <1>2, <1>3, <1>4, <1>5, <2>2 DEF RowActive
  <2>3. QED
    BY <1>2, <2>1, <2>2 DEF Fields
<1>8. QED
  BY <1>2, <1>6, <1>7 DEF j

\* The other requests take no administrator away; one that creates a user
\* may add him.
LEMMA StandingOfStep ==
    ASSUME AuthInv, NEW a \in User, Step(a)
    PROVE  \/ UpdateCommit(a)
           \/ RowActive' = RowActive
           \/ \E u \in User : /\ RowActive' = RowActive \cup {u}
                              /\ job[a] = Gate /\ job'[a] = Idle
<1> USE DEF userVars
<1>1. TypeOK /\ JobTypes /\ RolesStand
  BY DEF AuthInv
<1>2. UNCHANGED <<enabled, holds>> => RowActive' = RowActive
  BY DEF RowActive
<1>3. ASSUME job[a] = Gate, NEW u \in User, NEW sent, NEW d,
             CreateUser(a, u, sent, d)
      PROVE  RowActive' \in {RowActive, RowActive \cup {u}} /\ job'[a] = Idle
  <2>1. /\ u \notin users /\ enabled' = enabled \cup {u}
        /\ holds' = holds \cup With(u, IdsOf(OrUser(sent)))
    BY <1>3 DEF CreateUser
  <2>2. \A v \in User \ {u} : v \in RowActive' <=> v \in RowActive
    BY <2>1 DEF RowActive, With
  <2>3. RowActive \subseteq User /\ RowActive' \subseteq User /\ u \notin RowActive
    BY <1>1, <2>1 DEF RowActive, TypeOK
  <2>4. RowActive' \in {RowActive, RowActive \cup {u}}
    BY <2>2, <2>3
  <2>5. QED
    BY <1>1, <1>3, <2>4, Answers DEF CreateUser
<1>4. ASSUME job[a] = Gate, NEW r \in RoleId, DeleteRole(a, r)
      PROVE  RowActive' = RowActive
  <2>1. r # 2
    BY <1>1, <1>4, Jobs
       DEF RolesStand, JobTypes, DeleteRole, Deletable, BUILTIN_CODES
  <2>2. QED
    BY <1>4, <2>1 DEF DeleteRole, RowActive
<1>5. ASSUME NEW p, NEW x, NEW y, NEW z,
             \/ Admit(a) \/ Refuse(a) \/ AppsCommit(a) \/ SetsCommit(a)
             \/ UpdateRead(a, p, x, y, z) \/ CreateRole(a, x)
             \/ AppsRead(a, p, x) \/ SetsRead(a, p, x)
             \/ AddGrant(a, p, x) \/ RemoveGrant(a, p, x)
      PROVE  RowActive' = RowActive
  BY <1>2, <1>5
     DEF Admit, Refuse, AppsCommit, SetsCommit, UpdateRead, CreateRole,
         AppsRead, SetsRead, AddGrant, RemoveGrant
<1>6. QED
  BY <1>3, <1>4, <1>5 DEF Step, Work

\* A restart leaves administrators as they are; the first start makes one.
LEMMA RestartKeepsRows ==
    ASSUME AuthInv, Start, NEW u \in users
    PROVE  <<u, 2>> \in holds' <=> <<u, 2>> \in holds
<1>1. /\ TypeOK /\ RowsOfUsers /\ role'[2] = PLATFORM_ADMIN
      /\ users' = users /\ snapshot' = snapshot
  BY RolesStandKept DEF AuthInv, Next, Start, RolesStand
<1> DEFINE M(v) == Migrated(v, role', snapshot'[v])
<1>2. holds' = UNION {{v} \X M(v) : v \in users'}
  BY DEF Start, With
<1>3. 2 \in Of(holds, u) <=> <<u, 2>> \in holds
  <2>1. holds \in SUBSET (users \X RoleId) /\ 2 \in RoleId
    BY <1>1, Constants DEF TypeOK
  <2>2. QED
    BY <2>1, Rows
<1>4. 2 \in M(u) => 2 \in Of(holds, u) \/ PLATFORM_ADMIN \in snapshot[u]
  BY <1>1, Constants DEF Migrated, OrUser
<1>5. 2 \in Of(holds, u) => 2 \in M(u)
  BY DEF Migrated
<1> HIDE DEF M
<1>6. <<u, 2>> \in holds' <=> 2 \in M(u)
  BY <1>1, <1>2
<1>7. PLATFORM_ADMIN \in snapshot[u] => <<u, 2>> \in holds
  BY <1>1 DEF RowsOfUsers
<1>8. QED
  BY <1>3, <1>4, <1>5, <1>6, <1>7

LEMMA StandingOfStart ==
    ASSUME AuthInv, Start
    PROVE  RowActive' = IF users = {} THEN {Seed} ELSE RowActive
<1>1. /\ TypeOK /\ RowsOfUsers /\ TypeOK' /\ RowsOfUsers' /\ role'[2] = PLATFORM_ADMIN
  BY TypesKept, RowsOfUsersKept, RolesStandKept DEF AuthInv, Next, Start, RolesStand
<1>2. CASE users = {}
  <2>1. users' = {Seed} /\ enabled' = {Seed} /\ snapshot'[Seed] = BUILTIN_CODES
    BY <1>1, <1>2, AuthorizationAssumption DEF Start, TypeOK
  <2>2. <<Seed, 2>> \in holds'
    BY <1>1, <2>1 DEF RowsOfUsers, BUILTIN_CODES
  <2>3. QED
    BY <1>2, <2>1, <2>2 DEF RowActive
<1>3. CASE users # {}
  <2>1. users' = users /\ enabled' = enabled /\ snapshot' = snapshot
    BY <1>3 DEF Start
  <2>2. \A u \in users : <<u, 2>> \in holds' <=> <<u, 2>> \in holds
    BY RestartKeepsRows
  <2>3. enabled \subseteq users
    BY <1>1 DEF TypeOK
  <2>4. QED
    BY <1>3, <2>1, <2>2, <2>3 DEF RowActive
<1>4. QED
  BY <1>2, <1>3

\* The last enabled administrator goes only by his own hand, or by that of
\* someone whose standing was lost behind the gate (LockedOutOnlyBySelf).
THEOREM LockOutIsOwnDoing == Spec => LockedOutOnlyBySelf
<1>1. ASSUME AuthInv, [Next]_vars, ActiveAdmins # {}, ActiveAdmins' = {}
      PROVE  \E a \in User :
                /\ job[a] # Idle /\ job'[a] = Idle
                /\ \/ a \notin ActiveAdmins
                   \/ job[a].op = "roles" /\ job[a].who = a
  <2>1. ActiveAdmins = RowActive /\ ActiveAdmins' = RowActive'
    BY <1>1, AuthInvKept, ActiveByRow
  <2>2. TypeOK /\ JobTypes /\ RowActive \subseteq users
    BY <1>1 DEF AuthInv, RowActive, TypeOK
  <2>3. ~Start
    BY <1>1, <2>1, <2>2, StandingOfStart
  <2>4. ~(Stop \/ UNCHANGED vars)
    BY <1>1, <2>1 DEF Stop, vars, userVars, RowActive
  <2>5. PICK a \in User : Step(a)
    BY <1>1, <2>3, <2>4 DEF Next
  <2>6. UpdateCommit(a)
    BY <1>1, <2>1, <2>5, StandingOfStep
  <2>7. job'[a] = Idle /\ job[a] # Idle
    BY <2>2, <2>6, Finishes, Jobs DEF UpdateCommit
  <2>8. a \in RowActive => job[a].op = "roles" /\ job[a].who = a
    BY <1>1, <2>1, <2>6, StandingOfUpdate
  <2>9. QED
    BY <2>1, <2>7, <2>8
<1>2. AuthInv /\ [Next]_vars =>
         [ActiveAdmins # {} /\ ActiveAdmins' = {} =>
             \E a \in User :
                /\ job[a] # Idle /\ job'[a] = Idle
                /\ \/ a \notin ActiveAdmins
                   \/ job[a].op = "roles" /\ job[a].who = a]_vars
  BY <1>1
<1>3. QED
  BY <1>2, AuthInvariance, PTL DEF Spec, LockedOutOnlyBySelf

-------------------------------------------------------------------------------
(* Rights change as AccessControl says.                                    *)

Sees == [u \in User |-> IF u \in users
                        THEN VisibleApps(u) \cup VisibleDatasets(u) ELSE {}]
Open == {a \in User : job[a] # Idle}

SeesOfThings == Sees \in [User -> SUBSET Things]

LEMMA SeesThings ==
    ASSUME TypeOK
    PROVE  SeesOfThings
<1>1. ASSUME NEW u \in User
      PROVE  VisibleApps(u) \cup VisibleDatasets(u) \subseteq Things
  <2>1. \A x \in appGrants : x[2] \in App
    BY DEF TypeOK
  <2>2. \A x \in setGrants : x[2] \in Dataset
    BY DEF TypeOK
  <2>3. QED
    BY <2>1, <2>2 DEF VisibleApps, VisibleDatasets, VisibleIds, Things
<1>2. QED
  BY <1>1 DEF Sees, SeesOfThings

LEMMA SeesThingsNext == TypeOK' => SeesOfThings'
<1>1. TypeOK => SeesOfThings
  BY SeesThings
<1>2. QED
  BY <1>1, PTL

\* A restart takes nothing from anybody's sight.
LEMMA RestartTakesNothing ==
    ASSUME AuthInv, Start, NEW u \in User
    PROVE  Sees[u] \subseteq Sees'[u]
<1>1. TypeOK /\ TypeOK' /\ AuthInv'
  BY AuthInvKept, TypesKept DEF Next, AuthInv
<1> SUFFICES ASSUME u \in users PROVE Sees[u] \subseteq Sees'[u]
  BY DEF Sees
<1>2. /\ users' = users /\ dept' = dept /\ setGrants' = setGrants
      /\ appGrants \subseteq appGrants' /\ u \in users'
  BY DEF Start
<1>3. IsAdmin(u) <=> IsAdmin(u)'
  <2>1. RowActive' = RowActive /\ enabled' = enabled
    BY StandingOfStart DEF Start
  <2>2. u \in RowAdmins <=> IsAdmin(u)
    BY AdminIsRow DEF AdminsByRow
  <2>3. u \in RowAdmins' <=> IsAdmin(u)'
    BY <1>1, <1>2, AdminIsRowNext DEF AdminsByRow
  <2>4. u \in RowAdmins <=> u \in RowAdmins'
    BY RestartKeepsRows, <1>2 DEF RowAdmins
  <2>5. QED
    BY <2>2, <2>3, <2>4
<1>4. PrincipalsOf(u) \subseteq PrincipalsOf(u)'
  <2>1. ASSUME NEW r \in Of(holds, u) PROVE r \in Of(holds', u)
    <3> DEFINE M(v) == Migrated(v, role', snapshot'[v])
    <3>1. holds' = UNION {{v} \X M(v) : v \in users'}
      BY DEF Start, With
    <3>2. r \in M(u)
      BY <2>1 DEF Migrated
    <3> HIDE DEF M
    <3>3. <<u, r>> \in holds'
      BY <1>2, <3>1, <3>2
    <3>4. <<u, r>>[1] = u /\ <<u, r>>[2] = r
      OBVIOUS
    <3>5. QED
      BY <3>3, <3>4 DEF Of
  <2>2. QED
    BY <1>2, <2>1 DEF PrincipalsOf
<1>5. VisibleIds(u, appGrants, App) \subseteq VisibleIds(u, appGrants, App)'
  BY <1>1, <1>2, <1>3, <1>4 DEF VisibleIds
<1>6. VisibleIds(u, setGrants, Dataset) \subseteq VisibleIds(u, setGrants, Dataset)'
  BY <1>1, <1>2, <1>3, <1>4 DEF VisibleIds
<1>7. QED
  BY <1>2, <1>5, <1>6 DEF Sees, VisibleApps, VisibleDatasets

\* A step that leaves users, roles and grants alone.
LEMMA SeesUndisturbed ==
    UNCHANGED <<users, enabled, dept, snapshot, role, holds, appGrants, setGrants>>
        => UNCHANGED <<users, ActiveAdmins, Sees>>
BY DEF Sees, VisibleApps, VisibleDatasets, VisibleIds, PrincipalsOf, IsAdmin,
       RoleCodes, Roles, ActiveAdmins

\* A request that ends, for one user's standing at most.
LEMMA EndIsAct ==
    ASSUME AuthInv, AuthInv', NEW a \in User, job[a] # Idle, job'[a] = Idle,
           \A b \in User \ {a} : job'[b] = Idle <=> job[b] = Idle,
           users' = {} <=> users = {},
           NEW u \in User, \A v \in User \ {u} : v \in RowActive' <=> v \in RowActive
    PROVE  Access!Act(a)
<1>1. ActiveAdmins = RowActive /\ ActiveAdmins' = RowActive' /\ TypeOK'
  BY ActiveByRow DEF AuthInv
<1>2. RowActive \subseteq User /\ RowActive' \subseteq User
  BY <1>1 DEF AuthInv, TypeOK, RowActive
<1>3. ActiveAdmins' = ActiveAdmins \cup {u} \/ ActiveAdmins' = ActiveAdmins \ {u}
  <2>1. CASE u \in RowActive'
    BY <1>1, <1>2, <2>1
  <2>2. CASE u \notin RowActive'
    BY <1>1, <1>2, <2>2
  <2>3. QED
    BY <2>1, <2>2
<1>4. Open' = Open \ {a} /\ a \in Open
  BY DEF Open
<1>5. Sees' \in [User -> SUBSET Things]
  BY <1>1, SeesThingsNext DEF SeesOfThings
<1>6. QED
  BY <1>3, <1>4, <1>5 DEF Access!Act, Open, Sees

LEMMA AnswerIsAct ==
    ASSUME AuthInv, AuthInv', NEW a \in User, job[a] # Idle,
           Answered(a) \/ Done(a), users' = {} <=> users = {},
           NEW u \in User, \A v \in User \ {u} : v \in RowActive' <=> v \in RowActive
    PROVE  Access!Act(a)
<1>1. JobTypes
  BY DEF AuthInv
<1>2. job'[a] = Idle
  BY <1>1, Answers, Finishes
<1>3. ASSUME NEW b \in User \ {a} PROVE job'[b] = Idle <=> job[b] = Idle
  <2>1. CASE Answered(a)
    BY <1>1, <2>1, Answers
  <2>2. CASE Done(a)
    <3>1. /\ job'[b].op = job[b].op
          /\ job'[b] # Idle => job[b] # Idle
      BY <1>1, <2>2, Finishes
    <3>2. job[b].op = "idle" => job[b] = Idle
      BY <1>1 DEF JobTypes
    <3>3. QED
      BY <3>1, <3>2, Jobs
  <2>3. QED
    BY <2>1, <2>2
<1>4. QED
  BY <1>2, <1>3, EndIsAct

\* What a request does, seen by AccessControl.
LEMMA StepRefines ==
    ASSUME AuthInv, AuthInv', NEW a \in User, Step(a)
    PROVE  \/ Access!Ask(a) \/ Access!Act(a)
           \/ UNCHANGED <<users, ActiveAdmins, Sees, Open>>
<1> USE DEF userVars, roleVars, grantVars
<1>1. TypeOK /\ JobTypes /\ ActiveAdmins = RowActive
  BY ActiveByRow DEF AuthInv
<1>2. CASE Admit(a)
  <2>1. /\ UNCHANGED <<users, ActiveAdmins, Sees>> /\ job[a] = Idle
        /\ job' = [job EXCEPT ![a] = Gate] /\ a \in ActiveAdmins /\ users # {}
    <3>1. UNCHANGED <<users, ActiveAdmins, Sees>>
      BY <1>2, SeesUndisturbed DEF Admit
    <3>2. QED
      BY <1>1, <1>2, <3>1 DEF Admit, MayAdminister, ActiveAdmins, TypeOK
  <2>2. Open' = Open \cup {a} /\ a \notin Open
    BY <1>1, <2>1, Jobs DEF Open, JobTypes
  <2>3. QED
    BY <2>1, <2>2 DEF Access!Ask, Open, Sees
<1>3. ASSUME job[a] = Gate,
             \/ \E p, x, y, z : UpdateRead(a, p, x, y, z)
             \/ \E p, x : AppsRead(a, p, x) \/ SetsRead(a, p, x)
      PROVE  UNCHANGED <<users, ActiveAdmins, Sees, Open>>
  <2>1. UNCHANGED <<users, ActiveAdmins, Sees>>
    BY <1>3, SeesUndisturbed DEF UpdateRead, AppsRead, SetsRead
  <2>2. job'[a] # Idle /\ \A b \in User \ {a} : job'[b] = job[b]
    <3>1. CASE \E p, x, y, z : UpdateRead(a, p, x, y, z)
      <4>1. job'[a].op \in Fields /\ \A b \in User \ {a} : job'[b] = job[b]
        BY <1>1, <3>1 DEF UpdateRead, JobTypes, Fields
      <4>2. QED
        BY <4>1, Jobs DEF Fields
    <3>2. CASE \E p, x : AppsRead(a, p, x) \/ SetsRead(a, p, x)
      BY <1>1, <3>2, GrantsRead, Jobs
    <3>3. QED
      BY <1>3, <3>1, <3>2
  <2>3. QED
    BY <1>3, <2>1, <2>2, Jobs DEF Open
<1>4. CASE UpdateCommit(a)
  <2>1. job[a] # Idle /\ Done(a) /\ users' = users
    BY <1>4, Jobs DEF UpdateCommit
  <2>2. QED
    BY <1>4, <2>1, StandingOfUpdate, AnswerIsAct
<1>5. ASSUME job[a] # Idle, Answered(a) \/ Done(a), ~UpdateCommit(a),
             users' = {} <=> users = {}
      PROVE  Access!Act(a)
  <2>1. PICK u \in User : \A v \in User \ {u} : v \in RowActive' <=> v \in RowActive
    BY <1>5, StandingOfStep
  <2>2. QED
    BY <1>5, <2>1, AnswerIsAct
<1>6. ASSUME Refuse(a) \/ AppsCommit(a) \/ SetsCommit(a)
      PROVE  job[a] # Idle /\ (Answered(a) \/ Done(a)) /\ users' = users
  BY <1>6, Jobs DEF Refuse, AppsCommit, SetsCommit
<1>7. ASSUME job[a] = Gate, Work(a),
             ~\E p, x, y, z : UpdateRead(a, p, x, y, z),
             ~\E p, x : AppsRead(a, p, x) \/ SetsRead(a, p, x)
      PROVE  job[a] # Idle /\ Answered(a) /\ (users' = {} <=> users = {})
  <2>1. users # {}
    BY <1>1, <1>7, Jobs DEF JobTypes
  <2>2. ASSUME NEW u \in User, NEW sent, NEW d, CreateUser(a, u, sent, d)
        PROVE  Answered(a) /\ users' # {}
    BY <2>2 DEF CreateUser
  <2>3. ASSUME NEW p, NEW x,
               \/ CreateRole(a, x) \/ DeleteRole(a, x)
               \/ AddGrant(a, p, x) \/ RemoveGrant(a, p, x)
        PROVE  Answered(a) /\ users' = users
    BY <2>3 DEF CreateRole, DeleteRole, AddGrant, RemoveGrant
  <2>4. QED
    BY <1>7, <2>1, <2>2, <2>3, Jobs DEF Work
<1>8. QED
  BY <1>2, <1>3, <1>4, <1>5, <1>6, <1>7 DEF Step

\* Users, roles and grants implement the abstract specification of rights
\* (AccessRefined).
THEOREM AccessIsRefined == Spec => AccessRefined
<1>1. Init => Access!Init
  BY Jobs DEF Init, Access!Init, ActiveAdmins
<1>2. ASSUME AuthInv, [Next]_vars
      PROVE  [Access!Next]_(Access!accessVars)
  <2>1. AuthInv' /\ TypeOK' /\ TypeOK /\ JobTypes
    BY <1>2, AuthInvKept DEF AuthInv
  <2>2. UNCHANGED <<users, ActiveAdmins, Sees, Open>>
           => UNCHANGED Access!accessVars
    BY DEF Access!accessVars, Sees, Open
  <2>3. CASE \E a \in User : Step(a)
    <3>1. PICK a \in User : Step(a)
      BY <2>3
    <3>2. QED
      BY <1>2, <2>1, <2>2, <3>1, StepRefines DEF Access!Next
  <2>4. CASE Start
    <3>1. ActiveAdmins = RowActive /\ ActiveAdmins' = RowActive'
      BY <1>2, <2>1, ActiveByRow
    <3>2. Open = {} /\ Open' = {}
      BY <2>1, <2>4 DEF Start, Open, JobTypes
    <3>3. users' # {}
      BY <2>4 DEF Start
    <3>4. Sees' \in [User -> SUBSET Things]
      BY <2>1, SeesThingsNext DEF SeesOfThings
    <3>5. \A u \in User : Sees[u] \subseteq Sees'[u]
      BY <1>2, <2>4, RestartTakesNothing
    <3>6. Seed \in User
      BY AuthorizationAssumption
    <3>7. RowActive' = IF users = {} THEN {Seed} ELSE RowActive
      BY <1>2, <2>4, StandingOfStart
    <3>8. Access!Restart
      BY <3>1, <3>2, <3>3, <3>4, <3>5, <3>6, <3>7 DEF Access!Restart, Open, Sees
    <3>9. QED
      BY <3>8 DEF Access!Next
  <2>5. CASE Stop
    <3>1. UNCHANGED <<users, ActiveAdmins, Sees>>
      BY <2>5, SeesUndisturbed DEF Stop, userVars, roleVars, grantVars
    <3>2. Open' = {}
      BY <2>5 DEF Stop, Open
    <3>3. Access!Die
      BY <3>1, <3>2 DEF Access!Die, Open, Sees
    <3>4. QED
      BY <3>3 DEF Access!Next
  <2>6. CASE UNCHANGED vars
    <3>1. UNCHANGED <<users, ActiveAdmins, Sees, Open>>
      BY <2>6, SeesUndisturbed DEF vars, userVars, roleVars, grantVars, Open
    <3>2. QED
      BY <2>2, <3>1
  <2>7. QED
    BY <1>2, <2>3, <2>4, <2>5, <2>6 DEF Next
<1>3. QED
  BY <1>1, <1>2, AuthInvariance, PTL DEF Spec, AccessRefined, Access!Spec
===============================================================================
