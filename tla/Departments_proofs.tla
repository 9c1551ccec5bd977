-------------------------- MODULE Departments_proofs --------------------------
(***************************************************************************)
(* Proofs about Departments, for any sets of departments, apps, users and  *)
(* administrators whose operations overlap.                                *)
(***************************************************************************)
EXTENDS Departments, SequenceTheorems, TLAPS

\* An operation on a department names one; what a move will write for its own
\* row is the path of a parent that it is not in, and its own id.
JobsName ==
    \A a \in Admin :
        /\ job[a].op \notin {"idle", "create"} => job[a].dept \in Dept
        /\ job[a].op \in {"move", "cascade"} =>
              /\ job[a].to # job[a].dept
              /\ \E base \in Seq(Dept) :
                    /\ job[a].into = Append(base, job[a].dept)
                    /\ ~Holds(base, job[a].dept)
        /\ job[a].op # "cascade" => DOMAIN job[a].new = {}

\* Only ids that were given out are anyone's parent.
ParentsBorn ==
    /\ \A x \in Dept : parent[x] \in Maybe(born)
    /\ \A a \in Admin : job[a].to \in Maybe(born)

TypesInv == TypeOK /\ JobsName /\ ParentsBorn

-------------------------------------------------------------------------------
(* Paths: LIKE '/1/3/%', the prefix that is replaced.                      *)

LEMMA UnderItself ==
    ASSUME NEW S, NEW p \in Seq(S)
    PROVE  Under(p, p)
BY SubSeqFull DEF Under

\* Under, element by element.
LEMMA UnderAgrees ==
    ASSUME NEW S, NEW p \in Seq(S), NEW q \in Seq(S)
    PROVE  Under(p, q) <=> /\ Len(p) <= Len(q)
                           /\ \A i \in 1..Len(p) : q[i] = p[i]
<1>0. Len(p) \in Nat /\ Len(q) \in Nat
  BY LenProperties
<1> SUFFICES ASSUME Len(p) <= Len(q)
             PROVE  SubSeq(q, 1, Len(p)) = p <=> \A i \in 1..Len(p) : q[i] = p[i]
  BY DEF Under
<1>1. \A i \in 1..Len(p) : q[i] \in S
  BY <1>0, ElementOfSeq
<1>2. /\ SubSeq(q, 1, Len(p)) \in Seq(S)
      /\ Len(SubSeq(q, 1, Len(p))) = Len(p)
      /\ \A i \in 1..Len(p) : SubSeq(q, 1, Len(p))[i] = q[i]
  BY <1>0, <1>1, SubSeqProperties
<1>3. ASSUME \A i \in 1..Len(p) : q[i] = p[i]
      PROVE  SubSeq(q, 1, Len(p)) = p
  BY <1>2, <1>3, SeqEqual
<1> QED
  BY <1>2, <1>3

\* A child is under what its parent is under, and under itself.
LEMMA UnderAppend ==
    ASSUME NEW S, NEW p \in Seq(S), NEW q \in Seq(S), NEW x \in S
    PROVE  Under(p, Append(q, x)) <=> Under(p, q) \/ p = Append(q, x)
<1> DEFINE r == Append(q, x)
<1>0. Len(p) \in Nat /\ Len(q) \in Nat
  BY LenProperties
<1>1. /\ r \in Seq(S) /\ Len(r) = Len(q) + 1
      /\ \A i \in 1..Len(q) : r[i] = q[i]
  BY AppendProperties
<1> HIDE DEF r
<1>2. ASSUME Under(p, q) PROVE Under(p, r)
  BY <1>0, <1>1, <1>2, UnderAgrees
<1>3. ASSUME p = r PROVE Under(p, r)
  BY <1>1, <1>3, UnderItself
<1>4. ASSUME Under(p, r) PROVE Under(p, q) \/ p = r
  <2>1. CASE Len(p) <= Len(q)
    BY <1>0, <1>1, <1>4, <2>1, UnderAgrees
  <2>2. CASE Len(p) = Len(q) + 1
    BY <1>0, <1>1, <1>4, <2>2, UnderAgrees, SeqEqual
  <2> QED
    BY <1>0, <1>1, <1>4, <2>1, <2>2, UnderAgrees
<1> QED
  BY <1>2, <1>3, <1>4 DEF r

\* What follows the prefix of a child is what follows that of its parent,
\* and the child.
LEMMA RestOfChild ==
    ASSUME NEW S, NEW p \in Seq(S), NEW q \in Seq(S), NEW x \in S,
           NEW into \in Seq(S), Under(p, q)
    PROVE  into \o Rest(p, Append(q, x)) = Append(into \o Rest(p, q), x)
<1> DEFINE r == Append(q, x)
           s == SubSeq(q, Len(p) + 1, Len(q))
           t == SubSeq(r, Len(p) + 1, Len(r))
<1> HIDE DEF r, s, t
<1>0. Len(p) \in Nat /\ Len(q) \in Nat /\ Len(p) <= Len(q)
  BY LenProperties DEF Under
<1>1. /\ r \in Seq(S) /\ Len(r) = Len(q) + 1
      /\ \A i \in 1..Len(q) : r[i] = q[i]
      /\ r[Len(q) + 1] = x
  BY AppendProperties DEF r
<1>2. /\ \A i \in Len(p) + 1 .. Len(q) : q[i] \in S
      /\ \A i \in Len(p) + 1 .. Len(r) : r[i] \in S
  BY <1>0, <1>1, ElementOfSeq
<1>3. /\ s \in Seq(S) /\ Len(s) = Len(q) - Len(p)
      /\ \A i \in 1 .. Len(q) - Len(p) : s[i] = q[Len(p) + i]
  <2>1. /\ s \in Seq(S)
        /\ Len(s) = IF Len(p) + 1 <= Len(q) THEN Len(q) - (Len(p) + 1) + 1 ELSE 0
        /\ \A i \in 1 .. Len(q) - (Len(p) + 1) + 1 : s[i] = q[Len(p) + 1 + i - 1]
    BY <1>0, <1>2, SubSeqProperties DEF s
  <2>2. Len(s) = Len(q) - Len(p)
    BY <1>0, <2>1
  <2>3. ASSUME NEW i \in 1 .. Len(q) - Len(p) PROVE s[i] = q[Len(p) + i]
    <3>1. i \in 1 .. Len(q) - (Len(p) + 1) + 1 /\ Len(p) + 1 + i - 1 = Len(p) + i
      BY <1>0
    <3> QED
      BY <2>1, <3>1
  <2> QED
    BY <2>1, <2>2, <2>3
<1>4. /\ t \in Seq(S) /\ Len(t) = Len(q) + 1 - Len(p)
      /\ \A i \in 1 .. Len(q) + 1 - Len(p) : t[i] = r[Len(p) + i]
  <2>1. /\ t \in Seq(S)
        /\ Len(t) = IF Len(p) + 1 <= Len(r) THEN Len(r) - (Len(p) + 1) + 1 ELSE 0
        /\ \A i \in 1 .. Len(r) - (Len(p) + 1) + 1 : t[i] = r[Len(p) + 1 + i - 1]
    BY <1>0, <1>1, <1>2, SubSeqProperties DEF t
  <2>2. Len(t) = Len(q) + 1 - Len(p)
    BY <1>0, <1>1, <2>1
  <2>3. ASSUME NEW i \in 1 .. Len(q) + 1 - Len(p) PROVE t[i] = r[Len(p) + i]
    <3>1. i \in 1 .. Len(r) - (Len(p) + 1) + 1 /\ Len(p) + 1 + i - 1 = Len(p) + i
      BY <1>0, <1>1
    <3> QED
      BY <2>1, <3>1
  <2> QED
    BY <2>1, <2>2, <2>3
<1>5. t = Append(s, x)
  <2>0. Len(s) \in Nat /\ Len(t) = Len(s) + 1
    BY <1>0, <1>3, <1>4
  <2>1. /\ Append(s, x) \in Seq(S) /\ Len(Append(s, x)) = Len(s) + 1
        /\ \A i \in 1..Len(s) : Append(s, x)[i] = s[i]
        /\ Append(s, x)[Len(s) + 1] = x
    BY <1>3, AppendProperties
  <2>2. \A i \in 1..Len(t) : t[i] = Append(s, x)[i]
    <3> SUFFICES ASSUME NEW i \in 1..Len(t) PROVE t[i] = Append(s, x)[i]
      OBVIOUS
    <3>1. CASE i \in 1..Len(s)
      <4>1. Len(p) + i \in 1..Len(q)
        BY <1>0, <1>3, <3>1
      <4> QED
        BY <1>0, <1>1, <1>3, <1>4, <2>1, <3>1, <4>1
    <3>2. CASE i = Len(s) + 1
      <4>1. i = Len(q) - Len(p) + 1 /\ Len(p) + i = Len(q) + 1
        BY <1>0, <1>3, <3>2
      <4> QED
        BY <1>0, <1>1, <1>3, <1>4, <2>1, <3>2, <4>1
    <3> QED
      BY <2>0, <3>1, <3>2
  <2>3. t \in Seq(S) /\ Len(t) = Len(Append(s, x))
    BY <1>4, <2>0, <2>1
  <2> QED
    BY <2>1, <2>2, <2>3, SeqEqual
<1>6. into \o Append(s, x) = Append(into \o s, x)
  <2>1. Append(s, x) = s \o <<x>> /\ <<x>> \in Seq(S)
    BY <1>3, AppendIsConcat
  <2>2. into \o s \in Seq(S) /\ Append(into \o s, x) = (into \o s) \o <<x>>
    BY <1>3, ConcatProperties, AppendIsConcat
  <2> QED
    BY <1>3, <2>1, <2>2, ConcatAssociative
<1> QED
  BY <1>5, <1>6 DEF r, s, t, Rest

\* The same of the paths of departments, as the moves need it.
LEMMA RestBelow ==
    \A p, q, into \in Seq(Dept), x \in Dept :
        Under(p, q) =>
            into \o Rest(p, Append(q, x)) = Append(into \o Rest(p, q), x)
<1> SUFFICES ASSUME NEW p \in Seq(Dept), NEW q \in Seq(Dept),
                    NEW into \in Seq(Dept), NEW x \in Dept, Under(p, q)
             PROVE  into \o Rest(p, Append(q, x)) = Append(into \o Rest(p, q), x)
  OBVIOUS
<1> QED
  BY RestOfChild

-------------------------------------------------------------------------------
(* Types, however operations overlap.                                      *)

Ops  == {"idle", "create", "move", "cascade", "delete", "deleting", "grant",
         "granting"}
Jobs == [op : Ops, dept : Maybe(Dept), to : Maybe(Dept), was : Maybe(Dept),
         from : Seq(Dept), into : Seq(Dept),
         new : UNION {[S -> Seq(Dept)] : S \in SUBSET Dept},
         taken : SUBSET (Dept \X App)]

LEMMA BaseType ==
    ASSUME TypeOK, NEW p \in Maybe(Dept)
    PROVE  Base(p) \in Seq(Dept)
BY EmptySeq DEF TypeOK, Maybe, Base

LEMMA RestType ==
    ASSUME NEW p \in Seq(Dept), NEW q \in Seq(Dept)
    PROVE  Rest(p, q) \in Seq(Dept)
<1>0. Len(q) \in Nat /\ Len(p) \in Nat
  BY LenProperties
<1>1. \A i \in Len(p) + 1 .. Len(q) : q[i] \in Dept
  BY <1>0, ElementOfSeq
<1> QED
  BY <1>0, <1>1, SubSeqProperties DEF Rest

LEMMA FrontType ==
    ASSUME NEW q \in Seq(Dept)
    PROVE  SubSeq(q, 1, Len(q) - 1) \in Seq(Dept)
<1>0. Len(q) \in Nat
  BY LenProperties
<1>1. \A i \in 1 .. Len(q) - 1 : q[i] \in Dept
  BY <1>0, ElementOfSeq
<1> QED
  BY <1>0, <1>1, SubSeqProperties

LEMMA NewPathsType ==
    ASSUME TypeOK, NEW j \in Jobs, j.dept \in Dept
    PROVE  NewPaths(j) \in UNION {[S -> Seq(Dept)] : S \in SUBSET Dept}
<1> DEFINE S == {x \in exist : Under(j.from, path[x])} \cup {j.dept}
           loaded(x) == IF x = j.to THEN SubSeq(j.into, 1, Len(j.into) - 1)
                        ELSE path[x]
<1>1. S \in SUBSET Dept /\ j.from \in Seq(Dept) /\ j.into \in Seq(Dept)
  BY DEF TypeOK, Jobs
<1>2. \A x \in S : loaded(x) \in Seq(Dept)
  BY <1>1, FrontType DEF TypeOK
<1>3. \A x \in S : j.into \o Rest(j.from, loaded(x)) \in Seq(Dept)
  <2> SUFFICES ASSUME NEW x \in S
               PROVE  j.into \o Rest(j.from, loaded(x)) \in Seq(Dept)
    OBVIOUS
  <2> DEFINE q == loaded(x)
  <2>1. q \in Seq(Dept)
    BY <1>2
  <2> HIDE DEF q
  <2>2. Rest(j.from, q) \in Seq(Dept)
    BY <1>1, <2>1, RestType
  <2>3. j.into \o Rest(j.from, q) \in Seq(Dept)
    BY <1>1, <2>2, ConcatProperties
  <2> QED
    BY <2>3 DEF q
<1>4. NewPaths(j) = [x \in S |-> IF x = j.dept THEN j.into
                                 ELSE j.into \o Rest(j.from, loaded(x))]
  BY DEF NewPaths
<1> HIDE DEF S, loaded
<1>5. NewPaths(j) \in [S -> Seq(Dept)]
  BY <1>1, <1>3, <1>4
<1> QED
  BY <1>1, <1>5

LEMMA IdleJob == Idle \in Jobs /\ DOMAIN Idle.new = {}
<1>1. [x \in {} |-> <<>>] \in [{} -> Seq(Dept)]
  OBVIOUS
<1>2. [x \in {} |-> <<>>] \in UNION {[S -> Seq(Dept)] : S \in SUBSET Dept}
  BY <1>1
<1>3. <<>> \in Seq(Dept)
  BY EmptySeq
<1> HIDE <1>1
<1> QED
  BY <1>2, <1>3 DEF Idle, Jobs, Ops, Maybe

LEMMA InitTypes == Init => TypesInv
<1> SUFFICES ASSUME Init PROVE TypesInv
  OBVIOUS
<1>1. job \in [Admin -> Jobs]
  BY IdleJob DEF Init
<1>2. path \in [Dept -> Seq(Dept)]
  BY EmptySeq DEF Init
<1>3. TypeOK
  BY <1>1, <1>2 DEF Init, TypeOK, Jobs, Ops, Maybe
<1>4. JobsName /\ ParentsBorn
  BY IdleJob DEF Init, JobsName, ParentsBorn, Idle, Maybe
<1> QED
  BY <1>3, <1>4 DEF TypesInv

\* The job of one administrator is replaced by one that is well formed.
LEMMA NewJob ==
    ASSUME TypesInv, NEW a \in Admin, NEW j \in Jobs,
           job' = [job EXCEPT ![a] = j],
           born \subseteq born', j.to \in Maybe(born'),
           j.op \notin {"idle", "create"} => j.dept \in Dept,
           j.op \in {"move", "cascade"} =>
              /\ j.to # j.dept
              /\ \E base \in Seq(Dept) :
                    /\ j.into = Append(base, j.dept)
                    /\ ~Holds(base, j.dept),
           j.op # "cascade" => DOMAIN j.new = {}
    PROVE  /\ job' \in [Admin -> Jobs] /\ JobsName'
           /\ \A b \in Admin : job'[b].to \in Maybe(born')
<1>1. job \in [Admin -> Jobs]
  BY DEF TypesInv, TypeOK, Jobs, Ops
<1>2. \A b \in Admin : job'[b] = IF b = a THEN j ELSE job[b]
  BY <1>1
<1>3. job' \in [Admin -> Jobs]
  BY <1>1
<1>4. \A b \in Admin : job'[b].to \in Maybe(born')
  BY <1>2 DEF TypesInv, ParentsBorn, Maybe
<1>5. JobsName'
  BY <1>2 DEF TypesInv, JobsName, Holds
<1> QED
  BY <1>3, <1>4, <1>5

LEMMA ReadTypes ==
    ASSUME TypesInv, NEW a \in Admin,
           \/ \E p \in Maybe(Dept) : CreateRead(a, p)
           \/ \E d \in Dept, p \in Maybe(Dept) : MoveRead(a, d, p)
           \/ MoveCascade(a)
           \/ \E d \in Dept : DeleteRead(a, d) \/ GrantRead(a, d)
           \/ TakeGrants(a)
    PROVE  TypesInv'
<1>0. /\ job \in [Admin -> Jobs] /\ exist \subseteq born /\ born \subseteq Dept
      /\ Idle \in Jobs /\ DOMAIN Idle.new = {}
  BY IdleJob DEF TypesInv, TypeOK, Jobs, Ops
<1>1. ASSUME UNCHANGED <<treeVars, apps, member, stale>>,
             NEW j \in Jobs, job' = [job EXCEPT ![a] = j],
             j.to \in Maybe(born),
             j.op \notin {"idle", "create"} => j.dept \in Dept,
             j.op \in {"move", "cascade"} =>
                /\ j.to # j.dept
                /\ \E base \in Seq(Dept) :
                      /\ j.into = Append(base, j.dept)
                      /\ ~Holds(base, j.dept),
             j.op # "cascade" => DOMAIN j.new = {}
      PROVE  TypesInv'
  <2>1. UNCHANGED <<born, exist, parent, path, apps, member, stale>>
    BY <1>1 DEF treeVars
  <2>2. /\ job' \in [Admin -> Jobs] /\ JobsName'
        /\ \A b \in Admin : job'[b].to \in Maybe(born')
    BY <1>1, <2>1, NewJob DEF Maybe
  <2> QED
    BY <2>1, <2>2 DEF TypesInv, TypeOK, ParentsBorn, Jobs, Ops, Maybe
<1>2. ASSUME NEW p \in Maybe(Dept), CreateRead(a, p) PROVE TypesInv'
  <2> DEFINE j == [Idle EXCEPT !.op = "create", !.to = p, !.from = Base(p)]
  <2>1. /\ job' = [job EXCEPT ![a] = j]
        /\ UNCHANGED <<treeVars, apps, member, stale>> /\ p \in Maybe(born)
    BY <1>0, <1>2 DEF CreateRead, Maybe
  <2>2. Base(p) \in Seq(Dept)
    BY BaseType DEF TypesInv
  <2>3. /\ j \in Jobs /\ j.op = "create" /\ j.to = p
        /\ DOMAIN j.new = {}
    BY <1>0, <2>2 DEF Jobs, Ops, Idle
  <2> HIDE DEF j
  <2> QED
    BY <1>1, <2>1, <2>3
<1>3. ASSUME NEW d \in Dept, NEW p \in Maybe(Dept), MoveRead(a, d, p)
      PROVE  TypesInv'
  <2> DEFINE j == [Idle EXCEPT !.op = "move", !.dept = d, !.to = p,
                               !.was = parent[d], !.from = path[d],
                               !.into = Append(Base(p), d)]
  <2>1. /\ job' = [job EXCEPT ![a] = j]
        /\ UNCHANGED <<treeVars, apps, member, stale>>
        /\ p \in Maybe(born) /\ p # d
        /\ p # NONE => ~Holds(path[p], d)
    BY <1>0, <1>3 DEF MoveRead, MayMove, Maybe
  <2>2. Base(p) \in Seq(Dept) /\ Append(Base(p), d) \in Seq(Dept)
    BY BaseType, AppendProperties DEF TypesInv
  <2>3. parent[d] \in Maybe(Dept) /\ path[d] \in Seq(Dept)
    BY DEF TypesInv, TypeOK
  <2>4. /\ j \in Jobs /\ j.op = "move" /\ j.to = p /\ j.dept = d
        /\ j.into = Append(Base(p), d) /\ DOMAIN j.new = {}
    BY <1>0, <2>2, <2>3 DEF Jobs, Ops, Idle, Maybe
  <2>5. ~Holds(Base(p), d)
    <3>1. CASE p = NONE
      BY <3>1, EmptySeq DEF Base, Holds
    <3>2. CASE p # NONE
      BY <2>1, <3>2 DEF Base
    <3> QED
      BY <3>1, <3>2
  <2> HIDE DEF j
  <2> QED
    BY <1>1, <2>1, <2>2, <2>4, <2>5
<1>4. CASE MoveCascade(a)
  <2> DEFINE k == job[a]
             j == [k EXCEPT !.op = "cascade", !.new = NewPaths(k)]
  <2>1. /\ job' = [job EXCEPT ![a] = j]
        /\ UNCHANGED <<treeVars, apps, member, stale>> /\ k.op = "move"
    BY <1>4 DEF MoveCascade
  <2>2. k \in Jobs /\ k.dept \in Dept
    BY <1>0, <2>1 DEF TypesInv, JobsName
  <2>3. NewPaths(k) \in UNION {[S -> Seq(Dept)] : S \in SUBSET Dept}
    BY <2>2, NewPathsType DEF TypesInv
  <2>4. /\ k.to # k.dept /\ k.to \in Maybe(born)
        /\ \E base \in Seq(Dept) :
              k.into = Append(base, k.dept) /\ ~Holds(base, k.dept)
    BY <2>1 DEF TypesInv, JobsName, ParentsBorn
  <2> HIDE DEF k
  <2>5. /\ j \in Jobs /\ j.op = "cascade" /\ j.to = k.to /\ j.dept = k.dept
        /\ j.into = k.into
    BY <2>2, <2>3 DEF Jobs, Ops
  <2> HIDE DEF j
  <2> QED
    BY <1>1, <2>1, <2>2, <2>4, <2>5
<1>5. ASSUME NEW d \in Dept, DeleteRead(a, d) \/ GrantRead(a, d)
      PROVE  TypesInv'
  <2>1. PICK o \in {"delete", "grant"} :
            job' = [job EXCEPT ![a] = [Idle EXCEPT !.op = o, !.dept = d]]
    BY <1>5 DEF DeleteRead, GrantRead
  <2> DEFINE j == [Idle EXCEPT !.op = o, !.dept = d]
  <2>2. UNCHANGED <<treeVars, apps, member, stale>>
    BY <1>5 DEF DeleteRead, GrantRead
  <2>3. /\ j \in Jobs /\ j.op = o /\ j.dept = d /\ j.to = NONE
        /\ DOMAIN j.new = {}
    BY <1>0 DEF Jobs, Ops, Idle, Maybe
  <2>4. j.to \in Maybe(born)
    BY <2>3 DEF Maybe
  <2> HIDE DEF j
  <2> QED
    BY <1>1, <2>1, <2>2, <2>3, <2>4 DEF j
<1>6. CASE TakeGrants(a)
  <2> DEFINE k == job[a]
             o == IF k.op = "delete" THEN "deleting" ELSE "granting"
             j == [k EXCEPT !.op = o, !.taken = GrantsOf(k.dept)]
  <2>1. /\ job' = [job EXCEPT ![a] = j]
        /\ UNCHANGED <<treeVars, apps, member, stale>>
        /\ k.op \in {"delete", "grant"}
    BY <1>6 DEF TakeGrants
  <2>2. /\ k \in Jobs /\ k.dept \in Dept /\ k.to \in Maybe(born)
        /\ DOMAIN k.new = {}
    BY <1>0, <2>1 DEF TypesInv, JobsName, ParentsBorn
  <2>3. GrantsOf(k.dept) \in SUBSET (Dept \X App)
    BY DEF GrantsOf, TypesInv, TypeOK
  <2> HIDE DEF k
  <2>4. /\ j \in Jobs /\ j.op \in {"deleting", "granting"} /\ j.to = k.to
        /\ j.dept = k.dept /\ j.new = k.new
    BY <2>2, <2>3 DEF Jobs, Ops
  <2> HIDE DEF j, o
  <2> QED
    BY <1>1, <2>1, <2>2, <2>4
<1> QED
  BY <1>2, <1>3, <1>4, <1>5, <1>6

LEMMA CommitTypes ==
    ASSUME TypesInv, NEW a \in Admin,
           \/ \E d \in Dept : CreateCommit(a, d)
           \/ MoveCommit(a) \/ DeleteCommit(a)
           \/ \E S \in SUBSET App : GrantCommit(a, S)
           \/ RollBack(a)
    PROVE  TypesInv'
<1> USE DEF TypesInv
<1>0. job \in [Admin -> Jobs] /\ job[a] \in Jobs
  BY DEF TypeOK, Jobs, Ops
<1>1. ASSUME job' = [job EXCEPT ![a] = Idle], born \subseteq born',
             born' \subseteq Dept, exist' \subseteq born',
             parent' \in [Dept -> Maybe(Dept)], path' \in [Dept -> Seq(Dept)],
             \A x \in Dept : parent'[x] \in Maybe(born'),
             apps' \subseteq Dept \X App, UNCHANGED member,
             stale' \subseteq stale \cup {"path", "parent", "child", "grant"}
      PROVE  TypesInv'
  <2>1. /\ Idle \in Jobs /\ DOMAIN Idle.new = {} /\ Idle.op = "idle"
        /\ Idle.to = NONE
    BY IdleJob DEF Idle
  <2>2. /\ job' \in [Admin -> Jobs] /\ JobsName'
        /\ \A b \in Admin : job'[b].to \in Maybe(born')
    BY <1>1, <2>1, NewJob DEF Maybe
  <2> QED
    BY <1>1, <2>2 DEF TypeOK, ParentsBorn, Jobs, Ops
<1>2. ASSUME NEW d \in Dept, CreateCommit(a, d) PROVE TypesInv'
  <2>1. Append(job[a].from, d) \in Seq(Dept)
    BY <1>0, AppendProperties DEF Jobs
  <2>2. job[a].to \in Maybe(Dept) /\ job[a].to \in Maybe(born)
    BY <1>0 DEF Jobs, ParentsBorn
  <2>3. stale' \subseteq stale \cup {"path", "parent", "child", "grant"}
    BY <1>2 DEF CreateCommit, Mark
  <2>4. /\ parent' \in [Dept -> Maybe(Dept)] /\ path' \in [Dept -> Seq(Dept)]
        /\ \A x \in Dept : parent'[x] \in Maybe(born')
    BY <1>2, <2>1, <2>2 DEF CreateCommit, TypeOK, ParentsBorn, Maybe
  <2> QED
    BY <1>1, <1>2, <2>3, <2>4 DEF CreateCommit, TypeOK
<1>3. CASE MoveCommit(a)
  <2>1. job[a].dept \in Dept /\ job[a].to \in Maybe(Dept)
        /\ job[a].to \in Maybe(born)
    BY <1>0, <1>3 DEF MoveCommit, JobsName, Jobs, ParentsBorn
  <2>2. path' \in [Dept -> Seq(Dept)]
    <3>1. PICK S \in SUBSET Dept : job[a].new \in [S -> Seq(Dept)]
      BY <1>0 DEF Jobs
    <3> QED
      BY <1>3, <3>1 DEF MoveCommit, TypeOK
  <2>3. /\ parent' \in [Dept -> Maybe(Dept)]
        /\ \A x \in Dept : parent'[x] \in Maybe(born')
    BY <1>3, <2>1 DEF MoveCommit, TypeOK, ParentsBorn
  <2>4. stale' \subseteq stale \cup {"path", "parent", "child", "grant"}
    BY <1>3 DEF MoveCommit, Mark
  <2>5. /\ UNCHANGED <<born, exist, apps, member>>
        /\ job' = [job EXCEPT ![a] = Idle]
    BY <1>3 DEF MoveCommit
  <2> QED
    BY <1>1, <2>2, <2>3, <2>4, <2>5 DEF TypeOK
<1>4. CASE DeleteCommit(a)
  <2>1. <<>> \in Seq(Dept)
    BY EmptySeq
  <2>2. stale' \subseteq stale \cup {"path", "parent", "child", "grant"}
    BY <1>4 DEF DeleteCommit, Mark
  <2>3. /\ parent' \in [Dept -> Maybe(Dept)] /\ path' \in [Dept -> Seq(Dept)]
        /\ \A x \in Dept : parent'[x] \in Maybe(born')
    BY <1>4, <2>1 DEF DeleteCommit, TypeOK, ParentsBorn, Maybe
  <2> QED
    BY <1>1, <1>4, <2>2, <2>3 DEF DeleteCommit, TypeOK
<1>5. ASSUME NEW S \in SUBSET App, GrantCommit(a, S) PROVE TypesInv'
  <2>1. job[a].dept \in Dept
    BY <1>5 DEF GrantCommit, JobsName
  <2>2. stale' \subseteq stale \cup {"path", "parent", "child", "grant"}
    BY <1>5 DEF GrantCommit, Mark
  <2>3. apps' \subseteq Dept \X App
    BY <1>5, <2>1 DEF GrantCommit, TypeOK
  <2> QED
    BY <1>1, <1>5, <2>2, <2>3 DEF GrantCommit, treeVars, TypeOK, ParentsBorn
<1>6. CASE RollBack(a)
  BY <1>1, <1>6 DEF RollBack, treeVars, TypeOK, ParentsBorn
<1> QED
  BY <1>2, <1>3, <1>4, <1>5, <1>6

LEMMA NextTypes == TypesInv /\ [Next]_vars => TypesInv'
<1> SUFFICES ASSUME TypesInv, [Next]_vars PROVE TypesInv'
  OBVIOUS
<1>1. ASSUME NEW a \in Admin, Step(a) PROVE TypesInv'
  BY <1>1, ReadTypes, CommitTypes DEF Step, Maybe
<1>2. ASSUME NEW u \in User, NEW d \in Maybe(Dept), SetMember(u, d)
      PROVE  TypesInv'
  BY <1>2 DEF SetMember, treeVars, TypesInv, TypeOK, JobsName, ParentsBorn
<1>3. CASE UNCHANGED vars
  BY <1>3 DEF vars, treeVars, TypesInv, TypeOK, JobsName, ParentsBorn
<1> QED
  BY <1>1, <1>2, <1>3 DEF Next, Maybe

\* The variables keep their types, however the operations of administrators
\* overlap (depts/service.py).
THEOREM TreeTypes == Spec => []TypeOK
<1>1. TypesInv => TypeOK
  BY DEF TypesInv
<1> QED
  BY <1>1, InitTypes, NextTypes, PTL DEF Spec

-------------------------------------------------------------------------------
(* The tree.                                                               *)

\* A path ends in its department.
Ends  == \A d \in exist : \E base \in Seq(Dept) : path[d] = Append(base, d)
Chain == \A d \in exist : parent[d] \in Maybe(exist) =>
             path[d] = Append(Base(parent[d]), d)
Forest == \A S \in (SUBSET exist) \ {{}} : \E d \in S : parent[d] \notin S

TreeInv ==
    /\ TypesInv /\ NothingDangles
    /\ "path" \notin stale => Ends /\ Chain /\ Forest

LEMMA InitTree == Init => TreeInv
<1> SUFFICES ASSUME Init PROVE TreeInv
  OBVIOUS
<1>1. TypesInv
  BY InitTypes
<1>2. NothingDangles /\ Ends /\ Chain
  BY DEF Init, NothingDangles, Ends, Chain
<1>3. Forest
  <2> SUFFICES ASSUME NEW S \in (SUBSET exist) \ {{}} PROVE FALSE
    BY DEF Forest
  <2> QED
    BY DEF Init
<1> QED
  BY <1>1, <1>2, <1>3 DEF TreeInv

\* A step that leaves the rows of the tree and the grants alone.
LEMMA StillTree ==
    ASSUME TreeInv, TypesInv',
           UNCHANGED <<exist, parent, path, stale>>, apps' \subseteq apps
    PROVE  TreeInv'
<1>1. NothingDangles'
  BY DEF TreeInv, NothingDangles
<1>2. Ends => Ends'
  BY DEF Ends
<1>3. Chain => Chain'
  BY DEF Chain, Base
<1>4. Forest => Forest'
  BY DEF Forest
<1> QED
  BY <1>1, <1>2, <1>3, <1>4 DEF TreeInv

LEMMA CreateTree ==
    ASSUME TreeInv, NEW a \in Admin, NEW d \in Dept, CreateCommit(a, d)
    PROVE  TreeInv'
<1> USE DeptAssumption
<1> DEFINE p == job[a].to
           base == job[a].from
<1>0. TypesInv' /\ TypesInv
  BY CommitTypes DEF TreeInv
<1>1. /\ p \in Maybe(born) /\ base \in Seq(Dept)
      /\ d \notin born /\ d \notin exist /\ exist \subseteq Dept
      /\ \A x \in exist : parent[x] \in Maybe(born)
  BY <1>0 DEF CreateCommit, TypesInv, TypeOK, ParentsBorn
<1>2. /\ exist' = exist \cup {d} /\ apps' = apps
      /\ parent'[d] = p /\ path'[d] = Append(base, d)
      /\ \A x \in exist : parent'[x] = parent[x] /\ path'[x] = path[x]
  BY <1>0, <1>1 DEF CreateCommit, TypesInv, TypeOK
<1>3. /\ stale \subseteq stale'
      /\ "path" \notin stale' => PathStands(p, base)
      /\ "parent" \notin stale' => p \in Maybe(exist)
  BY DEF CreateCommit, Mark
<1> HIDE DEF p, base
<1>4. NothingDangles'
  BY <1>2, <1>3 DEF TreeInv, NothingDangles, Maybe
<1>5. p # d /\ \A x \in exist : parent[x] # d /\ x # d
  BY <1>1 DEF Maybe
<1>6. ASSUME "path" \notin stale' PROVE Ends' /\ Chain' /\ Forest'
  <2>0. Ends /\ Chain /\ Forest /\ PathStands(p, base)
    BY <1>3, <1>6 DEF TreeInv
  <2>1. Ends'
    BY <1>1, <1>2, <2>0 DEF Ends
  <2>2. Chain'
    <3> SUFFICES ASSUME NEW x \in exist', parent'[x] \in Maybe(exist')
                 PROVE  path'[x] = Append(IF parent'[x] = NONE THEN <<>>
                                          ELSE path'[parent'[x]], x)
      BY DEF Chain, Base, Maybe
    <3>1. CASE x = d
      BY <1>2, <1>5, <2>0, <3>1 DEF PathStands, Base, Maybe
    <3>2. CASE x \in exist
      BY <1>2, <1>5, <2>0, <3>2 DEF Chain, Base, Maybe
    <3> QED
      BY <1>2, <3>1, <3>2
  <2>3. Forest'
    <3> SUFFICES ASSUME NEW S \in (SUBSET exist') \ {{}}
                 PROVE  \E x \in S : parent'[x] \notin S
      BY DEF Forest
    <3>1. CASE S \ {d} = {}
      BY <1>2, <1>5, <3>1
    <3>2. CASE S \ {d} # {}
      <4>1. S \ {d} \in (SUBSET exist) \ {{}}
        BY <1>2, <3>2
      <4>2. PICK x \in S \ {d} : parent[x] \notin S \ {d}
        BY <2>0, <4>1 DEF Forest
      <4> QED
        BY <1>2, <1>5, <4>1, <4>2
    <3> QED
      BY <3>1, <3>2
  <2> QED
    BY <2>1, <2>2, <2>3
<1> QED
  BY <1>0, <1>4, <1>6 DEF TreeInv

\* Who is below the department that moves, and where the paths go.
LEMMA BelowMoved ==
    ASSUME TypesInv, Ends, Chain, NEW d \in exist, NEW x \in exist, x # d,
           parent[x] \in Maybe(exist)
    PROVE  Under(path[d], path[x]) <=>
               parent[x] # NONE /\ Under(path[d], path[parent[x]])
<1> USE DeptAssumption
<1>1. /\ d \in Dept /\ x \in Dept /\ path[d] \in Seq(Dept)
      /\ parent[x] \in Maybe(Dept)
      /\ path[x] = Append(Base(parent[x]), x)
  BY DEF TypesInv, TypeOK, Chain
<1>2. PICK b \in Seq(Dept) : path[d] = Append(b, d)
  BY DEF Ends
<1>3. Base(parent[x]) \in Seq(Dept)
  BY <1>1, BaseType DEF TypesInv
<1>4. path[d] # Append(Base(parent[x]), x)
  BY <1>1, <1>2, <1>3, AppendInjective
<1>5. Under(path[d], path[x]) <=> Under(path[d], Base(parent[x]))
  BY <1>1, <1>3, <1>4, UnderAppend
<1>6. ~Under(path[d], <<>>)
  <2>1. Len(path[d]) \in Nat \ {0}
    BY <1>1, <1>2, AppendProperties, LenProperties
  <2> QED
    BY <2>1, EmptySeq DEF Under
<1> QED
  BY <1>1, <1>5, <1>6 DEF Base, Maybe

\* A path under which a department is holds it.
LEMMA UnderHolds ==
    ASSUME NEW d \in Dept, NEW b \in Seq(Dept), NEW q \in Seq(Dept),
           Under(Append(b, d), q)
    PROVE  Holds(q, d)
<1> DEFINE r == Append(b, d)
<1>1. r \in Seq(Dept) /\ Len(r) \in Nat \ {0} /\ r[Len(r)] = d
  BY AppendProperties, LenProperties
<1>0. Under(r, q)
  OBVIOUS
<1> HIDE DEF r
<1>2. Len(r) <= Len(q) /\ q[Len(r)] = r[Len(r)]
  BY <1>0, <1>1, UnderAgrees
<1>3. Len(q) \in Nat
  BY LenProperties
<1> QED
  BY <1>1, <1>2, <1>3 DEF Holds

\* Where what the move has read stands: the whole subtree goes, and not under
\* itself.
LEMMA MoveIsWhole ==
    ASSUME TreeInv, NEW a \in Admin, MoveCommit(a), MoveStands(job[a]), Ends
    PROVE  LET d == job[a].dept  p == job[a].to  into == job[a].into IN
           /\ d \in exist /\ p # d /\ into \in Seq(Dept)
           /\ parent' = [parent EXCEPT ![d] = p]
           /\ p \in Maybe(exist) => into = Append(Base(p), d)
           /\ \E b \in Seq(Dept) : into = Append(b, d)
           /\ p \in exist => ~Under(path[d], path[p])
           /\ \/ path' = path /\ into = path[d]
              \/ /\ path'[d] = into
                 /\ \A x \in exist : x # d =>
                       path'[x] = IF Under(path[d], path[x])
                                  THEN into \o Rest(path[d], path[x])
                                  ELSE path[x]
<1> USE DeptAssumption
<1> DEFINE j == job[a]
           d == j.dept
           p == j.to
           into == j.into
<1>0. TypesInv /\ TypeOK /\ j \in Jobs
  BY DEF TreeInv, TypesInv, TypeOK, Jobs, Ops
<1>1. /\ j.op \in {"move", "cascade"} /\ d \in exist /\ d \in Dept
      /\ p \in Maybe(Dept) /\ into \in Seq(Dept) /\ p # d
      /\ j.was = parent[d] /\ j.from = path[d]
      /\ p \in Maybe(exist) => into = Append(Base(p), d)
      /\ parent \in [Dept -> Maybe(Dept)] /\ exist \subseteq Dept
  BY <1>0 DEF MoveCommit, MoveStands, TypesInv, TypeOK, JobsName, Jobs
<1>2. PICK b \in Seq(Dept) : into = Append(b, d) /\ ~Holds(b, d)
  BY <1>0, <1>1 DEF TypesInv, JobsName
<1>3. parent' = [parent EXCEPT ![d] = p]
  BY <1>1 DEF MoveCommit
<1>4. ASSUME p \in exist, Under(path[d], path[p]) PROVE FALSE
  <2>1. path[p] \in Seq(Dept) /\ Base(p) = path[p] /\ p \in Maybe(exist)
    BY <1>0, <1>1, <1>4 DEF TypeOK, Base, Maybe
  <2>2. Append(b, d) = Append(path[p], d)
    BY <1>1, <1>2, <2>1
  <2> HIDE DEF d, p
  <2>3. b = path[p]
    BY <1>1, <1>2, <2>1, <2>2, AppendInjective
  <2>4. PICK c \in Seq(Dept) : path[d] = Append(c, d)
    BY <1>1 DEF Ends
  <2> QED
    BY <1>1, <1>2, <1>4, <2>1, <2>3, <2>4, UnderHolds
<1>5. CASE j.op = "move"
  <2>1. DOMAIN j.new = {} /\ into = path[d]
    BY <1>0, <1>1, <1>5 DEF MoveCommit, TypesInv, JobsName
  <2>2. path' = path
    BY <1>0, <2>1 DEF MoveCommit, TypeOK
  <2> QED
    BY <1>1, <1>2, <1>3, <1>4, <2>1, <2>2
<1>6. CASE j.op = "cascade"
  <2> DEFINE below == {x \in exist : Under(j.from, path[x])}
             loaded(x) == IF x = p THEN SubSeq(into, 1, Len(into) - 1)
                          ELSE path[x]
  <2>1. j.new = [x \in below \cup {d} |-> IF x = d THEN into
                                  ELSE into \o Rest(j.from, loaded(x))]
    BY <1>6 DEF MoveStands, NewPaths
  <2>2. \A x \in Dept : path'[x] = IF x \in DOMAIN j.new THEN j.new[x] ELSE path[x]
    BY DEF MoveCommit
  <2>3. path'[d] = into
    BY <1>1, <2>1, <2>2
  <2>4. ASSUME NEW x \in exist, x # d
        PROVE  path'[x] = IF Under(path[d], path[x])
                          THEN into \o Rest(path[d], path[x]) ELSE path[x]
    <3>0. x \in Dept
      BY <1>1
    <3>1. CASE Under(path[d], path[x])
      <4>1. x \in below /\ x # p
        BY <1>1, <1>4, <3>1
      <4>2. loaded(x) = path[x]
        BY <4>1
      <4> HIDE DEF below, loaded, j
      <4>3. x \in DOMAIN j.new /\ j.new[x] = into \o Rest(j.from, loaded(x))
        BY <2>1, <2>4, <4>1
      <4>4. path'[x] = into \o Rest(path[d], path[x])
        BY <1>1, <2>2, <3>0, <4>2, <4>3
      <4> QED
        BY <3>1, <4>4
    <3>2. CASE ~Under(path[d], path[x])
      BY <1>1, <2>1, <2>2, <2>4, <3>0, <3>2
    <3> QED
      BY <3>1, <3>2
  <2> QED
    BY <1>1, <1>2, <1>3, <1>4, <2>3, <2>4
<1> QED
  BY <1>1, <1>5, <1>6

LEMMA MoveTree ==
    ASSUME TreeInv, NEW a \in Admin, MoveCommit(a)
    PROVE  TreeInv'
<1> USE DeptAssumption
<1> DEFINE d    == job[a].dept
           p    == job[a].to
           into == job[a].into
<1>0. TypesInv' /\ TypesInv /\ TypeOK
  BY CommitTypes DEF TreeInv, TypesInv
<1>1. /\ UNCHANGED <<exist, apps>> /\ stale \subseteq stale'
      /\ exist \subseteq Dept
      /\ "path" \notin stale' => MoveStands(job[a])
      /\ "parent" \notin stale' => p \in Maybe(exist)
      /\ \A x \in exist : parent'[x] = parent[x] \/ parent'[x] = p
  BY <1>0 DEF MoveCommit, Mark, TypeOK
<1>2. NothingDangles'
  BY <1>1 DEF TreeInv, NothingDangles, Maybe
<1>3. ASSUME "path" \notin stale' PROVE Ends' /\ Chain' /\ Forest'
  <2>0. Ends /\ Chain /\ Forest
    BY <1>1, <1>3 DEF TreeInv
  <2>1. /\ d \in exist /\ p # d /\ into \in Seq(Dept)
        /\ parent' = [parent EXCEPT ![d] = p]
        /\ p \in Maybe(exist) => into = Append(Base(p), d)
        /\ \E b \in Seq(Dept) : into = Append(b, d)
        /\ p \in exist => ~Under(path[d], path[p])
        /\ \/ path' = path /\ into = path[d]
           \/ /\ path'[d] = into
              /\ \A x \in exist : x # d =>
                    path'[x] = IF Under(path[d], path[x])
                               THEN into \o Rest(path[d], path[x])
                               ELSE path[x]
    BY <1>1, <1>3, <2>0, MoveIsWhole
  <2> HIDE DEF d, p, into
  <2>2. /\ parent'[d] = p
        /\ \A x \in exist : x # d => parent'[x] = parent[x]
    BY <1>0, <1>1, <2>1 DEF TypeOK
  <2>3. /\ d \in Dept /\ path[d] \in Seq(Dept)
        /\ \A x \in exist : x \in Dept /\ path[x] \in Seq(Dept)
    BY <1>0, <1>1, <2>1 DEF TypeOK
  <2>4. Under(path[d], path[d])
    BY <2>3, UnderItself
  <2>5. Forest'
    <3> SUFFICES ASSUME NEW S \in (SUBSET exist) \ {{}}
                 PROVE  \E x \in S : parent'[x] \notin S
      BY <1>1 DEF Forest
    <3>1. CASE d \notin S
      <4>1. PICK x \in S : parent[x] \notin S
        BY <2>0 DEF Forest
      <4> QED
        BY <2>2, <3>1, <4>1
    <3>2. CASE d \in S /\ p \notin S
      BY <2>2, <3>2
    <3>3. CASE d \in S /\ p \in S
      <4> DEFINE T == {x \in S : ~Under(path[d], path[x])}
      <4>1. p \in T /\ d \notin T /\ T \subseteq exist
        BY <2>1, <2>4, <3>3
      <4>2. PICK x \in T : parent[x] \notin T
        BY <2>0, <4>1 DEF Forest
      <4>3. parent[x] \notin S
        <5> SUFFICES ASSUME parent[x] \in S PROVE FALSE
          OBVIOUS
        <5>1. parent[x] \in exist /\ Under(path[d], path[parent[x]])
          BY <4>2
        <5>2. parent[x] \in Maybe(exist) /\ parent[x] # NONE
          BY <1>1, <5>1 DEF Maybe
        <5> QED
          BY <1>0, <2>0, <2>1, <4>1, <4>2, <5>1, <5>2, BelowMoved
      <4> QED
        BY <2>2, <4>1, <4>2, <4>3
    <3> QED
      BY <3>1, <3>2, <3>3
  <2>6. CASE path' = path /\ into = path[d]
    <3>1. Ends'
      BY <1>1, <2>0, <2>6 DEF Ends
    <3>2. Chain'
      BY <1>1, <2>0, <2>1, <2>2, <2>6 DEF Chain, Base
    <3> QED
      BY <2>5, <3>1, <3>2
  <2>7. CASE /\ path'[d] = into
             /\ \A x \in exist : x # d =>
                   path'[x] = IF Under(path[d], path[x])
                              THEN into \o Rest(path[d], path[x])
                              ELSE path[x]
    <3>1. ASSUME NEW x \in exist, x # d, Under(path[d], path[x]),
                 NEW q \in Seq(Dept), path[x] = Append(q, x)
          PROVE  /\ Under(path[d], q)
                 /\ into \o Rest(path[d], q) \in Seq(Dept)
                 /\ path'[x] = Append(into \o Rest(path[d], q), x)
      <4>1. PICK b \in Seq(Dept) : path[d] = Append(b, d)
        BY <2>0, <2>1 DEF Ends
      <4>2. x \in Dept /\ path[d] # Append(q, x)
        BY <2>3, <3>1, <4>1, AppendInjective
      <4>3. Under(path[d], q)
        BY <2>3, <3>1, <4>2, UnderAppend
      <4>4. into \o Rest(path[d], q) \in Seq(Dept)
        BY <2>1, <2>3, RestType, ConcatProperties
      <4>5. into \o Rest(path[d], Append(q, x)) = Append(into \o Rest(path[d], q), x)
        <5>1. path[d] \in Seq(Dept) /\ into \in Seq(Dept)
          BY <2>1, <2>3
        <5> QED
          BY <4>2, <4>3, <5>1, RestBelow
      <4> QED
        BY <2>7, <3>1, <4>3, <4>4, <4>5
    <3>2. Ends'
      <4> SUFFICES ASSUME NEW x \in exist
                   PROVE  \E b \in Seq(Dept) : path'[x] = Append(b, x)
        BY <1>1 DEF Ends
      <4>1. PICK q \in Seq(Dept) : path[x] = Append(q, x)
        BY <2>0 DEF Ends
      <4>2. CASE x = d
        BY <2>1, <2>7, <4>2
      <4>3. CASE x # d /\ Under(path[d], path[x])
        BY <3>1, <4>1, <4>3
      <4>4. CASE x # d /\ ~Under(path[d], path[x])
        BY <2>7, <4>1, <4>4
      <4> QED
        BY <4>2, <4>3, <4>4
    <3>3. Chain'
      <4> SUFFICES ASSUME NEW x \in exist, parent'[x] \in Maybe(exist)
                   PROVE  path'[x] = Append(IF parent'[x] = NONE THEN <<>>
                                            ELSE path'[parent'[x]], x)
        BY <1>1 DEF Chain, Base, Maybe
      <4>1. CASE x = d
        BY <2>1, <2>2, <2>7, <4>1 DEF Base, Maybe
      <4>2. CASE x # d /\ parent[x] = NONE
        <5>1. ~Under(path[d], path[x]) /\ parent'[x] = NONE
          BY <1>0, <2>0, <2>1, <2>2, <4>2, BelowMoved DEF Maybe
        <5>2. path[x] = Append(<<>>, x)
          BY <2>0, <4>2 DEF Chain, Base, Maybe
        <5> QED
          BY <2>7, <4>2, <5>1, <5>2
      <4>3. CASE x # d /\ parent[x] # NONE
        <5> DEFINE y == parent[x]
        <5>1. /\ y \in exist /\ y # NONE /\ parent'[x] = y
              /\ path[x] = Append(path[y], x)
              /\ Under(path[d], path[x]) <=> Under(path[d], path[y])
          BY <1>0, <2>0, <2>1, <2>2, <4>3, BelowMoved DEF Maybe, Chain, Base
        <5> HIDE DEF y
        <5>2. path[y] \in Seq(Dept)
          BY <2>3, <5>1
        <5>3. CASE ~Under(path[d], path[y])
          <6>1. y # d
            BY <2>4, <5>3
          <6> QED
            BY <2>7, <4>3, <5>1, <5>3, <6>1
        <5>4. CASE Under(path[d], path[y])
          <6>1. path'[x] = Append(into \o Rest(path[d], path[y]), x)
            BY <3>1, <4>3, <5>1, <5>2, <5>4
          <6>2. path'[y] = into \o Rest(path[d], path[y])
            <7>1. CASE y = d
              <8>1. Len(path[d]) \in Nat
                BY <2>3, LenProperties
              <8>2. Rest(path[d], path[d]) = <<>>
                BY <8>1, SubSeqEmpty DEF Rest
              <8> QED
                BY <2>1, <2>7, <7>1, <8>2, ConcatEmptySeq
            <7>2. CASE y # d
              BY <2>7, <5>1, <5>4, <7>2
            <7> QED
              BY <7>1, <7>2
          <6> QED
            BY <5>1, <6>1, <6>2
        <5> QED
          BY <5>3, <5>4
      <4> QED
        BY <4>1, <4>2, <4>3
    <3> QED
      BY <2>5, <3>2, <3>3
  <2> QED
    BY <2>1, <2>6, <2>7
<1> QED
  BY <1>0, <1>2, <1>3 DEF TreeInv

LEMMA DeleteTree ==
    ASSUME TreeInv, NEW a \in Admin, DeleteCommit(a)
    PROVE  TreeInv'
<1> USE DeptAssumption
<1> DEFINE d == job[a].dept
<1>0. TypesInv' /\ TypesInv
  BY CommitTypes DEF TreeInv
<1>1. /\ exist' = exist \ {d} /\ apps' = apps \ job[a].taken
      /\ stale \subseteq stale' /\ d \in Dept /\ exist \subseteq Dept
      /\ \A x \in Dept : x # d => parent'[x] = parent[x] /\ path'[x] = path[x]
      /\ "child" \notin stale' => \A x \in exist : parent[x] # d
      /\ "grant" \notin stale' => GrantsOf(d) \subseteq job[a].taken
      /\ \A x \in Dept : parent'[x] = IF x = d THEN NONE ELSE parent[x]
  BY <1>0 DEF DeleteCommit, Mark, TypesInv, TypeOK, JobsName
<1> HIDE DEF d
<1>2. NothingDangles'
  <2>1. stale' \cap {"parent", "child"} = {} =>
            \A x \in exist' : parent'[x] \in Maybe(exist')
    BY <1>1 DEF TreeInv, NothingDangles, Maybe
  <2>2. "grant" \notin stale' => \A g \in apps' : g[1] \in exist'
    BY <1>1 DEF TreeInv, NothingDangles, GrantsOf
  <2> QED
    BY <2>1, <2>2 DEF NothingDangles
<1>3. ASSUME "path" \notin stale' PROVE Ends' /\ Chain' /\ Forest'
  <2>0. Ends /\ Chain /\ Forest
    BY <1>1, <1>3 DEF TreeInv
  <2>1. Ends'
    BY <1>1, <2>0 DEF Ends
  <2>2. Chain'
    <3> SUFFICES ASSUME NEW x \in exist', parent'[x] \in Maybe(exist')
                 PROVE  path'[x] = Append(IF parent'[x] = NONE THEN <<>>
                                          ELSE path'[parent'[x]], x)
      BY DEF Chain, Base, Maybe
    <3>1. /\ x \in exist /\ x # d /\ parent'[x] = parent[x] /\ path'[x] = path[x]
          /\ parent[x] \in Maybe(exist) /\ (parent[x] # d \/ parent[x] = NONE)
      BY <1>1 DEF Maybe
    <3>2. path[x] = Append(Base(parent[x]), x)
      BY <2>0, <3>1 DEF Chain, Maybe
    <3> QED
      BY <1>1, <3>1, <3>2 DEF Base, Maybe
  <2>3. Forest'
    BY <1>1, <2>0 DEF Forest
  <2> QED
    BY <2>1, <2>2, <2>3
<1> QED
  BY <1>0, <1>2, <1>3 DEF TreeInv

LEMMA GrantTree ==
    ASSUME TreeInv, NEW a \in Admin, NEW S \in SUBSET App, GrantCommit(a, S)
    PROVE  TreeInv'
<1>0. TypesInv'
  BY CommitTypes DEF TreeInv
<1>1. /\ UNCHANGED <<exist, parent, path>> /\ stale \subseteq stale'
      /\ "path" \in stale' <=> "path" \in stale
      /\ apps' \subseteq apps \cup ({job[a].dept} \X S)
      /\ "grant" \notin stale' => S = {} \/ job[a].dept \in exist
  BY DEF GrantCommit, treeVars, Mark
<1>2. NothingDangles'
  BY <1>1 DEF TreeInv, NothingDangles
<1>3. (Ends => Ends') /\ (Chain => Chain') /\ (Forest => Forest')
  BY <1>1 DEF Ends, Chain, Forest, Base
<1> QED
  BY <1>0, <1>1, <1>2, <1>3 DEF TreeInv

LEMMA NextTree == TreeInv /\ [Next]_vars => TreeInv'
<1> SUFFICES ASSUME TreeInv, [Next]_vars PROVE TreeInv'
  OBVIOUS
<1>0. TypesInv'
  BY NextTypes DEF TreeInv
<1>1. ASSUME UNCHANGED <<treeVars, apps, stale>> PROVE TreeInv'
  BY <1>0, <1>1, StillTree DEF treeVars
<1>2. ASSUME NEW a \in Admin, Step(a) PROVE TreeInv'
  <2>1. ASSUME NEW d \in Dept, NEW p \in Maybe(Dept),
               MoveRead(a, d, p) \/ DeleteRead(a, d) \/ GrantRead(a, d)
        PROVE  TreeInv'
    BY <1>1, <2>1 DEF MoveRead, DeleteRead, GrantRead
  <2>2. ASSUME NEW p \in Maybe(Dept), CreateRead(a, p) PROVE TreeInv'
    BY <1>1, <2>2 DEF CreateRead
  <2>3. ASSUME MoveCascade(a) \/ TakeGrants(a) \/ RollBack(a) PROVE TreeInv'
    BY <1>1, <2>3 DEF MoveCascade, TakeGrants, RollBack
  <2> QED
    BY <1>2, <2>1, <2>2, <2>3, CreateTree, MoveTree, DeleteTree, GrantTree
       DEF Step, Maybe
<1>3. ASSUME NEW u \in User, NEW d \in Maybe(Dept), SetMember(u, d)
      PROVE  TreeInv'
  BY <1>1, <1>3 DEF SetMember
<1>4. CASE UNCHANGED vars
  BY <1>1, <1>4 DEF vars
<1> QED
  BY <1>2, <1>3, <1>4 DEF Next, Maybe

\* However operations overlap: until a commit is made over rows that have
\* changed since they were read, tree, paths and grants agree; and each of
\* the three only falls to the commits that concern it.
THEOREM TreeInvariance == Spec => []TreeInv
<1>1. TreeInv /\ [Next]_vars => TreeInv'
  BY NextTree
<1> QED
  BY <1>1, InitTree, PTL DEF Spec

\* Whatever subtrees are moved, in whatever order and whatever overlaps, a
\* materialised path is the chain of ancestors, unless a creation or a move
\* was committed over a path or a set of descendants that had changed
\* (service.py: the LIKE query finds the subtree).
THEOREM PathsAreChains == Spec => []PathIsChain
<1>1. TreeInv => PathIsChain
  BY DEF TreeInv, PathIsChain, Chain
<1> QED
  BY <1>1, TreeInvariance, PTL

\* The cycle check is enough (CYCLE), with the same exception: deletions and
\* grants that overlap a move make no cycle.
THEOREM TreeHasNoCycle == Spec => []NoCycle
<1>1. TreeInv => NoCycle
  BY DEF TreeInv, NoCycle, Forest
<1> QED
  BY <1>1, TreeInvariance, PTL

\* The checks before a deletion are enough (HAS_CHILDREN), whatever becomes
\* of the paths, unless a child or a grant was given meanwhile.
THEOREM TreeDanglesNothing == Spec => []NothingDangles
<1>1. TreeInv => NothingDangles
  BY DEF TreeInv
<1> QED
  BY <1>1, TreeInvariance, PTL
===============================================================================
