------------------------- MODULE KnowledgeBase_proofs -------------------------
(***************************************************************************)
(* Proofs about KnowledgeBase, for any sets of administrators, datasets,   *)
(* documents and principals and any number of requests: the audit log says *)
(* what Dify did and accounts for the grants of departments and roles.     *)
(***************************************************************************)
EXTENDS KnowledgeBase, SequenceTheorems, FiniteSetTheorems, TLAPS

Calls == {c \in [user : Admin,
                 action : UPSTREAM \cup {"grant_add", "grant_remove"},
                 dataset : Dataset, item : Document \cup Principals \cup {NONE}] :
             c.action \in {"grant_add", "grant_remove"} => c.item \in Principals}

Jobs == [phase : {"call", "told", "commit", "deleted"}, call : Calls,
         ok : BOOLEAN, took : SUBSET (Principals \X Dataset)]

\* An administrator is at a call of his own; one that is in the local
\* transaction was carried out, one that is on its way was not; a DELETE
\* takes no rows but those it is about.
JobStands(a, j) ==
    \/ j = Idle
    \/ /\ j \in Jobs
       /\ j.call.user = a
       /\ j.phase = "call" => ~j.ok
       /\ j.phase \in {"commit", "deleted"} => j.ok
       /\ j.took \subseteq Covers(j.call)
       /\ j.phase = "deleted" => j.call.action \in Takers
       /\ j.phase # "deleted" => j.took = {}

Typed ==
    /\ job = [a \in Admin |-> job[a]] /\ \A a \in Admin : JobStands(a, job[a])
    /\ audit \in Seq(Calls) /\ late \subseteq Calls
    /\ grants \subseteq Principals \X Dataset
    /\ IsABag(done) /\ BagToSet(done) \subseteq Calls
    /\ IsABag(broken) /\ BagToSet(broken) \subseteq Calls

\* Calls that were carried out and whose request is still at work, and
\* calls that may still be carried out behind a request that has ended.
Pending(c) == IF job[c.user].call = c /\ job[c.user].ok THEN 1 ELSE 0
Lost(c) == IF c \in late THEN 1 ELSE 0

\* What is logged or about to be was carried out.
Backed ==
    \A c \in Calls : c.action \in UPSTREAM =>
        Entries(c) + Pending(c) <= Times(c, done)

\* What was or may be carried out is logged, about to be, or reported.
Told ==
    \A c \in Calls :
        Times(c, done) + Lost(c) <= Entries(c) + Times(c, broken) + Pending(c)

LogInv == Typed /\ Backed /\ Told

-------------------------------------------------------------------------------
(* Bags and sequences.                                                     *)

LEMMA TimesInNat == ASSUME NEW b, IsABag(b), NEW c PROVE Times(c, b) \in Nat
BY DEF IsABag, Times, BagIn, BagToSet

\* A bag to which the members of a set are added.
LEMMA TimesUnion ==
    ASSUME NEW b, IsABag(b), NEW S
    PROVE  /\ IsABag(b (+) SetToBag(S))
           /\ BagToSet(b (+) SetToBag(S)) = BagToSet(b) \cup S
           /\ \A c : Times(c, b (+) SetToBag(S)) =
                       Times(c, b) + (IF c \in S THEN 1 ELSE 0)
BY DEF IsABag, Times, BagIn, BagToSet, SetToBag, (+)

LEMMA TimesAdded ==
    ASSUME NEW b, IsABag(b), NEW x
    PROVE  /\ IsABag(Added(b, x))
           /\ BagToSet(Added(b, x)) = BagToSet(b) \cup {x}
           /\ \A c : Times(c, Added(b, x)) = Times(c, b) + (IF c = x THEN 1 ELSE 0)
BY TimesUnion DEF Added

Count(s, c) == Cardinality({i \in DOMAIN s : s[i] = c})

LEMMA CountInNat ==
    ASSUME NEW S, NEW s \in Seq(S), NEW c
    PROVE  Count(s, c) \in Nat
<1>1. IsFiniteSet(1..Len(s)) /\ DOMAIN s = 1..Len(s) /\ Len(s) \in Nat
  BY FS_Interval
<1>2. IsFiniteSet({i \in DOMAIN s : s[i] = c})
  BY <1>1, FS_Subset
<1> QED
  BY <1>2, FS_CardinalityType DEF Count

LEMMA CountAppend ==
    ASSUME NEW S, NEW s \in Seq(S), NEW x \in S, NEW c
    PROVE  Count(Append(s, x), c) = Count(s, c) + (IF c = x THEN 1 ELSE 0)
<1> DEFINE old == {i \in DOMAIN s : s[i] = c}
           new == {i \in DOMAIN Append(s, x) : Append(s, x)[i] = c}
           n == Len(s) + 1
<1>1. /\ DOMAIN s = 1..Len(s) /\ Len(s) \in Nat
      /\ DOMAIN Append(s, x) = 1..n /\ n \notin DOMAIN s
      /\ Append(s, x)[n] = x /\ \A i \in 1..Len(s) : Append(s, x)[i] = s[i]
  BY AppendProperties
<1>2. IsFiniteSet(old) /\ n \notin old
  <2>1. old \subseteq 1..Len(s) /\ IsFiniteSet(1..Len(s))
    BY <1>1, FS_Interval
  <2> QED
    BY <1>1, <2>1, FS_Subset
<1>3. new = IF c = x THEN old \cup {n} ELSE old
  BY <1>1
<1>4. Cardinality(old \cup {n}) = Cardinality(old) + 1 /\ Cardinality(old) \in Nat
  BY <1>2, FS_AddElement, FS_CardinalityType
<1> HIDE DEF old, new, n
<1>5. Cardinality(new) = Cardinality(old) + (IF c = x THEN 1 ELSE 0)
  BY <1>3, <1>4
<1> QED
  BY <1>5 DEF Count, old, new

\* Only one administrator can be at a call.
LEMMA PendingIsOne ==
    ASSUME Typed, NEW c \in Calls
    PROVE  Cardinality({a \in Admin : job[a].call = c /\ job[a].ok}) = Pending(c)
<1> DEFINE At == {a \in Admin : job[a].call = c /\ job[a].ok}
<1>1. c.user \in Admin /\ \A a \in At : a = c.user
  BY DEF Typed, JobStands, Idle, Calls
<1>2. At = IF Pending(c) = 1 THEN {c.user} ELSE {}
  BY <1>1 DEF Pending
<1> QED
  BY <1>2, FS_EmptySet, FS_Singleton DEF Pending

-------------------------------------------------------------------------------
(* The log.                                                                *)

\* An administrator goes on to j; the others stay where they are.
LEMMA JobIsSet ==
    ASSUME Typed, NEW a \in Admin, NEW j, JobStands(a, j),
           job' = [job EXCEPT ![a] = j]
    PROVE  /\ job' = [b \in Admin |-> job'[b]] /\ job'[a] = j
           /\ \A b \in Admin : JobStands(b, job'[b])
           /\ \A c \in Calls : Pending(c)' =
                 IF c.user = a THEN (IF j.call = c /\ j.ok THEN 1 ELSE 0)
                               ELSE Pending(c)
<1>1. job' = [b \in Admin |-> IF b = a THEN j ELSE job[b]]
  BY DEF Typed
<1>2. \A b \in Admin : job'[b] = IF b = a THEN j ELSE job[b]
  BY <1>1
<1>3. \A c \in Calls : c.user \in Admin
  BY DEF Calls
<1> QED
  BY <1>1, <1>2, <1>3 DEF Typed, Pending

LEMMA NumbersOfCall ==
    ASSUME Typed, NEW c \in Calls
    PROVE  /\ Entries(c) \in Nat /\ Times(c, done) \in Nat
           /\ Times(c, broken) \in Nat
           /\ Pending(c) \in 0..1 /\ Lost(c) \in 0..1
<1>1. Entries(c) = Count(audit, c) /\ Count(audit, c) \in Nat
  <2>1. audit \in Seq(Calls)
    BY DEF Typed
  <2> QED
    BY <2>1, CountInNat DEF Entries, Count
<1>2. IsABag(done) /\ IsABag(broken)
  BY DEF Typed
<1> QED
  BY <1>1, <1>2, TimesInNat DEF Pending, Lost

LEMMA InitLog == Init => LogInv
<1> SUFFICES ASSUME Init PROVE LogInv
  OBVIOUS
<1>1. Typed
  BY EmptySeq DEF Init, Typed, JobStands, EmptyBag, SetToBag, IsABag, BagToSet
<1>2. \A c \in Calls : /\ Entries(c) = 0 /\ Pending(c) = 0 /\ Lost(c) = 0
                       /\ Times(c, done) = 0 /\ Times(c, broken) = 0
  <2> TAKE c \in Calls
  <2>1. {i \in DOMAIN audit : audit[i] = c} = {}
    BY EmptySeq DEF Init
  <2>2. c.user \in Admin
    BY DEF Calls
  <2> QED
    BY <2>1, <2>2, FS_EmptySet DEF Init, Entries, Pending, Lost, Times, BagIn,
       BagToSet, EmptyBag, SetToBag, Idle
<1> QED
  BY <1>1, <1>2 DEF LogInv, Backed, Told

\* A new request.
LEMMA AskLog ==
    ASSUME LogInv, NEW a \in Admin, NEW c \in Calls, c.user = a, Ask(a, c)
    PROVE  LogInv'
<1> USE DEF LogInv
<1>1. JobStands(a, Calling(c)) /\ ~Calling(c).ok /\ job' = [job EXCEPT ![a] = Calling(c)]
      /\ UNCHANGED <<sets, home, done, late, grants, audit, broken>>
      /\ job[a] = Idle
  BY DEF Ask, JobStands, Jobs, Calling, Idle, database
<1>2. Typed'
  BY <1>1, JobIsSet DEF Typed
<1>3. \A x \in Calls : /\ Pending(x)' = Pending(x) /\ Lost(x)' = Lost(x)
                       /\ Entries(x)' = Entries(x)
                       /\ Times(x, done)' = Times(x, done)
                       /\ Times(x, broken)' = Times(x, broken)
  BY <1>1, JobIsSet DEF Pending, Lost, Entries, Idle
<1> QED
  BY <1>2, <1>3 DEF Backed, Told

\* Dify carries a call out, or refuses it.
LEMMA ServeLog ==
    ASSUME LogInv, NEW a \in Admin, Serve(a)
    PROVE  LogInv'
<1> USE DEF LogInv
<1> DEFINE c == job[a].call
           j == [job[a] EXCEPT !.phase = "told", !.ok = Possible(c)]
<1>1. /\ job[a].phase = "call" /\ c \in Calls /\ c.user = a /\ ~job[a].ok
      /\ job[a] \in Jobs /\ job[a].took = {}
      /\ UNCHANGED <<late, grants, audit, broken>> /\ job' = [job EXCEPT ![a] = j]
  BY DEF Serve, Typed, JobStands, Jobs, Idle, database
<1>2. JobStands(a, j)
  <2>1. Possible(c) \in BOOLEAN
    BY DEF Possible
  <2> QED
    BY <1>1, <2>1 DEF JobStands, Jobs
<1>3. done' = IF Possible(c) THEN Added(done, c) ELSE done
  BY DEF Serve, Effect
<1>4. Typed'
  BY <1>1, <1>2, <1>3, JobIsSet, TimesAdded DEF Typed
<1>5. ASSUME NEW x \in Calls
      PROVE  /\ Lost(x)' = Lost(x) /\ Entries(x)' = Entries(x)
             /\ Times(x, broken)' = Times(x, broken)
             /\ \/ /\ Times(x, done)' = Times(x, done) + 1
                   /\ Pending(x) = 0 /\ Pending(x)' = 1
                \/ /\ Times(x, done)' = Times(x, done)
                   /\ Pending(x) = 0 /\ Pending(x)' = 0
                \/ /\ Times(x, done)' = Times(x, done)
                   /\ Pending(x)' = Pending(x)
  <2>1. Times(x, done)' = Times(x, done)
                            + (IF Possible(c) /\ x = c THEN 1 ELSE 0)
    BY <1>3, TimesAdded, NumbersOfCall DEF Typed
  <2>2. Pending(x)' = IF x.user = a THEN (IF c = x /\ Possible(c) THEN 1 ELSE 0)
                                    ELSE Pending(x)
    <3>1. j.call = c /\ j.ok = Possible(c)
      BY <1>1 DEF Jobs
    <3> HIDE DEF c, j
    <3>2. Pending(x)' = IF x.user = a THEN (IF j.call = x /\ j.ok THEN 1 ELSE 0)
                                      ELSE Pending(x)
      BY <1>1, <1>2, JobIsSet
    <3> QED
      BY <3>1, <3>2
  <2>3. x.user = a => Pending(x) = 0
    BY <1>1 DEF Pending
  <2>4. Lost(x)' = Lost(x) /\ Entries(x)' = Entries(x)
        /\ Times(x, broken)' = Times(x, broken)
    BY <1>1 DEF Lost, Entries
  <2>5. x = c => x.user = a
    BY <1>1
  <2> HIDE DEF c, j
  <2>6. Times(x, done) \in Nat
    BY NumbersOfCall
  <2>7. CASE x = c /\ Possible(c)
    BY <2>1, <2>2, <2>3, <2>4, <2>5, <2>7
  <2>8. CASE ~(x = c /\ Possible(c))
    BY <2>1, <2>2, <2>3, <2>4, <2>6, <2>8
  <2> QED
    BY <2>7, <2>8
<1> QED
  BY <1>4, <1>5, NumbersOfCall DEF Backed, Told

LEMMA LateLog ==
    ASSUME LogInv, NEW c \in late, ServeLate(c) \/ DropLate(c)
    PROVE  LogInv'
<1> USE DEF LogInv
<1>1. /\ c \in Calls /\ late' = late \ {c}
      /\ UNCHANGED <<job, grants, audit, broken>>
      /\ done' = Added(done, c) \/ done' = done
  BY DEF ServeLate, DropLate, Effect, database, Typed
<1>2. Typed'
  BY <1>1, TimesAdded DEF Typed
<1>3. ASSUME NEW x \in Calls
      PROVE  /\ Pending(x)' = Pending(x) /\ Entries(x)' = Entries(x)
             /\ Times(x, broken)' = Times(x, broken)
             /\ \/ /\ Times(x, done)' = Times(x, done) + 1
                   /\ Lost(x) = 1 /\ Lost(x)' = 0
                \/ /\ Times(x, done)' = Times(x, done)
                   /\ Lost(x)' \in 0..Lost(x)
  <2>1. \/ Times(x, done)' = Times(x, done) + (IF x = c THEN 1 ELSE 0)
        \/ Times(x, done)' = Times(x, done)
    BY <1>1, TimesAdded DEF Typed
  <2>2. Lost(x)' = IF x = c THEN 0 ELSE Lost(x)
    BY <1>1 DEF Lost
  <2>3. x = c => Lost(x) = 1
    BY DEF Lost
  <2>4. Pending(x)' = Pending(x) /\ Entries(x)' = Entries(x)
        /\ Times(x, broken)' = Times(x, broken)
    BY <1>1 DEF Pending, Entries
  <2>5. Times(x, done) \in Nat /\ Lost(x) \in 0..1
    BY NumbersOfCall
  <2> QED
    BY <2>1, <2>2, <2>3, <2>4, <2>5
<1> QED
  BY <1>2, <1>3, NumbersOfCall DEF Backed, Told

LEMMA ReceiveLog ==
    ASSUME LogInv, NEW a \in Admin, Receive(a)
    PROVE  LogInv'
<1> USE DEF LogInv
<1>1. /\ job[a].phase = "told" /\ job[a].call \in Calls /\ job[a].call.user = a
      /\ job[a].ok \in BOOLEAN
      /\ job[a] \in Jobs /\ job[a].took = {}
      /\ UNCHANGED <<done, late, grants, audit, broken>>
  BY DEF Receive, Typed, JobStands, Jobs, Idle, database, upstream
<1> DEFINE j == IF job[a].ok THEN [job[a] EXCEPT !.phase = "commit"] ELSE Idle
<1>2. /\ job' = [job EXCEPT ![a] = j] /\ JobStands(a, j)
      /\ j.ok = job[a].ok /\ (j.ok => j.call = job[a].call)
  <2>1. job' = [job EXCEPT ![a] = j]
    BY DEF Receive, Succeeded
  <2>2. CASE job[a].ok
    BY <1>1, <2>1, <2>2 DEF JobStands, Jobs
  <2>3. CASE ~job[a].ok
    BY <1>1, <2>1, <2>3 DEF JobStands, Idle
  <2> QED
    BY <2>2, <2>3
<1> HIDE DEF j
<1>3. Typed'
  BY <1>1, <1>2, JobIsSet DEF Typed
<1>4. \A x \in Calls : /\ Pending(x)' = Pending(x) /\ Lost(x)' = Lost(x)
                       /\ Entries(x)' = Entries(x)
                       /\ Times(x, done)' = Times(x, done)
                       /\ Times(x, broken)' = Times(x, broken)
  BY <1>1, <1>2, JobIsSet DEF Pending, Lost, Entries
<1> QED
  BY <1>3, <1>4 DEF Backed, Told

\* The request ends and the administrator is told of a failure.
LEMMA BrokenLog ==
    ASSUME LogInv, NEW a \in Admin, Lose(a) \/ Fail(a)
    PROVE  LogInv'
<1> USE DEF LogInv
<1> DEFINE c == job[a].call
<1>1. /\ job[a].phase # "idle" /\ c \in Calls /\ c.user = a
      /\ job[a].phase = "call" => ~job[a].ok
      /\ UNCHANGED <<done, grants, audit>> /\ broken' = Added(broken, c)
      /\ late' = late \cup {x \in {c} : job[a].phase = "call"}
      /\ job' = [job EXCEPT ![a] = Idle]
  BY DEF Lose, Fail, Local, Typed, JobStands, Jobs, Idle, database, upstream
<1> HIDE DEF c
<1>2. JobStands(a, Idle) /\ ~Idle.ok
  BY DEF JobStands, Idle
<1>3. Typed'
  BY <1>1, <1>2, JobIsSet, TimesAdded DEF Typed
<1>4. ASSUME NEW x \in Calls
      PROVE  /\ Entries(x)' = Entries(x) /\ Times(x, done)' = Times(x, done)
             /\ Pending(x)' <= Pending(x)
             /\ Times(x, broken)' - Times(x, broken)
                   >= (Pending(x) - Pending(x)') + (Lost(x)' - Lost(x))
             /\ Times(x, broken)' \in Nat
  <2>1. Times(x, broken)' = Times(x, broken) + (IF x = c THEN 1 ELSE 0)
    BY <1>1, TimesAdded DEF Typed
  <2>2. Pending(x)' = IF x.user = a THEN 0 ELSE Pending(x)
    BY <1>1, <1>2, JobIsSet
  <2>3. /\ x.user = a /\ Pending(x) = 1 => x = c /\ job[a].phase # "call"
        /\ Lost(x)' # Lost(x) => x = c /\ job[a].phase = "call"
        /\ Lost(x)' \in 0..1
    BY <1>1 DEF Pending, Lost, c
  <2>4. Entries(x)' = Entries(x) /\ Times(x, done)' = Times(x, done)
    BY <1>1 DEF Entries
  <2>5. Times(x, broken) \in Nat /\ Pending(x) \in 0..1 /\ Lost(x) \in 0..1
    BY NumbersOfCall
  <2> QED
    BY <2>1, <2>2, <2>3, <2>4, <2>5
<1> QED
  <2> SUFFICES ASSUME NEW x \in Calls
               PROVE  /\ x.action \in UPSTREAM =>
                            Entries(x)' + Pending(x)' <= Times(x, done)'
                      /\ Times(x, done)' + Lost(x)'
                            <= Entries(x)' + Times(x, broken)' + Pending(x)'
    BY <1>3 DEF Backed, Told
  <2>1. /\ x.action \in UPSTREAM => Entries(x) + Pending(x) <= Times(x, done)
        /\ Times(x, done) + Lost(x) <= Entries(x) + Times(x, broken) + Pending(x)
    BY DEF Backed, Told
  <2>2. Lost(x)' \in 0..1 /\ Pending(x)' \in 0..1
    BY DEF Lost, Pending
  <2> QED
    BY <1>4, <2>1, <2>2, NumbersOfCall

\* A DELETE is executed in the local transaction.
LEMMA DeleteLog ==
    ASSUME LogInv, NEW a \in Admin, Delete(a)
    PROVE  LogInv'
<1> USE DEF LogInv
<1> DEFINE rows == grants \cap Covers(job[a].call)
           j == [job[a] EXCEPT !.phase = "deleted", !.took = rows]
<1>1. /\ job[a] \in Jobs /\ job[a].ok /\ job[a].call.user = a
      /\ job[a].call.action \in Takers
      /\ rows \subseteq Principals \X Dataset /\ job' = [job EXCEPT ![a] = j]
      /\ UNCHANGED <<done, late, grants, audit, broken>>
  BY DEF Delete, Typed, JobStands, Jobs, Idle, database, upstream
<1>2. /\ JobStands(a, j) /\ j.ok = job[a].ok /\ j.call = job[a].call
  BY <1>1 DEF JobStands, Jobs
<1> HIDE DEF j
<1>3. Typed'
  BY <1>1, <1>2, JobIsSet DEF Typed
<1>4. \A x \in Calls : /\ Pending(x)' = Pending(x) /\ Lost(x)' = Lost(x)
                       /\ Entries(x)' = Entries(x)
                       /\ Times(x, done)' = Times(x, done)
                       /\ Times(x, broken)' = Times(x, broken)
  <2> TAKE x \in Calls
  <2>1. Pending(x)' = IF x.user = a THEN (IF j.call = x /\ j.ok THEN 1 ELSE 0)
                                    ELSE Pending(x)
    BY <1>1, <1>2, JobIsSet
  <2>2. x.user = a => Pending(x) = IF job[a].call = x /\ job[a].ok THEN 1 ELSE 0
    BY DEF Pending
  <2>3. /\ Lost(x)' = Lost(x) /\ Entries(x)' = Entries(x)
        /\ Times(x, done)' = Times(x, done)
        /\ Times(x, broken)' = Times(x, broken)
    BY <1>1 DEF Lost, Entries
  <2> QED
    BY <1>2, <2>1, <2>2, <2>3
<1> QED
  BY <1>3, <1>4 DEF Backed, Told

\* The row of the log takes the place of what was pending.
LEMMA CommitLog ==
    ASSUME LogInv, NEW a \in Admin, Commit(a)
    PROVE  LogInv'
<1> USE DEF LogInv
<1> DEFINE c == job[a].call
<1>1. /\ c \in Calls /\ c.user = a /\ job[a].ok
      /\ UNCHANGED <<done, late, broken>> /\ audit' = Append(audit, c)
      /\ job' = [job EXCEPT ![a] = Idle]
  BY DEF Commit, Logged, Local, Typed, JobStands, Jobs, Idle, upstream
<1> HIDE DEF c
<1>2. JobStands(a, Idle) /\ ~Idle.ok
  BY DEF JobStands, Idle
<1>3. grants' \subseteq Principals \X Dataset
  <2>1. job[a].call.action = "grant_add" =>
            job[a].call.item \in Principals /\ job[a].call.dataset \in Dataset
    BY <1>1 DEF Calls, c
  <2> QED
    BY <2>1 DEF Commit, Covers, Typed
<1>4. Typed'
  BY <1>1, <1>2, <1>3, JobIsSet, AppendProperties DEF Typed
<1>5. ASSUME NEW x \in Calls
      PROVE  /\ Lost(x)' = Lost(x) /\ Times(x, done)' = Times(x, done)
             /\ Times(x, broken)' = Times(x, broken)
             /\ Entries(x)' + Pending(x)' = Entries(x) + Pending(x)
             /\ Entries(x)' \in Nat /\ Pending(x)' \in 0..1
  <2>1. Entries(x)' = Entries(x) + (IF x = c THEN 1 ELSE 0)
    <3>1. audit \in Seq(Calls)
      BY DEF Typed
    <3>2. Entries(x) = Count(audit, x) /\ Entries(x)' = Count(audit', x)
      BY DEF Entries, Count
    <3> QED
      BY <1>1, <3>1, <3>2, CountAppend
  <2>2. Pending(x)' = IF x.user = a THEN 0 ELSE Pending(x)
    BY <1>1, <1>2, JobIsSet
  <2>3. x.user = a => Pending(x) = (IF x = c THEN 1 ELSE 0)
    BY <1>1 DEF Pending, c
  <2>4. Lost(x)' = Lost(x) /\ Times(x, done)' = Times(x, done)
        /\ Times(x, broken)' = Times(x, broken)
    BY <1>1 DEF Lost
  <2>5. x = c => x.user = a
    BY <1>1
  <2> QED
    BY <2>1, <2>2, <2>3, <2>4, <2>5, NumbersOfCall
<1> QED
  BY <1>4, <1>5, NumbersOfCall DEF Backed, Told

\* A write of grants is in the local transaction from the start.
LEMMA GrantLog ==
    ASSUME LogInv, NEW a \in Admin, NEW c \in Calls, GrantWrite(a, c),
           c.user = a, c.action \notin UPSTREAM
    PROVE  LogInv'
<1> USE DEF LogInv
<1> DEFINE j == [phase |-> "commit", call |-> c, ok |-> TRUE, took |-> {}]
<1>1. /\ job' = [job EXCEPT ![a] = j] /\ JobStands(a, j)
      /\ j.call = c /\ j.ok /\ ~job[a].ok
      /\ UNCHANGED <<done, late, grants, audit, broken>>
  <2>1. JobStands(a, j)
    BY DEF JobStands, Jobs
  <2>2. job[a] = Idle /\ ~Idle.ok
    BY DEF GrantWrite, Idle
  <2> QED
    BY <2>1, <2>2 DEF GrantWrite, database, upstream
<1> HIDE DEF j
<1>2. Typed'
  BY <1>1, JobIsSet DEF Typed
<1>3. \A x \in Calls : /\ Pending(x)' = IF x = c THEN 1 ELSE Pending(x)
                       /\ x = c => Pending(x) = 0
                       /\ Lost(x)' = Lost(x) /\ Entries(x)' = Entries(x)
                       /\ Times(x, done)' = Times(x, done)
                       /\ Times(x, broken)' = Times(x, broken)
  <2> TAKE x \in Calls
  <2>1. Pending(x)' = IF x.user = a THEN (IF j.call = x /\ j.ok THEN 1 ELSE 0)
                                    ELSE Pending(x)
    BY <1>1, JobIsSet
  <2>2. x.user = a => Pending(x) = 0
    BY <1>1 DEF Pending
  <2>3. Lost(x)' = Lost(x) /\ Entries(x)' = Entries(x)
        /\ Times(x, done)' = Times(x, done)
        /\ Times(x, broken)' = Times(x, broken)
    BY <1>1 DEF Lost, Entries
  <2> QED
    BY <1>1, <2>1, <2>2, <2>3
<1> QED
  BY <1>2, <1>3, NumbersOfCall DEF Backed, Told

LEMMA SetLog ==
    ASSUME LogInv, NEW a \in Admin, NEW m \in Member, NEW S \in SUBSET Dataset,
           SetUserDatasets(a, m, S)
    PROVE  LogInv'
BY DEF LogInv, SetUserDatasets, Typed, Backed, Told, Pending, Lost, Entries,
   upstream, Principals

\* All requests end at once.
LEMMA CrashLog == LogInv /\ Crash => LogInv'
<1> SUFFICES ASSUME LogInv, Crash PROVE LogInv'
  OBVIOUS
<1> USE DEF LogInv
<1> DEFINE S == {job[a].call : a \in Busy}
<1>1. /\ UNCHANGED <<done, grants, audit>> /\ broken' = broken (+) SetToBag(S)
      /\ late' = late \cup {job[a].call : a \in {b \in Admin : job[b].phase = "call"}}
      /\ job' = [a \in Admin |-> Idle]
  BY DEF Crash, database
<1>2. \A a \in Admin : job[a].phase # "idle" =>
          job[a].call \in S /\ job[a].call \in Calls /\ job[a].call.user = a
          /\ (job[a].phase = "call" => ~job[a].ok)
  BY DEF Busy, Typed, JobStands, Jobs, Idle
<1>3. S \subseteq Calls
  BY <1>2 DEF Busy
<1>4. Typed'
  <2>1. IsABag(broken') /\ BagToSet(broken') \subseteq Calls
    <3> HIDE DEF S
    <3> QED
      BY <1>1, <1>3, TimesUnion DEF Typed
  <2>2. late' \subseteq Calls
    BY <1>1, <1>2 DEF Typed
  <2> QED
    BY <1>1, <2>1, <2>2 DEF Typed, JobStands
<1>5. ASSUME NEW x \in Calls
      PROVE  /\ Entries(x)' = Entries(x) /\ Times(x, done)' = Times(x, done)
             /\ Pending(x)' = 0 /\ Lost(x)' \in 0..1
             /\ Times(x, broken)' \in Nat
             /\ Times(x, broken)' - Times(x, broken)
                   >= Pending(x) + (Lost(x)' - Lost(x))
  <2>1. Times(x, broken)' = Times(x, broken) + (IF x \in S THEN 1 ELSE 0)
    BY <1>1, TimesUnion DEF Typed
  <2>2. x.user \in Admin
    BY DEF Calls
  <2>3. Pending(x)' = 0 /\ Entries(x)' = Entries(x)
        /\ Times(x, done)' = Times(x, done)
    BY <1>1, <2>2 DEF Pending, Entries, Idle
  <2>4. Pending(x) = 1 => x \in S /\ job[x.user].call = x /\ job[x.user].phase # "call"
    <3>1. job[x.user].ok => job[x.user].phase # "idle"
      BY <2>2 DEF Typed, JobStands, Jobs, Idle
    <3> QED
      BY <1>2, <2>2, <3>1 DEF Pending
  <2>5. Lost(x)' # Lost(x) => x \in S /\ job[x.user].call = x
                                /\ job[x.user].phase = "call"
    BY <1>1, <1>2 DEF Lost
  <2>6. Times(x, broken) \in Nat /\ Pending(x) \in 0..1 /\ Lost(x) \in 0..1
        /\ Lost(x)' \in 0..1
    BY NumbersOfCall DEF Lost
  <2> QED
    BY <2>1, <2>3, <2>4, <2>5, <2>6
<1> QED
  BY <1>4, <1>5, NumbersOfCall DEF Backed, Told

\* What a request of an administrator is for.
LEMMA StepOfLog ==
    ASSUME NEW a \in Admin, Step(a)
    PROVE  \/ \E c \in Calls : c.user = a /\ Ask(a, c)
           \/ Serve(a) \/ Receive(a) \/ Lose(a) \/ Delete(a) \/ Commit(a)
           \/ Fail(a)
           \/ \E c \in Calls : /\ c.user = a /\ c.action \notin UPSTREAM
                               /\ GrantWrite(a, c)
           \/ \E m \in Member, S \in SUBSET Dataset : SetUserDatasets(a, m, S)
<1>1. ASSUME NEW d \in Dataset, CreateDataset(a, d) \/ DeleteDataset(a, d)
      PROVE  \E c \in Calls : c.user = a /\ Ask(a, c)
  BY <1>1 DEF CreateDataset, DeleteDataset, Call, Calls, UPSTREAM
<1>2. ASSUME NEW d \in Dataset, NEW x \in Document,
             CreateDocument(a, d, x) \/ DeleteDocument(a, d, x)
      PROVE  \E c \in Calls : c.user = a /\ Ask(a, c)
  BY <1>2 DEF CreateDocument, DeleteDocument, Call, Calls, UPSTREAM
<1>3. ASSUME NEW d \in Dataset, NEW p \in Member \cup Group,
             AddGrant(a, d, p) \/ RemoveGrant(a, d, p)
      PROVE  \E c \in Calls : /\ c.user = a /\ c.action \notin UPSTREAM
                              /\ GrantWrite(a, c)
  BY <1>3 DEF AddGrant, RemoveGrant, Call, Calls, UPSTREAM, Principals
<1> QED
  BY <1>1, <1>2, <1>3 DEF Step

LEMMA NextLog == LogInv /\ [Next]_vars => LogInv'
<1> SUFFICES ASSUME LogInv, [Next]_vars PROVE LogInv'
  OBVIOUS
<1>1. ASSUME NEW a \in Admin, Step(a) PROVE LogInv'
  BY <1>1, StepOfLog, AskLog, ServeLog, ReceiveLog, BrokenLog, DeleteLog,
     CommitLog, GrantLog, SetLog
<1>2. CASE UNCHANGED vars
  BY <1>2 DEF LogInv, vars, upstream, database, Typed, Backed, Told, Pending,
     Lost, Entries
<1> QED
  BY <1>1, <1>2, LateLog, CrashLog DEF Next

THEOREM LogInvariance == Spec => []LogInv
BY InitLog, NextLog, PTL DEF Spec

\* The audit log never claims more of the datasets and documents than Dify
\* has done (kb/router.py:64).
THEOREM LogIsTrue == Spec => []AuditIsTrue
<1>1. LogInv => AuditIsTrue
  <2> SUFFICES ASSUME LogInv, NEW i \in DOMAIN audit, audit[i].action \in UPSTREAM
               PROVE  Entries(audit[i]) <= Times(audit[i], done)
    BY DEF AuditIsTrue
  <2>1. audit[i] \in Calls
    BY ElementOfSeq DEF LogInv, Typed
  <2> QED
    BY <2>1, NumbersOfCall DEF LogInv, Backed
<1> QED
  BY <1>1, LogInvariance, PTL

\* Each change of Dify is in the log, at hand, or was reported as a failure
\* (kb/router.py:4).
THEOREM NothingUntraced == Spec => []ChangesAreTraced
<1>1. LogInv => ChangesAreTraced
  <2> SUFFICES ASSUME LogInv, NEW c \in BagToSet(done)
               PROVE  Times(c, done) <= Entries(c) + Times(c, broken)
                        + Cardinality({a \in Admin : job[a].call = c /\ job[a].ok})
    BY DEF ChangesAreTraced
  <2>1. c \in Calls
    BY DEF LogInv, Typed
  <2> QED
    BY <2>1, NumbersOfCall, PendingIsOne DEF LogInv, Told
<1> QED
  BY <1>1, LogInvariance, PTL

-------------------------------------------------------------------------------
(* Grants.                                                                 *)

\* The log stands behind the row of p on d.
Stands(p, d) == \E i \in DOMAIN audit :
                    Adds(i, p, d) /\ \A k \in i..Len(audit) : ~Takes(k, p, d)

Alternates(p, d) ==
    \A i, j \in DOMAIN audit :
        i < j /\ Adds(i, p, d) /\ Adds(j, p, d) => \E k \in i..j : Takes(k, p, d)

\* What an entry at the end of the log changes.
LEMMA LogGrows ==
    ASSUME Typed, NEW c \in Calls, audit' = Append(audit, c), NEW p, NEW d,
           Alternates(p, d)
    PROVE  LET adds  == c.action = "grant_add" /\ c.item = p /\ c.dataset = d
               takes == /\ c.dataset = d
                        /\ \/ c.action = "dataset_delete"
                           \/ c.action = "grant_remove" /\ c.item = p
           IN  /\ Stands(p, d)' <=> ~takes /\ (adds \/ Stands(p, d))
               /\ ~(adds /\ Stands(p, d)) => Alternates(p, d)'
<1> DEFINE adds == c.action = "grant_add" /\ c.item = p /\ c.dataset = d
           takes == /\ c.dataset = d
                    /\ \/ c.action = "dataset_delete"
                       \/ c.action = "grant_remove" /\ c.item = p
<1>1. audit \in Seq(Calls)
  BY DEF Typed
<1>n. PICK n \in Nat : n = Len(audit) + 1
  BY <1>1, LenProperties
<1>2. /\ DOMAIN audit = 1..(n - 1) /\ n \in Nat \ {0} /\ Len(audit) = n - 1
      /\ DOMAIN audit' = 1..n /\ Len(audit') = n /\ audit'[n] = c
      /\ \A i \in 1..(n - 1) : audit'[i] = audit[i]
  BY <1>1, <1>n, AppendProperties, LenProperties
<1>3. /\ \A i \in 1..(n - 1) : /\ Adds(i, p, d)' <=> Adds(i, p, d)
                               /\ Takes(i, p, d)' <=> Takes(i, p, d)
      /\ Adds(n, p, d)' <=> adds
      /\ Takes(n, p, d)' <=> takes
  <2>1. ASSUME NEW i \in 1..(n - 1)
        PROVE  /\ Adds(i, p, d)' <=> Adds(i, p, d)
               /\ Takes(i, p, d)' <=> Takes(i, p, d)
    BY <1>2 DEF Adds, Takes
  <2>2. (Adds(n, p, d)' <=> adds) /\ (Takes(n, p, d)' <=> takes)
    BY <1>2 DEF Adds, Takes
  <2> QED
    BY <2>1, <2>2
<1>4. adds => ~takes
  OBVIOUS
<1>5. Stands(p, d) <=> \E i \in 1..(n - 1) :
                           Adds(i, p, d) /\ \A k \in i..(n - 1) : ~Takes(k, p, d)
  BY <1>2 DEF Stands
<1>6. Stands(p, d)' <=> \E i \in 1..n :
                           Adds(i, p, d)' /\ \A k \in i..n : ~Takes(k, p, d)'
  BY <1>2 DEF Stands
<1>7. Stands(p, d)' <=> ~takes /\ (adds \/ Stands(p, d))
  <2>1. ASSUME Stands(p, d)' PROVE ~takes /\ (adds \/ Stands(p, d))
    <3>1. PICK i \in 1..n : Adds(i, p, d)' /\ \A k \in i..n : ~Takes(k, p, d)'
      BY <2>1, <1>6
    <3>2. CASE i = n
      BY <1>2, <1>3, <1>4, <3>1, <3>2
    <3>3. CASE i # n
      <4>1. i \in 1..(n - 1) /\ \A k \in i..(n - 1) : k \in 1..(n - 1) /\ k \in i..n
        BY <1>2, <3>3
      <4>2. n \in i..n
        BY <1>2
      <4> QED
        BY <1>3, <1>5, <3>1, <4>1, <4>2
    <3> QED
      BY <3>2, <3>3
  <2>2. ASSUME ~takes, adds PROVE Stands(p, d)'
    <3>1. n \in 1..n /\ \A k \in n..n : k = n
      BY <1>2
    <3> QED
      BY <1>3, <1>6, <2>2, <3>1
  <2>3. ASSUME ~takes, Stands(p, d) PROVE Stands(p, d)'
    <3>1. PICK i \in 1..(n - 1) :
              Adds(i, p, d) /\ \A k \in i..(n - 1) : ~Takes(k, p, d)
      BY <2>3, <1>5
    <3>2. i \in 1..n /\ \A k \in i..n : k = n \/ (k \in i..(n - 1) /\ k \in 1..(n - 1))
      BY <1>2
    <3> QED
      BY <1>3, <1>6, <2>3, <3>1, <3>2
  <2> QED
    BY <2>1, <2>2, <2>3
<1>8. ASSUME ~(adds /\ Stands(p, d)) PROVE Alternates(p, d)'
  <2> SUFFICES ASSUME NEW i \in 1..n, NEW j \in 1..n,
                      i < j, Adds(i, p, d)', Adds(j, p, d)'
               PROVE  \E k \in i..j : Takes(k, p, d)'
    BY <1>2 DEF Alternates
  <2>1. i \in 1..(n - 1)
    BY <1>2
  <2>2. CASE j = n
    <3>1. PICK k \in i..(n - 1) : Takes(k, p, d)
      BY <1>3, <1>5, <1>8, <2>1, <2>2
    <3>2. k \in i..j /\ k \in 1..(n - 1)
      BY <1>2, <2>2
    <3> QED
      BY <1>3, <3>1, <3>2
  <2>3. CASE j # n
    <3>1. j \in 1..(n - 1)
      BY <1>2, <2>3
    <3>2. PICK k \in i..j : Takes(k, p, d)
      BY <1>2, <1>3, <2>1, <3>1 DEF Alternates
    <3>3. k \in 1..(n - 1)
      BY <1>2, <3>1
    <3> QED
      BY <1>3, <3>2, <3>3
  <2> QED
    BY <2>2, <2>3
<1> QED
  BY <1>7, <1>8

\* What an executed DELETE has not taken, of what it is about, has come
\* behind it and is crossed.
TookAll ==
    \A a \in Admin, x \in Group \X Dataset :
        /\ job[a].phase = "deleted" /\ x \in Covers(job[a].call)
        /\ x \in grants /\ x \notin crossed
        => x \in job[a].took

AccountInv == GrantsAccounted /\ TookAll

LEMMA GrantsMeaning ==
    GrantsAccounted <=> \A p \in Group, d \in Dataset : <<p, d>> \notin crossed =>
        (<<p, d>> \in grants <=> Stands(p, d)) /\ Alternates(p, d)
BY DEF GrantsAccounted, Stands, Alternates

LEMMA CommitGrants ==
    ASSUME Typed, AccountInv, NEW a \in Admin, Commit(a)
    PROVE  GrantsAccounted'
<1> DEFINE c == job[a].call
           new == IF c.action = "grant_add" THEN Covers(c) ELSE {}
<1>1. /\ c \in Calls /\ audit' = Append(audit, c)
      /\ (c.action = "grant_add" => <<c.item, c.dataset>> \notin grants)
      /\ job[a].took \subseteq Covers(c) /\ crossed \subseteq crossed'
      /\ c.action \in Takers => job[a].phase = "deleted"
      /\ job[a].took # {} => c.action \in Takers
      /\ grants' = (grants \ job[a].took) \cup new
  <2>1. JobStands(a, job[a]) /\ job[a] # Idle /\ Local(a)
    BY DEF Commit, Local, Typed, Idle
  <2>2. c.action \notin Takers => job[a].phase = "commit"
    BY DEF Commit
  <2> QED
    BY <2>1, <2>2 DEF Commit, Logged, JobStands, Jobs, Inserts, Local, Takers
<1> HIDE DEF c, new
<1> SUFFICES ASSUME NEW p \in Group, NEW d \in Dataset, <<p, d>> \notin crossed'
             PROVE  (<<p, d>> \in grants' <=> Stands(p, d)') /\ Alternates(p, d)'
  BY DEF GrantsAccounted, Stands, Alternates
<1>2. <<p, d>> \notin crossed
  BY <1>1
<1>3. (<<p, d>> \in grants <=> Stands(p, d)) /\ Alternates(p, d)
  BY <1>2, GrantsMeaning DEF AccountInv
<1> DEFINE adds == c.action = "grant_add" /\ c.item = p /\ c.dataset = d
           takes == /\ c.dataset = d
                    /\ \/ c.action = "dataset_delete"
                       \/ c.action = "grant_remove" /\ c.item = p
<1>4. /\ Stands(p, d)' <=> ~takes /\ (adds \/ Stands(p, d))
      /\ ~(adds /\ Stands(p, d)) => Alternates(p, d)'
  BY <1>1, <1>3, LogGrows
<1>5. /\ <<p, d>> \in new <=> adds
      /\ takes <=> c.action \in Takers /\ <<p, d>> \in Covers(c)
  BY DEF Covers, Takers, new, Principals
<1>6. takes /\ <<p, d>> \in grants => <<p, d>> \in job[a].took
  BY <1>1, <1>2, <1>5 DEF AccountInv, TookAll, c
<1>7. <<p, d>> \in job[a].took => takes
  BY <1>1, <1>5
<1>8. <<p, d>> \in grants' <=> ~takes /\ (adds \/ <<p, d>> \in grants)
  BY <1>1, <1>5, <1>6, <1>7
<1>9. ~(adds /\ Stands(p, d))
  BY <1>1, <1>3
<1> QED
  BY <1>3, <1>4, <1>8, <1>9

\* An addition that is committed behind an executed DELETE is crossed.
LEMMA CommitTook ==
    ASSUME Typed, AccountInv, NEW a \in Admin, Commit(a)
    PROVE  TookAll'
<1> DEFINE c == job[a].call
           new == IF c.action = "grant_add" THEN Covers(c) ELSE {}
<1>1. /\ job' = [job EXCEPT ![a] = Idle] /\ crossed' = crossed \cup Meets(a, c)
      /\ grants' = (grants \ job[a].took) \cup new
  BY DEF Commit
<1>2. \A b \in Admin : job'[b] = IF b = a THEN Idle ELSE job[b]
  BY <1>1 DEF Typed
<1> SUFFICES ASSUME NEW b \in Admin, NEW x \in Group \X Dataset,
                    job'[b].phase = "deleted", x \in Covers(job'[b].call),
                    x \in grants', x \notin crossed'
             PROVE  x \in job'[b].took
  BY DEF TookAll, Covers
<1>3. b # a /\ job'[b] = job[b] /\ job[b].phase = "deleted" /\ x \in Covers(job[b].call)
  BY <1>2 DEF Idle
<1>4. job[b].call.action # "grant_add"
  BY <1>3 DEF Typed, JobStands, Idle, Takers
<1>5. x \notin new
  <2> SUFFICES ASSUME x \in new PROVE FALSE
    OBVIOUS
  <2>1. c.action = "grant_add" /\ x \in Covers(c)
    OBVIOUS
  <2>2. b \in {y \in Admin \ {a} : /\ Local(y)
                                /\ (job[y].call.action = "grant_add")
                                      # (c.action = "grant_add")}
    BY <1>3, <1>4, <2>1 DEF Local
  <2>3. x \in Meets(a, c)
    BY <1>3, <2>1, <2>2 DEF Meets
  <2> QED
    BY <1>1, <2>3
<1> QED
  BY <1>1, <1>3, <1>5 DEF AccountInv, TookAll

LEMMA DeleteGrants ==
    ASSUME Typed, AccountInv, NEW a \in Admin, Delete(a)
    PROVE  TookAll'
<1>1. /\ UNCHANGED <<grants, crossed>>
      /\ job' = [job EXCEPT ![a] = [job[a] EXCEPT !.phase = "deleted",
                                     !.took = grants \cap Covers(job[a].call)]]
      /\ job[a] \in Jobs
  BY DEF Delete, database, Typed, JobStands, Idle
<1>2. ASSUME NEW b \in Admin
      PROVE  /\ b # a => job'[b] = job[b]
             /\ job'[a].took = grants \cap Covers(job[a].call)
             /\ job'[a].call = job[a].call
  BY <1>1 DEF Typed, Jobs
<1> QED
  BY <1>1, <1>2 DEF AccountInv, TookAll, Covers

\* Only the local transaction and the replacement of a user's datasets write
\* grants, and the latter leaves those of departments and roles alone.
LEMMA OtherGrants ==
    ASSUME GrantsAccounted, audit' = audit, crossed' = crossed,
           \A p \in Group, d \in Dataset : <<p, d>> \in grants' <=> <<p, d>> \in grants
    PROVE  GrantsAccounted'
<1> SUFFICES ASSUME NEW p \in Group, NEW d \in Dataset, <<p, d>> \notin crossed'
             PROVE  (<<p, d>> \in grants' <=> Stands(p, d)') /\ Alternates(p, d)'
  BY DEF GrantsAccounted, Stands, Alternates
<1>1. (<<p, d>> \in grants <=> Stands(p, d)) /\ Alternates(p, d)
  BY GrantsMeaning
<1>2. \A i : Adds(i, p, d)' = Adds(i, p, d) /\ Takes(i, p, d)' = Takes(i, p, d)
  BY DEF Adds, Takes
<1>3. Stands(p, d)' = Stands(p, d) /\ Alternates(p, d)' = Alternates(p, d)
  BY <1>2 DEF Stands, Alternates
<1> QED
  BY <1>1, <1>3

\* Another step of an administrator ends or begins no DELETE.
LEMMA OtherTook ==
    ASSUME AccountInv, crossed' = crossed,
           \A x \in Group \X Dataset : x \in grants' => x \in grants,
           \A b \in Admin : job'[b].phase = "deleted" => job'[b] = job[b]
    PROVE  TookAll'
BY DEF AccountInv, TookAll, Covers

\* Who goes on to a phase that is not behind a DELETE.
LEMMA StepTook ==
    ASSUME Typed, AccountInv, NEW a \in Admin, UNCHANGED <<grants, crossed>>,
           NEW j, job' = [job EXCEPT ![a] = j], j.phase # "deleted"
    PROVE  TookAll'
<1>1. \A b \in Admin : job'[b] = IF b = a THEN j ELSE job[b]
  BY DEF Typed
<1> QED
  BY <1>1, OtherTook

LEMMA NextGrants ==
    Typed /\ AccountInv /\ [Next]_vars => AccountInv'
<1> SUFFICES ASSUME Typed, AccountInv, [Next]_vars PROVE AccountInv'
  OBVIOUS
<1>1. ASSUME NEW a \in Admin, Step(a) PROVE AccountInv'
  <2>1. CASE \E m \in Member, S \in SUBSET Dataset : SetUserDatasets(a, m, S)
    <3>1. /\ UNCHANGED <<audit, crossed, job>>
          /\ \A p \in Group, d \in Dataset :
                <<p, d>> \in grants' <=> <<p, d>> \in grants
      BY <2>1, KnowledgeBaseAssumption DEF SetUserDatasets
    <3>2. \A x \in Group \X Dataset : x \in grants' => x \in grants
      BY <3>1
    <3> QED
      BY <3>1, <3>2, OtherGrants, OtherTook DEF AccountInv
  <2>2. CASE Commit(a)
    BY <2>2, CommitGrants, CommitTook DEF AccountInv
  <2>3. CASE Delete(a)
    <3>1. UNCHANGED <<grants, audit, crossed>>
      BY <2>3 DEF Delete, database
    <3> QED
      BY <2>3, <3>1, DeleteGrants, OtherGrants DEF AccountInv
  <2>4. ASSUME UNCHANGED <<grants, audit, crossed>>, NEW j,
               job' = [job EXCEPT ![a] = j], j.phase # "deleted"
        PROVE  AccountInv'
    BY <2>4, OtherGrants, StepTook DEF AccountInv
  <2>5. ASSUME NEW c \in Calls, Ask(a, c) \/ GrantWrite(a, c)
        PROVE  AccountInv'
    <3>1. UNCHANGED <<grants, audit, crossed>>
      BY <2>5 DEF Ask, GrantWrite, database
    <3>2. CASE Ask(a, c)
      <4>1. job' = [job EXCEPT ![a] = Calling(c)] /\ Calling(c).phase = "call"
        BY <3>2 DEF Ask, Calling, Idle
      <4> QED
        BY <2>4, <3>1, <4>1
    <3>3. CASE GrantWrite(a, c)
      <4> DEFINE j == [Idle EXCEPT !.phase = "commit", !.call = c, !.ok = TRUE]
      <4>1. job' = [job EXCEPT ![a] = j] /\ j.phase = "commit"
        BY <3>3 DEF GrantWrite, Idle
      <4> HIDE DEF j
      <4> QED
        BY <2>4, <3>1, <4>1
    <3> QED
      BY <2>5, <3>2, <3>3
  <2>6. CASE Serve(a)
    <3> DEFINE j == [job[a] EXCEPT !.phase = "told", !.ok = Possible(job[a].call)]
    <3>1. /\ job' = [job EXCEPT ![a] = j] /\ UNCHANGED <<grants, audit, crossed>>
          /\ job[a] \in Jobs
      BY <2>6 DEF Serve, database, Typed, JobStands, Idle
    <3>2. j.phase = "told"
      BY <3>1 DEF Jobs
    <3> HIDE DEF j
    <3> QED
      BY <2>4, <3>1, <3>2
  <2>7. CASE Receive(a)
    <3> DEFINE j == IF Succeeded(job[a]) THEN [job[a] EXCEPT !.phase = "commit"]
                    ELSE Idle
    <3>1. /\ job' = [job EXCEPT ![a] = j] /\ UNCHANGED <<grants, audit, crossed>>
          /\ job[a] \in Jobs
      BY <2>7 DEF Receive, database, Typed, JobStands, Idle
    <3>2. j.phase \in {"commit", "idle"}
      BY <3>1 DEF Jobs, Idle
    <3> HIDE DEF j
    <3> QED
      BY <2>4, <3>1, <3>2
  <2>8. CASE Lose(a) \/ Fail(a)
    <3>1. /\ job' = [job EXCEPT ![a] = Idle] /\ Idle.phase # "deleted"
          /\ UNCHANGED <<grants, audit, crossed>>
      BY <2>8 DEF Lose, Fail, database, Idle
    <3> QED
      BY <2>4, <3>1
  <2> QED
    BY <1>1, <2>1, <2>2, <2>3, <2>5, <2>6, <2>7, <2>8, StepOfLog
<1>2. CASE UNCHANGED <<grants, audit, crossed, job>>
  BY <1>2, OtherGrants, OtherTook DEF AccountInv
<1>3. CASE Crash
  <2>1. /\ UNCHANGED <<grants, audit, crossed>>
        /\ \A b \in Admin : job'[b].phase # "deleted"
    BY <1>3 DEF Crash, database, Idle
  <2> QED
    BY <2>1, OtherGrants, OtherTook DEF AccountInv
<1> QED
  BY <1>1, <1>2, <1>3 DEF Next, ServeLate, DropLate, database, vars

\* The grants of departments and roles are those the log accounts for, and
\* none is logged as added twice in a row (kb/router.py:188), except those of
\* which an addition and a removal overlapped in their transactions.
THEOREM LogAccountsForGrants == Spec => []GrantsAccounted
<1>1. Init => AccountInv
  BY EmptySeq DEF Init, AccountInv, GrantsAccounted, TookAll, Idle
<1>2. LogInv => Typed
  BY DEF LogInv
<1>3. AccountInv => GrantsAccounted
  BY DEF AccountInv
<1> QED
  BY <1>1, <1>2, <1>3, NextGrants, LogInvariance, PTL DEF Spec
===============================================================================
