-------------------------- MODULE ResetRequestsProofs --------------------------
(* Who is told of a request for a new password, and who is kept from answering *)
(* it, for every number of users, tenants and requests under way.              *)
EXTENDS ResetRequests, SequenceTheorems, WellFoundedInduction, FiniteSetTheorems, TLAPS

\* A user with a row has been created, with a role that fits its tenant.
RowsOK ==
    \A u \in Range(rows) :
       /\ home[u] # "none"
       /\ role[u] \in Roles
       /\ role[u] = "INTEGRATION_ADMIN" <=> home[u] = Platform

\* Whom a request has to reckon with still concerns it, and has not been passed
\* over by the search of the Tenants page.
RequestOK(r) ==
    /\ job[r].step \in {"count", "look", "soleAdmin"} => due[r] \subseteq Concerned(job[r])
    /\ job[r].step = "look" => due[r] \subseteq job[r].left
    /\ job[r].step = "write" => due[r] = {}
    /\ job[r].step = "answered" /\ due[r] # {} => job[r].value

RequestsOK == \A r \in Requests : RequestOK(r)

IInv == TypeOK /\ RowsOK /\ RequestsOK
-----------------------------------------------------------------------------
\* The users with a row, by their places.
LEMMA Places ==
    ASSUME TypeOK
    PROVE  /\ Len(rows) \in Nat /\ DOMAIN rows = 1..Len(rows)
           /\ \A i \in 1..Len(rows) : rows[i] \in Users
           /\ \A u : u \in Range(rows) <=> \E i \in 1..Len(rows) : rows[i] = u
           /\ \A i, j \in 1..Len(rows) : rows[i] = rows[j] => i = j
           /\ Range(rows) \subseteq Users
  BY DEF TypeOK, Range, IsInjective

\* What a request is between its statements.
LEMMA JobsTyped ==
    ASSUME TypeOK, NEW r \in Requests
    PROVE  /\ job[r].step \in {"idle", "count", "look", "answered", "soleAdmin", "write"}
           /\ job[r].step = "count" => job[r].caller \in Users
           /\ job[r].step = "look" => job[r] = [step |-> "look", left |-> job[r].left]
                                         /\ job[r].left \subseteq Users
           /\ job[r].step \in {"soleAdmin", "write"} => job[r] \in Resets
           /\ job[r].step = "answered" => job[r].value \in BOOLEAN
  BY DEF TypeOK, Idle, Polls, Answers, Resets

LEMMA Initially == Init => IInv
  <1> SUFFICES ASSUME Init PROVE IInv
    OBVIOUS
  <1>1. rows \in Seq(Users) /\ Range(rows) = {} /\ IsInjective(rows)
    BY DEF Init, Range, IsInjective
  <1>2. TypeOK
    BY <1>1 DEF Init, TypeOK
  <1>3. RequestsOK
    BY DEF Init, Idle, RequestsOK, RequestOK
  <1> QED
    BY <1>1, <1>2, <1>3 DEF IInv, RowsOK
-----------------------------------------------------------------------------
\* A user is stored behind the others.
LEMMA Storing ==
    ASSUME TypeOK, NEW u \in Users \ Range(rows), rows' = Append(rows, u)
    PROVE  /\ rows' \in Seq(Users) /\ IsInjective(rows')
           /\ Range(rows') = Range(rows) \cup {u}
  <1>1. /\ rows' \in Seq(Users) /\ DOMAIN rows' = 1..(Len(rows) + 1)
        /\ \A i \in 1..Len(rows) : rows'[i] = rows[i]
        /\ rows'[Len(rows) + 1] = u
    BY DEF TypeOK
  <1>2. IsInjective(rows')
    BY <1>1, Places DEF IsInjective
  <1>3. Range(rows') = Range(rows) \cup {u}
    BY <1>1, Places DEF Range
  <1> QED
    BY <1>1, <1>2, <1>3

\* A row is removed, and those behind it move up.
LEMMA Removing ==
    ASSUME TypeOK, NEW i \in 1..Len(rows), rows' = RemoveAt(rows, i)
    PROVE  /\ rows' \in Seq(Users) /\ IsInjective(rows')
           /\ Range(rows') = Range(rows) \ {rows[i]}
  <1> DEFINE n == Len(rows)
             moved(j) == IF j < i THEN j ELSE j + 1
  <1>1. n \in Nat /\ rows \in Seq(Users)
    BY DEF TypeOK
  <1>2. /\ rows' \in Seq(Users) /\ DOMAIN rows' = 1..(n - 1)
        /\ \A j \in 1..(n - 1) : rows'[j] = rows[moved(j)]
    <2> DEFINE before == SubSeq(rows, 1, i - 1)
               behind == SubSeq(rows, i + 1, n)
    <2>1. rows' = before \o behind
      BY DEF RemoveAt
    <2>2. /\ before \in Seq(Users) /\ Len(before) = i - 1
          /\ \A j \in 1..(i - 1) : before[j] = rows[j]
      BY <1>1, Places, SubSeqProperties
    <2>3. /\ behind \in Seq(Users) /\ Len(behind) = n - i
          /\ \A j \in 1..(n - i) : behind[j] = rows[i + j]
      <3>1. \A j \in (i + 1)..n : rows[j] \in Users
        BY <1>1, Places
      <3>2. \A j \in 1..(n - (i + 1) + 1) : behind[j] = rows[(i + 1) + j - 1]
        BY <1>1, <3>1, SubSeqProperties
      <3> QED
        BY <1>1, <3>1, <3>2, SubSeqProperties
    <2> HIDE DEF before, behind
    <2>4. /\ rows' \in Seq(Users) /\ Len(rows') = n - 1
          /\ \A j \in 1..(n - 1) : rows'[j] = IF j <= i - 1 THEN before[j] ELSE behind[j - (i - 1)]
      <3>1. /\ rows' \in Seq(Users) /\ Len(rows') = Len(before) + Len(behind)
            /\ \A j \in 1..(Len(before) + Len(behind)) :
                  rows'[j] = IF j <= Len(before) THEN before[j] ELSE behind[j - Len(before)]
        <4>1. before \in Seq(Users) /\ behind \in Seq(Users)
          BY <2>2, <2>3
        <4> QED
          BY <2>1, <4>1, ConcatProperties, ZenonT(60)
      <3>2. Len(before) + Len(behind) = n - 1
        BY <1>1, <2>2, <2>3
      <3> QED
        BY <2>2, <3>1, <3>2
    <2>5. ASSUME NEW j \in 1..(n - 1) PROVE rows'[j] = rows[moved(j)]
      <3>1. CASE j < i
        BY <1>1, <2>2, <2>4, <3>1
      <3>2. CASE ~ (j < i)
        <4>1. j - (i - 1) \in 1..(n - i) /\ i + (j - (i - 1)) = j + 1
          BY <1>1, <3>2
        <4> QED
          BY <1>1, <2>3, <2>4, <3>2, <4>1
      <3> QED
        BY <3>1, <3>2
    <2> QED
      BY <2>4, <2>5
  <1>3. \A j, k \in 1..(n - 1) : /\ moved(j) \in 1..n /\ moved(j) # i
                                 /\ moved(j) = moved(k) => j = k
    BY <1>1
  <1>5. ASSUME NEW j \in 1..n, j # i
        PROVE  \E k \in 1..(n - 1) : moved(k) = j
    <2>1. CASE j < i
      BY <1>1, <2>1
    <2>2. CASE j > i
      <3>1. j - 1 \in 1..(n - 1) /\ moved(j - 1) = j
        BY <1>1, <2>2
      <3> QED
        BY <3>1
    <2> QED
      BY <1>1, <1>5, <2>1, <2>2
  <1> HIDE DEF moved
  <1>4. IsInjective(rows')
    <2>1. ASSUME NEW j \in 1..(n - 1), NEW k \in 1..(n - 1), rows'[j] = rows'[k]
          PROVE  j = k
      <3>1. rows[moved(j)] = rows[moved(k)]
        BY <1>2, <2>1
      <3> QED
        BY <1>3, <3>1, Places
    <2> QED
      BY <1>2, <2>1 DEF IsInjective
  <1>6. Range(rows') = Range(rows) \ {rows[i]}
    <2>1. \A x : x \in Range(rows') <=> \E k \in 1..(n - 1) : rows[moved(k)] = x
      BY <1>2 DEF Range
    <2>2. ASSUME NEW x \in Range(rows') PROVE x \in Range(rows) \ {rows[i]}
      BY <1>3, <2>1, Places
    <2>3. ASSUME NEW x \in Range(rows) \ {rows[i]} PROVE x \in Range(rows')
      BY <1>5, <2>1, Places
    <2> QED
      BY <2>2, <2>3
  <1> QED
    BY <1>2, <1>4, <1>6
-----------------------------------------------------------------------------
\* The rows, and what the requests remember, keep their types.
LEMMA TypesKept == TypeOK /\ RowsOK /\ [Next]_vars => TypeOK' /\ RowsOK'
  <1> SUFFICES ASSUME TypeOK, RowsOK, [Next]_vars PROVE TypeOK' /\ RowsOK'
    OBVIOUS
  <1> DEFINE Database == UNCHANGED <<rows, role, home, pending, admins>>
             Js == {Idle} \cup Polls \cup Answers \cup Resets
  <1>0. ASSUME NEW r \in Requests, NEW j \in Js, Goto(r, j)
        PROVE  job' \in [Requests -> Js]
    <2>1. job \in [Requests -> Js]
      BY DEF TypeOK
    <2> HIDE DEF Js
    <2> QED
      BY <1>0, <2>1 DEF Goto
  <1>1. ASSUME Observe PROVE due' \in [Requests -> SUBSET Users]
    BY <1>1 DEF Observe, TypeOK
  <1>2. ASSUME NEW u \in Users, NEW t \in Tenants \cup {Platform}, NEW n \in Roles,
               CreateUser(u, t, n)
        PROVE  TypeOK' /\ RowsOK'
    <2>1. u \notin Range(rows)
      BY <1>2 DEF CreateUser, RowsOK
    <2>2. /\ rows' \in Seq(Users) /\ IsInjective(rows')
          /\ Range(rows') = Range(rows) \cup {u}
      BY <1>2, <2>1, Storing DEF CreateUser
    <2>3. TypeOK'
      BY <1>1, <1>2, <2>2 DEF CreateUser, TypeOK
    <2>4. RowsOK'
      BY <1>2, <2>2, Places, ResetRequestsAssumption DEF CreateUser, RowsOK, TypeOK
    <2> QED
      BY <2>3, <2>4
  <1>3. ASSUME NEW u \in Users, NEW n \in {"ADMIN", "ANALYST"}, ChangeRole(u, n)
        PROVE  TypeOK' /\ RowsOK'
    <2>1. TypeOK'
      BY <1>1, <1>3 DEF ChangeRole, TypeOK, Roles
    <2>2. RowsOK'
      BY <1>3, Places, ResetRequestsAssumption DEF ChangeRole, RowsOK, TypeOK, Roles
    <2> QED
      BY <2>1, <2>2
  <1>4. ASSUME NEW u \in Users, DeleteUser(u)
        PROVE  TypeOK' /\ RowsOK'
    <2>1. rows' \in Seq(Users) /\ IsInjective(rows') /\ Range(rows') = Range(rows) \ {u}
      BY <1>4, Removing DEF DeleteUser
    <2>2. TypeOK'
      BY <1>1, <1>4, <2>1 DEF DeleteUser, TypeOK
    <2>3. RowsOK'
      BY <1>4, <2>1 DEF DeleteUser, RowsOK
    <2> QED
      BY <2>2, <2>3
  <1>5. ASSUME NEW u, u \in Range(rows) \cup SuperAdmins, Mark(u)
        PROVE  TypeOK' /\ RowsOK'
    BY <1>1, <1>5 DEF Mark, TypeOK, RowsOK
  <1>6. ASSUME Database, job' \in [Requests -> Js], due' \in [Requests -> SUBSET Users]
        PROVE  TypeOK' /\ RowsOK'
    BY <1>6 DEF TypeOK, RowsOK
  <1>7. Idle \in Js /\ \A v \in BOOLEAN : [step |-> "answered", value |-> v] \in Js
    BY DEF Answers
  <1>8. /\ \A u : ForAdmin(u) \subseteq Users /\ CoAdmins(u) \subseteq Users
        /\ ForTenantsPage \subseteq Users /\ ForIntegrationPage \subseteq Users
    BY Places DEF ForAdmin, OthersRequests, CoAdmins, Admins, ForTenantsPage, ForIntegrationPage
  <1>9. ASSUME NEW r \in Requests, NEW u \in Users, PollAsAdmin(r, u)
        PROVE  TypeOK' /\ RowsOK'
    <2>1. [step |-> "count", caller |-> u] \in Js
      BY DEF Polls
    <2>2. job' \in [Requests -> Js]
      BY <1>0, <1>7, <1>9, <2>1 DEF PollAsAdmin, Answer
    <2> QED
      BY <1>6, <1>8, <1>9, <2>2 DEF PollAsAdmin, Reckon, TypeOK
  <1>10. ASSUME NEW r \in Requests, CountRequests(r)
         PROVE  TypeOK' /\ RowsOK'
    <2>1. job' \in [Requests -> Js]
      BY <1>0, <1>7, <1>10 DEF CountRequests, Answer
    <2> QED
      BY <1>6, <1>10, <2>1 DEF CountRequests, TypeOK
  <1>11. ASSUME NEW r \in Requests, PollTenantsPage(r)
         PROVE  TypeOK' /\ RowsOK'
    <2> DEFINE left == {u \in pending \cap Users : role[u] = "ADMIN"}
    <2>2. [step |-> "look", left |-> left] \in Js
      BY DEF Polls
    <2>1. job' \in [Requests -> Js]
      BY <1>0, <1>11, <2>2 DEF PollTenantsPage
    <2> QED
      BY <1>6, <1>8, <1>11, <2>1 DEF PollTenantsPage, Reckon, TypeOK
  <1>12. ASSUME NEW r \in Requests, Look(r)
         PROVE  TypeOK' /\ RowsOK'
    <2>1. \A S \in SUBSET Users : [step |-> "look", left |-> S] \in Js
      BY DEF Polls
    <2>2. ASSUME NEW u \in job[r].left PROVE [job[r] EXCEPT !.left = @ \ {u}] \in Js
      <3> DEFINE left == job[r].left
      <3>1. job[r] = [step |-> "look", left |-> left] /\ left \subseteq Users
        BY <1>12, JobsTyped DEF Look
      <3>2. [job[r] EXCEPT !.left = left \ {u}] = [step |-> "look", left |-> left \ {u}]
        <4> HIDE DEF left
        <4> QED
          BY <3>1
      <3> QED
        BY <2>1, <3>1, <3>2
    <2> HIDE DEF Js
    <2>3. job' \in [Requests -> Js]
      <3>1. CASE Answer(r, FALSE) \/ Answer(r, TRUE)
        BY <1>0, <1>7, <3>1 DEF Answer
      <3>2. CASE \E u \in job[r].left : Goto(r, [job[r] EXCEPT !.left = @ \ {u}])
        BY <1>0, <2>2, <3>2
      <3> QED
        BY <1>12, <3>1, <3>2 DEF Look
    <2> QED
      BY <1>6, <1>12, <2>3 DEF Look, TypeOK
  <1>13. ASSUME NEW r \in Requests, PollIntegrationPage(r)
         PROVE  TypeOK' /\ RowsOK'
    BY <1>6, <1>7, <1>8, <1>13 DEF PollIntegrationPage, Goto, Answer, Reckon, TypeOK
  <1>14. ASSUME NEW r \in Requests, NEW u \in Users, NEW step \in {"soleAdmin", "write"},
                BeginReset(r, u, step)
         PROVE  TypeOK' /\ RowsOK'
    <2>1. job' \in [Requests -> Js]
      BY <1>14 DEF BeginReset, Goto, TypeOK, Resets
    <2> QED
      BY <1>6, <1>8, <1>14, <2>1 DEF BeginReset, Reckon, TypeOK
  <1>15. ASSUME NEW r \in Requests, CountAdmins(r)
         PROVE  TypeOK' /\ RowsOK'
    <2>1. [job[r] EXCEPT !.step = "write"] \in Js
      BY <1>15, JobsTyped DEF CountAdmins, Resets
    <2>2. job' \in [Requests -> Js]
      BY <1>0, <1>7, <1>15, <2>1 DEF CountAdmins
    <2> QED
      BY <1>6, <1>15, <2>2 DEF CountAdmins, TypeOK
  <1>16. ASSUME NEW r \in Requests, Reuse(r)
         PROVE  TypeOK' /\ RowsOK'
    BY <1>6, <1>7, <1>16 DEF Reuse, Goto, TypeOK
  <1>17. ASSUME NEW r \in Requests, Reset(r)
         PROVE  TypeOK' /\ RowsOK'
    <2>1. job' \in [Requests -> Js]
      BY <1>7, <1>17 DEF Reset, Goto, TypeOK
    <2> QED
      BY <1>1, <1>17, <2>1 DEF Reset, TypeOK, RowsOK
  <1>18. CASE UNCHANGED vars
    BY <1>18 DEF vars, TypeOK, RowsOK
  <1> QED
    BY <1>2, <1>3, <1>4, <1>5, <1>9, <1>10, <1>11, <1>12, <1>13, <1>14, <1>15, <1>16, <1>17, <1>18
       DEF Next, RequestPasswordReset, RequestOwnPasswordChange, ResetForTenant, ResetSoleAdmin,
           ResetIntegrationAdmin
-----------------------------------------------------------------------------
\* Nothing concerns a request anew, or no longer, as long as the rows stay.
LEMMA Concerns ==
    ASSUME UNCHANGED <<rows, role, home, pending>>
    PROVE  /\ \A j : Concerned(j)' = Concerned(j)
           /\ \A u : ForAdmin(u)' = ForAdmin(u) /\ CoAdmins(u)' = CoAdmins(u)
           /\ ForTenantsPage' = ForTenantsPage
  <1>1. \A t : Admins(t)' = Admins(t)
    BY DEF Admins
  <1>2. \A u : IsFirstAdmin(u)' <=> IsFirstAdmin(u)
    BY <1>1 DEF IsFirstAdmin, Admins
  <1>3. \A u : ForAdmin(u)' = ForAdmin(u)
    BY <1>2 DEF ForAdmin, OthersRequests
  <1>4. \A u : CoAdmins(u)' = CoAdmins(u)
    BY <1>1 DEF CoAdmins, Admins
  <1>5. ForTenantsPage' = ForTenantsPage
    BY <1>2 DEF ForTenantsPage
  <1>6. \A j : Concerned(j)' = Concerned(j)
    BY <1>3, <1>4, <1>5 DEF Concerned
  <1> QED
    BY <1>3, <1>4, <1>5, <1>6

\* A step of the database takes from each request those it no longer concerns.
LEMMA Observing ==
    ASSUME TypeOK, RequestsOK, Observe, NEW r \in Requests, job'[r] = job[r] \/ job'[r] = Idle
    PROVE  RequestOK(r)'
  <1>1. due'[r] \subseteq due[r] /\ due'[r] \subseteq Concerned(job[r])'
    BY DEF Observe
  <1>2. CASE job'[r] = job[r]
    BY <1>1, <1>2 DEF RequestsOK, RequestOK
  <1>3. CASE job'[r] = Idle
    BY <1>3 DEF RequestOK, Idle
  <1> QED
    BY <1>2, <1>3

\* A step of one request leaves the others as they are.
LEMMA OthersKept ==
    ASSUME TypeOK, RequestsOK, UNCHANGED <<rows, role, home, pending>>,
           NEW r \in Requests, NEW j, Goto(r, j), NEW D,
           due' = due \/ Reckon(r, D), NEW q \in Requests \ {r}
    PROVE  RequestOK(q)'
  <1>1. job'[q] = job[q] /\ due'[q] = due[q]
    BY DEF Goto, Reckon, TypeOK
  <1>2. Concerned(job[q])' = Concerned(job[q])
    BY <1>1, Concerns
  <1> QED
    BY <1>1, <1>2 DEF RequestsOK, RequestOK

\* An answer is right if it is yes for a request that has to be reckoned with.
LEMMA Answered ==
    ASSUME NEW r \in Requests, NEW found \in BOOLEAN,
           job'[r] = [step |-> "answered", value |-> found], due'[r] # {} => found
    PROVE  RequestOK(r)'
  <1>1. CASE found = TRUE
    BY <1>1 DEF RequestOK
  <1>2. CASE found = FALSE
    BY <1>2 DEF RequestOK
  <1> QED
    BY <1>1, <1>2

\* The target of a reset that passes the count has no co-Admin.
LEMMA SoleAdmin ==
    ASSUME TypeOK, NEW u \in Users, HasNoCoAdmin(u)
    PROVE  CoAdmins(u) = {}
  <1> DEFINE A == Admins(home[u])
  <1>1. IsFiniteSet(Range(rows))
    <2>1. IsFiniteSet(1..Len(rows))
      BY Places, FS_Interval
    <2>2. rows \in Surjection(1..Len(rows), Range(rows))
      <3>1. rows \in [1..Len(rows) -> Range(rows)]
        BY Places DEF TypeOK
      <3>2. \A u1 \in Range(rows) : \E i \in 1..Len(rows) : rows[i] = u1
        BY Places
      <3> QED
        BY <3>1, <3>2 DEF Surjection
    <2> QED
      BY <2>1, <2>2, FS_Surjection
  <1>2. IsFiniteSet(A) /\ \A B \in SUBSET A : Cardinality(B) <= Cardinality(A)
    BY <1>1, FS_Subset DEF Admins
  <1>3. ASSUME u \in A, NEW v \in A, v # u PROVE FALSE
    <2>1. Cardinality({u}) = 1 /\ IsFiniteSet({u})
      BY FS_Singleton
    <2>2. Cardinality({u} \cup {v}) = 2
      <3>1. v \notin {u}
        BY <1>3
      <3>2. Cardinality({u} \cup {v}) = Cardinality({u}) + 1
        BY <2>1, <3>1, FS_AddElement
      <3> QED
        BY <2>1, <3>2
    <2>3. {u} \cup {v} \in SUBSET A /\ Cardinality(A) \in Nat
      BY <1>2, <1>3, FS_CardinalityType
    <2> QED
      BY <1>2, <2>2, <2>3 DEF HasNoCoAdmin
  <1> QED
    BY <1>3 DEF CoAdmins

\* Each request keeps track of those it has to reckon with.
LEMMA RequestsKept == TypeOK /\ RequestsOK /\ [Next]_vars => RequestsOK'
  <1> SUFFICES ASSUME TypeOK, RequestsOK, [Next]_vars PROVE RequestsOK'
    OBVIOUS
  <1>1. ASSUME Observe, job' = job \/ \E r \in Requests : Goto(r, Idle)
        PROVE  RequestsOK'
    <2>1. \A q \in Requests : job'[q] = job[q] \/ job'[q] = Idle
      BY <1>1 DEF Goto, TypeOK
    <2> QED
      BY <1>1, <2>1, Observing DEF RequestsOK
  <1>2. ASSUME NEW r \in Requests, NEW j, Goto(r, j), NEW D, due' = due \/ Reckon(r, D),
               UNCHANGED <<rows, role, home, pending>>, RequestOK(r)'
        PROVE  RequestsOK'
    BY <1>2, OthersKept DEF RequestsOK
  <1>3. ASSUME NEW r \in Requests, NEW j, Goto(r, j) PROVE job'[r] = j
    BY <1>3 DEF Goto, TypeOK
  <1>4. ASSUME NEW r \in Requests, NEW D, Reckon(r, D) PROVE due'[r] = D
    BY <1>4 DEF Reckon, TypeOK
  <1>5. ASSUME NEW r \in Requests, NEW u \in Users, PollAsAdmin(r, u)
        PROVE  RequestsOK'
    <2>1. due'[r] = ForAdmin(u) /\ ForAdmin(u)' = ForAdmin(u)
      BY <1>4, <1>5, Concerns DEF PollAsAdmin
    <2>2. CASE Goto(r, [step |-> "count", caller |-> u])
      <3>1. RequestOK(r)'
        BY <1>3, <2>1, <2>2 DEF RequestOK, Concerned
      <3> QED
        BY <1>2, <1>5, <2>2, <3>1 DEF PollAsAdmin
    <2>3. CASE Answer(r, FALSE) /\ ~ IsFirstAdmin(u)
      <3>1. RequestOK(r)'
        BY <1>3, <2>1, <2>3 DEF RequestOK, Answer, ForAdmin
      <3> QED
        BY <1>2, <1>5, <2>3, <3>1 DEF PollAsAdmin, Answer
    <2> QED
      BY <1>5, <2>2, <2>3 DEF PollAsAdmin
  <1>6. ASSUME NEW r \in Requests, CountRequests(r)
        PROVE  RequestsOK'
    <2> DEFINE found == OthersRequests(job[r].caller) # {}
    <2>1. due[r] \subseteq ForAdmin(job[r].caller)
      BY <1>6 DEF CountRequests, RequestsOK, RequestOK, Concerned
    <2>2. due[r] # {} => found
      BY <2>1 DEF ForAdmin
    <2>3. job'[r] = [step |-> "answered", value |-> found] /\ due'[r] = due[r]
      BY <1>3, <1>6 DEF CountRequests, Answer
    <2>4. RequestOK(r)'
      BY <2>2, <2>3, Answered
    <2> QED
      BY <1>2, <1>6, <2>4 DEF CountRequests, Answer
  <1>7. ASSUME NEW r \in Requests, PollTenantsPage(r)
        PROVE  RequestsOK'
    <2> DEFINE left == {u \in pending \cap Users : role[u] = "ADMIN"}
    <2>1. due'[r] = ForTenantsPage /\ ForTenantsPage' = ForTenantsPage
      BY <1>4, <1>7, Concerns DEF PollTenantsPage
    <2>2. job'[r] = [step |-> "look", left |-> left]
      BY <1>3, <1>7 DEF PollTenantsPage
    <2>3. RequestOK(r)'
      BY <2>1, <2>2 DEF RequestOK, Concerned, ForTenantsPage
    <2> QED
      BY <1>2, <1>7, <2>3 DEF PollTenantsPage
  <1>8. ASSUME NEW r \in Requests, Look(r)
        PROVE  RequestsOK'
    <2>1. due[r] \subseteq ForTenantsPage /\ due[r] \subseteq job[r].left
      BY <1>8 DEF Look, RequestsOK, RequestOK, Concerned
    <2>2. due' = due /\ ForTenantsPage' = ForTenantsPage
      BY <1>8, Concerns DEF Look
    <2>3. CASE job[r].left = {} /\ Answer(r, FALSE)
      <3>1. RequestOK(r)'
        BY <1>3, <2>1, <2>2, <2>3 DEF RequestOK, Answer
      <3> QED
        BY <1>2, <1>8, <2>3, <3>1 DEF Look, Answer
    <2>4. CASE Answer(r, TRUE)
      <3>1. RequestOK(r)'
        BY <1>3, <2>4 DEF RequestOK, Answer
      <3> QED
        BY <1>2, <1>8, <2>4, <3>1 DEF Look, Answer
    <2>5. ASSUME NEW u \in job[r].left, ~ IsFirstAdmin(u),
                 Goto(r, [job[r] EXCEPT !.left = @ \ {u}])
          PROVE  RequestsOK'
      <3>1. u \notin ForTenantsPage
        BY <2>5 DEF ForTenantsPage
      <3>2. job'[r].step = "look" /\ job'[r].left = job[r].left \ {u}
        BY <1>3, <1>8, <2>5, JobsTyped DEF Look
      <3>3. RequestOK(r)'
        BY <2>1, <2>2, <3>1, <3>2 DEF RequestOK, Concerned
      <3> QED
        BY <1>2, <1>8, <2>5, <3>3 DEF Look
    <2> QED
      BY <1>8, <2>3, <2>4, <2>5 DEF Look
  <1>9. ASSUME NEW r \in Requests, PollIntegrationPage(r)
        PROVE  RequestsOK'
    <2> DEFINE found == ForIntegrationPage # {}
    <2>0. /\ job'[r] = [step |-> "answered", value |-> found]
          /\ due'[r] = ForIntegrationPage
      BY <1>3, <1>4, <1>9 DEF PollIntegrationPage, Answer
    <2>1. RequestOK(r)'
      BY <2>0, Answered
    <2> QED
      BY <1>2, <1>9, <2>1 DEF PollIntegrationPage, Answer
  <1>10. ASSUME NEW r \in Requests, NEW u \in Users, NEW step \in {"soleAdmin", "write"},
                BeginReset(r, u, step)
         PROVE  RequestsOK'
    <2>1. CoAdmins(u)' = CoAdmins(u)
      BY <1>10, Concerns DEF BeginReset
    <2>2. job'[r] = [step |-> step, target |-> u]
      BY <1>3, <1>10 DEF BeginReset
    <2>3. due'[r] = IF step = "soleAdmin" THEN CoAdmins(u) ELSE {}
      BY <1>4, <1>10 DEF BeginReset
    <2>4. RequestOK(r)'
      BY <2>1, <2>2, <2>3 DEF RequestOK, Concerned
    <2> QED
      BY <1>2, <1>10, <2>4 DEF BeginReset
  <1>11. ASSUME NEW r \in Requests, CountAdmins(r)
         PROVE  RequestsOK'
    <2> DEFINE u == job[r].target
    <2>1. job[r].step = "soleAdmin" /\ u \in Users /\ due[r] \subseteq CoAdmins(u) /\ due' = due
      BY <1>11, JobsTyped DEF CountAdmins, Resets, RequestsOK, RequestOK, Concerned
    <2>2. CASE HasNoCoAdmin(u) /\ Goto(r, [job[r] EXCEPT !.step = "write"])
      <3>1. due'[r] = {}
        BY <2>1, <2>2, SoleAdmin
      <3>2. job'[r].step = "write"
        BY <1>3, <2>1, <2>2, JobsTyped DEF Resets
      <3>3. RequestOK(r)'
        BY <3>1, <3>2 DEF RequestOK
      <3> QED
        BY <1>2, <1>11, <2>2, <3>3 DEF CountAdmins
    <2>3. CASE Goto(r, Idle)
      <3>1. RequestOK(r)'
        BY <1>3, <2>3 DEF RequestOK, Idle
      <3> QED
        BY <1>2, <1>11, <2>3, <3>1 DEF CountAdmins
    <2> QED
      BY <1>11, <2>2, <2>3 DEF CountAdmins
  <1>12. ASSUME NEW r \in Requests, Reuse(r)
         PROVE  RequestsOK'
    <2>1. RequestOK(r)'
      BY <1>3, <1>12 DEF Reuse, RequestOK, Idle
    <2> QED
      BY <1>2, <1>12, <2>1 DEF Reuse
  <1>13. CASE UNCHANGED vars
    <2>1. \A q \in Requests : Concerned(job[q])' = Concerned(job[q])
      BY <1>13, Concerns DEF vars
    <2> QED
      BY <1>13, <2>1 DEF vars, RequestsOK, RequestOK
  <1>14. CASE \/ \E u \in Users, t \in Tenants \cup {Platform}, n \in Roles : CreateUser(u, t, n)
              \/ \E u \in Users, n \in {"ADMIN", "ANALYST"} : ChangeRole(u, n)
              \/ \E u \in Users : DeleteUser(u)
              \/ \E u \in Users : RequestPasswordReset(u)
              \/ \E u \in Users \cup SuperAdmins : RequestOwnPasswordChange(u)
              \/ \E r \in Requests : Reset(r)
    BY <1>1, <1>14 DEF CreateUser, ChangeRole, DeleteUser, RequestPasswordReset,
                       RequestOwnPasswordChange, Mark, Reset
  <1> QED
    BY <1>5, <1>6, <1>7, <1>8, <1>9, <1>10, <1>11, <1>12, <1>13, <1>14
       DEF Next, ResetForTenant, ResetSoleAdmin, ResetIntegrationAdmin
-----------------------------------------------------------------------------
\* Every reachable state.
LEMMA Reached == Spec => []IInv
  <1>1. IInv /\ [Next]_vars => IInv'
    BY TypesKept, RequestsKept DEF IInv
  <1> QED
    BY <1>1, Initially, PTL DEF Spec

\* The requests under way, and the marks on accounts that exist, keep their types.
THEOREM TypeCorrect == Spec => []TypeOK
  <1>1. IInv => TypeOK
    BY DEF IInv
  <1> QED
    BY <1>1, Reached, PTL

\* A poll that reads the rows in several statements reports what has concerned
\* its caller all along.
THEOREM StandingReported == Spec => []StandingRequestsAreReported
  <1>1. IInv => StandingRequestsAreReported
    BY DEF IInv, RequestsOK, RequestOK, StandingRequestsAreReported
  <1> QED
    BY <1>1, Reached, PTL

\* A Super Admin never gets to write over an Admin that has had a co-Admin from
\* the beginning of its request.
THEOREM SuperAdminOut == Spec => []SuperAdminStaysOut
  <1>1. IInv => SuperAdminStaysOut
    BY DEF IInv, RequestsOK, RequestOK, SuperAdminStaysOut
  <1> QED
    BY <1>1, Reached, PTL
-----------------------------------------------------------------------------
\* A set of places has a first one.
LEMMA Least ==
    ASSUME NEW T \in SUBSET Nat, T # {}
    PROVE  \E x \in T : \A y \in T : x <= y
  <1> DEFINE R == OpToRel(<, Nat)
  <1>1. IsWellFoundedOn(R, Nat)
    BY NatLessThanWellFounded
  <1>2. \A x, y \in Nat : x < y => <<x, y>> \in R
    BY DEF OpToRel
  <1> HIDE DEF R
  <1>3. \E x \in T : \A y \in T : ~ (<<y, x>> \in R)
    BY <1>1, WFMin
  <1>4. PICK x \in T : \A y \in T : ~ (<<y, x>> \in R)
    BY <1>3
  <1>5. ASSUME NEW y \in T PROVE x <= y
    <2>1. x \in Nat /\ y \in Nat
      OBVIOUS
    <2>2. ~ (y < x)
      BY <1>2, <1>4, <2>1
    <2> QED
      BY <2>1, <2>2
  <1> QED
    BY <1>5

\* A tenant with Admins has a first one ...
LEMMA FirstAdminExists ==
    ASSUME TypeOK, NEW t, Admins(t) # {}
    PROVE  \E f \in Admins(t) : IsFirstAdmin(f)
  <1> DEFINE T == {i \in 1..Len(rows) : rows[i] \in Admins(t)}
  <1>1. T \in SUBSET Nat /\ T # {}
    BY Places DEF Admins
  <1> HIDE DEF T
  <1>2. PICK i \in T : \A j \in T : i <= j
    BY <1>1, Least
  <1>3. i \in 1..Len(rows) /\ rows[i] \in Admins(t) /\ home[rows[i]] = t
    BY <1>2 DEF T, Admins
  <1>4. ASSUME NEW j \in 1..(i - 1), rows[j] \in Admins(t) PROVE FALSE
    <2>1. j \in 1..Len(rows) /\ ~ (i <= j)
      BY <1>3, <1>4, Places
    <2> QED
      BY <1>2, <1>4, <2>1 DEF T
  <1>5. IsFirstAdmin(rows[i])
    BY <1>3, <1>4 DEF IsFirstAdmin, Admins
  <1> QED
    BY <1>3, <1>5

\* ... and only one.
LEMMA FirstAdminUnique ==
    ASSUME TypeOK, NEW f, NEW g, IsFirstAdmin(f), IsFirstAdmin(g), home[f] = home[g]
    PROVE  f = g
  <1>1. PICK i \in 1..Len(rows) : rows[i] = f /\ \A j \in 1..(i - 1) : rows[j] \notin Admins(home[f])
    BY DEF IsFirstAdmin
  <1>2. PICK k \in 1..Len(rows) : rows[k] = g /\ \A j \in 1..(k - 1) : rows[j] \notin Admins(home[g])
    BY DEF IsFirstAdmin
  <1>3. f \in Admins(home[f]) /\ g \in Admins(home[f])
    BY <1>1, <1>2, Places DEF IsFirstAdmin, Admins
  <1>4. ~ (i < k) /\ ~ (k < i)
    BY <1>1, <1>2, <1>3, Places
  <1> QED
    BY <1>1, <1>2, <1>4, Places

\* For every tenant and every order of its users: one indicator stands for a
\* request, and not that of the account that asked.
LEMMA OneIndicator ==
    ASSUME TypeOK, RowsOK, NEW u \in pending \cap Users, HasAdministrator(u)
    PROVE  Cardinality(Recipients(u)) = 1 /\ u \notin Recipients(u)
  <1>1. u \in Range(rows) /\ u \notin Pages
    BY ResetRequestsAssumption DEF TypeOK
  <1>2. \A v : u \in ForAdmin(v) => IsFirstAdmin(v) /\ home[v] = home[u] /\ v # u
    BY DEF ForAdmin, OthersRequests
  <1>3. \A v : IsFirstAdmin(v) => v \in Range(rows) /\ role[v] = "ADMIN"
    BY Places DEF IsFirstAdmin
  <1>4. SUFFICES \E x : x # u /\ Recipients(u) = {x}
    BY FS_Singleton
  <1>5. CASE home[u] = Platform
    <2>1. role[u] = "INTEGRATION_ADMIN"
      BY <1>1, <1>5 DEF RowsOK
    <2>2. \A v : u \notin ForAdmin(v)
      BY <1>2, <1>3, <1>5 DEF RowsOK
    <2>3. u \notin ForTenantsPage /\ u \in ForIntegrationPage
      BY <2>1 DEF ForTenantsPage, ForIntegrationPage
    <2>4. Recipients(u) = {"integrationPage"}
      BY <2>2, <2>3 DEF Recipients
    <2> QED
      BY <1>1, <2>4 DEF Pages
  <1>6. CASE home[u] # Platform
    <2>1. PICK f \in Admins(home[u]) : IsFirstAdmin(f)
      BY <1>6, FirstAdminExists DEF HasAdministrator
    <2>2. home[f] = home[u] /\ f \in Users
      BY <2>1, Places DEF Admins
    <2>3. \A v : IsFirstAdmin(v) /\ home[v] = home[u] => v = f
      BY <2>1, <2>2, FirstAdminUnique
    <2>4. u \notin ForIntegrationPage
      BY <1>1, <1>6 DEF RowsOK, ForIntegrationPage
    <2>5. CASE u = f
      <3>1. \A v : u \notin ForAdmin(v)
        BY <1>2, <2>3, <2>5
      <3>2. u \in ForTenantsPage
        BY <1>3, <2>1, <2>5 DEF ForTenantsPage
      <3>3. Recipients(u) = {"tenantsPage"}
        BY <2>4, <3>1, <3>2 DEF Recipients
      <3> QED
        BY <1>1, <3>3 DEF Pages
    <2>6. CASE u # f
      <3>1. u \in ForAdmin(f)
        BY <2>1, <2>2, <2>6 DEF ForAdmin, OthersRequests
      <3>2. \A v : u \in ForAdmin(v) => v = f
        BY <1>2, <2>3
      <3>3. u \notin ForTenantsPage
        BY <2>3, <2>6 DEF ForTenantsPage
      <3>4. Recipients(u) = {f}
        BY <2>2, <2>4, <3>1, <3>2, <3>3 DEF Recipients
      <3> QED
        BY <2>6, <3>4
    <2> QED
      BY <2>5, <2>6
  <1> QED
    BY <1>5, <1>6

\* In every reachable state exactly one administrator is told of a request.
THEOREM OneRecipient == Spec => []OneRecipientPerRequest
  <1>1. IInv => OneRecipientPerRequest
    BY OneIndicator DEF IInv, OneRecipientPerRequest
  <1> QED
    BY <1>1, Reached, PTL
=============================================================================
