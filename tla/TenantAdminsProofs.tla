-------------------------- MODULE TenantAdminsProofs --------------------------
(* Proofs about TenantAdmins for every number of tenants, users and requests. *)
EXTENDS SerialAdmins, FiniteSetTheorems, TLAPS

\* Ids are used before they are in a row, and a row has a tenant that exists, or
\* none: it has been created too late for the deletion of its tenant.
UsersOK ==
    /\ tenants \subseteq used
    /\ \A u \in Rows : u \in used
    /\ \A u \in Users : u \notin used => tenantOf[u] = NoTenant
    /\ \A u \in Rows : tenantOf[u] \in tenants \/ (tenantOf[u] = NoTenant /\ u \in late)

\* A token was issued to a user that had a row, with the tenant it had.
ClaimsOK == \A c \in claims : c.user \in used /\ c.tenant \in used \cup {NoTenant}

\* A request remembers a caller and another user, which is in the tenant of the
\* caller's claims or has lost it with the tenant.
UserJobOK(r) ==
    /\ job[r].step = "sign" => job[r].caller \in used /\ job[r].tenant \in used \cup {NoTenant}
    /\ job[r].step \in {"count", "update", "delete"} =>
         /\ job[r].caller # job[r].target
         /\ job[r].target \in used
         /\ job[r].tenant \in used /\ job[r].tenant # NoTenant
         /\ \/ tenantOf[job[r].target] = job[r].tenant
            \/ tenantOf[job[r].target] = NoTenant /\ job[r].tenant \notin tenants

\* A deletion has all the users of its tenant but those who have come since,
\* and nobody else deletes either.
TenantJobOK(r) ==
    job[r].step = "tenant" =>
       /\ job[r].tenant \in tenants
       /\ \A u \in job[r].users : u \in Rows /\ tenantOf[u] = job[r].tenant
       /\ \A u \in Rows : tenantOf[u] = job[r].tenant => u \in job[r].users \cup late
       /\ \A q \in Requests : job[q].step = "tenant" /\ q # r => job[q].tenant # job[r].tenant

JobsOK == \A r \in Requests : UserJobOK(r) /\ TenantJobOK(r)

IInv == TypeOK /\ UsersOK /\ ClaimsOK /\ JobsOK

LEMMA ConstantsOK == NoTenant \notin Tenants /\ Operations \subseteq AllOperations
  BY TenantAdminsAssumption

LEMMA InitIInv == Init => IInv
  BY ConstantsOK
  DEF Init, IInv, TypeOK, UsersOK, ClaimsOK, JobsOK, UserJobOK, TenantJobOK, Rows, Idle, TenantIds

\* What a request is between its statements.
LEMMA JobTypes ==
    ASSUME TypeOK, NEW r \in Requests
    PROVE  /\ job[r].step \in {"sign", "count", "update", "delete"} =>
                /\ job[r] # Idle /\ job[r] \in UserJobs
                /\ job[r].caller \in Users /\ job[r].target \in Users /\ job[r].role \in Roles
                /\ job[r].tenant \in TenantIds
           /\ job[r].step = "tenant" =>
                /\ job[r] # Idle /\ job[r] \in TenantJobs
                /\ job[r].tenant \in Tenants /\ job[r].users \subseteq Users
  BY DEF TypeOK, UserJobs, TenantJobs, Idle

LEMMA TypeStep == TypeOK /\ [Next]_vars => TypeOK'
  <1> SUFFICES ASSUME TypeOK, [Next]_vars PROVE TypeOK'
    OBVIOUS
  <1> DEFINE AllJobs == UserJobs \cup TenantJobs \cup {Idle}
  <1>a. ASSUME NEW r \in Requests, NEW j \in AllJobs, job' = [job EXCEPT ![r] = j]
        PROVE  job' \in [Requests -> AllJobs]
    BY <1>a DEF TypeOK
  <1>b. ASSUME NEW r \in Requests, Finish(r) PROVE job' \in [Requests -> AllJobs]
    BY <1>a, <1>b DEF Finish
  <1> USE DEF TypeOK
  <1>1. ASSUME NEW t \in Tenants, NEW u \in Users, CreateTenant(t, u) PROVE TypeOK'
    BY <1>1 DEF CreateTenant, AddUser, Roles, TenantIds
  <1>2. ASSUME NEW r \in Requests, NEW t \in Tenants, DeleteUsers(r, t) PROVE TypeOK'
    <2>1. [step |-> "tenant", tenant |-> t, users |-> {u \in Rows : tenantOf[u] = t}] \in AllJobs
      BY DEF TenantJobs, Rows
    <2> QED
      BY <1>2, <1>a, <2>1 DEF DeleteUsers, Start
  <1>3. ASSUME NEW r \in Requests, DeleteTenant(r) PROVE TypeOK'
    <2>1. /\ role' \in [Users -> Roles \cup {"none"}]
          /\ tenantOf' \in [Users -> TenantIds]
      BY <1>3 DEF DeleteTenant, TenantIds
    <2> QED
      BY <1>3, <1>b, <2>1 DEF DeleteTenant
  <1>4. ASSUME NEW r \in Requests, RollBack(r) PROVE TypeOK'
    BY <1>4, <1>b DEF RollBack
  <1>5. ASSUME NEW c \in claims, NEW u \in Users, NEW n \in Roles, CreateUser(c, u, n)
        PROVE  TypeOK'
    BY <1>5 DEF CreateUser, AddUser, TenantIds
  <1>6. ASSUME NEW r \in Requests, NEW u \in Users, ReadClaims(r, u) PROVE TypeOK'
    <2>1. [step |-> "sign", caller |-> u, tenant |-> tenantOf[u], target |-> u, role |-> role[u]]
            \in AllJobs
      BY <1>6 DEF ReadClaims, Rows, UserJobs
    <2> QED
      BY <1>6, <1>a, <2>1 DEF ReadClaims, Start
  <1>7. ASSUME NEW r \in Requests, Sign(r) PROVE TypeOK'
    <2>1. [user |-> job[r].caller, role |-> job[r].role, tenant |-> job[r].tenant] \in Claims
      BY <1>7, JobTypes DEF Sign, Claims
    <2> QED
      BY <1>7, <1>b, <2>1 DEF Sign
  <1>8. ASSUME NEW c \in claims, Expire(c) PROVE TypeOK'
    BY <1>8 DEF Expire
  <1>9. ASSUME NEW r \in Requests, NEW c \in claims, NEW u \in Users, NEW n \in Roles,
               ChangeRole(r, c, u, n)
        PROVE  TypeOK'
    <2>1. [step |-> IF role[u] = "ADMIN" /\ n # "ADMIN" THEN "count" ELSE "update",
           caller |-> c.user, tenant |-> c.tenant, target |-> u, role |-> n] \in AllJobs
      BY DEF UserJobs, Claims
    <2> QED
      BY <1>9, <1>a, <2>1 DEF ChangeRole, Start
  <1>10. ASSUME NEW r \in Requests, CountAdmins(r) PROVE TypeOK'
    <2>1. job[r] \in UserJobs
      BY <1>10, JobTypes DEF CountAdmins
    <2>2. [job[r] EXCEPT !.step = "update"] \in AllJobs
      BY <2>1 DEF UserJobs
    <2>3. CASE Finish(r)
      BY <1>10, <1>b, <2>3 DEF CountAdmins
    <2>4. CASE Continue(r, "update")
      <3>1. job' = [job EXCEPT ![r] = [job[r] EXCEPT !.step = "update"]]
        BY <2>4 DEF Continue
      <3> QED
        BY <1>10, <1>a, <2>2, <3>1 DEF CountAdmins
    <2> QED
      BY <1>10, <2>3, <2>4 DEF CountAdmins
  <1>11. ASSUME NEW r \in Requests, UpdateRole(r) PROVE TypeOK'
    BY <1>11, <1>b, JobTypes DEF UpdateRole
  <1>12. ASSUME NEW r \in Requests, NEW c \in claims, NEW u \in Users, RemoveUser(r, c, u)
         PROVE  TypeOK'
    <2>1. [step |-> "delete", caller |-> c.user, tenant |-> c.tenant, target |-> u,
           role |-> role[u]] \in AllJobs
      BY <1>12 DEF RemoveUser, May, Rows, UserJobs, Claims
    <2> QED
      BY <1>12, <1>a, <2>1 DEF RemoveUser, Start
  <1>13. ASSUME NEW r \in Requests, DeleteRow(r) PROVE TypeOK'
    BY <1>13, <1>b DEF DeleteRow
  <1>14. CASE UNCHANGED vars
    BY <1>14 DEF vars
  <1> QED
    BY <1>1, <1>2, <1>3, <1>4, <1>5, <1>6, <1>7, <1>8, <1>9, <1>10, <1>11, <1>12, <1>13, <1>14
    DEF Next
-----------------------------------------------------------------------------
\* A user is created, alone or with its tenant.
Joins(u, t) ==
    /\ u \in Users /\ t \in Tenants
    /\ \E n \in Roles : AddUser(u, t, n)
    /\ \/ tenants' = tenants \cup {t} /\ t \notin used
       \/ tenants' = tenants /\ t \in tenants
    /\ used' = used \cup {u, t}
    /\ late' = late \cup (IF t \in Leaving THEN {u} ELSE {})
    /\ UNCHANGED <<claims, job>>

LEMMA Joining ==
    ASSUME IInv, NEW u, NEW t, Joins(u, t)
    PROVE  (UsersOK /\ ClaimsOK /\ JobsOK)'
  <1>1. PICK n \in Roles : role' = [role EXCEPT ![u] = n] /\ tenantOf' = [tenantOf EXCEPT ![u] = t]
    BY DEF Joins, AddUser
  <1>2. u \in Users /\ t \in Tenants /\ u \notin used /\ n # "none"
    BY DEF Joins, AddUser, Roles
  <1>3. /\ \A v \in Users \ {u} : role'[v] = role[v] /\ tenantOf'[v] = tenantOf[v]
        /\ role'[u] = n /\ tenantOf'[u] = t
        /\ Rows' = Rows \cup {u} /\ u \notin Rows
    BY <1>1, <1>2 DEF IInv, TypeOK, UsersOK, Rows
  <1>4. tenants \subseteq tenants' /\ t \in tenants' /\ tenants' \subseteq tenants \cup {t}
    BY DEF Joins
  <1>5. UsersOK'
    BY <1>2, <1>3, <1>4 DEF UsersOK, IInv, Joins, Rows
  <1>6. ClaimsOK'
    BY DEF Joins, IInv, ClaimsOK
  <1>7. ASSUME NEW r \in Requests PROVE UserJobOK(r)'
    <2>1. job'[r] = job[r] /\ UserJobOK(r)
      BY DEF Joins, IInv, JobsOK
    <2>2. job[r].step \in {"count", "update", "delete"} =>
            job[r].target # u /\ job[r].target \in Users /\ job[r].tenant \in Tenants
      BY <1>2, <2>1, JobTypes DEF UserJobOK, IInv, TenantIds
    <2>3. job[r].step \in {"count", "update", "delete"} =>
            (job[r].tenant \in tenants' => job[r].tenant \in tenants)
      BY <2>1 DEF Joins, UserJobOK
    <2> QED
      BY <1>3, <2>1, <2>2, <2>3 DEF UserJobOK, Joins
  <1>8. ASSUME NEW r \in Requests PROVE TenantJobOK(r)'
    <2>1. job' = job /\ TenantJobOK(r)
      BY DEF Joins, IInv, JobsOK
    <2>2. job[r].step = "tenant" /\ job[r].tenant = t => u \in late'
      BY DEF Joins, Leaving
    <2>3. job[r].step = "tenant" => job[r].users \subseteq Rows /\ Rows \subseteq Users \ {u}
      BY <1>3, <2>1 DEF TenantJobOK, Rows
    <2> QED
      BY <1>3, <1>4, <2>1, <2>2, <2>3 DEF TenantJobOK, Joins
  <1> QED
    BY <1>5, <1>6, <1>7, <1>8 DEF JobsOK

\* The row of the target of a request changes, or goes.
Touches(r) ==
    /\ job[r].step \in {"update", "delete"}
    /\ job[r].target \notin Locked
    /\ role' \in [Users -> Roles \cup {"none"}]
    /\ \A v \in Users \ {job[r].target} : role'[v] = role[v]
    /\ role[job[r].target] = "none" => role'[job[r].target] = "none"
    /\ Finish(r)
    /\ UNCHANGED <<tenants, tenantOf, used, claims, late>>

LEMMA Touching ==
    ASSUME IInv, NEW r \in Requests, UpdateRole(r) \/ DeleteRow(r)
    PROVE  Touches(r)
  <1>1. job[r].target \in Users /\ job[r].role \in Roles
    BY JobTypes DEF UpdateRole, DeleteRow, IInv
  <1> QED
    BY <1>1 DEF UpdateRole, DeleteRow, Touches, IInv, TypeOK, Rows

\* A request that has ended, or begun, says nothing about another.
LEMMA OtherJobs ==
    ASSUME TypeOK, NEW r \in Requests, NEW j, job' = [job EXCEPT ![r] = j]
    PROVE  /\ job'[r] = j
           /\ \A q \in Requests \ {r} : job'[q] = job[q]
  BY DEF TypeOK

LEMMA Touched ==
    ASSUME IInv, NEW r \in Requests, Touches(r)
    PROVE  (UsersOK /\ ClaimsOK /\ JobsOK)'
  <1>1. /\ job'[r] = Idle /\ \A q \in Requests \ {r} : job'[q] = job[q]
    BY OtherJobs DEF Touches, Finish, IInv
  <1>2. Rows' \subseteq Rows /\ Rows \ {job[r].target} \subseteq Rows'
    BY DEF Touches, Rows
  <1>3. UsersOK' /\ ClaimsOK'
    BY <1>2 DEF IInv, UsersOK, ClaimsOK, Touches
  <1>4. ASSUME NEW q \in Requests PROVE UserJobOK(q)' /\ TenantJobOK(q)'
    <2>1. CASE q = r
      BY <1>1, <2>1 DEF UserJobOK, TenantJobOK, Idle
    <2>2. CASE q # r
      <3>1. job'[q] = job[q] /\ UserJobOK(q) /\ TenantJobOK(q)
        BY <1>1, <2>2 DEF IInv, JobsOK
      <3>2. UserJobOK(q)'
        BY <3>1 DEF UserJobOK, Touches
      <3>3. job[q].step = "tenant" => job[r].target \notin job[q].users
        BY DEF Touches, Locked
      <3>4. \A p \in Requests : job'[p].step = "tenant" => job'[p] = job[p]
        BY <1>1 DEF Idle
      <3>5. TenantJobOK(q)'
        BY <1>2, <3>1, <3>3, <3>4 DEF TenantJobOK, Touches
      <3> QED
        BY <3>2, <3>5
    <2> QED
      BY <2>1, <2>2
  <1> QED
    BY <1>3, <1>4 DEF JobsOK

\* A request goes from one statement to the next and writes nothing.
LEMMA Going ==
    ASSUME IInv, NEW r \in Requests, NEW j, job' = [job EXCEPT ![r] = j],
           UNCHANGED <<tenants, role, tenantOf, used, claims, late>>,
           j.step # "tenant", UserJobOK(r)'
    PROVE  (UsersOK /\ ClaimsOK /\ JobsOK)'
  <1>1. job'[r] = j /\ \A q \in Requests \ {r} : job'[q] = job[q]
    BY OtherJobs DEF IInv
  <1>2. Rows' = Rows
    BY DEF Rows
  <1>3. ASSUME NEW q \in Requests PROVE UserJobOK(q)' /\ TenantJobOK(q)'
    <2>1. CASE q = r
      BY <1>1, <2>1 DEF TenantJobOK
    <2>2. CASE q # r
      <3>1. job'[q] = job[q] /\ UserJobOK(q) /\ TenantJobOK(q)
        BY <1>1, <2>2 DEF IInv, JobsOK
      <3>2. \A p \in Requests : job'[p].step = "tenant" => job'[p] = job[p]
        BY <1>1
      <3> QED
        BY <1>2, <3>1, <3>2 DEF UserJobOK, TenantJobOK
    <2> QED
      BY <2>1, <2>2
  <1> QED
    BY <1>2, <1>3 DEF IInv, UsersOK, ClaimsOK, JobsOK

LEMMA Idling ==
    ASSUME IInv, NEW r \in Requests, Finish(r),
           UNCHANGED <<tenants, role, tenantOf, used, claims, late>>
    PROVE  (UsersOK /\ ClaimsOK /\ JobsOK)'
  <1>1. job' = [job EXCEPT ![r] = Idle] /\ Idle.step = "idle"
    BY DEF Finish, Idle
  <1>2. job'[r] = Idle
    BY <1>1, OtherJobs DEF IInv
  <1>3. UserJobOK(r)'
    BY <1>1, <1>2 DEF UserJobOK
  <1> QED
    BY <1>1, <1>3, Going

\* What an Admin may do concerns a user of the tenant of its claims.
LEMMA Entering ==
    ASSUME IInv, NEW r \in Requests, NEW c \in claims, NEW u \in Users, May(c, u),
           NEW s \in {"count", "update", "delete"}, NEW n,
           Start(r, [step |-> s, caller |-> c.user, tenant |-> c.tenant, target |-> u, role |-> n]),
           UNCHANGED <<tenants, role, tenantOf, used, claims, late>>
    PROVE  (UsersOK /\ ClaimsOK /\ JobsOK)'
  <1> DEFINE j == [step |-> s, caller |-> c.user, tenant |-> c.tenant, target |-> u, role |-> n]
  <1>1. job' = [job EXCEPT ![r] = j] /\ j.step # "tenant"
    BY DEF Start
  <1>2. job'[r] = j
    BY <1>1, OtherJobs DEF IInv
  <1>3. UserJobOK(r)'
    BY <1>2 DEF UserJobOK, May, IInv, UsersOK, ClaimsOK
  <1> HIDE DEF j
  <1> QED
    BY <1>1, <1>3, Going

\* The users of a tenant that is being deleted.
LEMMA Collecting ==
    ASSUME IInv, NEW r \in Requests, NEW t \in Tenants, DeleteUsers(r, t)
    PROVE  (UsersOK /\ ClaimsOK /\ JobsOK)'
  <1> DEFINE j == [step |-> "tenant", tenant |-> t, users |-> {u \in Rows : tenantOf[u] = t}]
  <1>1. job'[r] = j /\ \A q \in Requests \ {r} : job'[q] = job[q]
    BY OtherJobs DEF DeleteUsers, Start, IInv
  <1>2. Rows' = Rows /\ UNCHANGED <<tenants, role, tenantOf, used, claims, late>>
    BY DEF DeleteUsers, Rows
  <1>3. t \in tenants /\ \A q \in Requests : job[q].step = "tenant" => job[q].tenant # t
    BY DEF DeleteUsers, Leaving
  <1>4. ASSUME NEW q \in Requests PROVE UserJobOK(q)' /\ TenantJobOK(q)'
    <2>1. CASE q = r
      BY <1>1, <1>2, <1>3, <2>1 DEF UserJobOK, TenantJobOK
    <2>2. CASE q # r
      <3>1. job'[q] = job[q] /\ UserJobOK(q) /\ TenantJobOK(q)
        BY <1>1, <2>2 DEF IInv, JobsOK
      <3>2. \A p \in Requests : job'[p].step = "tenant" =>
               \/ job'[p] = job[p]
               \/ p = r /\ job'[p].tenant = t
        BY <1>1
      <3> QED
        BY <1>2, <1>3, <2>2, <3>1, <3>2 DEF UserJobOK, TenantJobOK
    <2> QED
      BY <2>1, <2>2
  <1> QED
    BY <1>2, <1>4 DEF IInv, UsersOK, ClaimsOK, JobsOK

\* The tenant goes, and of its users only latecomers stay.
LEMMA Leave ==
    ASSUME IInv, NEW r \in Requests, DeleteTenant(r)
    PROVE  (UsersOK /\ ClaimsOK /\ JobsOK)'
  <1> DEFINE t == job[r].tenant
  <1>1. /\ job'[r] = Idle /\ \A q \in Requests \ {r} : job'[q] = job[q]
    BY OtherJobs DEF DeleteTenant, Finish, IInv
  <1>2. TenantJobOK(r) /\ job[r].step = "tenant" /\ t \in tenants /\ t \in Tenants
    BY JobTypes DEF IInv, JobsOK, DeleteTenant, TenantJobOK
  <1>3. /\ tenants' = tenants \ {t} /\ UNCHANGED <<used, claims, late>>
        /\ Rows' = Rows \ job[r].users
    BY DEF DeleteTenant, Rows
  <1>4. /\ \A u \in Rows' : tenantOf[u] = t => u \in late /\ tenantOf'[u] = NoTenant
        /\ \A u \in Users : tenantOf'[u] = tenantOf[u] \/ (tenantOf[u] = t /\ tenantOf'[u] = NoTenant)
        /\ \A u \in Users : tenantOf[u] # t => tenantOf'[u] = tenantOf[u]
    BY <1>2, <1>3 DEF DeleteTenant, TenantJobOK, Rows
  <1>5. UsersOK'
    <2>1. \A u \in Rows' : u \in Rows /\ u \in Users
      BY <1>3 DEF Rows
    <2> QED
      BY <1>3, <1>4, <2>1 DEF IInv, UsersOK
  <1>6. ClaimsOK'
    BY <1>3 DEF IInv, ClaimsOK
  <1>7. ASSUME NEW q \in Requests PROVE UserJobOK(q)' /\ TenantJobOK(q)'
    <2>1. CASE q = r
      BY <1>1, <2>1 DEF UserJobOK, TenantJobOK, Idle
    <2>2. CASE q # r
      <3>1. job'[q] = job[q] /\ UserJobOK(q) /\ TenantJobOK(q)
        BY <1>1, <2>2 DEF IInv, JobsOK
      <3>2. job[q].step \in {"count", "update", "delete"} => job[q].target \in Users
        BY JobTypes DEF IInv
      <3>3. UserJobOK(q)'
        BY <1>3, <1>4, <3>1, <3>2 DEF UserJobOK
      <3>4. job[q].step = "tenant" => job[q].tenant # t /\ job[q].tenant # NoTenant
        BY <1>2, <2>2, JobTypes, ConstantsOK DEF TenantJobOK, IInv
      <3>5. \A p \in Requests : job'[p].step = "tenant" => job'[p] = job[p]
        BY <1>1 DEF Idle
      <3>6. ASSUME job[q].step = "tenant", NEW u \in job[q].users
            PROVE  u \in Rows' /\ tenantOf'[u] = job[q].tenant
        <4>1. u \in Rows /\ u \in Users /\ tenantOf[u] # t /\ tenantOf[u] = job[q].tenant
          BY <3>1, <3>4, <3>6 DEF TenantJobOK, Rows
        <4>2. u \notin job[r].users
          BY <1>2, <4>1 DEF TenantJobOK
        <4> QED
          BY <1>3, <1>4, <4>1, <4>2
      <3>7. ASSUME job[q].step = "tenant", NEW u \in Rows', tenantOf'[u] = job[q].tenant
            PROVE  u \in job[q].users \cup late
        <4>1. u \in Rows /\ u \in Users /\ tenantOf[u] = job[q].tenant
          BY <1>3, <1>4, <3>4, <3>7 DEF Rows
        <4> QED
          BY <3>1, <3>7, <4>1 DEF TenantJobOK
      <3>8. TenantJobOK(q)'
        BY <1>3, <3>1, <3>4, <3>5, <3>6, <3>7 DEF TenantJobOK
      <3> QED
        BY <3>3, <3>8
    <2> QED
      BY <2>1, <2>2
  <1> QED
    BY <1>5, <1>6, <1>7 DEF JobsOK

LEMMA RestStep == IInv /\ [Next]_vars => (UsersOK /\ ClaimsOK /\ JobsOK)'
  <1> DEFINE Rest == UsersOK /\ ClaimsOK /\ JobsOK
  <1> SUFFICES ASSUME IInv, [Next]_vars PROVE Rest'
    OBVIOUS
  <1>1. ASSUME NEW t \in Tenants, NEW u \in Users, CreateTenant(t, u) PROVE Rest'
    <2>1. t \notin Leaving
      BY <1>1 DEF CreateTenant, Leaving, IInv, JobsOK, TenantJobOK, UsersOK
    <2>2. used' = used \cup {u, t} /\ "ADMIN" \in Roles
      BY <1>1 DEF CreateTenant, Roles
    <2> QED
      BY <1>1, <2>1, <2>2, Joining DEF CreateTenant, Joins
  <1>2. ASSUME NEW r \in Requests, NEW t \in Tenants, DeleteUsers(r, t) PROVE Rest'
    BY <1>2, Collecting
  <1>3. ASSUME NEW r \in Requests, DeleteTenant(r) PROVE Rest'
    BY <1>3, Leave
  <1>4. ASSUME NEW r \in Requests, RollBack(r) PROVE Rest'
    BY <1>4, Idling DEF RollBack
  <1>5. ASSUME NEW c \in claims, NEW u \in Users, NEW n \in Roles, CreateUser(c, u, n)
        PROVE  Rest'
    <2>1. c.tenant \in tenants /\ c.tenant \in used /\ c.tenant \in Tenants
      BY <1>5 DEF CreateUser, IInv, UsersOK, TypeOK
    <2>2. used' = used \cup {u, c.tenant}
      BY <1>5, <2>1 DEF CreateUser
    <2>3. Joins(u, c.tenant)
      BY <1>5, <2>1, <2>2 DEF CreateUser, Joins
    <2> QED
      BY <2>3, Joining
  <1>6. ASSUME NEW r \in Requests, NEW u \in Users, ReadClaims(r, u) PROVE Rest'
    <2> DEFINE j == [step |-> "sign", caller |-> u, tenant |-> tenantOf[u], target |-> u,
                     role |-> role[u]]
    <2>1. job' = [job EXCEPT ![r] = j] /\ job'[r] = j /\ j.step # "tenant"
      BY <1>6, OtherJobs DEF ReadClaims, Start, IInv
    <2>2. u \in used /\ tenantOf[u] \in used \cup {NoTenant}
      BY <1>6 DEF ReadClaims, IInv, UsersOK
    <2>3. UserJobOK(r)'
      BY <1>6, <2>1, <2>2 DEF UserJobOK, ReadClaims
    <2> HIDE DEF j
    <2> QED
      BY <1>6, <2>1, <2>3, Going DEF ReadClaims
  <1>7. ASSUME NEW r \in Requests, Sign(r) PROVE Rest'
    <2>1. job[r].caller \in used /\ job[r].tenant \in used \cup {NoTenant}
      BY <1>7 DEF Sign, IInv, JobsOK, UserJobOK
    <2>2. ClaimsOK'
      BY <1>7, <2>1 DEF Sign, IInv, ClaimsOK
    <2>3. /\ job'[r] = Idle /\ \A q \in Requests \ {r} : job'[q] = job[q]
      BY <1>7, OtherJobs DEF Sign, Finish, IInv
    <2>4. UNCHANGED <<tenants, role, tenantOf, used, late>> /\ Rows' = Rows
      BY <1>7 DEF Sign, Rows
    <2>5. UsersOK'
      BY <2>4 DEF IInv, UsersOK
    <2>6. ASSUME NEW q \in Requests PROVE UserJobOK(q)' /\ TenantJobOK(q)'
      <3>1. (job'[q] = Idle \/ job'[q] = job[q]) /\ UserJobOK(q) /\ TenantJobOK(q)
        BY <2>3 DEF IInv, JobsOK
      <3>2. \A p \in Requests : job'[p].step = "tenant" => job'[p] = job[p]
        BY <2>3 DEF Idle
      <3> QED
        BY <2>4, <3>1, <3>2 DEF UserJobOK, TenantJobOK, Idle
    <2> QED
      BY <2>2, <2>5, <2>6 DEF JobsOK
  <1>8. ASSUME NEW c \in claims, Expire(c) PROVE Rest'
    BY <1>8 DEF Expire, IInv, UsersOK, ClaimsOK, JobsOK, UserJobOK, TenantJobOK, Rows
  <1>9. ASSUME NEW r \in Requests, NEW c \in claims, NEW u \in Users, NEW n \in Roles,
               ChangeRole(r, c, u, n)
        PROVE  Rest'
    BY <1>9, Entering DEF ChangeRole
  <1>10. ASSUME NEW r \in Requests, CountAdmins(r) PROVE Rest'
    <2>1. job[r] \in UserJobs /\ job[r].step = "count" /\ UserJobOK(r)
      BY <1>10, JobTypes DEF CountAdmins, IInv, JobsOK
    <2>2. CASE Finish(r)
      BY <1>10, <2>2, Idling DEF CountAdmins
    <2>3. CASE Continue(r, "update")
      <3> DEFINE j == [job[r] EXCEPT !.step = "update"]
      <3>1. job' = [job EXCEPT ![r] = j] /\ job'[r] = j
        BY <2>3, OtherJobs DEF Continue, IInv
      <3>2. /\ j.step = "update" /\ j.caller = job[r].caller /\ j.target = job[r].target
            /\ j.tenant = job[r].tenant
        BY <2>1 DEF UserJobs
      <3> HIDE DEF j
      <3>3. UserJobOK(r)'
        BY <1>10, <2>1, <3>1, <3>2 DEF UserJobOK, CountAdmins
      <3> QED
        BY <1>10, <3>1, <3>2, <3>3, Going DEF CountAdmins
    <2> QED
      BY <1>10, <2>2, <2>3 DEF CountAdmins
  <1>11. ASSUME NEW r \in Requests, UpdateRole(r) \/ DeleteRow(r) PROVE Rest'
    BY <1>11, Touching, Touched
  <1>12. ASSUME NEW r \in Requests, NEW c \in claims, NEW u \in Users, RemoveUser(r, c, u)
         PROVE  Rest'
    BY <1>12, Entering DEF RemoveUser
  <1>13. CASE UNCHANGED vars
    BY <1>13 DEF vars, IInv, UsersOK, ClaimsOK, JobsOK, UserJobOK, TenantJobOK, Rows
  <1> HIDE DEF Rest
  <1> QED
    BY <1>1, <1>2, <1>3, <1>4, <1>5, <1>6, <1>7, <1>8, <1>9, <1>10, <1>11, <1>12, <1>13 DEF Next

LEMMA IInvStep == IInv /\ [Next]_vars => IInv'
  BY TypeStep, RestStep DEF IInv

LEMMA Invariance == Spec => []IInv
  BY InitIInv, IInvStep, PTL DEF Spec
-----------------------------------------------------------------------------
\* Every variable keeps its type.
THEOREM TypeCorrect == Spec => []TypeOK
  BY Invariance, PTL DEF IInv

\* deleteTenantWithUsers: a user without a tenant has been created while its
\* tenant was being deleted, for any number of deletions and requests at once.
THEOREM LatecomersOnly == Spec => []OnlyLatecomersAreLeft
  <1>1. IInv => OnlyLatecomersAreLeft
    BY DEF IInv, UsersOK, OnlyLatecomersAreLeft
  <1> QED
    BY <1>1, Invariance, PTL

\* Only three operations write the row of a user that has, or had, one.
RowsKept == \A u \in Users \cap used : role'[u] = role[u] /\ tenantOf'[u] = tenantOf[u]

LEMMA Born == IInv => Rows \subseteq Users \cap used
  BY DEF IInv, UsersOK, Rows

LEMMA WhoWrites ==
    ASSUME IInv, [Next]_vars
    PROVE  \/ \E r \in Requests : UpdateRole(r) \/ DeleteRow(r)
           \/ \E r \in Requests : DeleteTenant(r)
           \/ RowsKept
  <1>1. ASSUME NEW t, NEW u \in Users, NEW n, AddUser(u, t, n) PROVE RowsKept
    BY <1>1 DEF AddUser, RowsKept, IInv, TypeOK
  <1>2. ASSUME UNCHANGED <<role, tenantOf>> PROVE RowsKept
    BY <1>2 DEF RowsKept
  <1> QED
    BY <1>1, <1>2
    DEF Next, vars, CreateTenant, DeleteUsers, RollBack, CreateUser, ReadClaims, Sign, Expire,
        ChangeRole, CountAdmins, RemoveUser

\* What the request that ends with such a step is about.
LEMMA WhoEnds ==
    ASSUME IInv, NEW r \in Requests, UpdateRole(r) \/ DeleteRow(r)
    PROVE  /\ Ends(r) /\ UserJobOK(r)
           /\ job[r].step \in {"update", "delete"}
           /\ job[r].caller \in Users /\ job[r].target \in Users
           /\ UNCHANGED <<tenants, tenantOf>>
           /\ \A u \in Users \ {job[r].target} : role'[u] = role[u]
  <1>1. Touches(r)
    BY Touching
  <1>2. job[r] # Idle /\ job[r].caller \in Users /\ job[r].target \in Users
    BY <1>1, JobTypes DEF Touches, IInv
  <1>3. job'[r] = Idle
    BY <1>1, OtherJobs DEF Touches, Finish, IInv
  <1> QED
    BY <1>1, <1>2, <1>3 DEF Touches, Ends, IInv, JobsOK

\* The users a deletion takes are those of a tenant that goes.
LEMMA WhoLeaves ==
    ASSUME IInv, NEW r \in Requests, DeleteTenant(r)
    PROVE  /\ job[r].tenant \in tenants \ tenants' /\ tenants' = tenants \ {job[r].tenant}
           /\ \A u \in Users : u \notin job[r].users => role'[u] = role[u]
           /\ \A u \in job[r].users : tenantOf[u] = job[r].tenant
           /\ \A u \in Users : \/ tenantOf'[u] = tenantOf[u]
                               \/ tenantOf[u] = job[r].tenant /\ tenantOf'[u] = NoTenant
  BY DEF DeleteTenant, IInv, JobsOK, TenantJobOK, TypeOK

\* Nobody but a caller that is no longer an Admin takes the last Admin away.
THEOREM LastAdminLostByFormerAdmin == Spec => OnlyFormerAdminsStrandATenant
  <1>1. ASSUME IInv, [Next]_vars PROVE StrandedByFormerAdmin
    <2>1. ASSUME NEW r \in Requests, UpdateRole(r) \/ DeleteRow(r) PROVE StrandedByFormerAdmin
      <3>1. /\ Ends(r) /\ tenantOf' = tenantOf /\ job[r].caller # job[r].target
            /\ \A u \in Users \ {job[r].target} : role'[u] = role[u]
        BY <1>1, <2>1, WhoEnds DEF UserJobOK
      <3>2. ASSUME NEW t, job[r].caller \in Admins(t) PROVE job[r].caller \in Admins(t)'
        BY <3>1, <3>2 DEF Admins, Rows
      <3> QED
        BY <3>1, <3>2 DEF StrandedByFormerAdmin
    <2>2. ASSUME NEW r \in Requests, DeleteTenant(r) PROVE StrandedByFormerAdmin
      <3>1. ASSUME NEW t \in tenants \cap tenants', NEW u \in Admins(t) PROVE u \in Admins(t)'
        BY <1>1, <2>2, <3>1, WhoLeaves DEF Admins, Rows
      <3> QED
        BY <3>1 DEF StrandedByFormerAdmin
    <2>3. CASE RowsKept
      <3>1. ASSUME NEW t, NEW u \in Admins(t) PROVE u \in Admins(t)'
        BY <1>1, <2>3, Born DEF RowsKept, Admins, Rows
      <3> QED
        BY <3>1 DEF StrandedByFormerAdmin
    <2> QED
      BY <1>1, <2>1, <2>2, <2>3, WhoWrites
  <1> QED
    BY <1>1, Invariance, PTL DEF Spec, OnlyFormerAdminsStrandATenant

\* A request touches its caller's tenant only, or a user that has lost it.
THEOREM Isolation == Spec => TenantsAreIsolated
  <1>1. ASSUME IInv, [Next]_vars PROVE OwnTenantOnly
    <2>1. ASSUME NEW r \in Requests, UpdateRole(r) \/ DeleteRow(r) PROVE OwnTenantOnly
      <3>1. /\ Ends(r) /\ tenantOf' = tenantOf /\ tenants' = tenants
            /\ \A u \in Users \ {job[r].target} : role'[u] = role[u]
            /\ \/ tenantOf[job[r].target] = job[r].tenant
               \/ tenantOf[job[r].target] = NoTenant /\ job[r].tenant \notin tenants
        BY <1>1, <2>1, WhoEnds DEF UserJobOK
      <3>2. ASSUME NEW u \in Rows, role'[u] # role[u] PROVE u = job[r].target
        BY <3>1, <3>2 DEF Rows
      <3> QED
        BY <3>1, <3>2 DEF OwnTenantOnly
    <2>2. ASSUME NEW r \in Requests, DeleteTenant(r) PROVE OwnTenantOnly
      <3>1. ASSUME NEW u \in Rows
            PROVE  /\ \/ tenantOf'[u] = tenantOf[u]
                      \/ tenantOf[u] \in tenants \ tenants' /\ tenantOf'[u] = NoTenant
                   /\ role'[u] # role[u] => tenantOf[u] \in tenants \ tenants'
        BY <1>1, <2>2, WhoLeaves DEF Rows
      <3> QED
        BY <3>1 DEF OwnTenantOnly
    <2>3. CASE RowsKept
      BY <1>1, <2>3, Born DEF RowsKept, OwnTenantOnly
    <2> QED
      BY <1>1, <2>1, <2>2, <2>3, WhoWrites
  <1> QED
    BY <1>1, Invariance, PTL DEF Spec, TenantsAreIsolated
-----------------------------------------------------------------------------
\* A role change that is about to be written leaves the tenant an Admin.
UpdateOK(r) ==
    job[r].step = "update" =>
       \/ job[r].role = "ADMIN"
       \/ job[r].target \notin Admins(job[r].tenant)
       \/ \E v \in Admins(job[r].tenant) : v # job[r].target

UpdatesOK == \A r \in Requests : UpdateOK(r)

SerialInv == disturbed \in BOOLEAN /\ (~disturbed => TenantHasAdmin /\ ~Disturbing /\ UpdatesOK)

\* The count that lets a role change through has seen another Admin.
LEMMA EnoughAdmins ==
    ASSUME NEW t, NEW u, ~TooFew(t)
    PROVE  \E v \in Admins(t) : v # u
  <1> SUFFICES ASSUME \A v \in Admins(t) : v = u PROVE FALSE
    OBVIOUS
  <1>1. CASE Admins(t) = {}
    BY <1>1, FS_EmptySet DEF TooFew
  <1>2. CASE Admins(t) = {u}
    <2>1. Cardinality({u}) = 1
      BY FS_Singleton
    <2> QED
      BY <1>2, <2>1 DEF TooFew
  <1> QED
    BY <1>1, <1>2

\* Without an UPDATE or a DELETE of a user's row, the Admins of a tenant stay
\* as long as the tenant does, and no user that has had a row becomes one.
LEMMA AdminsStay ==
    ASSUME IInv, [Next]_vars, ~ \E r \in Requests : UpdateRole(r) \/ DeleteRow(r), NEW t \in Tenants
    PROVE  /\ t \in tenants' => Admins(t) \subseteq Admins(t)'
           /\ Admins(t)' \cap used \subseteq Admins(t)
  <1>1. CASE RowsKept
    BY <1>1, Born DEF RowsKept, Admins, Rows
  <1>2. ASSUME NEW r \in Requests, DeleteTenant(r)
        PROVE  /\ t \in tenants' => Admins(t) \subseteq Admins(t)'
               /\ Admins(t)' \cap used \subseteq Admins(t)
    <2>1. \A u \in job[r].users \cap Users : role'[u] = "none"
      BY <1>2 DEF DeleteTenant
    <2> QED
      BY <1>2, <2>1, WhoLeaves, ConstantsOK DEF Admins, Rows
  <1> QED
    BY <1>1, <1>2, WhoWrites

\* A role change is about to be written since it was read or counted.
LEMMA WhoDecides ==
    ASSUME IInv, [Next]_vars, NEW r \in Requests
    PROVE  \/ job'[r] = job[r] \/ job'[r].step # "update"
           \/ \E c \in claims, u \in Users, n \in Roles : ChangeRole(r, c, u, n)
           \/ CountAdmins(r)
  <1> DEFINE Same == job'[r] = job[r] \/ job'[r].step # "update"
  <1>1. ASSUME NEW q \in Requests, NEW j, job' = [job EXCEPT ![q] = j], q # r \/ j.step # "update"
        PROVE  Same
    BY <1>1 DEF IInv, TypeOK
  <1>2. Idle.step # "update"
    BY DEF Idle
  <1>3. ASSUME NEW q \in Requests, Finish(q) PROVE Same
    BY <1>1, <1>2, <1>3 DEF Finish
  <1>4. ASSUME NEW q \in Requests, NEW u \in Users, ReadClaims(q, u) PROVE Same
    BY <1>1, <1>4 DEF ReadClaims, Start
  <1>5. ASSUME NEW q \in Requests, NEW c \in claims, NEW u \in Users, RemoveUser(q, c, u)
        PROVE  Same
    BY <1>1, <1>5 DEF RemoveUser, Start
  <1>6. ASSUME NEW q \in Requests, q # r, NEW c \in claims, NEW u \in Users, NEW n \in Roles,
               ChangeRole(q, c, u, n)
        PROVE  Same
    BY <1>1, <1>6 DEF ChangeRole, Start
  <1>7. ASSUME NEW q \in Requests, q # r, CountAdmins(q) PROVE Same
    BY <1>1, <1>3, <1>7 DEF CountAdmins, Continue
  <1>8. CASE \/ \E t \in Tenants, u \in Users : CreateTenant(t, u)
             \/ \E c \in claims, u \in Users, n \in Roles : CreateUser(c, u, n)
             \/ \E c \in claims : Expire(c)
             \/ UNCHANGED vars
    BY <1>8 DEF CreateTenant, CreateUser, Expire, vars
  <1>9. CASE \E q \in Requests : \/ Sign(q) \/ UpdateRole(q) \/ DeleteRow(q)
                                \/ DeleteTenant(q) \/ RollBack(q)
    BY <1>3, <1>9 DEF Sign, UpdateRole, DeleteRow, DeleteTenant, RollBack
  <1>11. ASSUME NEW q \in Requests, NEW t \in Tenants, DeleteUsers(q, t) PROVE Same
    BY <1>1, <1>11 DEF DeleteUsers, Start
  <1> HIDE DEF Same
  <1>10. Same => job'[r] = job[r] \/ job'[r].step # "update"
    BY DEF Same
  <1> QED
    BY <1>4, <1>5, <1>6, <1>7, <1>8, <1>9, <1>10, <1>11 DEF Next

\* Both ways to get there have made sure of another Admin.
LEMMA Decided ==
    ASSUME IInv, NEW r \in Requests,
           \/ \E c \in claims, u \in Users, n \in Roles : ChangeRole(r, c, u, n)
           \/ CountAdmins(r)
    PROVE  UpdateOK(r)'
  <1>1. UNCHANGED <<role, tenantOf>>
    BY DEF ChangeRole, CountAdmins
  <1>2. \A t : Admins(t)' = Admins(t)
    BY <1>1 DEF Admins, Rows
  <1>3. ASSUME NEW c \in claims, NEW u \in Users, NEW n \in Roles, ChangeRole(r, c, u, n)
        PROVE  UpdateOK(r)'
    <2>1. /\ job'[r].target = u /\ job'[r].role = n /\ job'[r].tenant = c.tenant
          /\ job'[r].step = IF role[u] = "ADMIN" /\ n # "ADMIN" THEN "count" ELSE "update"
      BY <1>3 DEF ChangeRole, Start, IInv, TypeOK
    <2>2. job'[r].step = "update" => n = "ADMIN" \/ u \notin Admins(c.tenant)
      BY <2>1 DEF Admins
    <2> QED
      BY <1>1, <1>2, <2>1, <2>2 DEF UpdateOK
  <1>4. CASE CountAdmins(r)
    <2> DEFINE u == job[r].target
               t == job[r].tenant
    <2>1. job[r] # Idle /\ job[r] \in UserJobs
      BY <1>4, JobTypes DEF CountAdmins, IInv
    <2>2. CASE TooFew(t)
      BY <1>4, <2>1, <2>2 DEF CountAdmins, Finish, UpdateOK, Idle, IInv, TypeOK
    <2>3. CASE ~TooFew(t)
      <3>1. job'[r].target = u /\ job'[r].tenant = t
        BY <1>4, <2>1, <2>3 DEF CountAdmins, Continue, IInv, TypeOK, UserJobs
      <3>2. \E v \in Admins(t) : v # u
        BY <2>3, EnoughAdmins
      <3> QED
        BY <1>1, <1>2, <3>1, <3>2 DEF UpdateOK
    <2> QED
      BY <2>2, <2>3
  <1> QED
    BY <1>3, <1>4

\* Steps that write no user's row leave a role change that was fine, fine.
LEMMA DecisionStays ==
    ASSUME IInv, [Next]_vars, ~ \E q \in Requests : UpdateRole(q) \/ DeleteRow(q),
           NEW r \in Requests, job'[r] = job[r], UpdateOK(r)
    PROVE  UpdateOK(r)'
  <1> SUFFICES ASSUME job[r].step = "update" PROVE UpdateOK(r)'
    BY DEF UpdateOK
  <1> DEFINE u == job[r].target
             t == job[r].tenant
  <1>1. u \in Users \cap used /\ t \in Tenants
    BY JobTypes DEF IInv, JobsOK, UserJobOK, TenantIds
  <1>2. Admins(t)' \cap used \subseteq Admins(t)
    BY <1>1, AdminsStay
  <1>3. t \in tenants' => Admins(t) \subseteq Admins(t)'
    BY <1>1, AdminsStay
  <1>4. t \notin tenants' => u \notin Admins(t)'
    BY <1>1, IInvStep, ConstantsOK DEF IInv, UsersOK, Admins
  <1>5. CASE job[r].role = "ADMIN"
    BY <1>5 DEF UpdateOK
  <1>6. CASE u \notin Admins(t)
    BY <1>1, <1>2, <1>6 DEF UpdateOK
  <1>7. CASE \E v \in Admins(t) : v # u
    BY <1>2, <1>3, <1>4, <1>7 DEF UpdateOK
  <1> QED
    BY <1>5, <1>6, <1>7 DEF UpdateOK

\* A tenant begins with an Admin.
LEMMA NewTenants ==
    ASSUME IInv, [Next]_vars, NEW t \in tenants' \ tenants
    PROVE  Admins(t)' # {}
  <1>1. PICK u \in Users : CreateTenant(t, u)
    <2>1. tenants' # tenants
      OBVIOUS
    <2>2. ASSUME NEW r \in Requests PROVE ~DeleteTenant(r)
      BY DEF DeleteTenant
    <2>3. \E d \in Tenants, u \in Users : CreateTenant(d, u)
      BY <2>1, <2>2 DEF Next, vars, CreateUser, ReadClaims, Sign, Expire, ChangeRole, CountAdmins,
                        UpdateRole, RemoveUser, DeleteRow, DeleteUsers, RollBack
    <2>4. ASSUME NEW d \in Tenants, NEW u \in Users, CreateTenant(d, u) PROVE d = t
      BY <2>4 DEF CreateTenant
    <2> QED
      BY <2>3, <2>4
  <1>2. u \in Admins(t)'
    BY <1>1 DEF CreateTenant, AddUser, Admins, Rows, IInv, TypeOK
  <1> QED
    BY <1>2

\* One undisturbed step.
LEMMA SerialStep ==
    ASSUME IInv, [Next]_vars, TenantHasAdmin, ~Disturbing, UpdatesOK
    PROVE  TenantHasAdmin' /\ UpdatesOK'
  <1>1. CASE ~ \E r \in Requests : UpdateRole(r) \/ DeleteRow(r)
    <2>1. TenantHasAdmin'
      <3>1. ASSUME NEW t \in tenants' \cap tenants PROVE Admins(t)' # {}
        BY <1>1, AdminsStay DEF TenantHasAdmin, IInv, TypeOK
      <3> QED
        BY <3>1, NewTenants DEF TenantHasAdmin
    <2>2. UpdatesOK'
      <3>1. ASSUME NEW r \in Requests PROVE UpdateOK(r)'
        <4>1. CASE job'[r] = job[r]
          BY <1>1, <4>1, DecisionStays DEF UpdatesOK
        <4>2. CASE job'[r].step # "update"
          BY <4>2 DEF UpdateOK
        <4> QED
          BY <4>1, <4>2, WhoDecides, Decided
      <3> QED
        BY <3>1 DEF UpdatesOK
    <2> QED
      BY <2>1, <2>2
  <1>2. ASSUME NEW r \in Requests, UpdateRole(r) \/ DeleteRow(r)
        PROVE  TenantHasAdmin' /\ UpdatesOK'
    <2>0. /\ job[r] # Idle /\ job[r].target \in Users /\ job[r].caller \in Users
          /\ UserJobOK(r) /\ job[r].tenant \in TenantIds /\ Acting(r)
      BY <1>2, WhoEnds, JobTypes DEF Ends, Acting, IInv
    <2>1. PICK u \in Users, c \in Users, t \in Tenants \cup {NoTenant} :
                 /\ u = job[r].target /\ c = job[r].caller /\ c # u
                 /\ t = job[r].tenant
                 /\ tenantOf[u] = t \/ (tenantOf[u] = NoTenant /\ t \notin tenants)
      BY <2>0 DEF UserJobOK, Acting, TenantIds, Idle, UpdateRole, DeleteRow
    <2>2. /\ tenants' = tenants /\ tenantOf' = tenantOf
          /\ job' = [job EXCEPT ![r] = Idle]
          /\ \A v \in Users \ {u} : role'[v] = role[v]
      BY <1>2, <2>0, <2>1 DEF UpdateRole, DeleteRow, Finish, IInv, TypeOK
    <2>3. UpdatesOK'
      <3>1. ASSUME NEW q \in Requests PROVE job'[q].step # "update"
        BY <2>0, <2>2, <3>1 DEF Disturbing, Acting, Idle, IInv, TypeOK
      <3> QED
        BY <3>1 DEF UpdatesOK, UpdateOK
    <2>4. ASSUME NEW x PROVE Admins(x) \ {u} \subseteq Admins(x)'
      BY <2>2 DEF Admins, Rows
    <2>5. \A x \in tenants \ {t} : u \notin Admins(x) /\ Admins(x) # {}
      BY <2>1, ConstantsOK DEF TenantHasAdmin, Admins, IInv, TypeOK
    <2>6. CASE t \in tenants
      <3>1. \E v : v \in Admins(t)'
        <4>1. CASE UpdateRole(r)
          <5>1. CASE job[r].role = "ADMIN"
            <6>1. PICK v \in Admins(t) : TRUE
              BY <2>6 DEF TenantHasAdmin
            <6>2. CASE v = u
              <7>1. role' = [role EXCEPT ![u] = "ADMIN"]
                BY <2>1, <4>1, <5>1, <6>2 DEF UpdateRole, Admins
              <7>2. u \in Admins(t)'
                BY <2>1, <2>2, <6>2, <7>1 DEF Admins, Rows, IInv, TypeOK
              <7> QED
                BY <7>2
            <6> QED
              BY <2>4, <6>1, <6>2
          <5>2. CASE u \notin Admins(t)
            BY <2>4, <2>6, <5>2 DEF TenantHasAdmin
          <5>3. CASE \E v \in Admins(t) : v # u
            BY <2>4, <5>3
          <5> QED
            BY <2>1, <4>1, <5>1, <5>2, <5>3 DEF UpdatesOK, UpdateOK, UpdateRole
        <4>2. CASE DeleteRow(r)
          <5>1. c \in Admins(t)
            BY <2>1, <4>2 DEF Disturbing, DeleteRow
          <5> QED
            BY <2>1, <2>4, <5>1
        <4> QED
          BY <1>2, <4>1, <4>2
      <3>2. \A x \in tenants : Admins(x)' # {}
        <4>1. ASSUME NEW x \in tenants, x # t PROVE Admins(x)' # {}
          BY <2>4, <2>5, <4>1
        <4> QED
          BY <3>1, <4>1
      <3> QED
        BY <2>2, <2>3, <3>2 DEF TenantHasAdmin
    <2>7. CASE t \notin tenants
      <3>1. \A x \in tenants : Admins(x)' # {}
        BY <2>4, <2>5, <2>7
      <3> QED
        BY <2>2, <2>3, <3>1 DEF TenantHasAdmin
    <2> QED
      BY <2>6, <2>7
  <1> QED
    BY <1>1, <1>2

\* What is watched is a behaviour of the system: whatever holds of it holds here.
LEMMA SerialBehaviours == SerialSpec => Spec
  <1>1. SerialInit => Init
    BY DEF SerialInit
  <1>2. [SerialNext]_<<vars, disturbed>> => [Next]_vars
    BY DEF SerialNext, vars
  <1> QED
    BY <1>1, <1>2, PTL DEF SerialSpec, Spec

\* Role changes and deletions that do not overlap, of which the latter are made
\* by those who are Admins at that moment, leave every tenant an Admin: for any
\* number of tenants, users and requests under way.
THEOREM SerialAdminsSafe == SerialSpec => []SerialRequestsKeepAnAdmin
  <1>1. SerialInit => IInv /\ SerialInv
    <2>1. Init => TenantHasAdmin /\ ~Disturbing /\ UpdatesOK
      BY DEF Init, TenantHasAdmin, Disturbing, Acting, UpdatesOK, UpdateOK, Idle
    <2> QED
      BY <2>1, InitIInv DEF SerialInit, SerialInv
  <1>2. IInv /\ SerialInv /\ [SerialNext]_<<vars, disturbed>> => IInv' /\ SerialInv'
    <2> SUFFICES ASSUME IInv, SerialInv, [SerialNext]_<<vars, disturbed>>
                 PROVE  IInv' /\ SerialInv'
      OBVIOUS
    <2>1. [Next]_vars
      BY DEF SerialNext
    <2>2. IInv'
      BY <2>1, IInvStep
    <2>3. disturbed' \in BOOLEAN
      BY DEF SerialInv, SerialNext
    <2>4. ASSUME ~ disturbed', SerialNext
          PROVE  TenantHasAdmin' /\ ~Disturbing' /\ UpdatesOK'
      <3>1. ~ disturbed /\ ~ Disturbing'
        BY <2>4 DEF SerialNext
      <3> QED
        BY <2>1, <3>1, SerialStep DEF SerialInv
    <2>5. CASE UNCHANGED <<vars, disturbed>>
      BY <2>2, <2>5 DEF vars, SerialInv, TenantHasAdmin, Admins, Rows, Disturbing, Acting,
                        UpdatesOK, UpdateOK
    <2> QED
      BY <2>2, <2>3, <2>4, <2>5 DEF SerialInv
  <1>3. SerialInv => SerialRequestsKeepAnAdmin
    BY DEF SerialInv, SerialRequestsKeepAnAdmin
  <1> QED
    BY <1>1, <1>2, <1>3, PTL DEF SerialSpec
=============================================================================
