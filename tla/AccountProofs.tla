----------------------------- MODULE AccountProofs -----------------------------
(* Proofs about the account that a browser holds tokens for, and about the     *)
(* directory of all accounts.  Account: for any number of browsers, any life   *)
(* of the tokens and any latency; what makes AnswersCatchUp inductive is the   *)
(* sum of the ticks since the row changed its answer and the ticks a token has *)
(* left.  Directory: for any rows, requests, seed entries and page sizes; what *)
(* makes PagesAreHonest inductive is which rows a walk has been through, by    *)
(* their place in the list, and which of those it has missed or will see again.*)
EXTENDS Account, Directory, FiniteSetTheorems, SequenceTheorems, TLAPS

TokensOK ==
    \A t \in tokens, route \in Routes :
       Accepts(t.claims, route) # Accepts(account, route) => since[route] + t.left <= Cap

JobsOK ==
    \A b \in Browsers, route \in Routes :
       job[b] # Idle /\ Accepts(job[b].claims, route) # Accepts(account, route)
          => since[route] <= job[b].age

\* Until a change is stored, nothing says that none is needed.
NoneOpened ==
    ~opened =>
       /\ account # Gone => account.mustChangePassword
       /\ \A t \in tokens : t.claims.mustChangePassword
       /\ \A b \in Browsers : job[b] # Idle => job[b].claims.mustChangePassword

\* What a change is about to sign.
ChangesOK == \A b \in Browsers : job[b].step = "sign" => ~job[b].claims.mustChangePassword

IInv == TypeOK /\ TokensOK /\ JobsOK /\ NoneOpened /\ ChangesOK
-----------------------------------------------------------------------------
\* A row that is stored, whatever it is, keeps what is known of tokens and
\* requests: where its answer is new, nothing has been counted yet.
LEMMA StoreKeeps ==
  ASSUME TypeOK, TokensOK, JobsOK, NEW c \in Claims \cup {Gone}, Store(c)
  PROVE  /\ account' \in Claims \cup {Gone}
         /\ since' \in [Routes -> 0..Cap]
         /\ \A t \in tokens, route \in Routes :
              Accepts(t.claims, route) # Accepts(account', route) => since'[route] + t.left <= Cap
         /\ \A b \in Browsers, route \in Routes :
              job[b] # Idle /\ Accepts(job[b].claims, route) # Accepts(account', route)
                => since'[route] <= job[b].age
<1> USE AccountAssumption
<1>0. Cap \in Nat /\ TokenLife <= Cap
  BY DEF Cap
<1>1. /\ account' = c
      /\ since' = [route \in Routes |->
                     IF Accepts(c, route) = Accepts(account, route) THEN since[route] ELSE 0]
  BY DEF Store
<1>2. since' \in [Routes -> 0..Cap]
  BY <1>0, <1>1 DEF TypeOK
<1>3. ASSUME NEW t \in tokens, NEW route \in Routes,
             Accepts(t.claims, route) # Accepts(c, route)
      PROVE  since'[route] + t.left <= Cap
  <2>1. t.left \in 1..TokenLife
    BY DEF TypeOK, Tokens
  <2>2. CASE Accepts(c, route) = Accepts(account, route)
    <3>1. since'[route] = since[route]
      BY <1>1, <2>2
    <3>2. Accepts(t.claims, route) # Accepts(account, route)
      BY <1>3, <2>2
    <3> QED BY <3>1, <3>2 DEF TokensOK
  <2>3. CASE Accepts(c, route) # Accepts(account, route)
    <3>1. since'[route] = 0
      BY <1>1, <2>3
    <3> QED BY <1>0, <2>1, <3>1
  <2> QED BY <2>2, <2>3
<1>4. ASSUME NEW b \in Browsers, NEW route \in Routes,
             job[b] # Idle, Accepts(job[b].claims, route) # Accepts(c, route)
      PROVE  since'[route] <= job[b].age
  <2>1. job[b].age \in 0..Latency
    BY <1>4 DEF TypeOK, Jobs
  <2>2. CASE Accepts(c, route) = Accepts(account, route)
    <3>1. since'[route] = since[route]
      BY <1>1, <2>2
    <3>2. Accepts(job[b].claims, route) # Accepts(account, route)
      BY <1>4, <2>2
    <3> QED BY <1>4, <3>1, <3>2 DEF JobsOK
  <2>3. CASE Accepts(c, route) # Accepts(account, route)
    <3>1. since'[route] = 0
      BY <1>1, <2>3
    <3> QED BY <2>1, <3>1
  <2> QED BY <2>2, <2>3
<1> QED BY <1>1, <1>2, <1>3, <1>4

\* Signing what a request has read keeps what is known of tokens.
LEMMA SignKeeps ==
  ASSUME IInv, NEW b \in Browsers, job[b] # Idle, Sign(b), UNCHANGED <<account, since>>
  PROVE  tokens' \subseteq Tokens /\ TokensOK'
<1> USE AccountAssumption
<1> DEFINE new == [claims |-> job[b].claims, left |-> TokenLife]
<1>1. tokens' = tokens \cup {new}
  BY DEF Sign
<1>2. new \in Tokens /\ job[b].age \in 0..Latency
  BY DEF IInv, TypeOK, Jobs, Tokens
<1>3. ASSUME NEW t \in tokens', NEW route \in Routes,
             Accepts(t.claims, route) # Accepts(account, route)
      PROVE  since[route] + t.left <= Cap
  <2>1. CASE t \in tokens
    BY <1>3, <2>1 DEF IInv, TokensOK
  <2>2. CASE t = new
    <3>1. since[route] <= job[b].age
      BY <1>3, <2>2 DEF IInv, JobsOK
    <3>2. since[route] \in 0..Cap
      BY DEF IInv, TypeOK
    <3> QED BY <1>2, <2>2, <3>1, <3>2 DEF Cap
  <2> QED BY <1>1, <2>1, <2>2
<1> QED BY <1>1, <1>2, <1>3 DEF IInv, TypeOK, TokensOK

LEMMA Initially == Init => IInv
<1> SUFFICES ASSUME Init PROVE IInv
  OBVIOUS
<1> USE AccountAssumption
<1>1. TypeOK
  <2>1. Cap \in 0..Cap
    BY DEF Cap
  <2> QED BY <2>1 DEF Init, TypeOK
<1>2. TokensOK /\ JobsOK /\ NoneOpened /\ ChangesOK
  BY DEF Init, TokensOK, JobsOK, NoneOpened, ChangesOK, Idle
<1> QED BY <1>1, <1>2 DEF IInv

\* A request that begins has read the row as it is.
LEMMA Reading ==
  ASSUME IInv, NEW b \in Browsers, NEW step \in {"login", "refresh", "change"},
         Read(b, step), UNCHANGED <<account, tokens, since, opened>>, sessions' \subseteq Browsers
  PROVE  IInv'
<1> USE AccountAssumption
<1>1. job' \in [Browsers -> Jobs \cup {Idle}]
  BY DEF IInv, TypeOK, Read, Jobs
<1>2. TypeOK' /\ TokensOK'
  BY <1>1 DEF IInv, TypeOK, TokensOK
<1>3. JobsOK'
  <2>1. ASSUME NEW d \in Browsers \ {b} PROVE job'[d] = job[d]
    BY DEF IInv, TypeOK, Read
  <2>2. job'[b] = [step |-> step, claims |-> account, age |-> 0]
    BY DEF IInv, TypeOK, Read
  <2> QED BY <2>1, <2>2 DEF IInv, JobsOK
<1>4. NoneOpened' /\ ChangesOK'
  BY DEF IInv, TypeOK, Read, NoneOpened, ChangesOK
<1> QED BY <1>2, <1>3, <1>4 DEF IInv

\* A request that ends takes its claims with it.
LEMMA Ending ==
  ASSUME IInv, NEW b \in Browsers, Finish(b), UNCHANGED <<account, since, opened>>
  PROVE  job' \in [Browsers -> Jobs \cup {Idle}] /\ JobsOK' /\ ChangesOK'
<1>1. \A d \in Browsers : job'[d] = job[d] \/ job'[d] = Idle
  BY DEF IInv, TypeOK, Finish
<1>2. job' \in [Browsers -> Jobs \cup {Idle}]
  BY DEF IInv, TypeOK, Finish
<1>3. JobsOK'
  BY <1>1 DEF IInv, JobsOK
<1>4. ChangesOK'
  BY <1>1 DEF IInv, ChangesOK, Idle
<1> QED BY <1>2, <1>3, <1>4

\* A request that signs and ends.
LEMMA Signing ==
  ASSUME IInv, NEW b \in Browsers, job[b] # Idle, Sign(b), Finish(b),
         UNCHANGED <<account, since, opened>>, sessions' \subseteq Browsers
  PROVE  IInv'
<1>1. tokens' \subseteq Tokens /\ TokensOK'
  BY SignKeeps
<1>2. job' \in [Browsers -> Jobs \cup {Idle}] /\ JobsOK' /\ ChangesOK'
  BY Ending
<1>3. TypeOK'
  BY <1>1, <1>2 DEF IInv, TypeOK
<1>4. NoneOpened'
  <2>1. \A d \in Browsers : job'[d] = job[d] \/ job'[d] = Idle
    BY DEF IInv, TypeOK, Finish
  <2> QED BY <2>1 DEF IInv, NoneOpened, Sign
<1> QED BY <1>1, <1>2, <1>3, <1>4 DEF IInv

\* A row that is stored outside the browsers' requests; before the first change
\* it asks for one.
LEMMA Storing ==
  ASSUME IInv, NEW c \in Claims \cup {Gone}, Store(c), c # Gone /\ ~opened => c.mustChangePassword,
         UNCHANGED <<tokens, job, opened>>, sessions' \subseteq Browsers
  PROVE  IInv'
<1>1. /\ account' \in Claims \cup {Gone}
      /\ since' \in [Routes -> 0..Cap]
      /\ TokensOK' /\ JobsOK'
  BY StoreKeeps DEF IInv, TokensOK, JobsOK
<1>2. TypeOK'
  BY <1>1 DEF IInv, TypeOK
<1>3. NoneOpened' /\ ChangesOK'
  BY DEF IInv, NoneOpened, ChangesOK, Store
<1> QED BY <1>1, <1>2, <1>3 DEF IInv

LEMMA Changing == ASSUME IInv, NEW b \in Browsers, Change(b) PROVE IInv'
<1> USE AccountAssumption
<1> DEFINE c == [account EXCEPT !.mustChangePassword = FALSE]
<1>1. c \in Claims /\ account \in Claims /\ ~c.mustChangePassword
  BY DEF IInv, TypeOK, Change, Claims
<1>2. Store(c) /\ account' = c
  BY DEF Change, Store
<1>3. /\ since' \in [Routes -> 0..Cap]
      /\ \A t \in tokens, route \in Routes :
           Accepts(t.claims, route) # Accepts(account', route) => since'[route] + t.left <= Cap
      /\ \A d \in Browsers, route \in Routes :
           job[d] # Idle /\ Accepts(job[d].claims, route) # Accepts(account', route)
             => since'[route] <= job[d].age
  BY <1>1, <1>2, StoreKeeps DEF IInv
<1>4. \A d \in Browsers : job'[d] = IF d = b THEN [step |-> "sign", claims |-> c, age |-> 0]
                                            ELSE job[d]
  BY <1>2 DEF IInv, TypeOK, Change
<1> HIDE DEF c
<1>5. job' \in [Browsers -> Jobs \cup {Idle}]
  BY <1>1, <1>4 DEF IInv, TypeOK, Change, Jobs
<1>6. TypeOK'
  BY <1>1, <1>2, <1>3, <1>5 DEF IInv, TypeOK, Change
<1>7. TokensOK'
  BY <1>3 DEF TokensOK, Change
<1>8. JobsOK'
  <2>1. ASSUME NEW d \in Browsers, NEW route \in Routes,
               job'[d] # Idle, Accepts(job'[d].claims, route) # Accepts(account', route)
        PROVE  since'[route] <= job'[d].age
    <3>1. CASE d = b
      <4>1. job'[d].claims = c
        BY <1>4, <3>1
      <4> QED BY <1>2, <2>1, <4>1
    <3>2. CASE d # b
      <4>1. job'[d] = job[d]
        BY <1>4, <3>2
      <4> QED BY <1>3, <2>1, <4>1
    <3> QED BY <3>1, <3>2
  <2> QED BY <2>1 DEF JobsOK
<1>9. NoneOpened'
  <2>1. opened' = TRUE
    BY DEF Change
  <2> QED BY <2>1, Zenon DEF NoneOpened
<1>10. ChangesOK'
  <2>1. ASSUME NEW d \in Browsers, job'[d].step = "sign" PROVE ~job'[d].claims.mustChangePassword
    <3>1. CASE d = b
      <4>1. job'[d].claims = c
        BY <1>4, <3>1
      <4> QED BY <1>1, <4>1
    <3>2. CASE d # b
      BY <1>4, <2>1, <3>2 DEF IInv, ChangesOK
    <3> QED BY <3>1, <3>2
  <2> QED BY <2>1 DEF ChangesOK
<1> QED BY <1>6, <1>7, <1>8, <1>9, <1>10 DEF IInv

\* Ticks: what a token has left goes down as what has been counted goes up.
LEMMA Ticking == ASSUME IInv, Tick PROVE IInv'
<1> USE AccountAssumption
<1>0. Cap \in Nat
  BY DEF Cap
<1>1. tokens' \subseteq Tokens
  BY DEF IInv, TypeOK, Tick, Unexpired, Tokens
<1>2. since' \in [Routes -> 0..Cap] /\ \A route \in Routes : since'[route] <= since[route] + 1
  BY <1>0 DEF IInv, TypeOK, Tick
<1>3. \A b \in Browsers :
        \/ job[b] = Idle /\ job'[b] = Idle
        \/ /\ job[b] # Idle
           /\ job[b] \in Jobs /\ job'[b] \in Jobs
           /\ job'[b].step = job[b].step /\ job'[b].claims = job[b].claims
           /\ job'[b].age = job[b].age + 1
  BY DEF IInv, TypeOK, Tick, Jobs
<1>4. TypeOK'
  <2>1. job' \in [Browsers -> Jobs \cup {Idle}]
    BY <1>3 DEF IInv, TypeOK, Tick
  <2> QED BY <1>1, <1>2, <2>1 DEF IInv, TypeOK, Tick
<1>5. TokensOK'
  <2>1. ASSUME NEW t \in tokens', NEW route \in Routes,
               Accepts(t.claims, route) # Accepts(account, route)
        PROVE  since'[route] + t.left <= Cap
    <3>1. PICK u \in tokens : t = [u EXCEPT !.left = @ - 1]
      BY DEF Tick, Unexpired
    <3>2. u \in Tokens /\ t.claims = u.claims /\ t.left = u.left - 1
      BY <3>1 DEF IInv, TypeOK, Tokens
    <3>3. since[route] + u.left <= Cap
      BY <2>1, <3>2 DEF IInv, TokensOK
    <3>4. since[route] \in Nat /\ since'[route] \in Nat /\ u.left \in Nat
      BY <1>0, <1>2, <3>2 DEF IInv, TypeOK, Tokens
    <3> QED BY <1>0, <1>2, <3>2, <3>3, <3>4
  <2> QED BY <2>1 DEF TokensOK, Tick
<1>6. JobsOK'
  <2>1. ASSUME NEW b \in Browsers, NEW route \in Routes,
               job'[b] # Idle, Accepts(job'[b].claims, route) # Accepts(account, route)
        PROVE  since'[route] <= job'[b].age
    <3>1. /\ job[b] # Idle /\ job[b] \in Jobs /\ job'[b].claims = job[b].claims
          /\ job'[b].age = job[b].age + 1
      BY <1>3, <2>1
    <3>2. since[route] <= job[b].age
      BY <2>1, <3>1 DEF IInv, JobsOK
    <3>3. since[route] \in Nat /\ since'[route] \in Nat /\ job[b].age \in Nat
      BY <1>0, <1>2, <3>1 DEF IInv, TypeOK, Jobs
    <3> QED BY <1>2, <3>1, <3>2, <3>3
  <2> QED BY <2>1 DEF JobsOK, Tick
<1>7. NoneOpened' /\ ChangesOK'
  <2>1. \A t \in tokens' : \E u \in tokens : t.claims = u.claims
    BY DEF IInv, TypeOK, Tokens, Tick, Unexpired
  <2> QED BY <1>3, <2>1 DEF IInv, NoneOpened, ChangesOK, Tick, Idle
<1> QED BY <1>4, <1>5, <1>6, <1>7 DEF IInv
-----------------------------------------------------------------------------
LEMMA Inductive == IInv /\ [Next]_vars => IInv'
<1> SUFFICES ASSUME IInv, [Next]_vars PROVE IInv'
  OBVIOUS
<1>1. ASSUME NEW b \in Browsers, StartLogin(b) PROVE IInv'
  BY <1>1, Reading DEF StartLogin, IInv, TypeOK
<1>2. ASSUME NEW b \in Browsers, StartRefresh(b) PROVE IInv'
  BY <1>2, Reading DEF StartRefresh, IInv, TypeOK
<1>3. ASSUME NEW b \in Browsers, StartChange(b) PROVE IInv'
  BY <1>3, Reading DEF StartChange, IInv, TypeOK
<1>4. ASSUME NEW b \in Browsers, Login(b) PROVE IInv'
  BY <1>4, Signing DEF Login, IInv, TypeOK, Idle
<1>5. ASSUME NEW b \in Browsers, Refresh(b) PROVE IInv'
  BY <1>5, Signing DEF Refresh, IInv, TypeOK, Idle
<1>6. ASSUME NEW b \in Browsers, Change(b) PROVE IInv'
  BY <1>6, Changing
<1>7. ASSUME NEW b \in Browsers, AnswerChange(b) PROVE IInv'
  BY <1>7, Signing DEF AnswerChange, IInv, TypeOK, Idle
<1>8. ASSUME NEW b \in Browsers, Fail(b) PROVE IInv'
  <2>1. job' \in [Browsers -> Jobs \cup {Idle}] /\ JobsOK' /\ ChangesOK'
    BY <1>8, Ending DEF Fail
  <2>2. TypeOK' /\ TokensOK'
    BY <1>8, <2>1 DEF IInv, TypeOK, TokensOK, Fail
  <2>3. NoneOpened'
    <3>1. \A d \in Browsers : job'[d] = job[d] \/ job'[d] = Idle
      BY <1>8 DEF IInv, TypeOK, Fail, Finish
    <3> QED BY <1>8, <3>1 DEF IInv, NoneOpened, Fail
  <2> QED BY <2>1, <2>2, <2>3 DEF IInv
<1>9. ASSUME NEW b \in Browsers, Logout(b) \/ EndSession(b) PROVE IInv'
  BY <1>9 DEF Logout, EndSession, IInv, TypeOK, TokensOK, JobsOK, NoneOpened, ChangesOK
<1>10. CASE ResetPassword
  <2> DEFINE c == [account EXCEPT !.mustChangePassword = TRUE]
  <2>1. c \in Claims /\ c.mustChangePassword
    BY <1>10 DEF IInv, TypeOK, ResetPassword, Claims
  <2>2. Store(c) /\ UNCHANGED <<tokens, job, opened>> /\ sessions' \subseteq Browsers
    BY <1>10 DEF IInv, TypeOK, ResetPassword
  <2> HIDE DEF c
  <2> QED BY <2>1, <2>2, Storing
<1>11. ASSUME NEW newRole \in Roles, ChangeRole(newRole) PROVE IInv'
  <2> DEFINE c == [account EXCEPT !.role = newRole]
  <2>1. c \in Claims /\ c.mustChangePassword = account.mustChangePassword /\ account # Gone
    BY <1>11 DEF IInv, TypeOK, ChangeRole, Claims
  <2>2. Store(c) /\ UNCHANGED <<tokens, job, opened>> /\ sessions' \subseteq Browsers
    BY <1>11 DEF IInv, TypeOK, ChangeRole
  <2>3. ~opened => c.mustChangePassword
    BY <2>1 DEF IInv, NoneOpened
  <2> HIDE DEF c
  <2> QED BY <2>1, <2>2, <2>3, Storing
<1>12. CASE RemoveUser
  BY <1>12, Storing DEF RemoveUser
<1>13. CASE Crash
  BY <1>13 DEF Crash, IInv, TypeOK, TokensOK, JobsOK, NoneOpened, ChangesOK, Idle
<1>14. CASE Tick
  BY <1>14, Ticking
<1>15. CASE UNCHANGED vars
  BY <1>15 DEF vars, IInv, TypeOK, TokensOK, JobsOK, NoneOpened, ChangesOK
<1> QED BY <1>1, <1>2, <1>3, <1>4, <1>5, <1>6, <1>7, <1>8, <1>9, <1>10, <1>11, <1>12, <1>13,
           <1>14, <1>15 DEF Next, Step
-----------------------------------------------------------------------------
THEOREM Invariance == Spec => []IInv
<1> QED BY Initially, Inductive, PTL DEF Spec

\* The types hold for every life of a token and every latency.
THEOREM TypeCorrect == Spec => []TypeOK
<1>1. IInv => TypeOK
  BY DEF IInv
<1> QED BY <1>1, Invariance, PTL

\* What the guards answer is out of date for less than the life of a token and
\* the latency of a request together.
THEOREM CaughtUp == Spec => []AnswersCatchUp
<1>1. IInv => AnswersCatchUp
  <2> SUFFICES ASSUME IInv, NEW t \in tokens, NEW route \in Routes,
                      Accepts(t.claims, route) # Accepts(account, route)
               PROVE  since[route] < Cap
    BY DEF AnswersCatchUp
  <2>1. since[route] + t.left <= Cap
    BY DEF IInv, TokensOK
  <2>2. since[route] \in 0..Cap /\ t.left \in 1..TokenLife /\ Cap \in Nat
    BY AccountAssumption DEF IInv, TypeOK, Tokens, Cap
  <2> QED BY <2>1, <2>2
<1> QED BY <1>1, Invariance, PTL

\* No token of a new account opens a route until its password is changed.
THEOREM NewGated == Spec => []NewAccountsAreGated
<1>1. IInv => NewAccountsAreGated
  BY DEF IInv, NoneOpened, NewAccountsAreGated, Accepts, MustChangePasswordGuard, Public,
         SkipPasswordCheck
<1> QED BY <1>1, Invariance, PTL

\* Every change of the password is answered with a token that opens the gate.
THEOREM ChangeOpens == Spec => ChangeOpensTheGate
<1>1. IInv => AnswersOpen
  <2> SUFFICES ASSUME IInv, NEW b \in Browsers, AnswerChange(b)
               PROVE  \E t \in tokens' : t.left = TokenLife /\ Accepts(t.claims, "tickets")
    BY DEF AnswersOpen
  <2> DEFINE new == [claims |-> job[b].claims, left |-> TokenLife]
  <2>1. new \in tokens'
    BY DEF AnswerChange, Sign
  <2>2. job[b].claims \in Claims /\ ~job[b].claims.mustChangePassword
    BY DEF IInv, TypeOK, ChangesOK, AnswerChange, Jobs, Idle
  <2>3. Accepts(job[b].claims, "tickets")
    BY <2>2, AccountAssumption DEF Accepts, JwtAuthGuard, RolesGuard, MustChangePasswordGuard, RolesOf,
       Claims
  <2> QED BY <2>1, <2>3
<1> QED BY <1>1, Invariance, PTL DEF Spec, ChangeOpensTheGate
-----------------------------------------------------------------------------
\* What a request is about to do, with all its fields.
UserWork == [op : {"user"}, account : {a \in Accounts : a.live /\ a.role # "SUPER_ADMIN"}]
TenantWork == [op : {"tenant"}, account : {a \in Accounts : a.live /\ a.role = "ADMIN"}]
UpdateWork == [op : {"update"}, user : Nat, email : Emails]
RemoveWork == [op : {"remove"}, user : Nat]

RowsTyped ==
    /\ tenants \in [Tenants -> {"none", "api", "demo"}]
    /\ users \in Seq(Accounts) /\ Len(users) <= MaxUsers

AllWork == {NoWork} \cup UserWork \cup TenantWork \cup UpdateWork \cup RemoveWork
              \cup Walks \cup Walked \cup Seeds \cup Demos

WorkTyped == work \in [Requests -> AllWork]

AddressesDiffer == \A i, k \in Live : users[i].email = users[k].email => i = k

\* Super Admins are of no tenant: no request of the API reaches them.
SuperAdminsApart == \A i \in Ids : users[i].role = "SUPER_ADMIN" => users[i].tenant = NoTenant

MemberOK(j) == j.op \in {"update", "remove"} => j.user \in Ids /\ users[j.user].tenant # NoTenant

\* What a seed has behind it.
SeedOK(j) ==
    j.op = "seed" =>
       /\ j.next <= Len(SeedEntries)
       /\ \A n \in DOMAIN SeedEntries :
            n < j.next \/ j.ok => IsSuperAdmin(SeedEntries[n]) \/ SeedEntries[n] \in j.skipped
       /\ j.settled => /\ \A n \in DOMAIN SeedEntries : IsSuperAdmin(SeedEntries[n])
                       /\ j.step # "create" /\ (j.step = "done" => j.ok)

\* The place of u in a list of X by at.
Place(X, at, u) == Cardinality({v \in X : at[v] <= at[u]})
Stamp == [i \in Ids |-> users[i].at]
Untied(t) == \A i, k \in Of(t) : users[i].at = users[k].at => i = k

\* How many rows a walk has been through, and among them those it has missed;
\* those it will see again.
Through(j) == IF j.step = "page" THEN (j.page - 1) * j.size ELSE j.page * j.size
PassedIn(X, at, K, S, m) == {u \in K \ S : Place(X, at, u) <= m}
AheadIn(X, at, S, m) == {u \in S \cap X : Place(X, at, u) > m}
Passed(j) == PassedIn(Of(j.tenant), Stamp, j.kept, j.shown, Through(j))
Ahead(j) == AheadIn(Of(j.tenant), Stamp, j.shown, Through(j))
LateIn(X, at, N, bt) == {i \in N : \E x \in X : at[x] > bt[i]}

WalkOK(j) ==
    j.op = "walk" /\ ~j.tied =>
       /\ Untied(j.tenant)
       /\ j.kept \subseteq Of(j.tenant) /\ j.shown \subseteq Ids
       /\ Cardinality(Passed(j)) <= j.removed
       /\ j.repeats + Cardinality(Ahead(j)) <= j.late

WalkedOK(j) == j.op = "walked" /\ ~j.tied => j.missed <= j.removed /\ j.repeats <= j.late

WorkOK(j) == MemberOK(j) /\ SeedOK(j) /\ WalkOK(j) /\ WalkedOK(j)
AllWorkOK == \A r \in Requests : WorkOK(work[r])

DirectoryInv ==
    /\ RowsTyped /\ WorkTyped
    /\ AddressesDiffer /\ SuperAdminsApart /\ AllWorkOK /\ FirstAdmins
-----------------------------------------------------------------------------
\* What a request is, from what it is about to do.
LEMMA WorkKinds ==
    ASSUME WorkTyped, NEW r \in Requests
    PROVE  /\ work[r] \in AllWork
           /\ work[r] = NoWork => work[r].op = "idle"
           /\ work[r].op = "user" => work[r] \in UserWork
           /\ work[r].op = "tenant" => work[r] \in TenantWork
           /\ work[r].op = "update" => work[r] \in UpdateWork
           /\ work[r].op = "remove" => work[r] \in RemoveWork
           /\ work[r].op = "walk" => work[r] \in Walks
           /\ work[r].op = "walked" => work[r] \in Walked
           /\ work[r].op = "seed" => work[r] \in Seeds
           /\ work[r].op = "demo" => work[r] \in Demos
BY DEF WorkTyped, AllWork, NoWork, UserWork, TenantWork, UpdateWork, RemoveWork,
       Walks, Walked, Seeds, Demos

\* What a statement does to the rows: it adds some, of one tenant and one time,
\* each with an address of its own; it changes an address; or it deletes a row.
RowsAdded ==
    /\ users' \in Seq(Accounts) /\ Len(users) <= Len(users') /\ Len(users') <= MaxUsers
    /\ \A i \in Ids : users'[i] = users[i]
    /\ \A i \in Ids' \ Ids : /\ users'[i].live /\ ~Taken(users'[i].email)
                             /\ users'[i].role = "SUPER_ADMIN" => users'[i].tenant = NoTenant
    /\ \A i, k \in Ids' \ Ids :
          /\ users'[i].email = users'[k].email => i = k
          /\ users'[i].tenant = users'[k].tenant /\ users'[i].at = users'[k].at

RowEdited ==
    \E u \in Live, e \in Emails :
       /\ users[u].tenant # NoTenant
       /\ ~Taken(e) \/ users[u].email = e
       /\ users' = [users EXCEPT ![u] = [users[u] EXCEPT !.email = e]]

RowDropped ==
    \E u \in Ids :
       /\ users[u].tenant # NoTenant
       /\ users' = [users EXCEPT ![u] = [users[u] EXCEPT !.live = FALSE, !.at = 0]]

\* One row more.
LEMMA OneRowAdded ==
    ASSUME RowsTyped, NEW a \in Accounts, CanStore({a.email}), a.live,
           a.role = "SUPER_ADMIN" => a.tenant = NoTenant,
           users' = Append(users, a)
    PROVE  RowsAdded
<1>1. Len(users) + 1 <= MaxUsers /\ ~Taken(a.email)
  BY FS_Singleton DEF CanStore
<1>2. /\ users' \in Seq(Accounts) /\ Len(users') = Len(users) + 1 /\ Len(users) \in Nat
      /\ \A i \in 1..Len(users) : users'[i] = users[i]
      /\ users'[Len(users) + 1] = a
  BY AppendProperties, LenProperties DEF RowsTyped
<1>3. Ids' \ Ids = {Len(users) + 1}
  BY <1>2 DEF Ids
<1> QED BY <1>1, <1>2, <1>3 DEF RowsAdded, Ids

\* Nothing is added.
LEMMA NoRowAdded ==
    ASSUME RowsTyped, users' = users
    PROVE  RowsAdded
<1>1. Len(users) \in Nat
  BY LenProperties DEF RowsTyped
<1> QED BY <1>1 DEF RowsTyped, RowsAdded, Ids

\* The rows of one createMany.
LEMMA ManyRowsAdded ==
    ASSUME RowsTyped, WorkTyped, NEW r \in Requests, CreateMany(r)
    PROVE  RowsAdded
<1>1. Len(users) \in Nat
  BY LenProperties DEF RowsTyped
<1>2. work[r] \in Demos
  BY WorkKinds DEF CreateMany
<1>3. CASE ~CanStore(DemoUsers)
  BY <1>3, NoRowAdded DEF CreateMany
<1>4. CASE CanStore(DemoUsers)
  <2> DEFINE n == Cardinality(DemoUsers)
  <2>1. n \in Nat
    BY FS_CardinalityType, DirectoryAssumption
  <2>2. PICK order \in [1..n -> DemoUsers], admins \in 1..n :
           /\ \A i, k \in DOMAIN order : order[i] = order[k] => i = k
           /\ users' = users \o [i \in DOMAIN order |->
                Account(order[i], work[r].tenant, IF i <= admins THEN "ADMIN" ELSE "ANALYST",
                        i > admins, work[r].at)]
    BY <1>4 DEF CreateMany
  <2> DEFINE new == [i \in 1..n |->
                Account(order[i], work[r].tenant, IF i <= admins THEN "ADMIN" ELSE "ANALYST",
                        i > admins, work[r].at)]
  <2>3. \A i \in 1..n : /\ new[i] \in Accounts /\ new[i].live /\ new[i].role # "SUPER_ADMIN"
                        /\ new[i].email = order[i]
                        /\ new[i].tenant = work[r].tenant /\ new[i].at = work[r].at
    <3> SUFFICES ASSUME NEW i \in 1..n
                 PROVE  /\ new[i] \in Accounts /\ new[i].live /\ new[i].role # "SUPER_ADMIN"
                        /\ new[i].email = order[i]
                        /\ new[i].tenant = work[r].tenant /\ new[i].at = work[r].at
      OBVIOUS
    <3>1. order[i] \in Emails /\ work[r].tenant \in Tenants \cup {NoTenant} /\ work[r].at \in 0..MaxTime
      BY <1>2, DirectoryAssumption DEF Demos
    <3> DEFINE role == IF i <= admins THEN "ADMIN" ELSE "ANALYST"
               level == i > admins
    <3>2. role \in UserRole /\ role # "SUPER_ADMIN"
      BY DEF UserRole
    <3>3. \/ level = TRUE /\ role = "ANALYST"
          \/ level = FALSE /\ role # "ANALYST"
      BY <2>1
    <3>4. new[i] = [email |-> order[i], tenant |-> work[r].tenant, role |-> role,
                    level |-> level, at |-> work[r].at, live |-> TRUE]
      BY DEF Account
    <3> HIDE DEF role, level, new, n
    <3>5. new[i].level = level /\ new[i].role = role
      BY <3>4
    <3>6. level \in BOOLEAN
      BY <3>3
    <3>7. LevelFits(new[i])
      BY <3>3, <3>5 DEF LevelFits
    <3> QED BY <3>1, <3>2, <3>4, <3>6, <3>7 DEF Accounts
  <2>4. users' = users \o new
    BY <2>2
  <2> HIDE DEF new, n
  <2>5. new \in Seq(Accounts) /\ Len(new) = n
    <3>1. new \in [1..n -> Accounts]
      BY <2>3 DEF new
    <3> QED BY <2>1, <3>1, SeqDef, LenProperties
  <2>6. /\ users' \in Seq(Accounts) /\ Len(users') = Len(users) + n
        /\ \A i \in 1..Len(users) : users'[i] = users[i]
        /\ \A i \in (Len(users) + 1)..(Len(users) + n) :
              i - Len(users) \in 1..n /\ users'[i] = new[i - Len(users)]
    BY <1>1, <2>1, <2>4, <2>5, ConcatProperties DEF RowsTyped
  <2>7. Ids' \ Ids = (Len(users) + 1)..(Len(users) + n)
    BY <1>1, <2>1, <2>6 DEF Ids
  <2>8. Len(users) + n <= MaxUsers /\ \A e \in DemoUsers : ~Taken(e)
    BY <1>4 DEF CanStore, n
  <2>9. \A i, k \in 1..n : order[i] = order[k] => i = k
    BY <2>2
  <2>10. ASSUME NEW i \in Ids' \ Ids
         PROVE  /\ users'[i].live /\ ~Taken(users'[i].email)
                /\ users'[i].role = "SUPER_ADMIN" => users'[i].tenant = NoTenant
    BY <1>1, <2>1, <2>3, <2>6, <2>7, <2>8
  <2>11. ASSUME NEW i \in Ids' \ Ids, NEW k \in Ids' \ Ids
         PROVE  /\ users'[i].email = users'[k].email => i = k
                /\ users'[i].tenant = users'[k].tenant /\ users'[i].at = users'[k].at
    <3>1. i - Len(users) \in 1..n /\ k - Len(users) \in 1..n
      BY <2>6, <2>7
    <3>2. i \in Int /\ k \in Int
      BY <1>1, <2>1, <2>7
    <3> QED BY <1>1, <2>3, <2>6, <2>7, <2>9, <3>1, <3>2
  <2> QED BY <1>1, <2>1, <2>6, <2>8, <2>10, <2>11 DEF RowsAdded, Ids
<1> QED BY <1>3, <1>4
-----------------------------------------------------------------------------
\* Every statement is one of the three.
LEMMA Effects ==
    DirectoryInv /\ [DirectoryNext]_directoryVars => RowsAdded \/ RowEdited \/ RowDropped
<1> SUFFICES ASSUME RowsTyped, WorkTyped, AllWorkOK, [DirectoryNext]_directoryVars
             PROVE  RowsAdded \/ RowEdited \/ RowDropped
  BY DEF DirectoryInv
<1>1. ASSUME NEW r \in Requests, StoreUser(r) PROVE RowsAdded
  <2>1. work[r] \in UserWork
    BY <1>1, WorkKinds DEF StoreUser
  <2>2. work[r].account \in Accounts /\ work[r].account.live /\ work[r].account.role # "SUPER_ADMIN"
    BY <2>1 DEF UserWork
  <2> QED BY <1>1, <2>2, OneRowAdded, NoRowAdded DEF StoreUser
<1>2. ASSUME NEW r \in Requests, StoreTenant(r) PROVE RowsAdded
  <2>1. work[r] \in TenantWork
    BY <1>2, WorkKinds DEF StoreTenant
  <2>2. work[r].account \in Accounts /\ work[r].account.live /\ work[r].account.role # "SUPER_ADMIN"
    BY <2>1 DEF TenantWork
  <2> QED BY <1>2, <2>2, OneRowAdded, NoRowAdded DEF StoreTenant
<1>3. ASSUME NEW r \in Requests, StoreUpdate(r) PROVE RowsAdded \/ RowEdited
  <2> DEFINE u == work[r].user
             e == work[r].email
  <2>1. e \in Emails /\ u \in Ids /\ users[u].tenant # NoTenant
    BY <1>3, WorkKinds DEF StoreUpdate, UpdateWork, AllWorkOK, WorkOK, MemberOK
  <2>2. CASE users[u].live /\ (Taken(e) => users[u].email = e)
    <3>1. users' = [users EXCEPT ![u] = [users[u] EXCEPT !.email = e]]
      BY <1>3, <2>2 DEF StoreUpdate
    <3> QED BY <2>1, <2>2, <3>1 DEF RowEdited, Live
  <2>3. CASE ~(users[u].live /\ (Taken(e) => users[u].email = e))
    BY <1>3, <2>3, NoRowAdded DEF StoreUpdate
  <2> QED BY <2>2, <2>3
<1>4. ASSUME NEW r \in Requests, DeleteRow(r) PROVE RowDropped
  <2>1. work[r].user \in Ids /\ users[work[r].user].tenant # NoTenant
    BY <1>4 DEF DeleteRow, AllWorkOK, WorkOK, MemberOK
  <2>2. users' = [users EXCEPT ![work[r].user] =
                    [users[work[r].user] EXCEPT !.live = FALSE, !.at = 0]]
    BY <1>4 DEF DeleteRow
  <2> QED BY <2>1, <2>2 DEF RowDropped
<1>5. ASSUME NEW r \in Requests, CreateSuperAdmin(r) PROVE RowsAdded
  <2> DEFINE e == SeedEntries[work[r].next]
             a == Account(e, NoTenant, "SUPER_ADMIN", FALSE, 0)
  <2>1. work[r] \in Seeds
    BY <1>5, WorkKinds DEF CreateSuperAdmin
  <2>2. ASSUME CanStore({e}) PROVE RowsAdded
    <3>1. 0 \in 0..MaxTime
      BY DirectoryAssumption
    <3>2. e \in Emails
      <4>1. work[r].next \in 1..Len(SeedEntries)
        BY <1>5, <2>1, LenProperties, DirectoryAssumption DEF CreateSuperAdmin, AllWorkOK, WorkOK, SeedOK,
                                                                    Seeds
      <4> QED BY <4>1, ElementOfSeq, DirectoryAssumption
    <3>3. a \in Accounts /\ a.email = e /\ a.tenant = NoTenant /\ a.live
      <4> HIDE DEF e
      <4> QED BY <3>1, <3>2 DEF UserRole, Account, Accounts, LevelFits
    <3>4. users' = Append(users, a)
      BY <1>5, <2>2 DEF CreateSuperAdmin
    <3> QED BY <2>2, <3>3, <3>4, OneRowAdded
  <2> QED BY <1>5, <2>2, NoRowAdded DEF CreateSuperAdmin
<1>6. ASSUME NEW r \in Requests, CreateDemoAdmin(r) PROVE RowsAdded
  <2> DEFINE a == Account(DemoAdmin, NoTenant, "INTEGRATION_ADMIN", FALSE, 0)
  <2>1. 0 \in 0..MaxTime
    BY DirectoryAssumption
  <2>2. a \in Accounts /\ a.email = DemoAdmin /\ a.live /\ a.role = "INTEGRATION_ADMIN"
    BY <2>1, DirectoryAssumption DEF UserRole, Account, Accounts, LevelFits
  <2>3. users' = IF CanStore({DemoAdmin}) THEN Append(users, a) ELSE users
    BY <1>6 DEF CreateDemoAdmin
  <2> HIDE DEF a
  <2> QED BY <2>2, <2>3, OneRowAdded, NoRowAdded
<1>7. ASSUME UNCHANGED users PROVE RowsAdded
  BY <1>7, NoRowAdded
<1> QED
  BY <1>1, <1>2, <1>3, <1>4, <1>5, <1>6, <1>7, ManyRowsAdded
  DEF DirectoryNext, Proceed, CreateUser, CreateTenant, UpdateUser, DeleteUser, StartSeed,
      SeedTenant, StartWalk, Leave, FindEntry, ReadPage, CountRows, Become, directoryVars

\* One row is written over.
LEMMA RowWritten ==
    ASSUME RowsTyped, NEW u \in Ids, NEW a \in Accounts, users' = [users EXCEPT ![u] = a]
    PROVE  /\ users' \in Seq(Accounts) /\ Len(users') = Len(users) /\ Ids' = Ids
           /\ users'[u] = a
           /\ \A i \in Ids : i # u => users'[i] = users[i]
BY ExceptSeq DEF RowsTyped, Ids

\* The row that is edited, and the one that is dropped.
LEMMA RowIs ==
    ASSUME RowsTyped, NEW u \in Ids
    PROVE  /\ users[u] \in Accounts
           /\ \A e \in Emails :
                LET a == [users[u] EXCEPT !.email = e] IN
                /\ a \in Accounts /\ a.email = e
                /\ a.tenant = users[u].tenant /\ a.role = users[u].role
                /\ a.at = users[u].at /\ a.live = users[u].live
           /\ LET a == [users[u] EXCEPT !.live = FALSE, !.at = 0] IN
                /\ a \in Accounts /\ a.email = users[u].email
                /\ a.tenant = users[u].tenant /\ a.role = users[u].role
                /\ ~a.live
<1>1. users[u] \in Accounts
  BY ElementOfSeq DEF RowsTyped, Ids
<1>2. 0 \in 0..MaxTime
  BY DirectoryAssumption
<1> QED BY <1>1, <1>2 DEF Accounts, LevelFits

\* Rows stay, whose they are stays, and a row of no tenant stays as it is.
RowsStay ==
    /\ users' \in Seq(Accounts) /\ Len(users') <= MaxUsers /\ Ids \subseteq Ids'
    /\ \A i \in Ids : users'[i].role = users[i].role /\ users'[i].tenant = users[i].tenant
    /\ \A i \in Live : users[i].tenant = NoTenant => i \in Live' /\ users'[i].email = users[i].email

LEMMA Staying ==
    ASSUME RowsTyped, RowsAdded \/ RowEdited \/ RowDropped
    PROVE  RowsStay
<1>1. Len(users) \in Nat /\ MaxUsers \in Nat
  BY LenProperties, DirectoryAssumption DEF RowsTyped
<1>2. CASE RowsAdded
  <2>1. Len(users') \in Nat /\ Ids \subseteq Ids'
    BY <1>1, <1>2, LenProperties DEF RowsAdded, Ids
  <2> QED BY <1>2, <2>1 DEF RowsAdded, RowsStay, Live
<1>3. CASE RowEdited
  <2>1. PICK u \in Live, e \in Emails :
           /\ users[u].tenant # NoTenant
           /\ users' = [users EXCEPT ![u] = [users[u] EXCEPT !.email = e]]
    BY <1>3 DEF RowEdited
  <2> DEFINE a == [users[u] EXCEPT !.email = e]
  <2>2. u \in Ids /\ a \in Accounts /\ a.tenant = users[u].tenant /\ a.role = users[u].role
    BY <2>1, RowIs DEF Live
  <2> HIDE DEF a
  <2>3. /\ users' \in Seq(Accounts) /\ Len(users') = Len(users) /\ Ids' = Ids /\ users'[u] = a
        /\ \A i \in Ids : i # u => users'[i] = users[i]
    BY <2>1, <2>2, RowWritten DEF a
  <2>4. /\ \A i \in Ids : users'[i].role = users[i].role /\ users'[i].tenant = users[i].tenant
        /\ \A i \in Ids : users[i].tenant = NoTenant => users'[i] = users[i]
    BY <2>1, <2>2, <2>3
  <2> QED BY <1>1, <2>3, <2>4 DEF RowsStay, RowsTyped, Live
<1>4. CASE RowDropped
  <2>1. PICK u \in Ids :
           /\ users[u].tenant # NoTenant
           /\ users' = [users EXCEPT ![u] = [users[u] EXCEPT !.live = FALSE, !.at = 0]]
    BY <1>4 DEF RowDropped
  <2> DEFINE a == [users[u] EXCEPT !.live = FALSE, !.at = 0]
  <2>2. a \in Accounts /\ a.tenant = users[u].tenant /\ a.role = users[u].role
    BY <2>1, RowIs
  <2> HIDE DEF a
  <2>3. /\ users' \in Seq(Accounts) /\ Len(users') = Len(users) /\ Ids' = Ids /\ users'[u] = a
        /\ \A i \in Ids : i # u => users'[i] = users[i]
    BY <2>1, <2>2, RowWritten DEF a
  <2>4. /\ \A i \in Ids : users'[i].role = users[i].role /\ users'[i].tenant = users[i].tenant
        /\ \A i \in Ids : users[i].tenant = NoTenant => users'[i] = users[i]
    BY <2>1, <2>2, <2>3
  <2> QED BY <1>1, <2>3, <2>4 DEF RowsStay, RowsTyped, Live
<1> QED BY <1>2, <1>3, <1>4

\* Once an address is a Super Admin's, it stays so.
LEMMA SuperAdminsStay ==
    ASSUME SuperAdminsApart, RowsStay, NEW e, IsSuperAdmin(e)
    PROVE  IsSuperAdmin(e)'
<1>1. PICK i \in Live : users[i].email = e /\ users[i].role = "SUPER_ADMIN"
  BY DEF IsSuperAdmin
<1>2. i \in Ids /\ users[i].tenant = NoTenant
  BY <1>1 DEF SuperAdminsApart, Live
<1>3. i \in Live' /\ users'[i].email = e /\ users'[i].role = "SUPER_ADMIN"
  BY <1>1, <1>2 DEF RowsStay
<1> QED BY <1>3 DEF IsSuperAdmin

LEMMA StepApart == DirectoryInv /\ [DirectoryNext]_directoryVars => SuperAdminsApart'
<1> SUFFICES ASSUME RowsTyped, SuperAdminsApart, RowsAdded \/ RowEdited \/ RowDropped
             PROVE  SuperAdminsApart'
  BY Effects DEF DirectoryInv
<1>1. CASE RowsAdded
  BY <1>1 DEF RowsAdded, SuperAdminsApart, Ids
<1>2. CASE RowEdited \/ RowDropped
  <2>1. Ids' = Ids
    BY <1>2, RowIs, RowWritten DEF RowEdited, RowDropped, Live
  <2> QED BY <2>1, Staying DEF RowsStay, SuperAdminsApart
<1> QED BY <1>1, <1>2

\* The unique index: no two accounts have one address.
LEMMA StepAddresses == DirectoryInv /\ [DirectoryNext]_directoryVars => AddressesDiffer'
<1> SUFFICES ASSUME RowsTyped, AddressesDiffer, RowsAdded \/ RowEdited \/ RowDropped
             PROVE  AddressesDiffer'
  BY Effects DEF DirectoryInv
<1>1. CASE RowsAdded
  <2> SUFFICES ASSUME NEW i \in Live', NEW k \in Live', users'[i].email = users'[k].email
               PROVE  i = k
    BY DEF AddressesDiffer
  <2>1. i \in Ids' /\ k \in Ids'
    BY DEF Live
  <2>2. \A x \in {i, k} : x \in Ids => x \in Live /\ Taken(users'[x].email)
    BY <1>1 DEF RowsAdded, Live, Taken
  <2>3. i \in Ids <=> k \in Ids
    BY <1>1, <2>1, <2>2 DEF RowsAdded
  <2> QED BY <1>1, <2>1, <2>2, <2>3 DEF RowsAdded, AddressesDiffer
<1>2. CASE RowEdited
  <2>1. PICK u \in Live, e \in Emails :
           /\ ~Taken(e) \/ users[u].email = e
           /\ users' = [users EXCEPT ![u] = [users[u] EXCEPT !.email = e]]
    BY <1>2 DEF RowEdited
  <2> DEFINE a == [users[u] EXCEPT !.email = e]
  <2>2. u \in Ids /\ a \in Accounts /\ a.email = e /\ a.live
    BY RowIs DEF Live
  <2> HIDE DEF a
  <2>3. /\ users'[u] = a /\ Ids' = Ids
        /\ \A i \in Ids : i # u => users'[i] = users[i]
    BY <2>1, <2>2, RowWritten DEF a
  <2>4. /\ Live' = Live /\ users'[u].email = e
        /\ \A i \in Live : i # u => users'[i].email = users[i].email
    BY <2>2, <2>3 DEF Live
  <2> QED BY <2>1, <2>4 DEF AddressesDiffer, Taken
<1>3. CASE RowDropped
  <2>1. PICK u \in Ids : users' = [users EXCEPT ![u] = [users[u] EXCEPT !.live = FALSE, !.at = 0]]
    BY <1>3 DEF RowDropped
  <2> DEFINE a == [users[u] EXCEPT !.live = FALSE, !.at = 0]
  <2>2. a \in Accounts /\ ~a.live
    BY RowIs
  <2> HIDE DEF a
  <2>3. /\ users'[u] = a /\ Ids' = Ids
        /\ \A i \in Ids : i # u => users'[i] = users[i]
    BY <2>1, <2>2, RowWritten DEF a
  <2> QED BY <2>2, <2>3 DEF AddressesDiffer, Live
<1> QED BY <1>1, <1>2, <1>3
-----------------------------------------------------------------------------
\* Rows that are counted are finitely many.
LEMMA RowsFinite ==
    ASSUME RowsTyped
    PROVE  /\ Ids \subseteq 1..MaxUsers
           /\ \A X : IsFiniteSet(Ids \cap X) /\ Cardinality(Ids \cap X) \in 0..MaxUsers
           /\ \A t : Of(t) \subseteq Ids /\ IsFiniteSet(Of(t)) /\ Cardinality(Of(t)) \in 0..MaxUsers
<1>1. Len(users) \in Nat /\ MaxUsers \in Nat /\ Ids \subseteq 1..MaxUsers
  BY LenProperties, DirectoryAssumption DEF RowsTyped, Ids
<1>2. IsFiniteSet(Ids) /\ Cardinality(Ids) = Len(users)
  <2>1. 1 \in Int /\ Len(users) \in Int
    BY <1>1
  <2>2. /\ IsFiniteSet(1..Len(users))
        /\ Cardinality(1..Len(users)) = IF 1 > Len(users) THEN 0 ELSE Len(users) - 1 + 1
    BY <2>1, FS_Interval
  <2> QED BY <1>1, <2>2 DEF Ids
<1>3. ASSUME NEW X PROVE IsFiniteSet(Ids \cap X) /\ Cardinality(Ids \cap X) \in 0..MaxUsers
  <2>1. IsFiniteSet(Ids \cap X) /\ Cardinality(Ids \cap X) <= Len(users)
    BY <1>2, FS_Intersection
  <2>2. Cardinality(Ids \cap X) \in Nat
    BY <2>1, FS_CardinalityType
  <2>3. Len(users) <= MaxUsers
    BY DEF RowsTyped
  <2> QED BY <1>1, <2>1, <2>2, <2>3
<1>4. ASSUME NEW t
      PROVE  Of(t) \subseteq Ids /\ IsFiniteSet(Of(t)) /\ Cardinality(Of(t)) \in 0..MaxUsers
  <2>1. Of(t) \subseteq Ids /\ Of(t) = Ids \cap Of(t)
    BY DEF Of, Live
  <2>2. IsFiniteSet(Ids \cap Of(t)) /\ Cardinality(Ids \cap Of(t)) \in 0..MaxUsers
    BY <1>3
  <2> QED BY <2>1, <2>2
<1> QED BY <1>1, <1>3, <1>4

\* A request of somebody else is as it was, but for the notes of a walk.
LEMMA NotingTyped ==
    ASSUME RowsTyped, RowsStay, NEW j \in AllWork
    PROVE  Noting(j) \in AllWork /\ (j.op # "walk" => Noting(j) = j)
<1>1. CASE j.op # "walk" \/ users' = users
  BY <1>1 DEF Noting
<1>2. CASE ~(j.op # "walk" \/ users' = users)
  <2>1. j \in Walks
    BY <1>2 DEF AllWork, NoWork, UserWork, TenantWork, UpdateWork, RemoveWork, Walked, Seeds, Demos
  <2> DEFINE joined == {i \in DOMAIN users' : i \notin Ids /\ users'[i].tenant = j.tenant}
             left == {i \in Of(j.tenant) : ~users'[i].live}
             late == {i \in joined : \E k \in Of(j.tenant) : users[k].at > users'[i].at}
             tied == j.tied \/ Tied(users', j.tenant)
             n == Noting(j)
  <2>2. Cardinality(left) \in Nat
    <3>1. left \subseteq Of(j.tenant)
      OBVIOUS
    <3> QED BY <3>1, RowsFinite, FS_Subset, FS_CardinalityType
  <2>3. Cardinality(late) \in Nat
    <3>1. Len(users') \in Nat /\ DOMAIN users' = 1..Len(users')
      BY LenProperties DEF RowsStay
    <3>2. IsFiniteSet(DOMAIN users')
      BY <3>1, FS_Interval
    <3>3. late \subseteq DOMAIN users'
      OBVIOUS
    <3> QED BY <3>2, <3>3, FS_Subset, FS_CardinalityType
  <2>4. tied \in BOOLEAN
    BY DEF Tied
  <2>5. n = [j EXCEPT !.kept = j.kept \ left, !.removed = j.removed + Cardinality(left),
                      !.late = j.late + Cardinality(late), !.tied = tied]
    BY <1>2 DEF Noting
  <2> HIDE DEF left, late, tied, n
  <2>6. n \in Walks
    <3>1. j.kept \ left \in SUBSET (1..MaxUsers)
      BY <2>1 DEF Walks
    <3>2. j.removed + Cardinality(left) \in Nat /\ j.late + Cardinality(late) \in Nat
      BY <2>1, <2>2, <2>3 DEF Walks
    <3> QED BY <2>1, <2>4, <2>5, <3>1, <3>2 DEF Walks
  <2> QED BY <1>2, <2>6 DEF AllWork, n
<1> QED BY <1>1, <1>2
-----------------------------------------------------------------------------
\* Places in a list are numbers from 1 on, in the order of the stamps.
LEMMA PlaceTyped ==
    ASSUME NEW X, IsFiniteSet(X), NEW at, NEW u
    PROVE  /\ IsFiniteSet({v \in X : at[v] <= at[u]})
           /\ Place(X, at, u) \in Nat /\ Place(X, at, u) <= Cardinality(X)
<1>1. {v \in X : at[v] <= at[u]} \subseteq X
  OBVIOUS
<1> QED BY <1>1, FS_Subset, FS_CardinalityType DEF Place

LEMMA PlaceRises ==
    ASSUME NEW X, IsFiniteSet(X), NEW at, \A x \in X : at[x] \in Int,
           NEW u \in X, NEW v \in X, at[u] < at[v]
    PROVE  Place(X, at, u) < Place(X, at, v)
<1> DEFINE U == {x \in X : at[x] <= at[u]}
           V == {x \in X : at[x] <= at[v]}
<1>1. v \notin U /\ U \cup {v} \subseteq V
  OBVIOUS
<1>2. IsFiniteSet(U) /\ IsFiniteSet(V) /\ Cardinality(U) \in Nat /\ Cardinality(V) \in Nat
  BY PlaceTyped, FS_CardinalityType
<1> HIDE DEF U, V
<1>3. Cardinality(U \cup {v}) = Cardinality(U) + 1
  BY <1>1, <1>2, FS_AddElement
<1>4. Cardinality(U \cup {v}) <= Cardinality(V)
  BY <1>1, <1>2, FS_Subset
<1> QED BY <1>2, <1>3, <1>4 DEF Place, U, V

\* A row more moves those after it on by one.
LEMMA PlaceMoves ==
    ASSUME NEW X, IsFiniteSet(X), NEW at, NEW w, w \notin X, NEW b,
           \A x \in X : b[x] = at[x], NEW u \in X
    PROVE  Place(X \cup {w}, b, u) = Place(X, at, u) + (IF b[w] <= b[u] THEN 1 ELSE 0)
<1> DEFINE U == {x \in X : at[x] <= at[u]}
           V == {x \in X \cup {w} : b[x] <= b[u]}
<1>1. V = IF b[w] <= b[u] THEN U \cup {w} ELSE U
  OBVIOUS
<1>2. IsFiniteSet(U) /\ w \notin U /\ Cardinality(U) \in Nat
  BY PlaceTyped, FS_CardinalityType
<1>3. Cardinality(U \cup {w}) = Cardinality(U) + 1
  <2> HIDE DEF U
  <2> QED BY <1>2, FS_AddElement
<1> HIDE DEF U, V
<1> QED BY <1>1, <1>2, <1>3 DEF Place, U, V

\* Where no two rows tie, one row at most is at a place.
LEMMA OneAtAPlace ==
    ASSUME NEW X, IsFiniteSet(X), NEW at, \A x \in X : at[x] \in Int,
           \A x, y \in X : at[x] = at[y] => x = y,
           NEW n, NEW S, IsFiniteSet(S), NEW T, T \subseteq S \cup {u \in X : Place(X, at, u) = n}
    PROVE  IsFiniteSet(T) /\ Cardinality(T) <= Cardinality(S) + 1
<1> DEFINE N == {u \in X : Place(X, at, u) = n}
<1>1. \A u, v \in N : u = v
  <2> SUFFICES ASSUME NEW u \in N, NEW v \in N, at[u] # at[v] PROVE FALSE
    OBVIOUS
  <2>1. at[u] < at[v] \/ at[v] < at[u]
    OBVIOUS
  <2>2. Place(X, at, u) \in Nat /\ Place(X, at, u) = Place(X, at, v)
    BY PlaceTyped
  <2> QED BY <2>1, <2>2, PlaceRises
<1> HIDE DEF N
<1>2. \E x : S \cup N \subseteq S \cup {x}
  <2>1. CASE N = {}
    BY <2>1
  <2>2. CASE N # {}
    <3>1. PICK x : x \in N
      BY <2>2
    <3>2. N \subseteq {x}
      BY <1>1, <3>1
    <3> QED BY <3>2
  <2> QED BY <2>1, <2>2
<1>3. PICK x : T \subseteq S \cup {x}
  BY <1>2 DEF N
<1>4. /\ IsFiniteSet(S \cup {x}) /\ Cardinality(S) \in Nat
      /\ Cardinality(S \cup {x}) <= Cardinality(S) + 1
  <2>1. Cardinality(S) \in Nat
    BY FS_CardinalityType
  <2>2. /\ IsFiniteSet(S \cup {x})
        /\ Cardinality(S \cup {x}) = IF x \in S THEN Cardinality(S) ELSE Cardinality(S) + 1
    BY FS_AddElement
  <2> QED BY <2>1, <2>2
<1>5. IsFiniteSet(T) /\ Cardinality(T) <= Cardinality(S \cup {x}) /\ Cardinality(T) \in Nat
      /\ Cardinality(S \cup {x}) \in Nat
  BY <1>3, <1>4, FS_Subset, FS_CardinalityType
<1> QED BY <1>4, <1>5

\* Then one order is possible, and gives each row its place.
LEMMA OrderGivesPlaces ==
    ASSUME NEW X, IsFiniteSet(X), NEW at, \A x \in X : at[x] \in Int,
           \A x, y \in X : at[x] = at[y] => x = y,
           NEW o \in [1..Cardinality(X) -> X],
           \A i, k \in DOMAIN o : i < k => o[i] # o[k] /\ at[o[i]] <= at[o[k]]
    PROVE  /\ \A i \in DOMAIN o : Place(X, at, o[i]) = i
           /\ \A u \in X : \E i \in DOMAIN o : o[i] = u
<1> DEFINE n == Cardinality(X)
<1>1. n \in Nat
  BY FS_CardinalityType
<1> HIDE DEF n
<1>2. o \in [1..n -> X]
  BY DEF n
<1>3. \A i, k \in 1..n : o[i] = o[k] => i = k
  <2> SUFFICES ASSUME NEW i \in 1..n, NEW k \in 1..n, i < k \/ k < i PROVE o[i] # o[k]
    BY <1>1
  <2> QED BY <1>2
<1>4. \A u \in X : \E i \in 1..n : o[i] = u
  <2>1. o \in Injection(1..n, X)
    BY <1>2, <1>3 DEF Injection, IsInjective
  <2>2. Cardinality(1..n) = Cardinality(X)
    <3>1. Cardinality(1..n) = IF 1 > n THEN 0 ELSE n - 1 + 1
      BY <1>1, FS_Interval
    <3> QED BY <1>1, <3>1 DEF n
  <2>3. o \in Surjection(1..n, X)
    BY <2>1, <2>2, FS_Injection
  <2> QED BY <2>3 DEF Surjection
<1>5. ASSUME NEW i \in 1..n PROVE Place(X, at, o[i]) = i
  <2> DEFINE S == {v \in X : at[v] <= at[o[i]]}
             f == [k \in 1..i |-> o[k]]
  <2>1. ASSUME NEW k \in 1..i PROVE k \in 1..n /\ o[k] \in S
    <3>1. k \in 1..n /\ (k < i \/ k = i)
      BY <1>1
    <3>2. o[k] \in X /\ o[i] \in X /\ at[o[i]] \in Int
      BY <1>2, <3>1
    <3>3. at[o[k]] <= at[o[i]]
      <4>1. k < i => at[o[k]] <= at[o[i]]
        BY <1>2, <3>1
      <4> QED BY <3>1, <3>2, <4>1
    <3> QED BY <3>1, <3>2, <3>3
  <2>2. \A v \in S : \E k \in 1..i : o[k] = v
    <3> SUFFICES ASSUME NEW v \in S PROVE \E k \in 1..i : o[k] = v
      OBVIOUS
    <3>1. PICK k \in 1..n : o[k] = v
      BY <1>4
    <3>2. ASSUME i < k PROVE FALSE
      <4>1. o[i] # o[k] /\ at[o[i]] <= at[o[k]]
        BY <1>2, <3>2
      <4>2. o[i] \in X /\ v \in X /\ at[o[i]] \in Int /\ at[v] \in Int /\ at[v] <= at[o[i]]
        BY <1>2
      <4>3. at[o[i]] = at[v]
        BY <3>1, <4>1, <4>2
      <4> QED BY <3>1, <4>1, <4>2, <4>3
    <3> QED BY <1>1, <3>1, <3>2
  <2>3. f \in Bijection(1..i, S)
    <3> HIDE DEF S
    <3>1. f \in [1..i -> S]
      BY <2>1
    <3>2. \A a, b \in 1..i : f[a] = f[b] => a = b
      BY <1>3, <2>1
    <3>3. \A v \in S : \E k \in 1..i : f[k] = v
      BY <2>2
    <3> HIDE DEF f
    <3> QED BY <3>1, <3>2, <3>3 DEF Bijection, Injection, Surjection, IsInjective
  <2>4. IsFiniteSet(1..i) /\ Cardinality(1..i) = i
    <3>1. i \in Int /\ 1 \in Int /\ i >= 1
      BY <1>1
    <3>2. IsFiniteSet(1..i) /\ Cardinality(1..i) = IF 1 > i THEN 0 ELSE i - 1 + 1
      BY <3>1, FS_Interval
    <3> QED BY <3>1, <3>2
  <2>5. Cardinality(S) = i
    <3> HIDE DEF S, f
    <3> QED BY <2>3, <2>4, FS_Bijection DEF ExistsBijection
  <2> QED BY <2>5 DEF Place
<1> QED BY <1>2, <1>4, <1>5
-----------------------------------------------------------------------------
\* What a row more in the list of A does to those already passed or shown again.
LEMMA ListGrows ==
    ASSUME NEW A, IsFiniteSet(A), NEW at, \A x \in A : at[x] \in Int,
           \A x, y \in A : at[x] = at[y] => x = y,
           NEW w, w \notin A, NEW bt, \A x \in A : bt[x] = at[x] /\ bt[x] # bt[w], bt[w] \in Int,
           NEW M \in Int, NEW K \in SUBSET A, NEW S, w \notin S
    PROVE  /\ Cardinality(PassedIn(A \cup {w}, bt, K, S, M))
                <= Cardinality(PassedIn(A, at, K, S, M))
           /\ Cardinality(AheadIn(A \cup {w}, bt, S, M))
                <= Cardinality(AheadIn(A, at, S, M))
                   + Cardinality(LateIn(A, at, {w}, bt))
<1> DEFINE passed == PassedIn(A, at, K, S, M)
           ahead == AheadIn(A, at, S, M)
           ahead2 == AheadIn(A \cup {w}, bt, S, M)
           late == LateIn(A, at, {w}, bt)
<1>1. ASSUME NEW u \in A
      PROVE  /\ Place(A, at, u) \in Nat
             /\ Place(A \cup {w}, bt, u) = Place(A, at, u) + (IF bt[w] <= bt[u] THEN 1 ELSE 0)
  <2>1. \A x \in A : bt[x] = at[x]
    OBVIOUS
  <2>2. Place(A \cup {w}, bt, u) = Place(A, at, u) + (IF bt[w] <= bt[u] THEN 1 ELSE 0)
    BY <2>1, PlaceMoves
  <2> QED BY <2>2, PlaceTyped
<1>2. IsFiniteSet(passed) /\ IsFiniteSet(ahead)
  <2>1. passed \in SUBSET A /\ ahead \in SUBSET A
    BY DEF PassedIn, AheadIn
  <2> HIDE DEF passed, ahead
  <2> QED BY <2>1, FS_Subset
<1>3. Cardinality(PassedIn(A \cup {w}, bt, K, S, M)) <= Cardinality(passed)
  <2>1. PassedIn(A \cup {w}, bt, K, S, M) \subseteq passed
    BY <1>1 DEF PassedIn
  <2> HIDE DEF passed
  <2> QED BY <1>2, <2>1, FS_Subset
<1>4. CASE \E x \in A : at[x] > bt[w]
  <2>1. Cardinality(late) = 1
    <3>1. late = {w}
      BY <1>4 DEF LateIn
    <3> QED BY <3>1, FS_Singleton
  <2>2. ahead2 \subseteq ahead \cup {u \in A : Place(A, at, u) = M}
    BY <1>1 DEF AheadIn
  <2>3. Cardinality(ahead2) <= Cardinality(ahead) + 1
    <3> HIDE DEF ahead, ahead2
    <3> QED BY <1>2, <2>2, OneAtAPlace
  <2> QED BY <1>3, <2>1, <2>3
<1>5. CASE \A x \in A : ~(at[x] > bt[w])
  <2>1. Cardinality(late) = 0
    <3>1. late = {}
      BY <1>5 DEF LateIn
    <3> QED BY <3>1, FS_EmptySet
  <2>2. ahead2 \subseteq ahead
    <3>1. \A u \in A : bt[w] > bt[u]
      BY <1>5
    <3> QED BY <1>1, <3>1 DEF AheadIn
  <2>3. Cardinality(ahead2) <= Cardinality(ahead) /\ Cardinality(ahead) \in Nat
    <3> HIDE DEF ahead, ahead2
    <3> QED BY <1>2, <2>2, FS_Subset, FS_CardinalityType
  <2> QED BY <1>3, <2>1, <2>3
<1> QED BY <1>4, <1>5

\* And one less.
LEMMA ListShrinks ==
    ASSUME NEW A, IsFiniteSet(A), NEW at, \A x \in A : at[x] \in Int,
           \A x, y \in A : at[x] = at[y] => x = y,
           NEW d \in A, NEW bt, \A x \in A \ {d} : bt[x] = at[x],
           NEW M \in Int, NEW K \in SUBSET A, NEW S
    PROVE  /\ Cardinality(PassedIn(A \ {d}, bt, K \ {d}, S, M))
                <= Cardinality(PassedIn(A, at, K, S, M)) + 1
           /\ Cardinality(AheadIn(A \ {d}, bt, S, M))
                <= Cardinality(AheadIn(A, at, S, M))
<1> DEFINE B == A \ {d}
           passed == PassedIn(A, at, K, S, M)
           passed2 == PassedIn(B, bt, K \ {d}, S, M)
           ahead == AheadIn(A, at, S, M)
           ahead2 == AheadIn(B, bt, S, M)
<1>1. ASSUME NEW u \in B
      PROVE  /\ Place(B, bt, u) \in Nat
             /\ Place(A, at, u) = Place(B, bt, u) + (IF at[d] <= at[u] THEN 1 ELSE 0)
  <2>1. IsFiniteSet(B) /\ d \notin B /\ A = B \cup {d} /\ \A x \in B : at[x] = bt[x]
    BY FS_RemoveElement
  <2> HIDE DEF B
  <2>2. Place(B \cup {d}, at, u) = Place(B, bt, u) + (IF at[d] <= at[u] THEN 1 ELSE 0)
    BY <2>1, PlaceMoves
  <2> QED BY <2>1, <2>2, PlaceTyped
<1>2. IsFiniteSet(passed) /\ IsFiniteSet(ahead)
  <2>1. passed \in SUBSET A /\ ahead \in SUBSET A
    BY DEF PassedIn, AheadIn
  <2> HIDE DEF passed, ahead
  <2> QED BY <2>1, FS_Subset
<1>3. Cardinality(passed2) <= Cardinality(passed) + 1
  <2>1. passed2 \subseteq passed \cup {u \in A : Place(A, at, u) = M + 1}
    <3> SUFFICES ASSUME NEW u \in passed2 PROVE u \in passed \/ (u \in A /\ Place(A, at, u) = M + 1)
      OBVIOUS
    <3>1. u \in K /\ u \notin S /\ u \in B /\ Place(B, bt, u) <= M
      BY DEF PassedIn
    <3>2. Place(A, at, u) <= M \/ Place(A, at, u) = M + 1
      BY <1>1, <3>1
    <3> QED BY <3>1, <3>2 DEF PassedIn
  <2> HIDE DEF passed, passed2
  <2> QED BY <1>2, <2>1, OneAtAPlace
<1>4. Cardinality(ahead2) <= Cardinality(ahead)
  <2>1. ahead2 \subseteq ahead
    BY <1>1 DEF AheadIn
  <2> HIDE DEF ahead, ahead2
  <2> QED BY <1>2, <2>1, FS_Subset
<1> QED BY <1>3, <1>4

\* A row whose time is taken is not a new one; the rows of a list have times.
LEMMA ListTyped ==
    ASSUME RowsTyped
    PROVE  /\ \A i \in Ids : Stamp[i] = users[i].at /\ users[i].at \in Int /\ users[i].live \in BOOLEAN
           /\ DOMAIN users = Ids
           /\ \A t : ~Tied(users, t) => Untied(t)
<1>1. DOMAIN users = Ids
  BY LenProperties DEF RowsTyped, Ids
<1>2. \A i \in Ids : users[i].at \in Int /\ users[i].live \in BOOLEAN
  <2>1. \A i \in Ids : users[i] \in Accounts
    BY ElementOfSeq DEF RowsTyped, Ids
  <2> QED BY <2>1, DirectoryAssumption DEF Accounts
<1>3. ASSUME NEW t, ~Tied(users, t) PROVE Untied(t)
  BY <1>1, <1>3 DEF Tied, Untied, Of, Live
<1> QED BY <1>1, <1>2, <1>3 DEF Stamp

\* What a statement does to the list of a tenant, unless rows tie.
LEMMA ListChanges ==
    ASSUME RowsTyped, RowsTyped', RowsAdded \/ RowEdited \/ RowDropped,
           NEW t \in Tenants, ~Tied(users', t)
    PROVE  /\ \/ Of(t)' = Of(t)
              \/ \E w : w \notin Ids /\ Of(t)' = Of(t) \cup {w}
              \/ \E d \in Of(t) : Of(t)' = Of(t) \ {d}
           /\ \A x \in Of(t) : x \in Of(t)' => users'[x].at = users[x].at
           /\ {i \in DOMAIN users' : i \notin Ids /\ users'[i].tenant = t} = Of(t)' \ Of(t)
           /\ {i \in Of(t) : ~users'[i].live} = Of(t) \ Of(t)'
<1>1. DOMAIN users' = Ids' /\ Untied(t)'
  <2>1. DOMAIN users' = Ids'
    BY LenProperties DEF RowsTyped, Ids
  <2> QED BY <2>1 DEF Tied, Untied, Of, Live
<1>2. CASE RowsAdded
  <2> DEFINE new == {i \in Ids' \ Ids : users'[i].tenant = t}
  <2>1. Of(t)' = Of(t) \cup new /\ new \cap Ids = {}
    BY <1>2, Staying DEF RowsAdded, RowsStay, Of, Live
  <2>2. \A i, k \in new : i = k
    <3>1. \A i, k \in new : i \in Of(t)' /\ k \in Of(t)' /\ users'[i].at = users'[k].at
      BY <1>2, <2>1 DEF RowsAdded
    <3> QED BY <1>1, <3>1 DEF Untied
  <2>3. new = {} \/ \E w : new = {w}
    BY <2>2
  <2>4. \A x \in Of(t) : x \in Ids /\ users'[x] = users[x] /\ users[x].live
    BY <1>2 DEF RowsAdded, Of, Live
  <2>5. {i \in DOMAIN users' : i \notin Ids /\ users'[i].tenant = t} = new
    BY <1>1
  <2> HIDE DEF new
  <2> QED BY <2>1, <2>3, <2>4, <2>5
<1>3. CASE RowEdited
  <2>1. PICK u \in Live, e \in Emails : users' = [users EXCEPT ![u] = [users[u] EXCEPT !.email = e]]
    BY <1>3 DEF RowEdited
  <2> DEFINE a == [users[u] EXCEPT !.email = e]
  <2>2. u \in Ids /\ a \in Accounts /\ a.tenant = users[u].tenant /\ a.at = users[u].at /\ a.live
    BY RowIs DEF Live
  <2> HIDE DEF a
  <2>3. /\ users'[u] = a /\ Ids' = Ids
        /\ \A i \in Ids : i # u => users'[i] = users[i]
    BY <2>1, <2>2, RowWritten DEF a
  <2>4. /\ Of(t)' = Of(t) /\ Of(t) \subseteq Ids
        /\ \A x \in Of(t) : users'[x].at = users[x].at /\ users'[x].live
    BY <2>2, <2>3 DEF Of, Live
  <2> QED BY <1>1, <2>3, <2>4
<1>4. CASE RowDropped
  <2>1. PICK u \in Ids : users' = [users EXCEPT ![u] = [users[u] EXCEPT !.live = FALSE, !.at = 0]]
    BY <1>4 DEF RowDropped
  <2> DEFINE a == [users[u] EXCEPT !.live = FALSE, !.at = 0]
  <2>2. a \in Accounts /\ ~a.live
    BY RowIs
  <2> HIDE DEF a
  <2>3. /\ users'[u] = a /\ Ids' = Ids
        /\ \A i \in Ids : i # u => users'[i] = users[i]
    BY <2>1, <2>2, RowWritten DEF a
  <2>4. /\ Of(t)' = Of(t) \ {u} /\ Of(t) \subseteq Ids
        /\ \A x \in Of(t) : users'[x].live <=> x # u
    BY <2>2, <2>3 DEF Of, Live
  <2>5. Of(t)' = Of(t) \/ \E d \in Of(t) : Of(t)' = Of(t) \ {d}
    BY <2>4
  <2> QED BY <1>1, <2>3, <2>4, <2>5
<1> QED BY <1>2, <1>3, <1>4

\* A walk has numbers.
LEMMA WalkFields ==
    ASSUME NEW j \in Walks
    PROVE  /\ j.op = "walk" /\ j.tenant \in Tenants /\ j.removed \in Nat /\ j.late \in Nat
           /\ j.repeats \in Nat /\ j.page \in Nat \ {0} /\ j.size \in Nat \ {0}
<1>1. j.op = "walk" /\ j.tenant \in Tenants /\ j.removed \in Nat /\ j.late \in Nat /\ j.repeats \in Nat
  BY DEF Walks
<1>2. j.page \in 1..(MaxUsers + 1) /\ j.size \in PageSizes
  BY DEF Walks
<1>3. j.page \in Nat \ {0}
  BY <1>2, DirectoryAssumption
<1>4. j.size \in Nat \ {0}
  <2>1. PageSizes \subseteq Nat \ {0}
    BY DirectoryAssumption
  <2> QED BY <1>2, <2>1
<1> QED BY <1>1, <1>3, <1>4

\* A walk under way stays honest whatever is stored or deleted.
LEMMA WalkKept ==
    ASSUME RowsTyped, RowsTyped', RowsAdded \/ RowEdited \/ RowDropped,
           NEW j \in Walks, WalkOK(j), NEW k, k = Noting(j)
    PROVE  WalkOK(k)'
<1>1. CASE users' = users
  <2>1. k = j
    BY <1>1 DEF Noting
  <2>2. Ids' = Ids /\ Stamp' = Stamp /\ \A t : Of(t)' = Of(t) /\ Untied(t)' = Untied(t)
    BY <1>1 DEF Ids, Stamp, Of, Live, Untied
  <2>3. Passed(k)' = Passed(j) /\ Ahead(k)' = Ahead(j)
    BY <2>1, <2>2 DEF Passed, Ahead, Through
  <2> QED BY <2>1, <2>2, <2>3 DEF WalkOK
<1>2. CASE users' # users
  <2> DEFINE t == j.tenant
             A == Of(t)
             B == Of(t)'
             at == Stamp
             bt == Stamp'
             M == Through(j)
             left == {i \in A : ~users'[i].live}
             joined == {i \in DOMAIN users' : i \notin Ids /\ users'[i].tenant = t}
             late == {i \in joined : \E x \in A : users[x].at > users'[i].at}
  <2>0. j.op = "walk" /\ t \in Tenants /\ j.removed \in Nat /\ j.late \in Nat /\ j.repeats \in Nat
        /\ j.page \in Nat /\ j.size \in Nat
    BY WalkFields
  <2>1. k = [j EXCEPT !.kept = j.kept \ left, !.removed = j.removed + Cardinality(left),
                      !.late = j.late + Cardinality(late), !.tied = j.tied \/ Tied(users', t)]
    BY <1>2, <2>0 DEF Noting
  <2>2. /\ k.op = "walk" /\ k.tenant = t /\ k.shown = j.shown /\ k.repeats = j.repeats
        /\ k.kept = j.kept \ left /\ k.removed = j.removed + Cardinality(left)
        /\ k.late = j.late + Cardinality(late) /\ Through(k) = M
        /\ k.tied <=> (j.tied \/ Tied(users', t))
    <3> HIDE DEF left, late
    <3> QED BY <2>1 DEF Walks, Through
  <2> SUFFICES ASSUME ~k.tied
               PROVE  /\ Untied(t)' /\ k.kept \subseteq B /\ k.shown \subseteq Ids'
                      /\ Cardinality(PassedIn(B, bt, k.kept, k.shown, M)) <= k.removed
                      /\ k.repeats + Cardinality(AheadIn(B, bt, k.shown, M))
                           <= k.late
    BY <2>2 DEF WalkOK, Passed, Ahead, Through
  <2>3. ~j.tied /\ ~Tied(users', t)
    BY <2>2
  <2>4. /\ Untied(t) /\ j.kept \subseteq A /\ j.shown \subseteq Ids
        /\ Cardinality(PassedIn(A, at, j.kept, j.shown, M)) <= j.removed
        /\ j.repeats + Cardinality(AheadIn(A, at, j.shown, M)) <= j.late
    BY <2>0, <2>3 DEF WalkOK, Passed, Ahead
  <2>5. /\ IsFiniteSet(A) /\ A \subseteq Ids /\ \A x \in A : at[x] = users[x].at /\ at[x] \in Int
        /\ \A x, y \in A : at[x] = at[y] => x = y
    BY <2>4, RowsFinite, ListTyped DEF Untied
  <2>6. /\ B \subseteq Ids' /\ Ids \subseteq Ids' /\ \A x \in B : bt[x] = users'[x].at /\ bt[x] \in Int
        /\ Untied(t)' /\ \A x, y \in B : bt[x] = bt[y] => x = y
    <3>1. DOMAIN users' = Ids' /\ \A i \in Ids' : users'[i] \in Accounts
      BY LenProperties, ElementOfSeq DEF RowsTyped, Ids
    <3>2. \A i \in Ids' : bt[i] = users'[i].at /\ bt[i] \in Int
      BY <3>1, DirectoryAssumption DEF Stamp, Accounts
    <3>3. B \subseteq Ids' /\ Untied(t)'
      BY <2>3, <3>1 DEF Tied, Untied, Of, Live
    <3>4. Ids \subseteq Ids'
      BY Staying DEF RowsStay
    <3> QED BY <3>2, <3>3, <3>4 DEF Untied
  <2>7. /\ B = A \/ (\E w : w \notin Ids /\ B = A \cup {w}) \/ (\E d \in A : B = A \ {d})
        /\ \A x \in A : x \in B => bt[x] = at[x]
        /\ joined = B \ A /\ left = A \ B
    <3>1. /\ B = A \/ (\E w : w \notin Ids /\ B = A \cup {w}) \/ (\E d \in A : B = A \ {d})
          /\ \A x \in A : x \in B => users'[x].at = users[x].at
          /\ joined = B \ A /\ left = A \ B
      BY <2>0, <2>3, ListChanges
    <3> HIDE DEF A, B, at, bt, joined, left
    <3> QED BY <2>5, <2>6, <3>1
  <2>8. late = LateIn(A, at, B \ A, bt)
    <3>1. \A i \in B \ A : \A x \in A : at[x] = users[x].at /\ bt[i] = users'[i].at
      BY <2>5, <2>6
    <3> HIDE DEF A, B, at, bt, joined
    <3> QED BY <2>7, <3>1 DEF LateIn, late
  <2>9. M \in Int
    BY <2>0 DEF Through
  <2>10. /\ PassedIn(B, bt, k.kept, k.shown, M)
              = PassedIn(B, bt, j.kept \ (A \ B), j.shown, M)
         /\ AheadIn(B, bt, k.shown, M)
              = AheadIn(B, bt, j.shown, M)
    BY <2>2, <2>7
  <2> DEFINE K == j.kept
             S == j.shown
             passed == Cardinality(PassedIn(A, at, K, S, M))
             passed2 == Cardinality(PassedIn(B, bt, K \ (A \ B), S, M))
             ahead == Cardinality(AheadIn(A, at, S, M))
             ahead2 == Cardinality(AheadIn(B, bt, S, M))
  <2>11. /\ passed2 <= passed + Cardinality(A \ B)
         /\ ahead2 <= ahead + Cardinality(LateIn(A, at, B \ A, bt))
    <3> HIDE DEF A, B, at, bt, left, late, joined, M
    <3>01. /\ IsFiniteSet(A) /\ (\A x \in A : at[x] \in Int) /\ M \in Int /\ K \in SUBSET A
           /\ \A x, y \in A : at[x] = at[y] => x = y
      BY <2>4, <2>5, <2>9
    <3>0. passed \in Nat /\ ahead \in Nat
      <4>1. PassedIn(A, at, K, S, M) \subseteq A /\ AheadIn(A, at, S, M) \subseteq A
        BY <3>01 DEF PassedIn, AheadIn
      <4> QED BY <3>01, <4>1, FS_Subset, FS_CardinalityType
    <3>1. CASE B = A
      <4>1. A \ B = {} /\ LateIn(A, at, B \ A, bt) = {}
        BY <3>1 DEF LateIn
      <4>2. \A u \in A : Place(B, bt, u) = Place(A, at, u)
        <5> SUFFICES ASSUME NEW u \in A
                     PROVE  {v \in B : bt[v] <= bt[u]} = {v \in A : at[v] <= at[u]}
          BY DEF Place
        <5> QED BY <2>7, <3>1
      <4>3. passed2 = passed /\ ahead2 = ahead
        <5>1. /\ PassedIn(B, bt, K \ (A \ B), S, M) = PassedIn(A, at, K, S, M)
              /\ AheadIn(B, bt, S, M) = AheadIn(A, at, S, M)
          BY <3>01, <3>1, <4>1, <4>2 DEF PassedIn, AheadIn
        <5> QED BY <5>1
      <4> HIDE DEF passed, passed2, ahead, ahead2
      <4> QED BY <3>0, <4>1, <4>3, FS_EmptySet
    <3>2. CASE \E w : w \notin Ids /\ B = A \cup {w}
      <4>1. PICK w : w \notin Ids /\ B = A \cup {w}
        BY <3>2
      <4>2. /\ w \notin A /\ w \notin S /\ bt[w] \in Int /\ K \in SUBSET A
            /\ \A x \in A : bt[x] = at[x] /\ bt[x] # bt[w]
        BY <2>4, <2>5, <2>6, <2>7, <4>1
      <4>3. A \ B = {} /\ B \ A = {w} /\ K \ (A \ B) = K
        BY <4>1, <4>2
      <4>4. /\ Cardinality(PassedIn(A \cup {w}, bt, K, S, M)) <= passed
            /\ Cardinality(AheadIn(A \cup {w}, bt, S, M))
                 <= ahead + Cardinality(LateIn(A, at, {w}, bt))
        <5> HIDE DEF K, S
        <5> QED BY <3>01, <4>2, ListGrows
      <4>5. /\ PassedIn(B, bt, K \ (A \ B), S, M)
                 = PassedIn(A \cup {w}, bt, K, S, M)
            /\ AheadIn(B, bt, S, M)
                 = AheadIn(A \cup {w}, bt, S, M)
            /\ LateIn(A, at, B \ A, bt) = LateIn(A, at, {w}, bt)
        BY <4>1, <4>3
      <4>6. Cardinality(A \ B) = 0
        BY <4>3, FS_EmptySet
      <4> QED BY <3>0, <4>4, <4>5, <4>6
    <3>3. CASE \E d \in A : B = A \ {d}
      <4>1. PICK d \in A : B = A \ {d}
        BY <3>3
      <4>2. \A x \in A \ {d} : bt[x] = at[x]
        BY <2>7, <4>1
      <4>3. A \ B = {d} /\ LateIn(A, at, B \ A, bt) = {}
        BY <4>1 DEF LateIn
      <4>4. /\ Cardinality(PassedIn(A \ {d}, bt, K \ {d}, S, M)) <= passed + 1
            /\ Cardinality(AheadIn(A \ {d}, bt, S, M)) <= ahead
        <5> HIDE DEF K, S
        <5> QED BY <3>01, <4>2, ListShrinks
      <4>5. /\ PassedIn(B, bt, K \ (A \ B), S, M)
                 = PassedIn(A \ {d}, bt, K \ {d}, S, M)
            /\ AheadIn(B, bt, S, M)
                 = AheadIn(A \ {d}, bt, S, M)
        BY <4>1, <4>3
      <4>6. /\ Cardinality(A \ B) = 1
            /\ Cardinality(LateIn(A, at, B \ A, bt)) = 0
        BY <4>3, FS_EmptySet, FS_Singleton
      <4> QED BY <3>0, <4>4, <4>5, <4>6
    <3> QED BY <2>7, <3>1, <3>2, <3>3
  <2>12. passed \in Nat /\ ahead \in Nat /\ passed2 \in Nat /\ ahead2 \in Nat
         /\ Cardinality(left) \in Nat /\ Cardinality(late) \in Nat
    <3> HIDE DEF A, B, at, bt, left, late, joined, M
    <3>1. IsFiniteSet(B)
      BY <2>5, <2>7, FS_AddElement, FS_RemoveElement
    <3>2. left \subseteq A /\ late \subseteq B /\ K \subseteq A
      BY <2>4, <2>7, <2>8 DEF LateIn
    <3>3. /\ PassedIn(A, at, K, S, M) \subseteq A
          /\ PassedIn(B, bt, K \ (A \ B), S, M) \subseteq A
          /\ AheadIn(A, at, S, M) \subseteq A
          /\ AheadIn(B, bt, S, M) \subseteq B
      BY <3>2 DEF PassedIn, AheadIn
    <3> QED BY <2>5, <3>1, <3>2, <3>3, FS_Subset, FS_CardinalityType
  <2> HIDE DEF A, B, at, bt, left, late, joined, M
  <2>13. k.kept \subseteq B /\ k.shown \subseteq Ids'
    BY <2>2, <2>4, <2>6, <2>7
  <2> QED
    BY <2>0, <2>2, <2>4, <2>6, <2>7, <2>8, <2>10, <2>11, <2>12, <2>13
<1> QED BY <1>1, <1>2
-----------------------------------------------------------------------------
\* Only the request that takes the step changes, and walks take notes.
LEMMA Others ==
    ASSUME RowsTyped, RowsTyped', WorkTyped, AllWorkOK, SuperAdminsApart,
           RowsAdded \/ RowEdited \/ RowDropped,
           NEW r \in Requests, NEW j, Go(r, j), j \in AllWork, WorkOK(j)'
    PROVE  WorkTyped' /\ AllWorkOK'
<1>1. RowsStay
  BY Staying
<1>2. ASSUME NEW i \in AllWork, WorkOK(i), NEW k, k = Noting(i)
      PROVE  k \in AllWork /\ WorkOK(k)'
  <2>1. k \in AllWork /\ (i.op # "walk" => k = i)
    BY <1>1, <1>2, NotingTyped
  <2>2. CASE i.op = "walk"
    <3>1. i \in Walks
      BY <2>2 DEF AllWork, NoWork, UserWork, TenantWork, UpdateWork, RemoveWork, Walked, Seeds, Demos
    <3>2. WalkOK(k)'
      BY <1>2, <3>1, WalkKept DEF WorkOK
    <3>3. k.op = "walk"
      <4>1. k = i \/ k = [i EXCEPT !.kept = k.kept, !.removed = k.removed,
                                   !.late = k.late, !.tied = k.tied]
        BY <1>2, <3>1 DEF Noting, Walks
      <4> QED BY <2>2, <3>1, <4>1 DEF Walks
    <3> QED BY <2>1, <3>2, <3>3 DEF WorkOK, MemberOK, SeedOK, WalkedOK
  <2>3. CASE i.op # "walk"
    <3>1. k = i
      BY <2>1, <2>3
    <3>2. MemberOK(i)'
      BY <1>1, <1>2 DEF WorkOK, MemberOK, RowsStay
    <3>3. SeedOK(i)'
      BY <1>1, <1>2, SuperAdminsStay DEF WorkOK, SeedOK
    <3>4. WalkOK(i)' /\ WalkedOK(i)'
      BY <1>2, <2>3 DEF WorkOK, WalkOK, WalkedOK
    <3> QED BY <2>1, <3>1, <3>2, <3>3, <3>4 DEF WorkOK
  <2> QED BY <2>2, <2>3
<1>3. ASSUME NEW q \in Requests PROVE work'[q] \in AllWork /\ WorkOK(work[q])'
  <2>1. CASE q = r
    BY <2>1 DEF Go
  <2>2. CASE q # r
    <3>1. work'[q] = Noting(work[q])
      BY <2>2 DEF Go
    <3>2. work[q] \in AllWork /\ WorkOK(work[q])
      BY WorkKinds DEF AllWorkOK
    <3> QED BY <1>2, <3>1, <3>2
  <2> QED BY <2>1, <2>2
<1>4. work' = [q \in Requests |-> work'[q]]
  BY DEF Go
<1> QED BY <1>3, <1>4 DEF WorkTyped, AllWorkOK

\* Where the users stay as they are, nothing that holds of a request is lost.
LEMMA SameRows ==
    ASSUME UNCHANGED users, NEW j, WorkOK(j)
    PROVE  WorkOK(j)'
<1>1. /\ Ids' = Ids /\ Stamp' = Stamp
      /\ \A t : Of(t)' = Of(t) /\ Untied(t)' = Untied(t)
      /\ \A e : IsSuperAdmin(e)' = IsSuperAdmin(e)
  BY DEF Ids, Stamp, Of, Live, Untied, IsSuperAdmin
<1>2. Passed(j)' = Passed(j) /\ Ahead(j)' = Ahead(j)
  BY <1>1 DEF Passed, Ahead
<1>3. MemberOK(j)' /\ SeedOK(j)' /\ WalkedOK(j)'
  BY <1>1 DEF WorkOK, MemberOK, SeedOK, WalkedOK
<1>4. WalkOK(j)'
  BY <1>1, <1>2 DEF WorkOK, WalkOK
<1> QED BY <1>3, <1>4 DEF WorkOK

\* A step that leaves the users alone.
LEMMA Becomes ==
    ASSUME WorkTyped, UNCHANGED users, NEW r \in Requests, NEW j, j \in AllWork, WorkOK(j),
           work' = [work EXCEPT ![r] = j]
    PROVE  Go(r, j) /\ WorkOK(j)'
<1>1. \A i : Noting(i) = i
  BY DEF Noting
<1>2. work' = [q \in Requests |-> IF q = r THEN j ELSE work[q]]
  BY DEF WorkTyped
<1> QED BY <1>1, <1>2, SameRows DEF Go

\* Nothing is asked of a request that has ended.
LEMMA Ended ==
    NoWork \in AllWork /\ WorkOK(NoWork) /\ WorkOK(NoWork)'
BY DEF NoWork, AllWork, WorkOK, MemberOK, SeedOK, WalkOK, WalkedOK
-----------------------------------------------------------------------------
\* What is about to be stored.
LEMMA StepCreateUser ==
    ASSUME RowsTyped, WorkTyped, NEW r \in Requests, NEW e \in Inputs,
           NEW t \in Tenants \cup {NoTenant}, NEW role \in UserRole, NEW level \in BOOLEAN,
           CreateUser(r, e, t, role, level)
    PROVE  \E j \in AllWork : Go(r, j) /\ WorkOK(j)'
<1>1. PICK at \in 0..MaxTime :
         work' = [work EXCEPT ![r] = [op |-> "user", account |-> Account(e, t, role, level, at)]]
  <2>1. 0 \in 0..MaxTime /\ Stamps \subseteq 0..MaxTime
    BY DirectoryAssumption DEF Stamps
  <2>2. PICK at \in (IF t = NoTenant THEN {0} ELSE Stamps) :
           Begin(r, [op |-> "user", account |-> Account(e, t, role, level, at)])
    BY DEF CreateUser
  <2> QED BY <2>1, <2>2 DEF Begin
<1> DEFINE a == Account(e, t, role, level, at)
           j == [op |-> "user", account |-> a]
<1>2. /\ e \in Emails /\ role # "SUPER_ADMIN"
      /\ (level = TRUE /\ role = "ANALYST") \/ (level = FALSE /\ role # "ANALYST")
  BY DirectoryAssumption DEF CreateUser, ResolveAnalystLevel
<1>3. a \in Accounts /\ a.live /\ a.role # "SUPER_ADMIN"
  <2>1. CASE level = TRUE /\ role = "ANALYST"
    BY <1>2, <2>1 DEF Account, Accounts, LevelFits
  <2>2. CASE level = FALSE /\ role # "ANALYST"
    BY <1>2, <2>2 DEF Account, Accounts, LevelFits
  <2> QED BY <1>2, <2>1, <2>2
<1> HIDE DEF a
<1>4. j \in AllWork /\ WorkOK(j)
  BY <1>3 DEF AllWork, UserWork, WorkOK, MemberOK, SeedOK, WalkOK, WalkedOK
<1>5. work' = [work EXCEPT ![r] = j] /\ UNCHANGED users
  BY <1>1 DEF CreateUser, a
<1> HIDE DEF j
<1> QED BY <1>4, <1>5, Becomes

LEMMA StepCreateTenant ==
    ASSUME RowsTyped, WorkTyped, NEW r \in Requests, NEW t \in Tenants, NEW e \in Inputs,
           CreateTenant(r, t, e)
    PROVE  \E j \in AllWork : Go(r, j) /\ WorkOK(j)'
<1>1. PICK at \in 0..MaxTime :
         work' = [work EXCEPT ![r] = [op |-> "tenant", account |-> Account(e, t, "ADMIN", FALSE, at)]]
  BY DEF CreateTenant, Begin, Stamps
<1> DEFINE a == Account(e, t, "ADMIN", FALSE, at)
           j == [op |-> "tenant", account |-> a]
<1>2. a \in Accounts /\ a.live /\ a.role = "ADMIN"
  BY DirectoryAssumption DEF UserRole, Account, Accounts, LevelFits
<1> HIDE DEF a
<1>3. j \in AllWork /\ WorkOK(j)
  BY <1>2 DEF AllWork, TenantWork, WorkOK, MemberOK, SeedOK, WalkOK, WalkedOK
<1>4. work' = [work EXCEPT ![r] = j] /\ UNCHANGED users
  BY <1>1 DEF CreateTenant, a
<1> HIDE DEF j
<1> QED BY <1>3, <1>4, Becomes

LEMMA StepUpdateUser ==
    ASSUME RowsTyped, WorkTyped, NEW r \in Requests, NEW u \in Ids, NEW e \in Inputs,
           UpdateUser(r, u, e)
    PROVE  \E j \in AllWork : Go(r, j) /\ WorkOK(j)'
<1> DEFINE j == [op |-> "update", user |-> u, email |-> e]
<1>1. u \in Nat /\ e \in Emails /\ users[u].tenant # NoTenant
  BY RowsFinite, DirectoryAssumption DEF UpdateUser
<1>2. j \in AllWork /\ WorkOK(j)
  BY <1>1 DEF AllWork, UpdateWork, WorkOK, MemberOK, SeedOK, WalkOK, WalkedOK
<1>3. work' = [work EXCEPT ![r] = j] /\ UNCHANGED users
  BY DEF UpdateUser, Begin
<1> HIDE DEF j
<1> QED BY <1>2, <1>3, Becomes

LEMMA StepDeleteUser ==
    ASSUME RowsTyped, WorkTyped, NEW r \in Requests, NEW u \in Ids, DeleteUser(r, u)
    PROVE  \E j \in AllWork : Go(r, j) /\ WorkOK(j)'
<1> DEFINE j == [op |-> "remove", user |-> u]
<1>1. u \in Nat /\ users[u].tenant # NoTenant
  BY RowsFinite, DirectoryAssumption DEF DeleteUser
<1>2. j \in AllWork /\ WorkOK(j)
  BY <1>1 DEF AllWork, RemoveWork, WorkOK, MemberOK, SeedOK, WalkOK, WalkedOK
<1>3. work' = [work EXCEPT ![r] = j] /\ UNCHANGED users
  BY DEF DeleteUser, Begin
<1> HIDE DEF j
<1> QED BY <1>2, <1>3, Becomes

\* A demo seed has nothing to remember but its tenant and its time.
LEMMA StepSeedTenant ==
    ASSUME RowsTyped, WorkTyped, NEW r \in Requests, NEW t \in Tenants, SeedTenant(r, t)
    PROVE  \E j \in AllWork : Go(r, j) /\ WorkOK(j)'
<1>1. PICK at \in 0..MaxTime :
         work' = [work EXCEPT ![r] = [op |-> "demo", step |-> "users", tenant |-> t, at |-> at]]
  BY DEF SeedTenant, Begin, Stamps
<1> DEFINE j == [op |-> "demo", step |-> "users", tenant |-> t, at |-> at]
<1>2. j \in AllWork /\ WorkOK(j)
  BY DEF AllWork, Demos, WorkOK, MemberOK, SeedOK, WalkOK, WalkedOK
<1>3. work' = [work EXCEPT ![r] = j] /\ UNCHANGED users
  BY <1>1 DEF SeedTenant
<1> HIDE DEF j
<1> QED BY <1>2, <1>3, Becomes

LEMMA StepCreateMany ==
    ASSUME RowsTyped, WorkTyped, NEW r \in Requests, CreateMany(r)
    PROVE  \E j \in AllWork : Go(r, j) /\ WorkOK(j)'
<1>0. PICK j : j = [work[r] EXCEPT !.step = "admin", !.at = 0]
  OBVIOUS
<1>1. Go(r, j) \/ Go(r, NoWork)
  BY <1>0 DEF CreateMany
<1>2. j \in Demos
  <2>1. work[r] \in Demos
    BY WorkKinds DEF CreateMany
  <2>2. 0 \in 0..MaxTime
    BY DirectoryAssumption
  <2> QED BY <1>0, <2>1, <2>2 DEF Demos
<1>3. j \in AllWork /\ WorkOK(j)'
  BY <1>2 DEF AllWork, Demos, WorkOK, MemberOK, SeedOK, WalkOK, WalkedOK
<1> QED BY <1>1, <1>3, Ended

\* What ends a request.
LEMMA StepEnds ==
    ASSUME WorkTyped, NEW r \in Requests,
           \/ StoreUser(r) \/ StoreTenant(r) \/ StoreUpdate(r) \/ DeleteRow(r)
           \/ CreateDemoAdmin(r) \/ Leave(r)
    PROVE  \E j \in AllWork : Go(r, j) /\ WorkOK(j)'
<1>1. CASE Leave(r)
  <2>1. work' = [work EXCEPT ![r] = NoWork] /\ UNCHANGED users
    BY <1>1 DEF Leave, Become
  <2> QED BY <2>1, Ended, Becomes
<1>2. CASE ~Leave(r)
  <2>1. Go(r, NoWork)
    BY <1>2 DEF StoreUser, StoreTenant, StoreUpdate, DeleteRow, CreateDemoAdmin
  <2> QED BY <2>1, Ended
<1> QED BY <1>1, <1>2
-----------------------------------------------------------------------------
\* The seed of the Super Admins: one entry after the other.
LEMMA SeedFields ==
    ASSUME NEW j \in Seeds
    PROVE  /\ j.op = "seed" /\ j.step \in {"find", "create", "done"}
           /\ j.next \in Nat \ {0} /\ Len(SeedEntries) \in Nat
           /\ DOMAIN SeedEntries = 1..Len(SeedEntries)
           /\ j.next <= Len(SeedEntries) => j.next \in DOMAIN SeedEntries /\ SeedEntries[j.next] \in Emails
<1>1. Len(SeedEntries) \in Nat /\ DOMAIN SeedEntries = 1..Len(SeedEntries)
  BY LenProperties, DirectoryAssumption
<1>2. j.op = "seed" /\ j.step \in {"find", "create", "done"} /\ j.next \in 1..(Len(SeedEntries) + 1)
  BY DEF Seeds
<1>3. \A n \in 1..Len(SeedEntries) : SeedEntries[n] \in Emails
  BY ElementOfSeq, DirectoryAssumption
<1> QED BY <1>1, <1>2, <1>3

LEMMA StepStartSeed ==
    ASSUME RowsTyped, WorkTyped, NEW r \in Requests, StartSeed(r)
    PROVE  \E j \in AllWork : Go(r, j) /\ WorkOK(j)'
<1> DEFINE settled == \A n \in DOMAIN SeedEntries : IsSuperAdmin(SeedEntries[n])
           j == [op |-> "seed", step |-> "find", next |-> 1, ok |-> FALSE,
                 settled |-> settled, skipped |-> {}]
<1>1. Len(SeedEntries) \in Nat /\ 1 <= Len(SeedEntries) /\ DOMAIN SeedEntries = 1..Len(SeedEntries)
  BY LenProperties, EmptySeq, DirectoryAssumption DEF StartSeed
<1>2. work' = [work EXCEPT ![r] = j] /\ UNCHANGED users
  BY DEF StartSeed, Begin
<1>3. settled \in BOOLEAN
  OBVIOUS
<1>4. settled => \A n \in DOMAIN SeedEntries : IsSuperAdmin(SeedEntries[n])
  OBVIOUS
<1> HIDE DEF settled
<1>5. j \in Seeds
  BY <1>1, <1>3 DEF Seeds
<1>6. WorkOK(j)
  BY <1>1, <1>4 DEF WorkOK, MemberOK, SeedOK, WalkOK, WalkedOK
<1> HIDE DEF j
<1> QED BY <1>2, <1>5, <1>6, Becomes DEF AllWork

\* After an entry, the next one or the end.
LEMMA FollowingIs ==
    ASSUME NEW j \in Seeds, j.next <= Len(SeedEntries), NEW k, k = Following(j)
    PROVE  /\ k \in Seeds /\ k \in AllWork /\ k.op = "seed"
           /\ k.settled = j.settled /\ k.skipped = j.skipped
           /\ k.step # "create" /\ (k.step = "done" => k.ok) /\ k.next <= Len(SeedEntries)
           /\ \A n \in DOMAIN SeedEntries : n < k.next \/ k.ok => n < j.next \/ j.ok \/ n = j.next
<1>1. /\ j.next \in DOMAIN SeedEntries /\ DOMAIN SeedEntries = 1..Len(SeedEntries)
      /\ Len(SeedEntries) \in Nat
  BY SeedFields
<1>2. CASE j.next = Len(SeedEntries)
  <2>1. k = [j EXCEPT !.step = "done", !.ok = TRUE]
    BY <1>2 DEF Following
  <2>2. k \in Seeds /\ k.op = "seed" /\ k.step = "done" /\ k.ok /\ k.next = j.next
        /\ k.settled = j.settled /\ k.skipped = j.skipped
    BY <2>1 DEF Seeds
  <2> QED BY <1>1, <1>2, <2>2 DEF AllWork
<1>3. CASE j.next # Len(SeedEntries)
  <2>0. j.next + 1 \in 1..Len(SeedEntries) /\ j.next + 1 \in 1..(Len(SeedEntries) + 1)
    BY <1>1, <1>3
  <2>1. k = [j EXCEPT !.step = "find", !.next = j.next + 1]
    BY <1>3 DEF Following
  <2>2. k \in Seeds /\ k.op = "seed" /\ k.step = "find" /\ k.ok = j.ok /\ k.next = j.next + 1
        /\ k.settled = j.settled /\ k.skipped = j.skipped
    BY <2>0, <2>1 DEF Seeds
  <2>3. \A n \in DOMAIN SeedEntries : n < j.next + 1 => n < j.next \/ n = j.next
    BY <1>1
  <2> QED BY <1>1, <2>0, <2>2, <2>3 DEF AllWork
<1> QED BY <1>2, <1>3

LEMMA StepFindEntry ==
    ASSUME RowsTyped, WorkTyped, AllWorkOK, NEW r \in Requests, FindEntry(r)
    PROVE  \E j \in AllWork : Go(r, j) /\ WorkOK(j)'
<1> DEFINE i == work[r]
           e == SeedEntries[i.next]
<1>1. i \in Seeds /\ WorkOK(i) /\ UNCHANGED users
  BY WorkKinds DEF FindEntry, Become, AllWorkOK
<1>2. CASE Taken(e)
  <2> DEFINE k == [i EXCEPT !.skipped = IF IsSuperAdmin(e) THEN i.skipped ELSE i.skipped \cup {e}]
  <2>1. work' = [work EXCEPT ![r] = Following(k)]
    BY <1>2 DEF FindEntry, Become
  <2>2. e \in Emails
    BY <1>1, SeedFields DEF WorkOK, SeedOK
  <2>3. /\ k \in Seeds /\ k.op = i.op /\ k.step = i.step /\ k.ok = i.ok /\ k.next = i.next
        /\ k.settled = i.settled /\ i.skipped \subseteq k.skipped
        /\ IsSuperAdmin(e) \/ e \in k.skipped
    BY <1>1, <2>2 DEF Seeds
  <2>4. IsSuperAdmin(SeedEntries[k.next]) \/ SeedEntries[k.next] \in k.skipped
    BY <2>3
  <2> HIDE DEF k, e
  <2>5. WorkOK(k)
    <3>1. SeedOK(k)
      BY <1>1, <2>3 DEF WorkOK, SeedOK
    <3> QED BY <1>1, <2>3, <3>1 DEF Seeds, WorkOK, MemberOK, WalkOK, WalkedOK
  <2>6. PICK j : j = Following(k)
    OBVIOUS
  <2>7. j \in AllWork /\ WorkOK(j)
    <3>1. /\ j \in AllWork /\ j.op = "seed" /\ j.settled = k.settled /\ j.skipped = k.skipped
          /\ j.step # "create" /\ (j.step = "done" => j.ok) /\ j.next <= Len(SeedEntries)
          /\ \A n \in DOMAIN SeedEntries : n < j.next \/ j.ok => n < k.next \/ k.ok \/ n = k.next
      BY <2>3, <2>5, <2>6, FollowingIs DEF WorkOK, SeedOK, Seeds
    <3>2. SeedOK(j)
      BY <1>1, <2>3, <2>4, <2>5, <3>1 DEF WorkOK, SeedOK, Seeds
    <3> QED BY <3>1, <3>2 DEF WorkOK, MemberOK, WalkOK, WalkedOK
  <2> QED BY <1>1, <2>1, <2>6, <2>7, Becomes
<1>3. CASE ~Taken(e)
  <2> DEFINE k == [i EXCEPT !.step = "create"]
  <2>1. work' = [work EXCEPT ![r] = k]
    BY <1>3 DEF FindEntry, Become
  <2>2. ~i.settled
    <3>1. i.next \in DOMAIN SeedEntries /\ ~IsSuperAdmin(e)
      BY <1>1, <1>3, SeedFields DEF WorkOK, SeedOK, Taken, IsSuperAdmin
    <3> QED BY <1>1, <3>1, SeedFields DEF WorkOK, SeedOK
  <2>3. /\ k \in Seeds /\ k.op = i.op /\ k.ok = i.ok /\ k.next = i.next
        /\ k.settled = i.settled /\ i.skipped = k.skipped
    BY <1>1 DEF Seeds
  <2> HIDE DEF k, e
  <2>4. WorkOK(k)
    <3>1. SeedOK(k)
      BY <1>1, <2>2, <2>3 DEF WorkOK, SeedOK
    <3> QED BY <1>1, <2>3, <3>1 DEF Seeds, WorkOK, MemberOK, WalkOK, WalkedOK
  <2> QED BY <1>1, <2>1, <2>3, <2>4, Becomes DEF AllWork
<1> QED BY <1>2, <1>3

LEMMA StepCreateSuperAdmin ==
    ASSUME RowsTyped, WorkTyped, SuperAdminsApart, AllWorkOK, NEW r \in Requests,
           CreateSuperAdmin(r), RowsStay
    PROVE  \E j \in AllWork : Go(r, j) /\ WorkOK(j)'
<1>1. PICK i : i = work[r]
  OBVIOUS
<1>2. i \in Seeds /\ WorkOK(i) /\ i.step = "create"
  BY <1>1, WorkKinds DEF CreateSuperAdmin, AllWorkOK
<1> DEFINE e == SeedEntries[i.next]
<1>3. ~i.settled
  BY <1>2, SeedFields DEF WorkOK, SeedOK
<1>4. SeedOK(i)'
  BY <1>2, <1>3, SuperAdminsStay DEF WorkOK, SeedOK
<1>5. CASE CanStore({e})
  <2> DEFINE a == Account(e, NoTenant, "SUPER_ADMIN", FALSE, 0)
  <2>1. users' = Append(users, a) /\ Go(r, Following(i))
    BY <1>1, <1>5 DEF CreateSuperAdmin
  <2>2. a.email = e /\ a.role = "SUPER_ADMIN" /\ a.live
    BY DEF Account
  <2> HIDE DEF a
  <2>3. /\ Len(users') = Len(users) + 1 /\ Len(users) \in Nat
        /\ users'[Len(users) + 1] = a
    BY <2>1, AppendProperties, LenProperties DEF RowsTyped
  <2>4. IsSuperAdmin(e)'
    <3>1. Len(users) + 1 \in Live'
      BY <2>2, <2>3 DEF Live, Ids
    <3> QED BY <2>2, <2>3, <3>1 DEF IsSuperAdmin
  <2>5. PICK k : k = Following(i)
    OBVIOUS
  <2>6. k \in AllWork /\ WorkOK(k)'
    <3>1. /\ k \in AllWork /\ k.op = "seed" /\ k.settled = i.settled /\ k.skipped = i.skipped
          /\ k.step # "create" /\ (k.step = "done" => k.ok) /\ k.next <= Len(SeedEntries)
          /\ \A n \in DOMAIN SeedEntries : n < k.next \/ k.ok => n < i.next \/ i.ok \/ n = i.next
      BY <1>2, <2>5, FollowingIs DEF WorkOK, SeedOK, Seeds
    <3>2. IsSuperAdmin(SeedEntries[i.next])'
      BY <2>4
    <3>3. SeedOK(k)'
      BY <1>2, <1>3, <1>4, <3>1, <3>2 DEF SeedOK, Seeds
    <3> QED BY <3>1, <3>3 DEF WorkOK, MemberOK, WalkOK, WalkedOK
  <2> QED BY <2>1, <2>5, <2>6
<1>6. CASE ~CanStore({e})
  <2>1. PICK k : k = [i EXCEPT !.step = "done"]
    OBVIOUS
  <2>2. Go(r, k)
    BY <1>1, <1>6, <2>1 DEF CreateSuperAdmin
  <2>3. /\ k \in Seeds /\ k.op = i.op /\ k.ok = i.ok /\ k.next = i.next
        /\ k.settled = i.settled /\ i.skipped = k.skipped
    BY <1>2, <2>1 DEF Seeds
  <2>4. SeedOK(k)'
    BY <1>3, <1>4, <2>3 DEF SeedOK
  <2>5. WorkOK(k)'
    BY <2>3, <2>4 DEF Seeds, WorkOK, MemberOK, WalkOK, WalkedOK
  <2> QED BY <2>2, <2>3, <2>5 DEF AllWork
<1> QED BY <1>5, <1>6
-----------------------------------------------------------------------------
\* The walk through the pages of a list.
LEMMA ListFacts ==
    ASSUME RowsTyped, NEW t, Untied(t)
    PROVE  /\ IsFiniteSet(Of(t)) /\ Of(t) \subseteq Ids /\ Of(t) \subseteq 1..MaxUsers
           /\ Cardinality(Of(t)) \in Nat /\ Cardinality(Of(t)) <= MaxUsers
           /\ \A x \in Of(t) : Stamp[x] = users[x].at /\ Stamp[x] \in Int
           /\ \A x, y \in Of(t) : Stamp[x] = Stamp[y] => x = y
<1>1. MaxUsers \in Nat
  BY DirectoryAssumption
<1>2. \A x, y \in Of(t) : users[x].at = users[y].at => x = y
  BY DEF Untied
<1> QED BY <1>1, <1>2, RowsFinite, ListTyped

LEMMA StepStartWalk ==
    ASSUME RowsTyped, WorkTyped, NEW r \in Requests, NEW t \in Tenants, NEW size \in PageSizes,
           StartWalk(r, t, size)
    PROVE  \E j \in AllWork : Go(r, j) /\ WorkOK(j)'
<1> DEFINE tied == Tied(users, t)
           A == Of(t)
           j == [op |-> "walk", step |-> "page", tenant |-> t, size |-> size, page |-> 1,
                 shown |-> {}, kept |-> A, repeats |-> 0, removed |-> 0, late |-> 0,
                 tied |-> tied]
<1>1. work' = [work EXCEPT ![r] = j] /\ UNCHANGED users
  BY DEF StartWalk, Begin
<1>2. tied \in BOOLEAN
  BY DEF Tied
<1>3. ~tied => Untied(t)
  BY ListTyped
<1>4. A \in SUBSET (1..MaxUsers) /\ MaxUsers \in Nat
  BY RowsFinite, DirectoryAssumption
<1>5. ASSUME ~tied PROVE Passed(j) = {} /\ Ahead(j) = {}
  <2>1. ASSUME NEW u \in A PROVE Place(A, Stamp, u) \in Nat /\ Place(A, Stamp, u) # 0
    <3> DEFINE U == {v \in A : Stamp[v] <= Stamp[u]}
    <3>1. u \in U
      BY <1>3, <1>5, ListFacts
    <3>2. IsFiniteSet(A)
      BY <1>3, <1>5, ListFacts
    <3>3. IsFiniteSet(U) /\ Place(A, Stamp, u) \in Nat /\ Place(A, Stamp, u) = Cardinality(U)
      BY <3>2, PlaceTyped DEF Place
    <3> HIDE DEF U
    <3>4. Cardinality(U) # 0
      BY <3>1, <3>3, FS_EmptySet
    <3> QED BY <3>3, <3>4
  <2>2. size \in Nat
    BY DirectoryAssumption
  <2>3. Through(j) = 0 /\ j.kept = A /\ j.shown = {} /\ j.tenant = t
    <3>1. (1 - 1) * size = 0
      BY <2>2
    <3> QED BY <3>1 DEF Through
  <2> HIDE DEF j
  <2> QED BY <2>1, <2>3 DEF Passed, Ahead, PassedIn, AheadIn
<1> HIDE DEF tied
<1>6. j \in AllWork
  <2> HIDE DEF A
  <2>1. 1 \in 1..(MaxUsers + 1)
    BY <1>4
  <2>2. j \in Walks
    BY <1>2, <1>4, <2>1 DEF Walks
  <2> QED BY <2>2 DEF AllWork
<1>7. /\ j.op = "walk" /\ j.tenant = t /\ j.kept = A /\ j.shown = {} /\ j.removed = 0
      /\ j.repeats = 0 /\ j.late = 0 /\ (j.tied <=> tied)
  BY <1>2
<1> HIDE DEF j
<1>8. WorkOK(j)
  <2>1. WalkOK(j)
    BY <1>3, <1>5, <1>7, FS_EmptySet DEF WalkOK
  <2> QED BY <1>7, <2>1 DEF WorkOK, MemberOK, SeedOK, WalkedOK
<1> QED BY <1>1, <1>6, <1>8, Becomes

\* A page shows the rows of its places, and the places go on with the next.
LEMMA StepReadPage ==
    ASSUME RowsTyped, WorkTyped, AllWorkOK, NEW r \in Requests, ReadPage(r)
    PROVE  \E j \in AllWork : Go(r, j) /\ WorkOK(j)'
<1>1. PICK i : i = work[r]
  OBVIOUS
<1>2. /\ i \in Walks /\ i.step = "page" /\ WalkOK(i) /\ UNCHANGED users
      /\ i.op = "walk" /\ i.tenant \in Tenants /\ i.removed \in Nat /\ i.late \in Nat
      /\ i.repeats \in Nat /\ i.page \in Nat \ {0} /\ i.size \in Nat \ {0}
  BY <1>1, WorkKinds, WalkFields DEF ReadPage, Become, AllWorkOK, WorkOK
<1> DEFINE t == i.tenant
           A == Of(t)
           n == Cardinality(A)
<1>3. PICK o \in Orders(t) :
         work' = [work EXCEPT ![r] = [i EXCEPT !.step = "count", !.shown = i.shown \cup PageOf(o, i),
                              !.repeats = i.repeats + Cardinality(PageOf(o, i) \cap i.shown)]]
  BY <1>1 DEF ReadPage, Become
<1> DEFINE page == PageOf(o, i)
           again == page \cap i.shown
<1>4. PICK j : j = [i EXCEPT !.step = "count", !.shown = i.shown \cup page,
                             !.repeats = i.repeats + Cardinality(again)]
  OBVIOUS
<1>5. /\ o \in [1..n -> A]
      /\ \A x, y \in DOMAIN o : x < y => o[x] # o[y] /\ users[o[x]].at <= users[o[y]].at
  BY DEF Orders
<1>6. page \in SUBSET A /\ A \subseteq 1..MaxUsers /\ A \subseteq Ids /\ IsFiniteSet(A)
  BY <1>5, RowsFinite DEF PageOf
<1>7. IsFiniteSet(again) /\ Cardinality(again) \in Nat
  <2>1. again \subseteq A
    BY <1>6
  <2> HIDE DEF again, A
  <2> QED BY <1>6, <2>1, FS_Subset, FS_CardinalityType
<1>8. /\ j \in Walks /\ j.op = "walk" /\ j.step = "count" /\ j.tenant = t /\ j.kept = i.kept
      /\ j.shown = i.shown \cup page /\ j.removed = i.removed /\ j.late = i.late
      /\ j.repeats = i.repeats + Cardinality(again) /\ j.tied = i.tied
      /\ j.page = i.page /\ j.size = i.size
  <2>1. i.shown \cup page \in SUBSET (1..MaxUsers) /\ i.repeats + Cardinality(again) \in Nat
    BY <1>2, <1>6, <1>7 DEF Walks
  <2> HIDE DEF page, again
  <2> QED BY <1>2, <1>4, <2>1 DEF Walks
<1> DEFINE M == Through(i)
           P == Through(j)
           place(u) == Place(A, Stamp, u)
<1>9. M \in Nat /\ P \in Nat /\ M = (i.page - 1) * i.size /\ P = i.page * i.size
  BY <1>2, <1>8 DEF Through
<1>10. ASSUME ~i.tied
       PROVE  /\ Untied(t) /\ j.kept \subseteq A /\ j.shown \subseteq Ids
              /\ Cardinality(Passed(j)) <= j.removed
              /\ j.repeats + Cardinality(Ahead(j)) <= j.late
  <2>1. /\ Untied(t) /\ i.kept \subseteq A /\ i.shown \subseteq Ids
        /\ Cardinality(Passed(i)) <= i.removed
        /\ i.repeats + Cardinality(Ahead(i)) <= i.late
    BY <1>2, <1>10 DEF WalkOK
  <2>2. /\ \A x \in DOMAIN o : place(o[x]) = x
        /\ \A u \in A : \E x \in DOMAIN o : o[x] = u
    <3>1. /\ \A x \in A : Stamp[x] = users[x].at /\ Stamp[x] \in Int
          /\ \A x, y \in A : Stamp[x] = Stamp[y] => x = y
      BY <2>1, ListFacts
    <3>2. \A x, y \in DOMAIN o : x < y => o[x] # o[y] /\ Stamp[o[x]] <= Stamp[o[y]]
      BY <1>5, <3>1
    <3> HIDE DEF A
    <3> QED BY <1>5, <1>6, <3>1, <3>2, OrderGivesPlaces
  <2>3. page = {u \in A : M < place(u) /\ place(u) <= P}
    <3>1. page = {o[x] : x \in DOMAIN o \cap (M + 1)..P}
      BY <1>9 DEF PageOf
    <3>2. \A x \in DOMAIN o : x \in Nat
      <4>1. n \in Nat
        BY <1>6, FS_CardinalityType
      <4> QED BY <1>5, <4>1
    <3>3. \A x \in DOMAIN o : x \in (M + 1)..P <=> M < x /\ x <= P
      BY <1>9, <3>2
    <3> HIDE DEF page, A, M, P, place
    <3> QED BY <1>5, <2>2, <3>1, <3>3
  <2>4. \A u \in A : place(u) \in Nat
    BY <1>6, PlaceTyped
  <2> HIDE DEF page, A, M, P, place
  <2>5. M <= P
    <3>1. i.page * i.size = (i.page - 1) * i.size + i.size
      BY <1>2
    <3> QED BY <1>2, <1>9, <3>1
  <2>6. Passed(i) = {u \in i.kept \ i.shown : place(u) <= M}
    BY DEF Passed, PassedIn, A, M, place
  <2>7. Passed(j) = {u \in j.kept \ j.shown : place(u) <= P}
    BY <1>8 DEF Passed, PassedIn, A, P, place
  <2>8. Ahead(i) = {u \in i.shown \cap A : place(u) > M}
    BY DEF Ahead, AheadIn, A, M, place
  <2>9. Ahead(j) = {u \in j.shown \cap A : place(u) > P}
    BY <1>8 DEF Ahead, AheadIn, A, P, place
  <2>10. Passed(j) \subseteq Passed(i) /\ Passed(i) \subseteq A
    <3>1. ASSUME NEW u \in Passed(j) PROVE u \in Passed(i)
      <4>1. u \in i.kept /\ u \notin i.shown /\ u \notin page /\ place(u) <= P /\ u \in A
        BY <1>8, <2>1, <2>7, <3>1
      <4>2. place(u) <= M
        BY <1>9, <2>3, <2>4, <4>1
      <4> QED BY <2>6, <4>1, <4>2
    <3>2. Passed(i) \subseteq A
      BY <2>1, <2>6
    <3> QED BY <3>1, <3>2
  <2>11. Cardinality(Passed(j)) <= j.removed
    <3>1. IsFiniteSet(Passed(i))
      BY <1>6, <2>10, FS_Subset
    <3>2. Cardinality(Passed(j)) <= Cardinality(Passed(i))
      BY <2>10, <3>1, FS_Subset
    <3>3. Cardinality(Passed(j)) \in Nat /\ Cardinality(Passed(i)) \in Nat
      BY <2>10, <3>1, FS_Subset, FS_CardinalityType
    <3> QED BY <1>2, <1>8, <2>1, <3>2, <3>3
  <2>12. Ahead(i) = again \cup Ahead(j) /\ again \cap Ahead(j) = {} /\ Ahead(j) \subseteq A
    <3>1. ASSUME NEW u \in A
          PROVE  /\ u \in Ahead(i) <=> u \in again \/ u \in Ahead(j)
                 /\ ~(u \in again /\ u \in Ahead(j))
      BY <1>8, <1>9, <2>3, <2>4, <2>5, <2>8, <2>9
    <3>2. Ahead(i) \subseteq A /\ Ahead(j) \subseteq A /\ again \subseteq A
      BY <1>6, <2>8, <2>9
    <3> HIDE DEF again
    <3> QED BY <3>1, <3>2
  <2> HIDE DEF again
  <2>13. Cardinality(Ahead(i)) = Cardinality(again) + Cardinality(Ahead(j))
         /\ Cardinality(Ahead(j)) \in Nat
    <3>1. IsFiniteSet(Ahead(j)) /\ Cardinality(Ahead(j)) \in Nat
      BY <1>6, <2>12, FS_Subset, FS_CardinalityType
    <3>2. Cardinality(again \cup Ahead(j))
            = Cardinality(again) + Cardinality(Ahead(j)) - Cardinality(again \cap Ahead(j))
      BY <1>7, <3>1, FS_Union
    <3>3. Cardinality(again \cap Ahead(j)) = 0
      BY <2>12, FS_EmptySet
    <3> QED BY <1>7, <2>12, <3>1, <3>2, <3>3
  <2>14. j.repeats + Cardinality(Ahead(j)) <= j.late
    BY <1>2, <1>7, <1>8, <2>1, <2>13
  <2>15. j.shown \subseteq Ids /\ j.kept \subseteq A
    BY <1>6, <1>8, <2>1
  <2> QED BY <2>1, <2>11, <2>14, <2>15
<1>11. WorkOK(j)
  <2> HIDE DEF page, again
  <2>1. WalkOK(j)
    BY <1>8, <1>10 DEF WalkOK
  <2> QED BY <1>8, <2>1 DEF WorkOK, MemberOK, SeedOK, WalkedOK
<1>12. work' = [work EXCEPT ![r] = j]
  BY <1>3, <1>4
<1> QED BY <1>2, <1>8, <1>11, <1>12, Becomes DEF AllWork

\* The end of the list is behind every place.
LEMMA StepCountRows ==
    ASSUME RowsTyped, WorkTyped, AllWorkOK, NEW r \in Requests, CountRows(r)
    PROVE  \E j \in AllWork : Go(r, j) /\ WorkOK(j)'
<1>1. PICK i : i = work[r]
  OBVIOUS
<1>2. /\ i \in Walks /\ i.step = "count" /\ WalkOK(i) /\ UNCHANGED users
      /\ i.op = "walk" /\ i.tenant \in Tenants /\ i.removed \in Nat /\ i.late \in Nat
      /\ i.repeats \in Nat /\ i.page \in Nat \ {0} /\ i.size \in Nat \ {0}
  BY <1>1, WorkKinds, WalkFields DEF CountRows, Become, AllWorkOK, WorkOK
<1> DEFINE A == Of(i.tenant)
           M == i.page * i.size
           n == Cardinality(A)
<1>3. /\ IsFiniteSet(A) /\ n \in Nat /\ n <= MaxUsers /\ M \in Nat /\ Through(i) = M
      /\ MaxUsers \in Nat
  BY <1>2, RowsFinite, DirectoryAssumption DEF Through
<1>4. i.kept \in SUBSET (1..MaxUsers) /\ i.tied \in BOOLEAN
  BY <1>2 DEF Walks
<1>5. CASE M >= n
  <2> DEFINE missed == i.kept \ i.shown
  <2>1. PICK j : j = [op |-> "walked", missed |-> Cardinality(missed), repeats |-> i.repeats,
                      removed |-> i.removed, late |-> i.late, tied |-> i.tied]
    OBVIOUS
  <2>2. work' = [work EXCEPT ![r] = j]
    BY <1>1, <1>5, <2>1 DEF CountRows, Become
  <2>3. Cardinality(missed) \in Nat
    <3>1. IsFiniteSet(1..MaxUsers)
      BY <1>3, FS_Interval
    <3>2. missed \subseteq 1..MaxUsers
      BY <1>4
    <3> QED BY <3>1, <3>2, FS_Subset, FS_CardinalityType
  <2> HIDE DEF missed
  <2>4. /\ j \in Walked /\ j.op = "walked" /\ j.missed = Cardinality(missed) /\ j.tied = i.tied
        /\ j.repeats = i.repeats /\ j.removed = i.removed /\ j.late = i.late
    BY <1>2, <1>4, <2>1, <2>3 DEF Walked
  <2>5. ASSUME ~i.tied PROVE j.missed <= j.removed /\ j.repeats <= j.late
    <3>1. /\ i.kept \subseteq A /\ Cardinality(Passed(i)) <= i.removed
          /\ i.repeats + Cardinality(Ahead(i)) <= i.late
      BY <1>2, <2>5 DEF WalkOK
    <3>2. \A u \in missed : Place(A, Stamp, u) <= M
      <4> SUFFICES ASSUME NEW u \in missed PROVE Place(A, Stamp, u) <= M
        OBVIOUS
      <4>1. Place(A, Stamp, u) \in Nat /\ Place(A, Stamp, u) <= n
        BY <1>3, PlaceTyped
      <4> QED BY <1>3, <1>5, <4>1
    <3>3. Passed(i) = missed
      BY <1>3, <3>2 DEF Passed, PassedIn, missed
    <3>4. Cardinality(Ahead(i)) \in Nat
      <4>1. Ahead(i) \subseteq A
        BY DEF Ahead, AheadIn
      <4> QED BY <1>3, <4>1, FS_Subset, FS_CardinalityType
    <3> QED BY <1>2, <2>4, <3>1, <3>3, <3>4
  <2>6. WorkOK(j)
    BY <2>4, <2>5 DEF WorkOK, MemberOK, SeedOK, WalkOK, WalkedOK
  <2> QED BY <1>2, <2>2, <2>4, <2>6, Becomes DEF AllWork
<1>6. CASE ~(M >= n)
  <2>1. PICK j : j = [i EXCEPT !.step = "page", !.page = i.page + 1]
    OBVIOUS
  <2>2. work' = [work EXCEPT ![r] = j]
    BY <1>1, <1>6, <2>1 DEF CountRows, Become
  <2>3. i.page + 1 \in 1..(MaxUsers + 1)
    <3>1. i.page <= M
      BY <1>2
    <3> HIDE DEF M, n
    <3> QED BY <1>2, <1>3, <1>6, <3>1
  <2>4. /\ j \in Walks /\ j.op = "walk" /\ j.step = "page" /\ j.tenant = i.tenant /\ j.kept = i.kept
        /\ j.shown = i.shown /\ j.removed = i.removed /\ j.late = i.late
        /\ j.repeats = i.repeats /\ j.tied = i.tied /\ j.page = i.page + 1 /\ j.size = i.size
    BY <1>2, <2>1, <2>3 DEF Walks
  <2>5. Through(j) = Through(i)
    <3>1. (i.page + 1) - 1 = i.page
      BY <1>2
    <3> QED BY <1>3, <2>4, <3>1 DEF Through
  <2>6. Passed(j) = Passed(i) /\ Ahead(j) = Ahead(i)
    BY <2>4, <2>5 DEF Passed, Ahead
  <2>7. WalkOK(j)
    BY <1>2, <2>4, <2>6 DEF WalkOK
  <2>8. WorkOK(j)
    BY <2>4, <2>7 DEF WorkOK, MemberOK, SeedOK, WalkedOK
  <2> QED BY <1>2, <2>2, <2>4, <2>8, Becomes DEF AllWork
<1> QED BY <1>5, <1>6
-----------------------------------------------------------------------------
\* Tenants and their first Admins.
LEMMA StepTenants ==
    ASSUME RowsTyped, WorkTyped, FirstAdmins, [DirectoryNext]_directoryVars, RowsStay
    PROVE  tenants' \in [Tenants -> {"none", "api", "demo"}] /\ FirstAdmins'
<1>1. tenants \in [Tenants -> {"none", "api", "demo"}]
  BY DEF RowsTyped
<1>2. CASE UNCHANGED tenants
  BY <1>1, <1>2 DEF FirstAdmins, RowsStay
<1>3. ASSUME NEW r \in Requests, StoreTenant(r)
      PROVE  tenants' \in [Tenants -> {"none", "api", "demo"}] /\ FirstAdmins'
  <2> DEFINE a == work[r].account
  <2>1. work[r] \in TenantWork
    BY <1>3, WorkKinds DEF StoreTenant
  <2>2. a \in Accounts /\ a.role = "ADMIN"
    BY <2>1 DEF TenantWork
  <2>3. CASE CanStore({a.email})
    <3>1. users' = Append(users, a) /\ tenants' = [tenants EXCEPT ![a.tenant] = "api"]
      BY <1>3, <2>3 DEF StoreTenant
    <3> HIDE DEF a
    <3>2. Len(users') = Len(users) + 1 /\ Len(users) \in Nat /\ users'[Len(users) + 1] = a
      BY <2>2, <3>1, AppendProperties, LenProperties DEF RowsTyped
    <3>3. Len(users) + 1 \in Ids'
      BY <3>2 DEF Ids
    <3>4. \A t \in Tenants : tenants'[t] = "api" => t = a.tenant \/ tenants[t] = "api"
      BY <1>1, <3>1
    <3>5. FirstAdmins'
      BY <2>2, <3>2, <3>3, <3>4 DEF FirstAdmins, RowsStay
    <3> QED BY <1>1, <3>1, <3>5
  <2>4. CASE ~CanStore({a.email})
    BY <1>2, <1>3, <2>4 DEF StoreTenant
  <2> QED BY <2>3, <2>4
<1>4. ASSUME NEW r \in Requests, NEW t \in Tenants, SeedTenant(r, t)
      PROVE  tenants' \in [Tenants -> {"none", "api", "demo"}] /\ FirstAdmins'
  <2>1. tenants' = [tenants EXCEPT ![t] = "demo"]
    BY <1>4 DEF SeedTenant
  <2>2. \A s \in Tenants : tenants'[s] = "api" => tenants[s] = "api"
    BY <1>1, <2>1
  <2> QED BY <1>1, <2>1, <2>2 DEF FirstAdmins, RowsStay
<1> QED
  BY <1>2, <1>3, <1>4
  DEF DirectoryNext, Proceed, CreateUser, CreateTenant, UpdateUser, DeleteUser, StartSeed,
      StartWalk, Leave, StoreUser, StoreUpdate, DeleteRow, FindEntry, CreateSuperAdmin,
      CreateMany, CreateDemoAdmin, ReadPage, CountRows, Become, directoryVars

\* Every step is that of one request.
LEMMA StepWork ==
    ASSUME RowsTyped, WorkTyped, SuperAdminsApart, AllWorkOK, DirectoryNext, RowsStay
    PROVE  \E r \in Requests, j \in AllWork : Go(r, j) /\ WorkOK(j)'
<1> DEFINE Goes(r) == \E j \in AllWork : Go(r, j) /\ WorkOK(j)'
<1>1. ASSUME NEW r \in Requests, NEW e \in Inputs, NEW t \in Tenants \cup {NoTenant},
             NEW role \in UserRole, NEW level \in BOOLEAN, CreateUser(r, e, t, role, level)
      PROVE  Goes(r)
  BY <1>1, StepCreateUser
<1>2. ASSUME NEW r \in Requests, NEW t \in Tenants, NEW e \in Inputs, CreateTenant(r, t, e)
      PROVE  Goes(r)
  BY <1>2, StepCreateTenant
<1>3. ASSUME NEW r \in Requests, NEW u \in Ids, NEW e \in Inputs, UpdateUser(r, u, e)
      PROVE  Goes(r)
  BY <1>3, StepUpdateUser
<1>4. ASSUME NEW r \in Requests, NEW u \in Ids, DeleteUser(r, u) PROVE Goes(r)
  BY <1>4, StepDeleteUser
<1>5. ASSUME NEW r \in Requests, StartSeed(r) PROVE Goes(r)
  BY <1>5, StepStartSeed
<1>6. ASSUME NEW r \in Requests, NEW t \in Tenants, SeedTenant(r, t) PROVE Goes(r)
  BY <1>6, StepSeedTenant
<1>7. ASSUME NEW r \in Requests, NEW t \in Tenants, NEW size \in PageSizes, StartWalk(r, t, size)
      PROVE  Goes(r)
  BY <1>7, StepStartWalk
<1>8. ASSUME NEW r \in Requests, Proceed(r) PROVE Goes(r)
  BY <1>8, StepEnds, StepFindEntry, StepCreateSuperAdmin, StepCreateMany, StepReadPage, StepCountRows
  DEF Proceed
<1>9. ASSUME NEW r \in Requests, Leave(r) PROVE Goes(r)
  BY <1>9, StepEnds
<1> HIDE DEF Goes
<1>10. \E r \in Requests : Goes(r)
  BY <1>1, <1>2, <1>3, <1>4, <1>5, <1>6, <1>7, <1>8, <1>9 DEF DirectoryNext
<1> QED BY <1>10 DEF Goes

\* Nothing has happened yet.
LEMMA Starting == DirectoryInit => DirectoryInv
<1> SUFFICES ASSUME DirectoryInit PROVE DirectoryInv
  OBVIOUS
<1>1. users = <<>> /\ Len(users) = 0 /\ users \in Seq(Accounts) /\ Ids = {} /\ MaxUsers \in Nat
  BY EmptySeq, DirectoryAssumption DEF DirectoryInit, Ids
<1>2. RowsTyped
  BY <1>1 DEF DirectoryInit, RowsTyped
<1>3. WorkTyped
  BY Ended DEF DirectoryInit, WorkTyped
<1>4. AllWorkOK
  BY Ended DEF DirectoryInit, AllWorkOK
<1>5. AddressesDiffer /\ SuperAdminsApart
  BY <1>1 DEF AddressesDiffer, SuperAdminsApart, Live
<1>6. FirstAdmins
  BY DEF DirectoryInit, FirstAdmins
<1> QED BY <1>2, <1>3, <1>4, <1>5, <1>6 DEF DirectoryInv

LEMMA DirectoryInvKept == DirectoryInv /\ [DirectoryNext]_directoryVars => DirectoryInv'
<1> SUFFICES ASSUME DirectoryInv, [DirectoryNext]_directoryVars PROVE DirectoryInv'
  OBVIOUS
<1>1. /\ RowsTyped /\ WorkTyped /\ AddressesDiffer /\ SuperAdminsApart /\ AllWorkOK /\ FirstAdmins
      /\ RowsAdded \/ RowEdited \/ RowDropped
  BY Effects DEF DirectoryInv
<1>2. RowsStay
  BY <1>1, Staying
<1>3. RowsTyped' /\ FirstAdmins'
  BY <1>1, <1>2, StepTenants DEF RowsTyped, RowsStay
<1>4. AddressesDiffer' /\ SuperAdminsApart'
  BY StepAddresses, StepApart
<1>5. CASE DirectoryNext
  <2>1. PICK r \in Requests, j \in AllWork : Go(r, j) /\ WorkOK(j)'
    BY <1>1, <1>2, <1>5, StepWork
  <2>2. WorkTyped' /\ AllWorkOK'
    BY <1>1, <1>3, <2>1, Others
  <2> QED BY <1>3, <1>4, <2>2 DEF DirectoryInv
<1>6. CASE UNCHANGED directoryVars
  <2>1. WorkTyped' /\ AllWorkOK'
    BY <1>1, <1>6, SameRows DEF directoryVars, WorkTyped, AllWorkOK
  <2> QED BY <1>3, <1>4, <2>1 DEF DirectoryInv
<1> QED BY <1>5, <1>6

LEMMA DirectoryInvariance == DirectorySpec => []DirectoryInv
<1> QED BY Starting, DirectoryInvKept, PTL DEF DirectorySpec

\* No two accounts have one address, and a request has the fields it needs: what
\* the columns, the indexes and the foreign keys of User allow is all there is.
THEOREM DirectoryTypes == DirectorySpec => []DirectoryTypeOK
<1>1. ASSUME DirectoryInv PROVE DirectoryTypeOK
  <2>1. RowsTyped /\ WorkTyped /\ AddressesDiffer /\ AllWorkOK
    BY <1>1 DEF DirectoryInv
  <2>2. Cardinality({users[i].email : i \in Live}) = Cardinality(Live)
    <3> DEFINE E == {users[i].email : i \in Live}
               f == [i \in Live |-> users[i].email]
    <3>1. f \in Bijection(Live, E)
      <4>1. f \in [Live -> E]
        OBVIOUS
      <4>2. \A i, k \in Live : f[i] = f[k] => i = k
        BY <2>1 DEF AddressesDiffer
      <4>3. \A e \in E : \E i \in Live : f[i] = e
        OBVIOUS
      <4> HIDE DEF f, E
      <4> QED BY <4>1, <4>2, <4>3 DEF Bijection, Injection, Surjection, IsInjective
    <3>2. IsFiniteSet(Live)
      <4>1. Live = Ids \cap Live
        BY DEF Live
      <4> QED BY <2>1, <4>1, RowsFinite
    <3> HIDE DEF f, E
    <3>3. Cardinality(E) = Cardinality(Live)
      BY <3>1, <3>2, FS_Bijection DEF ExistsBijection
    <3> QED BY <3>3 DEF E
  <2>3. ASSUME NEW r \in Requests
        PROVE  \/ work[r] = NoWork
               \/ work[r].op \in {"user", "tenant"} /\ work[r].account \in Accounts
               \/ work[r].op \in {"update", "remove"} /\ work[r].user \in Ids
               \/ work[r] \in Walks \cup Walked \cup Seeds \cup Demos
    <3>1. work[r] \in AllWork
      BY <2>1, WorkKinds
    <3>2. CASE work[r] \in UserWork \cup TenantWork
      BY <3>2 DEF UserWork, TenantWork
    <3>3. CASE work[r] \in UpdateWork \cup RemoveWork
      BY <2>1, <3>3 DEF UpdateWork, RemoveWork, AllWorkOK, WorkOK, MemberOK
    <3> QED BY <3>1, <3>2, <3>3 DEF AllWork
  <2> QED BY <2>1, <2>2, <2>3 DEF DirectoryTypeOK, RowsTyped
<1> QED BY <1>1, DirectoryInvariance, PTL

\* createTenantWithAdmin stores both rows or none: a tenant that the API has made
\* has had an Admin from the start.
THEOREM FirstAdminsStay == DirectorySpec => []FirstAdmins
<1>1. DirectoryInv => FirstAdmins
  BY DEF DirectoryInv
<1> QED BY <1>1, DirectoryInvariance, PTL

\* Whatever happens to a seed meanwhile, one that ends well has left a Super Admin
\* for every entry it has not skipped, and one with nothing to do ends well.
THEOREM SeedsRecovered == DirectorySpec => []SeedsRecover
<1>1. ASSUME DirectoryInv PROVE SeedsRecover
  <2> SUFFICES ASSUME NEW r \in Requests, Seeded(r)
               PROVE  /\ work[r].ok => \A n \in DOMAIN SeedEntries :
                           IsSuperAdmin(SeedEntries[n]) \/ SeedEntries[n] \in work[r].skipped
                      /\ work[r].settled => work[r].ok
    BY DEF SeedsRecover
  <2>1. SeedOK(work[r])
    BY <1>1 DEF DirectoryInv, AllWorkOK, WorkOK
  <2> QED BY <2>1 DEF SeedOK, Seeded
<1> QED BY <1>1, DirectoryInvariance, PTL

\* A walk through a list without ties misses one user at most per deletion, and
\* shows one twice at most per row that is committed after rows of a later
\* createdAt, whatever is stored and removed between its statements.
THEOREM PagesHonest == DirectorySpec => []PagesAreHonest
<1>1. ASSUME DirectoryInv PROVE PagesAreHonest
  BY <1>1 DEF DirectoryInv, AllWorkOK, WorkOK, WalkedOK, PagesAreHonest, Listed
<1> QED BY <1>1, DirectoryInvariance, PTL
=============================================================================
