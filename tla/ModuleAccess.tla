----------------------------- MODULE ModuleAccess -----------------------------
(* ModuleAccessService.launch for one module and the users of one tenant, and  *)
(* what changes while a launch is under way: the role and level of the user    *)
(* (UsersService), the tenant's subscription (TenantsService), the minimum     *)
(* level (the tenant's Admin) and the endpoint (an Integration Admin).  A      *)
(* launch reads the three rows one after the other, then writes its audit row. *)
EXTENDS Naturals, FiniteSets

CONSTANTS
    Users, Urls, Requests,
    TopLevel,       \* the highest analyst level; the source has three
    DefaultLevel,   \* the module's entry in DEFAULT_MIN_ANALYST_LEVEL
    MaxLaunches,    \* bound on the audit rows
    NoUrl           \* an endpoint without host or port

ASSUME ModuleAccessAssumption ==
    /\ TopLevel \in Nat
    /\ DefaultLevel \in 1..TopLevel
    /\ MaxLaunches \in Nat
    /\ NoUrl \notin Urls
    /\ IsFiniteSet(Requests)

VARIABLES
    rank,           \* what each user row is worth for a launch
    subscribed,     \* whether the TenantModule row exists
    active,         \* its isActive
    minLevel,       \* its minAnalystLevel
    url,            \* what buildModuleUrl makes of the endpoint row
    job,            \* the step of each request and what it has read
    launches,       \* number of ModuleLaunch rows
    handed,         \* history variable: number of URLs handed out
    seen            \* history variable: what has been true since a request began

module == <<subscribed, active, minLevel>>
vars == <<rank, module, url, job, launches, handed, seen>>

\* A deleted user is worth nothing, an analyst the level, an Admin more than
\* any level.
Gone == 0
AdminRank == TopLevel + 1
Ranks == Gone..AdminRank
Levels == 1..TopLevel

\* What a launch asks of the user; more than anybody has while there is no
\* active subscription.
Needed == IF subscribed /\ active THEN minLevel ELSE AdminRank + 1

Idle == "idle"
Steps == {Idle, "user", "subscription", "endpoint", "audit", "return"}
Jobs == [step : Steps, by : Users, rank : Ranks, url : Urls \cup {NoUrl}]
Histories == [rank : Ranks, needed : 0..AdminRank + 1, urls : SUBSET (Urls \cup {NoUrl})]

TypeOK ==
    /\ rank \in [Users -> Ranks]
    /\ subscribed \in BOOLEAN /\ active \in BOOLEAN /\ minLevel \in Levels
    /\ url \in Urls \cup {NoUrl}
    /\ job \in [Requests -> Jobs]
    /\ launches \in Nat /\ handed \in Nat
    /\ seen \in [Requests -> Histories]

Nothing == [rank |-> Gone, needed |-> AdminRank + 1, urls |-> {}]

Init ==
    /\ rank \in [Users -> 1..AdminRank]
    /\ subscribed = FALSE /\ active = TRUE /\ minLevel = DefaultLevel
    /\ url = NoUrl
    /\ \E u \in Users :
         job = [r \in Requests |-> [step |-> Idle, by |-> u, rank |-> Gone, url |-> NoUrl]]
    /\ launches = 0 /\ handed = 0
    /\ seen = [r \in Requests |-> Nothing]

Busy(r) == job[r].step # Idle
At(r, step) == job[r].step = step
Goto(r, step) == job' = [job EXCEPT ![r].step = step]

Finish(r) ==
    /\ job' = [job EXCEPT ![r].step = Idle, ![r].rank = Gone, ![r].url = NoUrl]
    /\ seen' = [seen EXCEPT ![r] = Nothing]

Higher(x, y) == IF x < y THEN y ELSE x
Lower(x, y) == IF x < y THEN x ELSE y

\* The history of the requests under way takes in the new state.
Observe ==
    seen' = [r \in Requests |->
        IF Busy(r)
        THEN [rank |-> Higher(seen[r].rank, rank'[job[r].by]),
              needed |-> Lower(seen[r].needed, Needed'),
              urls |-> seen[r].urls \cup {url'}]
        ELSE seen[r]]
-----------------------------------------------------------------------------
Start(r, u) ==
    /\ ~Busy(r)
    /\ launches < MaxLaunches
    /\ job' = [job EXCEPT ![r] = [step |-> "user", by |-> u, rank |-> Gone, url |-> NoUrl]]
    /\ seen' = [seen EXCEPT ![r] = [rank |-> rank[u], needed |-> Needed, urls |-> {url}]]
    /\ UNCHANGED <<rank, module, url, launches, handed>>

\* Role and level are read from the row, not from the access token.
FindUser(r) ==
    /\ At(r, "user")
    /\ IF rank[job[r].by] = Gone
       THEN Finish(r)
       ELSE /\ job' = [job EXCEPT ![r].step = "subscription", ![r].rank = rank[job[r].by]]
            /\ UNCHANGED seen
    /\ UNCHANGED <<rank, module, url, launches, handed>>

\* Mutant: a subscription that has been switched off counts.
MutantFindSubscription(r) ==
    /\ At(r, "subscription")
    /\ IF subscribed /\ job[r].rank >= minLevel
       THEN Goto(r, "endpoint") /\ UNCHANGED seen
       ELSE Finish(r)
    /\ UNCHANGED <<rank, module, url, launches, handed>>

\* The row must exist and be active, and its level be met.
FindSubscription(r) ==
    /\ At(r, "subscription")
    /\ IF job[r].rank >= Needed
       THEN Goto(r, "endpoint") /\ UNCHANGED seen
       ELSE Finish(r)
    /\ UNCHANGED <<rank, module, url, launches, handed>>

\* Mutant: the answer does not wait for the audit row.
MutantFindEndpoint(r) ==
    /\ At(r, "endpoint")
    /\ IF url = NoUrl
       THEN Finish(r)
       ELSE /\ job' = [job EXCEPT ![r].step = "return", ![r].url = url]
            /\ UNCHANGED seen
    /\ UNCHANGED <<rank, module, url, launches, handed>>

\* The address is read last.
FindEndpoint(r) ==
    /\ At(r, "endpoint")
    /\ IF url = NoUrl
       THEN Finish(r)
       ELSE /\ job' = [job EXCEPT ![r].step = "audit", ![r].url = url]
            /\ UNCHANGED seen
    /\ UNCHANGED <<rank, module, url, launches, handed>>

\* The ModuleLaunch row: no foreign keys, so it does not fail.
Audit(r) ==
    /\ At(r, "audit")
    /\ launches' = launches + 1
    /\ Goto(r, "return")
    /\ UNCHANGED <<rank, module, url, handed, seen>>

Return(r) ==
    /\ At(r, "return")
    /\ handed' = handed + 1
    /\ Finish(r)
    /\ UNCHANGED <<rank, module, url, launches>>
-----------------------------------------------------------------------------
\* changeRoleForTenant, removeUserForTenant.
ChangeRank(u, k) ==
    /\ rank[u] # Gone
    /\ rank' = [rank EXCEPT ![u] = k]
    /\ UNCHANGED <<module, url, job, launches, handed>>
    /\ Observe

\* A row that exists is refused by its unique key.
ActivateModule ==
    /\ ~subscribed
    /\ subscribed' = TRUE /\ active' = TRUE /\ minLevel' = DefaultLevel
    /\ UNCHANGED <<rank, url, job, launches, handed>>
    /\ Observe

UpdateModule(isActive) ==
    /\ subscribed
    /\ active' = isActive
    /\ UNCHANGED <<rank, subscribed, minLevel, url, job, launches, handed>>
    /\ Observe

\* The row goes, and with it the level its Admin has chosen.
DeactivateModule ==
    /\ subscribed
    /\ subscribed' = FALSE /\ active' = TRUE /\ minLevel' = DefaultLevel
    /\ UNCHANGED <<rank, url, job, launches, handed>>
    /\ Observe

SetMinLevel(l) ==
    /\ subscribed
    /\ minLevel' = l
    /\ UNCHANGED <<rank, subscribed, active, url, job, launches, handed>>
    /\ Observe

\* The request body always holds a host and a port.
UpdateEndpoint(v) ==
    /\ url' = v
    /\ UNCHANGED <<rank, module, job, launches, handed>>
    /\ Observe

\* deleteTenantWithUsers: subscription and users go in one transaction.
RemoveTenant ==
    /\ subscribed' = FALSE /\ active' = TRUE /\ minLevel' = DefaultLevel
    /\ rank' = [u \in Users |-> Gone]
    /\ UNCHANGED <<url, job, launches, handed>>
    /\ Observe

Crash ==
    /\ \E r \in Requests : Busy(r)
    /\ job' = [r \in Requests |-> [job[r] EXCEPT !.step = Idle, !.rank = Gone, !.url = NoUrl]]
    /\ seen' = [r \in Requests |-> Nothing]
    /\ UNCHANGED <<rank, module, url, launches, handed>>
-----------------------------------------------------------------------------
Next ==
    \/ \E r \in Requests, u \in Users : Start(r, u)
    \/ \E r \in Requests : FindUser(r)
    \/ \E r \in Requests : FindSubscription(r)
    \/ \E r \in Requests : FindEndpoint(r)
    \/ \E r \in Requests : Audit(r)
    \/ \E r \in Requests : Return(r)
    \/ \E u \in Users, k \in Ranks : ChangeRank(u, k)
    \/ ActivateModule
    \/ \E b \in BOOLEAN : UpdateModule(b)
    \/ DeactivateModule
    \/ \E l \in Levels : SetMinLevel(l)
    \/ \E v \in Urls : UpdateEndpoint(v)
    \/ RemoveTenant
    \/ Crash

Spec == Init /\ [][Next]_vars
-----------------------------------------------------------------------------
\* "A demotion takes effect on the very next launch" (comment of launch), and so
\* do a deactivation, a raised level and a moved endpoint: a launch is granted
\* on a level the user has had, a requirement that has stood and an address
\* that has been configured since the request began, never on older ones.
GrantsAreCurrent ==
    \A r \in Requests :
       job[r].step \in {"audit", "return"} =>
          /\ seen[r].rank >= seen[r].needed
          /\ job[r].url \in seen[r].urls \ {NoUrl}

\* Every address handed out has its audit row, whatever stops in between: the
\* rows are at least the URLs handed out and those about to be.
LaunchesAreAudited == handed + Cardinality({r \in Requests : At(r, "return")}) <= launches
=============================================================================
