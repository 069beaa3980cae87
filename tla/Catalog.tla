-------------------------------- MODULE Catalog --------------------------------
(* The requests around the launches of ModuleAccess: the list of modules a     *)
(* user is shown (listForUser), a Super Admin's changes of the subscription    *)
(* (TenantsService), each with its check that the tenant exists, and the       *)
(* connection test of the endpoint (testConnection, ConnectionProbe), while    *)
(* the tenant may be deleted.                                                  *)
EXTENDS ModuleAccess

CONSTANTS
    Others,          \* requests that are not launches, ...
    SuperAdmins,     \* ... and those of them that Super Admins make
    MaxUnderWay      \* bound on the requests under way at a time

ASSUME CatalogAssumption == SuperAdmins \subseteq Others /\ MaxUnderWay \in Nat

VARIABLES
    tenant,          \* whether the Tenant row exists
    claims,          \* what each user's latest access token is worth
    other            \* what each of the other requests is at

catalogVars == <<vars, tenant, claims, other>>

Ops == {"rename", "list", "activate", "on", "off", "deactivate"}
Events == {"connect", "timeout", "error"}
NoJob == [op |-> "idle"]

Clerks == [op : Ops, step : {"check", "statement"}, existed : BOOLEAN]
Answers == [op : {"answered"}, to : Ops, code : {"ok", "404", "409", "500"}, existed : BOOLEAN]
Lists == [op : {"modules"}, by : Users, rank : Ranks, unread : SUBSET {"module", "endpoint"},
          shown : BOOLEAN, configured : BOOLEAN, calm : BOOLEAN]
\* "Opens an outbound TCP connection (up to a 3 s timeout)" (comment of test):
\* no socket outlives its answer, whichever events come and in whatever order.
Probes == {p \in [op : {"probe"}, to : Urls, open : BOOLEAN, queue : SUBSET Events,
                  answer : Events \cup {"none"}] : p.answer # "none" => ~p.open}

CatalogTypeOK ==
    /\ TypeOK
    /\ tenant \in BOOLEAN
    /\ ~tenant => ~subscribed /\ \A u \in Users : rank[u] = Gone
    /\ claims \in [Users -> Ranks]
    /\ other \in [Others -> Clerks \cup Answers \cup Lists \cup Probes \cup {NoJob}]

CatalogInit ==
    /\ Init
    /\ tenant = TRUE
    /\ claims = rank
    /\ other = [q \in Others |-> NoJob]

UnderWay ==
    Cardinality({r \in Requests : Busy(r)}) + Cardinality({q \in Others : other[q] # NoJob})

Put(q, record) == other' = [other EXCEPT ![q] = record]

\* A list that is under way or on the screen is no longer of an undisturbed
\* system once something it depends on has changed.
Disturbed ==
    other' = [q \in Others |->
        IF other[q].op = "modules"
           /\ <<rank'[other[q].by], Needed', url'>> # <<rank[other[q].by], Needed, url>>
        THEN [other[q] EXCEPT !.calm = FALSE]
        ELSE other[q]]

\* The Admin's level rule, an Integration Admin's address, a change of role or
\* a removal, and the launches.
Around ==
    /\ \/ UnderWay < MaxUnderWay /\ \E r \in Requests, u \in Users : Start(r, u)
       \/ \E r \in Requests : FindUser(r) \/ FindSubscription(r) \/ FindEndpoint(r)
       \/ \E r \in Requests : Audit(r) \/ Return(r)
       \/ \E u \in Users, k \in Ranks : ChangeRank(u, k)
       \/ \E l \in Levels : SetMinLevel(l)
       \/ \E v \in Urls : UpdateEndpoint(v)
    /\ Disturbed
    /\ UNCHANGED <<tenant, claims>>

Refresh(u) ==
    /\ rank[u] # Gone
    /\ claims' = [claims EXCEPT ![u] = rank[u]]
    /\ UNCHANGED <<vars, tenant, other>>
-----------------------------------------------------------------------------
\* A Super Admin's request.
Begin(q, op) ==
    /\ other[q] = NoJob /\ UnderWay < MaxUnderWay
    /\ Put(q, [op |-> op, step |-> "check", existed |-> tenant])
    /\ UNCHANGED <<vars, tenant, claims>>

Answer(q, code) ==
    Put(q, [op |-> "answered", to |-> other[q].op, code |-> code, existed |-> other[q].existed])

EnsureTenantExists(q) ==
    /\ other[q].op \in Ops /\ other[q].step = "check"
    /\ IF tenant THEN Put(q, [other[q] EXCEPT !.step = "statement"]) ELSE Answer(q, "404")
    /\ UNCHANGED <<vars, tenant, claims>>

\* What the statement stores; of a tenant that is gone it finds nothing, and
\* the foreign key refuses a new subscription.
Stores(op) ==
    \/ op = "activate" /\ tenant /\ ActivateModule
    \/ op = "on" /\ UpdateModule(TRUE)
    \/ op = "off" /\ UpdateModule(FALSE)
    \/ op = "deactivate" /\ DeactivateModule
    \/ op = "list" /\ UNCHANGED vars
    \/ op = "rename" /\ tenant /\ UNCHANGED vars

\* P2002 is a conflict, P2025 of a subscription not found; a broken foreign key
\* and P2025 of the tenant are not caught.
Refused(op) ==
    CASE op = "activate" -> IF subscribed THEN "409" ELSE "500"
      [] op = "rename" -> "500"
      [] OTHER -> "404"

Statement(q) ==
    LET op == other[q].op IN
    /\ op \in Ops /\ other[q].step = "statement"
    /\ \/ /\ Stores(op)
          /\ other' = [p \in Others |->
               IF p = q
               THEN [op |-> "answered", to |-> op, code |-> "ok", existed |-> other[q].existed]
               ELSE IF other[p].op = "modules" /\ Needed' # Needed
                    THEN [other[p] EXCEPT !.calm = FALSE] ELSE other[p]]
       \/ /\ IF op \in {"on", "off", "deactivate"} THEN ~subscribed
             ELSE (op = "activate" /\ subscribed) \/ (op # "list" /\ ~tenant)
          /\ Answer(q, Refused(op))
          /\ UNCHANGED vars
    /\ UNCHANGED <<tenant, claims>>

DeleteTenant ==
    /\ tenant
    /\ tenant' = FALSE
    /\ RemoveTenant
    /\ Disturbed
    /\ UNCHANGED claims
-----------------------------------------------------------------------------
\* listForUser goes by the claims of the token; Promise.all sends both reads.
ListAvailable(q, u) ==
    /\ other[q] = NoJob /\ UnderWay < MaxUnderWay
    /\ claims[u] # Gone
    /\ Put(q, [op |-> "modules", by |-> u, rank |-> claims[u], unread |-> {"module", "endpoint"},
               shown |-> FALSE, configured |-> FALSE, calm |-> TRUE])
    /\ UNCHANGED <<vars, tenant, claims>>

\* Mutant: a subscription that has been switched off is listed.
MutantReadModule(q) ==
    /\ other[q].op = "modules" /\ "module" \in other[q].unread
    /\ Put(q, [other[q] EXCEPT !.unread = @ \ {"module"},
                               !.shown = subscribed /\ other[q].rank >= minLevel])
    /\ UNCHANGED <<vars, tenant, claims>>

\* An Admin sees every active module, an analyst those of its level.
ReadModule(q) ==
    /\ other[q].op = "modules" /\ "module" \in other[q].unread
    /\ Put(q, [other[q] EXCEPT
         !.unread = @ \ {"module"},
         !.shown = subscribed /\ active /\ (other[q].rank = AdminRank \/ other[q].rank >= minLevel)])
    /\ UNCHANGED <<vars, tenant, claims>>

ReadEndpoint(q) ==
    /\ other[q].op = "modules" /\ "endpoint" \in other[q].unread
    /\ Put(q, [other[q] EXCEPT !.unread = @ \ {"endpoint"}, !.configured = url # NoUrl])
    /\ UNCHANGED <<vars, tenant, claims>>
-----------------------------------------------------------------------------
\* testConnection: an endpoint without an address is refused.
Probe(q) ==
    /\ other[q] = NoJob /\ UnderWay < MaxUnderWay
    /\ url # NoUrl
    /\ Put(q, [op |-> "probe", to |-> url, open |-> TRUE, queue |-> {},
               answer |-> "none"])
    /\ UNCHANGED <<vars, tenant, claims>>

\* Mutant: no setTimeout.
MutantHappen(q, e) ==
    /\ other[q].op = "probe" /\ other[q].open
    /\ e \notin other[q].queue \cup {"timeout"}
    /\ e = "connect" => "error" \notin other[q].queue
    /\ Put(q, [other[q] EXCEPT !.queue = @ \cup {e}])
    /\ UNCHANGED <<vars, tenant, claims>>

\* The network or the timer: an event is queued.  A connection that is made can
\* still fail, one that has failed is not made.
Happen(q, e) ==
    /\ other[q].op = "probe" /\ other[q].open
    /\ e \notin other[q].queue
    /\ e = "connect" => "error" \notin other[q].queue
    /\ Put(q, [other[q] EXCEPT !.queue = @ \cup {e}])
    /\ UNCHANGED <<vars, tenant, claims>>

\* Mutant: the timer leaves the socket to its own devices.
MutantHandle(q, e) ==
    /\ other[q].op = "probe" /\ e \in other[q].queue
    /\ Put(q, [other[q] EXCEPT
         !.queue = @ \ {e}, !.open = @ /\ e = "timeout",
         !.answer = IF @ = "none" THEN e ELSE @])
    /\ UNCHANGED <<vars, tenant, claims>>

\* The event's callback: destroy, then resolve, which counts once.
Handle(q, e) ==
    /\ other[q].op = "probe" /\ e \in other[q].queue
    /\ Put(q, [other[q] EXCEPT
         !.queue = @ \ {e}, !.open = FALSE,
         !.answer = IF @ = "none" THEN e ELSE @])
    /\ UNCHANGED <<vars, tenant, claims>>

\* A request that has its answer is over; events of a socket that has been
\* destroyed may never be delivered.
Finished(q) ==
    \/ other[q].op = "answered"
    \/ other[q].op = "modules" /\ other[q].unread = {}
    \/ other[q].op = "probe" /\ other[q].answer # "none"

Forget(q) ==
    /\ Finished(q)
    /\ Put(q, NoJob)
    /\ UNCHANGED <<vars, tenant, claims>>

Restart ==
    /\ \/ Crash
       \/ (\E q \in Others : other[q] # NoJob) /\ (\A r \in Requests : ~Busy(r)) /\ UNCHANGED vars
    /\ other' = [q \in Others |-> NoJob]
    /\ UNCHANGED <<tenant, claims>>
-----------------------------------------------------------------------------
Proceed(q) ==
    \/ EnsureTenantExists(q) \/ Statement(q)
    \/ ReadModule(q) \/ ReadEndpoint(q)
    \/ \E e \in Events : Handle(q, e)

CatalogNext ==
    \/ Around
    \/ \E u \in Users : Refresh(u)
    \/ \E q \in SuperAdmins, op \in Ops : Begin(q, op)
    \/ \E q \in Others \ SuperAdmins, u \in Users : ListAvailable(q, u)
    \/ \E q \in Others \ SuperAdmins : Probe(q)
    \/ \E q \in Others, e \in Events : Happen(q, e)
    \/ \E q \in Others : Proceed(q)
    \/ \E q \in Others : Forget(q)
    \/ DeleteTenant
    \/ Restart

\* Statements are answered, callbacks are called, and the timer of a socket
\* runs out.
CatalogSpec ==
    /\ CatalogInit /\ [][CatalogNext]_catalogVars
    /\ \A q \in Others : WF_catalogVars(Proceed(q)) /\ WF_catalogVars(Happen(q, "timeout"))
-----------------------------------------------------------------------------
\* "The list never advertises modules they can't open" (comment of
\* listForUser): with an up-to-date token and nothing changed meanwhile, a
\* module is listed as one that can be launched exactly when launch, which goes
\* by the rows, lets the user in.
ListsMatchLaunches ==
    \A q \in Others :
       (other[q].op = "modules" /\ other[q].unread = {} /\ other[q].calm
          /\ other[q].rank = rank[other[q].by]) =>
       ((other[q].shown /\ other[q].configured) <=> (rank[other[q].by] >= Needed /\ url # NoUrl))

\* A tenant that is not there is answered with 404; an error nobody has caught
\* is left to requests that have seen the tenant before it was deleted.
ErrorsAreExplained ==
    \A q \in Others :
       (other[q].op = "answered" /\ other[q].code = "500") => (other[q].existed /\ ~tenant)

\* A request that is under way is answered, or the process is restarted.
OthersEnd == \A q \in Others : (other[q].op # "idle") ~> (other[q] = NoJob \/ Finished(q))
=============================================================================
