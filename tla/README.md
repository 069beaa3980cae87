# Verification of backend-gerance

backend-gerance is a NestJS service over one PostgreSQL database. It keeps the tenants of a
platform, their users, the users' sessions and passwords, the security modules each tenant may
open, and support tickets with their notifications. Every request runs as a sequence of Prisma
statements; at each `await` the event loop may run a statement of another request. There are no
locks, few transactions, and the caller of a request is known by the claims of an access token
that is up to fifteen minutes older than the database. That is where the hard behaviours are, and
that is what the modules here model.

- [Inventory](#inventory): the parts of the system and what makes each of them correct
- [Conventions](#conventions): how code becomes actions
- [Modules](#modules): state, actions and properties, part by part
- [Runs](#runs): what is checked, with which bounds
- [Where the code and its documentation disagree](#where-the-code-and-its-documentation-disagree)
- [Proofs](#proofs): what is proved, and along which argument
- [What is not modelled](#what-is-not-modelled) and the [plan](#plan)

## Inventory

| Part | Code | State | Operations | Hard behaviours | Correct when |
|---|---|---|---|---|---|
| Sessions and refresh tokens | `auth/auth.service.ts` | `RefreshToken` rows: family, successor, revoked, expiry | login, refresh, logout, nightly purge | two refreshes of one token; reuse detection against a rotation under way; crash between statements; purge | a family has one exchangeable token; a killed family stays dead; no honest client is taken for a thief |
| Lockout of logins | `auth/auth.service.ts` | `failedLoginAttempts`, `lockedUntil` | validateUser, an Admin's reset | the row is read before argon2 runs, and several logins run at once | no failure goes uncounted; a lock cannot be worked around |
| Users and tenants | `users/users.service.ts`, `tenants/tenants.service.ts` | `User` and `Tenant` rows, issued claims | create, change role, delete, delete a tenant | check and write in separate statements; stale claims; deletion in between, and between the statements of a tenant's deletion | tenants are isolated; who can strand a tenant is known; a deletion leaves nobody it could have seen |
| Passwords and their history | `users/users.service.ts` | hash, `mustChangePassword`, `PasswordHistory` rows | change, reset | change against reset; crash between entry and hash | the last five passwords stay blocked; a reset forces a change |
| Requests for a new password | `users/users.service.ts`, `users/users.controller.ts`, `users/integration-admins.controller.ts` | `passwordResetRequestedAt` | ask, poll, reset | polls of several statements; the recipient is computed from roles and order of creation | each request is told to one account that can answer it |
| Module access | `module-access/*`, the subscriptions of `tenants.service.ts` | `TenantModule`, `ModuleEndpoint`, `ModuleLaunch` rows | activate, update, deactivate, set level, set address, launch | a launch reads three rows at three moments | a launch is granted on what was true since it began, and audited |
| Tickets | `tickets/tickets.service.ts` | `Ticket` rows | create, change the status, list | status checked on a row read earlier; stale claims; deletions | only those entitled change a ticket, along the table of transitions as far as its requests do not overlap |
| Notifications | `tickets/notifications.service.ts` | `Notification` rows | notify, list, mark as read | stored after the ticket, without a transaction | recipients are told, and nobody else |
| Live events | `events/*` | an in-memory emitter, open streams | emit, subscribe | no buffer; the row is stored first and the event sent later; restarts | a user receives its own events only, and misses nothing that the list does not make good |
| Guards and access tokens | `auth/guards/*`, `auth/jwt.strategy.ts`, `auth/auth.controller.ts` | claims in tokens | sign, authenticate, check the role, force the change of password | claims older than the row; requests in flight that sign what they have read | the answers catch up with the row within the life of a token |
| Connection test | `module-access/connection-probe.ts` | one socket | probe | connect, timeout and error in any order | the first decides, and the socket is closed |
| Accounts, their list and the seeds | `tenants/tenants.service.ts`, `users/users.service.ts`, `prisma/seed.ts`, `prisma/seed-modules.ts` | `User` and `Tenant` rows, addresses, `createdAt` | create a tenant with its Admin, create, rename and remove a user, page through the list, seed Super Admins, seed demo tenants | a check and an INSERT apart; pages of a table that moves; seeds that are killed, or run twice | no tenant without its Admin; pages are honest; a seed can be repeated |
| Rate limits | `common/user-throttler.guard.ts` | counters of the library | count | | one user cannot use up another's |
| Everything else | DTOs, filters, health, `main.ts`, migrations, Docker | | | | |

They interact through the database. Deleting a user takes its refresh tokens, password history and
notifications with it; deleting a tenant takes its users, tickets and subscriptions; a reset clears
the lockout and the request for it; a role change is seen by launches at once and by everything
else when the access token is renewed. TicketsService calls NotificationsService after its own
statement has been committed; NotificationsService stores a row per recipient and then emits an event
per row, which EventsService passes to the open streams of that user. The guards sit before every
handler and look at the claims, not at the row. The seeds are processes of their own on the same
database.

## Conventions

- One Prisma call is one step, and so is a `$transaction([...])`, as long as no other statement can
  tell. Transactions run at READ COMMITTED, so each of their statements sees what has been committed
  before it. In `deleteTenantWithUsers` that matters, and TenantAdmins takes its deletion of the users
  and that of the tenant apart; Tickets says why one step is enough for tickets and notifications.
  What a request has read, and what it does next, is kept in `job` (or `pc` and its companions) per
  member of `Requests`.
- A handler that ends early (404, 409, 401) goes back to idle. Steps that only read and fail
  change nothing and are left out.
- Where two consecutive statements cannot be told apart by others (the second reads a row that
  never changes, or both are reads of one row), they are one step, and the comment says so.
- An access token is a set of claims that stays usable, whatever happens to its row, until it
  expires. Expiry is a step that may happen at any time.
- A crash sends every request back to idle and leaves the database as it is.
- Variables and record fields described as *history* are written and never read by an action.
- A definition whose name begins with `Mutant` is the mistake a change of the code could make in
  the definition after it. It is not part of the model: the run that lists it is made to fail with
  it, which shows that its property depends on that line of the code.

## Modules

### Sessions, RefreshTokens, RefreshTokensProofs

`RefreshTokens` is `login`, `refresh`, `logout` and `cleanupExpiredRefreshTokens` of AuthService.
A refresh is find (`Find`, deciding on revocation and expiry), read the user (`FindUser`), insert
the successor (`Mint`), revoke the old token if it still is unrevoked and link it (`Swap`, the
conditional `updateMany`), and answer (`Respond`); or, when the token was revoked or the
conditional update has matched nothing, `KillFamily`. A family is named by its first token.
Deleting a user, the purge, the clock and crashes may come between any two of them.

`Sessions` is the promise: per family a session that carries one token, takes a fresh one with
each rotation, and never comes back once ended. `ImplementsSessions` maps the rows to it.

Properties: `SingleCurrentToken`, `RotationChain` (the audit chain is unbroken and unbranched),
`NoFalseReuse`, `KilledFamilyIsDead`.

### LoginLockout, LoginLockoutProofs

`validateUser` for one account: `Find` reads the row, argon2 runs, then `Accept`, `Refuse` or
`RefuseLocked`; a refusal leads to `Increment` (the atomic increment) and `Lock`, an acceptance to
`Clear` when there was something to clear. `AdminReset` is what `applyPasswordReset` does to the
two columns.

Properties: `NoUndercount`, `LockFollows`, `LockStopsGuessing` (a bound on the passwords told right
from wrong during one lock), `OnlyEarlierLoginsMoveTheLock`.

### Account, AccountProofs

One account, its access tokens and the guards. A token is the claims the signing request has read
and the life it has left; it lives on wherever it is. `JwtAuthGuard`, `RolesGuard` and
`MustChangePasswordGuard` decide in their order on the claims and the decorators of a route. Routes
stand for the combinations of decorators there are: public (`refresh`), exempt from the change of
password (`logout`, `password`), for Admins (`users`), and without a decorator (`tickets`). Login,
refresh and the change of the password read the row in one step and sign in a later one, and a
request is answered within `Latency` ticks; a reset, a change of role and a deletion come in between.
A session is a Boolean here: what it is worth is RefreshTokens' matter.

Properties: `AnswersCatchUp` (a token's answers differ from the row's for less than
`TokenLife + Latency`, which the comment of `JwtStrategy.validate` puts as "up to 15 minutes"),
`NewAccountsAreGated`, and `ChangeOpensTheGate`.

### TenantAdmins, SerialAdmins, TenantAdminsProofs

Tenants and users: `CreateTenant` (one transaction), the deletion of a tenant, `CreateUser`,
`ChangeRole` with its count and update, `RemoveUser` with its delete, and the claims: a login or
refresh reads the row (`ReadClaims`) and signs later (`Sign`). `May` is what guards, controller and
`findByIdForTenant` ask of the caller together.

The deletion of a tenant is `DeleteUsers`, which takes the users that `user.deleteMany` finds and
locks their rows (`Locked`: an UPDATE or DELETE of one of them waits, reads see the old row), and
`DeleteTenant`, the last statement and the commit, or `RollBack`. `Leaving` are the tenants in
between. A user created then is not among those deleted, and its foreign key does not hold the tenant
back: `User_tenantId_fkey` is ON DELETE SET NULL, so the user stays without a tenant. `late` is the
history of those users, `used` of the ids that have been given.

`SerialAdmins` adds one history variable, `disturbed`: whether requests that demote or delete have
overlapped, or a former Admin has begun a deletion. It asks under which circumstances the promise
"every tenant must always have at least one Admin" is kept.

Properties: `OnlyFormerAdminsStrandATenant`, `TenantsAreIsolated`, `OnlyLatecomersAreLeft` (a
deletion leaves nobody but those created while it was under way), `SerialRequestsKeepAnAdmin`; and two
that the repository states and the code does not keep, `TenantHasAdmin` (a run shows it) and
`NoOrphans`.

### Directory, AccountProofs

Where accounts come from, and the list of them. `CreateUser` and `CreateTenant` are followed by
their INSERT (`StoreUser`, `StoreTenant`), `UpdateUser` and `DeleteUser` find the row and change it
later; the unique index refuses an address that is taken. `StartSeed` is `prisma/seed.ts`, with
`FindEntry` and `CreateSuperAdmin` per entry; `SeedTenant` is `prisma/seed-modules.ts`, the tenant,
its users in one `createMany`, the Integration Admin. `StartWalk` is a client that asks for page
after page of a tenant's list, each a page and a count; the order of `createdAt` leaves ties open, as
the query does. `createdAt` is set when Prisma builds the INSERT, which need not be the order in
which rows are committed.

Properties: `PagesAreHonest`, `FirstAdmins`, `SeedsRecover`.

### PasswordHistory, PasswordHistoryProofs

The owner's `changePassword` and the resets, on one account: read, `Compare` with the latest
entries, `Record`, `Write`. A hash is named by its password. `disturbed` notes whether two requests
have ever overlapped or one has been cut short.

Properties: `EveryChangeHasAnEntry` in all circumstances; `NoReuse` and `ResetAloneForcesChange` as
long as nothing is disturbed.

### ResetRequests, ResetRequestsProofs

Who is told of a request for a new password. `rows` is the `User` table in order of creation.
The polls are there in their statements: `PollAsAdmin` and `CountRequests`; `PollTenantsPage` and
one `Look` per pending Admin; `PollIntegrationPage`. So are the conditions of the three resets,
`ResetForTenant`, `ResetSoleAdmin` with `CountAdmins`, and `ResetIntegrationAdmin`. The life of a
user, which TenantAdmins takes apart, is one step here, and any user may be deleted or demoted,
because TenantAdmins shows that it can happen.

`due` collects, for a request under way, those who have concerned it at every moment since it
began: accounts a poll must report, co-Admins on account of whom a Super Admin must be refused.

Properties: `OneRecipientPerRequest`, `StandingRequestsAreReported`, `SuperAdminStaysOut`,
`RecipientsCanReset`.

### ModuleAccess, Catalog, ModuleAccessProofs

`ModuleAccess` is one module of one tenant: `launch` in its five statements, the operations that
change what it reads, and the end of the tenant. Roles and levels are one number, the rank. `seen` is
the history of what has been true since a launch began.

`Catalog` composes it with the other requests of ModulesController, ModuleEndpointsController and
TenantsController about that module: the list a user is shown (`ListAvailable`, two queries whose
order is the database's), a Super Admin's changes of the subscription (`Begin`: `ensureTenantExists`
first, the statement later), the connection test (`Probe`, with `Happen` for the callbacks of the
socket in any order and `Proceed` for the code after the promise), and `DeleteTenant` at any moment.
A list goes by the claims of the caller's token, a launch by the row. Every step of Catalog is a
step of ModuleAccess or leaves its variables alone.

Properties: `GrantsAreCurrent` (the code's reason for reading the row again on every launch),
`LaunchesAreAudited`, `ListsMatchLaunches`, `ErrorsAreExplained`, `OthersEnd`.

### Tickets, Inbox, TicketsProofs

`Tickets` has tickets and the rows of their notifications: `Create` (insert), `FindRecipients`,
`Notify`; `StartStatus` (find and check, `MayMove`), `UpdateStatus` (by id alone), `Notify`. A caller
may use any token that was ever signed for it (`token` is the set of their roles), whatever its row
says now. Users are deleted (`createdById` goes NULL) and tenants too: their tickets, notifications and
users in one step, because a row stored in between would RESTRICT one of the statements and fail them
all. `owed` is the history of the notifications that were due, `from` in a request that of the status
it has read.

`Inbox` composes these steps with what becomes of a stored notification: the events of `notify`'s
loop are emitted after the INSERT (`unsent`, `Emit`), reach the streams that are open at that moment
(`Connect`, `Receive`), and nothing is buffered; the list (`List`, `Show`) gives the newest
`ListLimit` rows; `MarkRead` and `MarkAllRead` are scoped to the caller; `Restart` loses requests,
emitter and streams and keeps the rows. The client is not in the repository: it opens its stream
first and asks for the list then, which `NothingMissed` depends on.

Properties: `ChangedByEntitled`, `NoticesStayInside` (what `deleteTenantWithUsers` relies on),
`CreatorIsTold`, `OnlyOverlapsLeaveTheTable` and `OnlyDeletedRecipientsSilence` (what it takes for the
two promises to fail that the repository makes without a condition, `AllowedMoves` and
`RecipientsAreTold`), `NothingMissed`, `NoticesAreShown`, `NoticesArrive`.

## Runs

| Run | Asks | Bounds |
|---|---|---|
| `refresh_rotation` | all of RefreshTokens, and that it implements Sessions | 3 tokens, 1 user, 2 requests, tokens that expire with the next tick, 1 tick |
| `login_lockout` | LoginLockout | 3 logins at once, threshold 2, locks of 2 ticks, 3 ticks, 4 failures |
| `accounts` | Account: what tokens from before a change of the row still open; Directory: pages, seeds, first Admins | 2 browsers, tokens that live 1 tick, requests that take up to 1; 1 tenant, 5 addresses, 3 accounts, a seed of 2 entries, 2 demo users, 2 requests or seeds at once, 2 ticks, pages of 1 and 2 |
| `tenant_users` | isolation, who a deleted tenant leaves, who can strand a tenant, what keeps its last Admin | 3 users, 2 tenants, 2 requests |
| `tenant_role_race` | *fails*: a tenant has an Admin | 2 users, 1 tenant, 2 requests |
| `password_changes` | PasswordHistory | 6 passwords, the code's limit of 4 entries, 2 requests, crashes; requests start while there are fewer than 5 entries |
| `reset_routing` | ResetRequests | 3 users, 2 tenants and the platform, 2 requests |
| `reset_unresolvable` | *fails*: whoever is told can reset | 3 users, 1 tenant |
| `module_catalog` | ModuleAccess and Catalog together | 1 user, 1 address, 1 launch and 2 other requests (one of them a Super Admin's), 2 of the three under way at a time, 2 levels, 1 audited launch |
| `ticket_isolation` | who changes a ticket and how, who is told and who is silenced, under everything that can happen | 3 users, at least one an Integration Admin, 2 tenants, 1 ticket, 2 requests, 2 changes of status begun, role changes, deletions, crashes |
| `ticket_status_race` | *fails*: a ticket moves along the table | 2 users, 1 tenant, 1 ticket, 2 requests, 2 changes begun |
| `ticket_inbox` | delivery, list and stream | 3 users (an Admin, an Integration Admin, one of any role), 1 tenant, 1 ticket, 1 request at a time, 2 changes of status, a list of 1, 1 client, 1 restart |

Account and Directory share no state: `MCAccounts` lets one of them move while the other stands still,
which is as many states as both have, not their product.

Why these are enough. The races are between two requests, or a request and a deletion, a role
change or a crash. Two members of `Requests` give each pair of handlers in each order, and one
member runs any number of requests one after the other. The exceptions are counted: `LoginLockout`
has three logins because its bounds speak of all the others. Three tokens give a root, its
successor and a second successor racing for its place, or two families; three users give two
Admins and somebody else, or the first Admin, a co-Admin and an Analyst; two tenants give an inside
and an outside. Six passwords are one more than the five the history blocks. Three accounts give a
page boundary with a row before it, one after it, and one that moves, or a seed's two entries beside
an account that has taken an address. A ticket's raising and two changes of status give the client
three notifications for a list of one. One audited launch is the whole of a launch: what is asked of
launches beside launches is proved for any number of them. A token's life and a lock's duration matter
only as before and after, so a clock of few ticks stands for both; `Account` keeps no clock, only the
ages that its property compares. The bounds `MaxTime`, `MaxFailures`, `MaxEntries`, `MaxUnderWay`,
`MaxLaunches`, `MaxChanges`, `MaxUsers` and `MaxRestarts` stop counters that have no end in the code.
They are guards of the actions that begin something, so what has begun goes on (`MaxChanges` is
compared with `begun`, the changes asked for, and no update waits for it); only an INSERT past
`MaxUsers` fails, as INSERTs may. Symmetry is used among users, tenants, tokens, passwords, demo
users and requests of safety runs, never in `ticket_inbox` and `module_catalog`, which check
liveness.

Deadlock is checked in `login_lockout` and `reset_routing`. The other runs say
`CHECK_DEADLOCK FALSE`: there the bounds, or tokens, passwords, users, addresses and tickets that
are used up, bring the model to an end. The service holds no locks and waits for requests only.

**Fairness.** Two runs assume any. `InboxSpec` (`ticket_inbox`) has weak fairness of what a request
under way does next, of emitting what has been stored, and of what is sent over an open connection:
the database answers each statement, the event loop runs the continuation, and TCP delivers in order
or breaks (`Disconnect`). `CatalogSpec` (`module_catalog`) has weak fairness of the continuations and
of a socket's timer, not of a connection or an error, which may never come. Neither assumes
that a client asks for anything, or that the process is not restarted: `NoticesArrive` and
`OthersEnd` make a restart one of the ends.

## Where the code and its documentation disagree

Runs that fail, each with a counterexample of a few steps:

- `tenant_role_race`: two Admins demote each other. Each request counts two Admins, and the
  tenant is left with none. (`users.service.ts:190`)
- `ticket_status_race`: both requests read OPEN; the move to IN_PROGRESS is written after the one to
  RESOLVED, which the table does not have. (`tickets.service.ts:145`)
- `reset_unresolvable`: the first Admin of a tenant with other Admins asks for a new password. The
  Super Admins are told, and the reset answers 409 because there are co-Admins, who are not told.
  No race is needed. (`users.service.ts:336`)

These do not hold either, for reasons that are understood, and have no run here:

- `NoOrphans`: an Admin adds a user between the deletion of its tenant's users and that of the
  tenant, and the foreign key sets the new user's `tenantId` to NULL. The comment at
  `tenants.service.ts:191`, that every such key is RESTRICT, is not true of `User`
  (`20260701180540_init/migration.sql:59`). `OnlyLatecomersAreLeft` is what does hold.
- `RecipientsAreTold`: of the recipients of a new ticket, one is deleted between the look-up and the
  INSERT. Its foreign key refuses the whole INSERT, and the others are told nothing.
  `OnlyDeletedRecipientsSilence` is what does hold. (`notifications.service.ts:41`)
- `ResetForcesChange`: the owner's mandatory change is under way when an Admin resets the password.
  The change replaces the reset and clears `mustChangePassword`. (`users.service.ts:246`)
- `LogoutEndsSession`: a rotation that lands before the logout of the same token keeps the
  session alive.
- `ReplayKillsFamily`: once the purge has deleted a revoked row, presenting it is an unknown token.
- `LockNotExtended`, `LockHolds`: a wrong password in flight when the lock is set moves its end, a
  right one lifts it.
- `NoReuse` once requests overlap or a crash comes between the entry and the hash: duplicates push
  older entries out of the four the check looks at, or each request misses the other's password.
- `TenantHasAdmin` with deletions: `removeUserForTenant` counts nobody, so a deleted Admin whose
  token has not expired can delete the last one.
- A Super Admin can ask for a new password (`requestOwnPasswordChange` is open to every role); the
  request is told to nobody. `OneRecipientPerRequest` speaks of users only.
- `listForUser` goes by the level in the token and `launch` by the row, so after a change of role or
  level the list advertises, until the token is renewed, what `launch` refuses. The comment at
  `module-access.service.ts:83` says it never does; `ListsMatchLaunches` asks for an up-to-date token.
- The demo seed stores the tenant before its users. The users are the same in every run, so in a
  second run the INSERT of the users fails and a tenant without users stays
  (`prisma/seed-modules.ts:69`). `FirstAdmins` speaks of the tenants the API has made.

## Proofs

Each proof module establishes, for every value of the constants that the module's assumption
allows, an inductive invariant `IInv` (`Init => IInv`, `IInv /\ [Next]_vars => IInv'`), with one
step per action, and derives the theorems from it. The assumptions say that the markers for "none"
are not among the tokens, tenants or addresses, and that numbers are natural numbers.

- **RefreshTokensProofs** proves `TypeOK`, `SingleCurrentToken`, `RotationChain`,
  `KilledFamilyIsDead`, `NoFalseReuse` and the refinement `ImplementsSessions`. `SingleCurrentToken`
  is not inductive: a request between `Mint` and `Swap` holds a token nobody has been given, so
  `RequestsOK` and `FreshApart` say that it is its own, of the presented token's family and linked
  to nothing. `RowsOK` says that only a revoked row has a successor, which is why `Swap` succeeds
  once. `SuccessorsOK` says that the successor lives for as long as the token it is to replace, so a
  rotation cannot end a session; the refinement needs it. `ReasonsOK` says why a row is revoked,
  which gives `NoFalseReuse`.
- **TenantAdminsProofs** proves `TypeOK`, `OnlyLatecomersAreLeft`, `OnlyFormerAdminsStrandATenant`,
  `TenantsAreIsolated` and `SerialRequestsKeepAnAdmin`, for any number of deletions of tenants at once.
  `JobsOK` has two parts. `UserJobOK`: a request remembers a caller and another user of the caller's
  tenant; rows go, but a user's tenant never changes while it exists, so what `May` found remains true
  through the awaits. `TenantJobOK`: whom a deletion has taken belongs to its tenant and stays,
  being locked, and who else is in the tenant by then is `late`. `SerialInv` adds that, until something
  is disturbed, whoever is about to be demoted or deleted has another Admin beside it, or is none.
- **LoginLockoutProofs** proves `TypeOK`, `LockFollows`, `OnlyEarlierLoginsMoveTheLock`,
  `NoUndercount` and `LockStopsGuessing`. `ReadsOK` says that a login past its verification has seen
  no lock that is still running. The last two count: `NoUndercount` the refusals that have not yet
  been added, `GuessesOK` the logins that do not know of the lock there is, whom nobody joins.
- **AccountProofs** proves `TypeOK`, `AnswersCatchUp`, `NewAccountsAreGated` and
  `ChangeOpensTheGate`, for every number of browsers, `TokenLife` and `Latency`. A token that
  disagrees with the row must have been signed by a request that had read an older one, so the
  invariant counts: what has passed since the answer changed and what a token has left add up to no
  more than the life of a token and the latency (`TokensOK`), and what has passed is no more than the
  age of a request that still holds the older claims (`JobsOK`). `NoneOpened` and `ChangesOK` say
  what a request under way may be about to sign.
- **PasswordHistoryProofs** proves `TypeOK`, `EveryChangeHasAnEntry`, `ResetAloneForcesChange` and,
  for every `HistoryLimit`, `NoReuse`. Until something is disturbed there is at most one request
  (`Alone`), so what it has read is what is there, and the entries follow the changes one by one; the
  lemma `LatestAppend` says what appending does to the latest entries. `EveryChangeHasAnEntry` needs
  none of that: it counts the requests between the entry and the hash.
- **ModuleAccessProofs** proves `TypeOK`, `GrantsAreCurrent` and `LaunchesAreAudited`.
  `SeenIsCurrent` says that the history covers the present, `ReadsWereSeen` that it covers what the
  launch has read; the audit needs the cardinality of the launches between their row and their
  answer.
  The same module proves about Catalog `Implements` (each step is a step of ModuleAccess or a
  stutter), so that `GrantsAreCurrent` and `LaunchesAreAudited` carry over, and from an invariant of
  its own, `CInv`, `CatalogTypeOK`, `ListsMatchLaunches` and `ErrorsAreExplained`. `ListsOK` says that the half of a
  list that has been read agrees with the rows as long as it is undisturbed; `ClerksOK` that a
  request which has passed `ensureTenantExists` has seen the tenant.
- **TicketsProofs** proves `TypeOK`, `ChangedByEntitled`, `NoticesStayInside`, `CreatorIsTold`,
  `OnlyDeletedRecipientsSilence` and `OnlyOverlapsLeaveTheTable`, with role changes, stale tokens,
  deletions and crashes, for any number of requests. `Frame` is what no step changes: the tenant of a
  user, and the tenant, author and category of a ticket. `MoveOK` says of a request about to change a
  status that its caller is entitled to it and that the table allows it from the status that was read
  (or that it resolves the ticket, which the table allows from any other). `NoticeOK` says that a batch
  about to be stored is of one ticket and stays owed while the ticket exists, so that, if its INSERT
  is refused, one of its own users has been deleted (`StepSilence`). `TenantsGo` concludes
  that the foreign key of notifications never refuses the deletion of a tenant.

  About Inbox, whose steps are Tickets' or the end of the process (`InboxSteps`), it proves the
  invariants again and `InboxTypeOK` and `NothingMissed`, with `ScreensOK`: every row that is stored has
  its place in `order`, and a stream carries its user's own notifications. That a row which is deleted
  makes no older one recent is why `Recent` goes by `order`.
- **ResetRequestsProofs** proves `TypeOK`, `StandingRequestsAreReported`, `SuperAdminStaysOut` and
  `OneRecipientPerRequest`. `RequestsOK` says that those a request has to reckon with (`due`) still
  concern it, and that the search of the Tenants page has not passed them over. That one indicator
  stands for a request rests on a tenant's first Admin: `rows` has one row per user, so among the
  Admins of a tenant one is first, and stays so whoever else comes or goes.
- **AccountProofs** also proves all of Directory: `DirectoryTypeOK`, `FirstAdmins`, `SeedsRecover` and
  `PagesAreHonest`, for any seed file, any addresses and pages of any size. `DirectoryInv` goes by
  what a statement does to the rows (`RowsAdded`, `RowEdited`, `RowDropped`). `SuperAdminsApart` (a
  Super Admin has no tenant, so no request of the API reaches its row) keeps what a seed has behind
  it (`SeedOK`). `WalkOK` is the argument about pages: a user has a `Place` in the list, the number of
  users up to it; a walk has been `Through` the places up to its page. Of the users that have been there
  all the time and have not been shown, no more are in a place it has been through than users have
  been removed (`Passed`), and of those shown no more are in a place still to come, counting what has been
  repeated, than rows have been committed late (`Ahead`). A row that comes or goes moves each place
  by one at most (`PlaceMoves`), and where no two users tie one user at most is at the border
  (`OneAtAPlace`); that is why each deletion and each late row costs one user and no more.

Every safety property that a passing run checks is a theorem, without further hypotheses.
Only model-checked are the liveness properties, `NoticesAreShown`, `NoticesArrive` and `OthersEnd`:
liveness under fairness is out of the prover's reach. Type invariants of RefreshTokens, LoginLockout,
Account, ModuleAccess, Tickets and PasswordHistory are proved and no run repeats them; so are
`KilledFamilyIsDead`, `ChangeOpensTheGate` and `ErrorsAreExplained`.

## What is not modelled

- **Rate limits**: the counters are the library's, in memory; the repository chooses the key.
- **DTOs, filters, health**: functions of one request, without state. The actions take their inputs
  after validation.
- **Single reads**: `findAll` and `findById` of TenantsService, `listEndpoints` and `recentLaunches` are
  one query without a condition that any other state depends on.
- **The demo tenants' subscriptions**, and that there are five demo tenants: Directory has the rows
  that other code depends on, users and tenants.
- **The count that `markAllRead` answers with**: it is that of the UPDATE, which no other state
  depends on.
- **Argon2 and JWT**: a hash verifies one password, a signature cannot be forged.
- **Migrations, start-up, container**: they run before the program does.
- **Isolation below a statement**: PostgreSQL's statements are atomic here. The conditional
  `updateMany` and the atomic increment, on which the code relies, are so at its default level.
  Statements that wait for one another's row locks could also end in a deadlock that the database
  breaks by failing one of them, which leaves the rows as a `RollBack` or an early answer does.

## Plan

Done, in this order: RefreshTokens with its abstraction and proofs; TenantAdmins and proofs;
LoginLockout and proofs; PasswordHistory; Tickets; ModuleAccess and proofs; ResetRequests; Account
and proofs; Catalog over ModuleAccess, with proofs; Inbox over Tickets; Directory; SerialAdmins; the
proofs of PasswordHistory and Tickets; the proofs of ResetRequests, SerialAdmins, Inbox and
Directory.

To prove more: abstract specifications of what other parts promise, implemented as Sessions is by
RefreshTokens, first of LoginLockout (an account with a counter that every failure moves) and of
Inbox (a client that is shown what is stored for it); that two walks with pages of different sizes
through an undisturbed list show the same users.

To extend: the sessions of RefreshTokens under the row of Account in one module, if a reset should
one day end sessions; rate limits, if their counters move from memory to a store that several
processes share.
