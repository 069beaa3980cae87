----------------------------- MODULE LoginLockout -----------------------------
(* validateUser of AuthService on one account: several logins at a time, each *)
(* of which reads the row, verifies the password (a slow await), decides on   *)
(* what it has read, and then counts a failure, locks the account or clears   *)
(* the counter in separate statements.  An Admin's password reset and a crash *)
(* may come between any two of them.  That the account exists is assumed:     *)
(* without a row validateUser writes nothing.                                 *)
EXTENDS Naturals, FiniteSets

CONSTANTS
    Requests,     \* logins in progress at the same time
    Threshold,    \* LOCKOUT_THRESHOLD
    Duration,     \* LOCKOUT_DURATION_MS in clock ticks
    MaxTime,      \* bound on the clock
    MaxFailures   \* bound on failedLoginAttempts when a login starts

ASSUME LoginLockoutAssumption ==
    /\ IsFiniteSet(Requests)
    /\ Threshold \in Nat \ {0}
    /\ Duration \in Nat \ {0}
    /\ MaxTime \in Nat
    /\ MaxFailures \in Nat

VARIABLES
    failed,       \* failedLoginAttempts
    lockedUntil,  \* 0 when null
    now,
    pc,           \* what a login does next
    read,         \* the row a login has read
    good,         \* the logins given the right password
    wrong,        \* history: wrong passwords told from a right one since the
                  \* counter was cleared or the process last stopped
    late,         \* history: passwords told right from wrong during a lock,
                  \* since lockedUntil got its value
    lost          \* history: the process stopped between the two statements
                  \* of registerFailedLogin, and nothing locked the account since

vars == <<failed, lockedUntil, now, pc, read, good, wrong, late, lost>>
history == <<wrong, late, lost>>

Row == [failed : Nat, lockedUntil : Nat]

TypeOK ==
    /\ failed \in Nat
    /\ lockedUntil \in Nat
    /\ now \in Nat
    /\ pc \in [Requests -> {"idle", "verify", "increment", "lock", "clear"}]
    /\ read \in [Requests -> Row]
    /\ good \subseteq Requests
    /\ wrong \in Nat
    /\ late \in Nat
    /\ lost \in BOOLEAN

NoRow == [failed |-> 0, lockedUntil |-> 0]

Init ==
    /\ failed = 0
    /\ lockedUntil = 0
    /\ now = 0
    /\ pc = [r \in Requests |-> "idle"]
    /\ read = [r \in Requests |-> NoRow]
    /\ good = {}
    /\ wrong = 0
    /\ late = 0
    /\ lost = FALSE

Locked == lockedUntil > now
In(step) == {r \in Requests : pc[r] = step}
-----------------------------------------------------------------------------
Goto(r, step) == pc' = [pc EXCEPT ![r] = step]

Finish(r) ==
    /\ Goto(r, "idle")
    /\ read' = [read EXCEPT ![r] = NoRow]
    /\ good' = good \ {r}

Find(r, g) ==
    /\ pc[r] = "idle"
    /\ failed < MaxFailures
    /\ Goto(r, "verify")
    /\ read' = [read EXCEPT ![r] = [failed |-> failed, lockedUntil |-> lockedUntil]]
    /\ good' = IF g THEN good \cup {r} ELSE good
    /\ UNCHANGED <<failed, lockedUntil, now, history>>

\* Mutant: only the right password is checked against the lock.
MutantSeesLock(r) == r \in good /\ read[r].lockedUntil > now

\* The lock as the login has read it, against the clock after the verification.
SeesLock(r) == read[r].lockedUntil > now

\* The update that ends a good login is left out when there is nothing to clear.
NeedsClear(r) == read[r].failed > 0 \/ read[r].lockedUntil # 0

\* The right password, no lock seen: the login succeeds.
Accept(r) ==
    /\ pc[r] = "verify"
    /\ r \in good
    /\ ~SeesLock(r)
    /\ IF NeedsClear(r) THEN Goto(r, "clear") /\ UNCHANGED <<read, good>> ELSE Finish(r)
    /\ late' = IF Locked THEN late + 1 ELSE late
    /\ UNCHANGED <<failed, lockedUntil, now, wrong, lost>>

\* A wrong password, no lock seen: the failure will be counted.
Refuse(r) ==
    /\ pc[r] = "verify"
    /\ r \notin good
    /\ ~SeesLock(r)
    /\ Goto(r, "increment")
    /\ wrong' = wrong + 1
    /\ late' = IF Locked THEN late + 1 ELSE late
    /\ UNCHANGED <<failed, lockedUntil, now, read, good, lost>>

\* A lock was seen: the answer is the same whatever the password.
RefuseLocked(r) ==
    /\ pc[r] = "verify"
    /\ SeesLock(r)
    /\ Finish(r)
    /\ UNCHANGED <<failed, lockedUntil, now, history>>

\* Mutant: the counter is computed from the row that was read.
MutantIncrement(r) ==
    /\ pc[r] = "increment"
    /\ failed' = read[r].failed + 1
    /\ IF failed' >= Threshold
       THEN Goto(r, "lock") /\ UNCHANGED <<read, good>>
       ELSE Finish(r)
    /\ UNCHANGED <<lockedUntil, now, history>>

\* Mutant: off by one at the threshold.
MutantIncrementOver(r) ==
    /\ pc[r] = "increment"
    /\ failed' = failed + 1
    /\ IF failed' > Threshold
       THEN Goto(r, "lock") /\ UNCHANGED <<read, good>>
       ELSE Finish(r)
    /\ UNCHANGED <<lockedUntil, now, history>>

\* registerFailedLogin: the increment is the database's.
Increment(r) ==
    /\ pc[r] = "increment"
    /\ failed' = failed + 1
    /\ IF failed' >= Threshold
       THEN Goto(r, "lock") /\ UNCHANGED <<read, good>>
       ELSE Finish(r)
    /\ UNCHANGED <<lockedUntil, now, history>>

\* Its second statement, unconditional.
Lock(r) ==
    /\ pc[r] = "lock"
    /\ lockedUntil' = now + Duration
    /\ Finish(r)
    /\ late' = IF lockedUntil' = lockedUntil THEN late ELSE 0
    /\ lost' = FALSE
    /\ UNCHANGED <<failed, now, wrong>>

ClearCounter ==
    /\ failed' = 0
    /\ lockedUntil' = 0
    /\ wrong' = 0
    /\ late' = 0
    /\ lost' = FALSE

Clear(r) ==
    /\ pc[r] = "clear"
    /\ ClearCounter
    /\ Finish(r)
    /\ UNCHANGED now

\* applyPasswordReset unlocks the account it repairs.
AdminReset ==
    /\ failed > 0 \/ lockedUntil # 0
    /\ ClearCounter
    /\ UNCHANGED <<now, pc, read, good>>

Crash ==
    /\ In("idle") # Requests
    /\ lost' = (lost \/ In("lock") # {})
    /\ wrong' = 0
    /\ pc' = [r \in Requests |-> "idle"]
    /\ read' = [r \in Requests |-> NoRow]
    /\ good' = {}
    /\ UNCHANGED <<failed, lockedUntil, now, late>>

Tick ==
    /\ now < MaxTime
    /\ now' = now + 1
    /\ UNCHANGED <<failed, lockedUntil, pc, read, good, history>>
-----------------------------------------------------------------------------
Step(r) ==
    \/ \E g \in BOOLEAN : Find(r, g)
    \/ Accept(r)
    \/ Refuse(r)
    \/ RefuseLocked(r)
    \/ Increment(r)
    \/ Lock(r)
    \/ Clear(r)

Next == (\E r \in Requests : Step(r)) \/ AdminReset \/ Crash \/ Tick

Spec == Init /\ [][Next]_vars
-----------------------------------------------------------------------------
\* Concurrent wrong passwords cannot under-count each other and delay the
\* lockout (comment of registerFailedLogin): each one told apart since the
\* last clear is in the counter or about to be, except those a crash dropped.
NoUndercount == failed + Cardinality(In("increment")) >= wrong

\* A counter at the threshold has its lock written or about to be written; only
\* a crash between the two statements separates them.
LockFollows == failed >= Threshold => lockedUntil # 0 \/ In("lock") # {} \/ lost

\* While an account is locked, the only passwords told right from wrong are
\* those of logins that had read the row before lockedUntil got its value, at
\* most all the others in progress then: however many come later, they learn
\* nothing and change nothing.
LockStopsGuessing == Locked => late <= Cardinality(Requests) - 1

\* A login that starts in a locked account leaves the lock as it is: whoever
\* moves or lifts it had read the row without that lock.
MovedByEarlierLogin ==
    \A r \in Requests :
       Locked /\ pc[r] # "idle" /\ pc'[r] = "idle" /\ lockedUntil' # lockedUntil =>
          read[r].lockedUntil # lockedUntil

OnlyEarlierLoginsMoveTheLock == [][MovedByEarlierLogin]_vars

\* Hammering does not extend a lock (comment of validateUser: "bounding it to a
\* fixed 15-minute window"; auth.e2e-spec, "does not extend the lockout when
\* hammered further").  A wrong password in flight when the lock is set does.
LockNotExtended == [][Locked => lockedUntil' <= lockedUntil]_vars

\* README: "Five consecutive failed logins lock an account for fifteen
\* minutes".  Only an Admin's reset should lift the lock earlier; a login with
\* the right password that had read the row before does too.
LockHolds ==
    [][Locked /\ lockedUntil' = 0 => \A r \in Requests : pc'[r] = pc[r]]_vars
=============================================================================
