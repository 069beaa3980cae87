---------------------------- MODULE PasswordHistory ----------------------------
(* The two ways UsersService changes the password of an account: the           *)
(* mandatory change by its owner (changePassword) and the reset by an Admin,   *)
(* for which three endpoints end in applyPasswordReset.  Both read the row,    *)
(* compare the new password with the hash they have read and with the latest   *)
(* entries of the history, append the hash they have read to the history, and  *)
(* write the new one, each in a statement of its own.  argon2 is exact here:   *)
(* a hash verifies one password, so a hash is named by its password.           *)
EXTENDS Naturals, Sequences, FiniteSets

CONSTANTS
    Passwords,
    Requests,
    HistoryLimit,   \* PASSWORD_HISTORY_CHECK_LIMIT
    MaxEntries,     \* bound on the history when a request starts
    Crashes         \* whether the process may stop

ASSUME PasswordHistoryAssumption ==
    /\ IsFiniteSet(Requests)
    /\ HistoryLimit \in Nat
    /\ MaxEntries \in Nat
    /\ Crashes \in BOOLEAN

VARIABLES
    current,        \* hashedPassword
    mustChange,     \* mustChangePassword
    history,        \* PasswordHistory rows of the account, oldest first
    job,            \* what each request still has to do
    chosen,         \* history variable: every value of current, oldest first
    resetTo,        \* history variable: the password of the last reset, until
                    \* its owner changes it
    disturbed       \* history variable: whether a request has begun during
                    \* another, or been cut short

vars == <<current, mustChange, history, job, chosen, resetTo, disturbed>>

Idle == [step |-> "idle"]
Kinds == {"change", "reset"}
Jobs == [step : {"compare", "record", "write"}, kind : Kinds, was : Passwords, new : Passwords]

TypeOK ==
    /\ current \in Passwords
    /\ mustChange \in BOOLEAN
    /\ history \in Seq(Passwords)
    /\ job \in [Requests -> Jobs \cup {Idle}]
    /\ chosen \in Seq(Passwords) /\ chosen # <<>>
    /\ resetTo \in SUBSET Passwords /\ Cardinality(resetTo) <= 1
    /\ disturbed \in BOOLEAN

\* createUser: the password of the creator's choice, to be changed.
Init ==
    /\ \E p \in Passwords : current = p /\ chosen = <<p>> /\ resetTo = {p}
    /\ mustChange = TRUE
    /\ history = <<>>
    /\ job = [r \in Requests |-> Idle]
    /\ disturbed = FALSE

\* The last n elements of a sequence, as a set.
Latest(s, n) == {s[i] : i \in {j \in 1..Len(s) : j > Len(s) - n}}

Goto(r, step) == job' = [job EXCEPT ![r].step = step]
Finish(r) == job' = [job EXCEPT ![r] = Idle]
-----------------------------------------------------------------------------
Begin(r, kind, p) ==
    /\ job[r] = Idle
    /\ Len(history) < MaxEntries
    /\ p # current
    /\ job' = [job EXCEPT ![r] = [step |-> "compare", kind |-> kind, was |-> current, new |-> p]]
    /\ disturbed' = (disturbed \/ \E other \in Requests : job[other] # Idle)
    /\ UNCHANGED <<current, mustChange, history, chosen, resetTo>>

\* changePassword refuses an account that need not change its password; the
\* caller has given the password the row holds.
BeginChange(r, p) == mustChange /\ Begin(r, "change", p)

BeginReset(r, p) == Begin(r, "reset", p)

\* Mutant: one entry too few is looked at.
MutantReused(p) == p \in Latest(history, HistoryLimit - 1)

Reused(p) == p \in Latest(history, HistoryLimit)

\* Mutant: a reset leaves no entry in the history.
MutantCompare(r) ==
    /\ job[r].step = "compare"
    /\ CASE Reused(job[r].new) -> Finish(r)
         [] ~Reused(job[r].new) /\ job[r].kind = "reset" -> Goto(r, "write")
         [] OTHER -> Goto(r, "record")
    /\ UNCHANGED <<current, mustChange, history, chosen, resetTo, disturbed>>

\* assertPasswordNotReused reads the latest entries; the comparison with the
\* current hash was made on the row that was read.
Compare(r) ==
    /\ job[r].step = "compare"
    /\ IF Reused(job[r].new) THEN Finish(r) ELSE Goto(r, "record")
    /\ UNCHANGED <<current, mustChange, history, chosen, resetTo, disturbed>>

\* recordPasswordHistory, with the hash of the row that was read.
Record(r) ==
    /\ job[r].step = "record"
    /\ history' = Append(history, job[r].was)
    /\ Goto(r, "write")
    /\ UNCHANGED <<current, mustChange, chosen, resetTo, disturbed>>

\* Mutant: a reset does not set the flag.
MutantWrite(r) ==
    /\ job[r].step = "write"
    /\ current' = job[r].new
    /\ mustChange' = (mustChange /\ job[r].kind = "reset")
    /\ chosen' = Append(chosen, job[r].new)
    /\ resetTo' = IF job[r].kind = "reset" THEN {job[r].new} ELSE resetTo \ {job[r].was}
    /\ Finish(r)
    /\ UNCHANGED <<history, disturbed>>

\* The update at the end of changePassword and of applyPasswordReset.
Write(r) ==
    /\ job[r].step = "write"
    /\ current' = job[r].new
    /\ mustChange' = (job[r].kind = "reset")
    /\ chosen' = Append(chosen, job[r].new)
    /\ resetTo' = IF job[r].kind = "reset" THEN {job[r].new} ELSE resetTo \ {job[r].was}
    /\ Finish(r)
    /\ UNCHANGED <<history, disturbed>>

Crash ==
    /\ Crashes
    /\ \E r \in Requests : job[r] # Idle
    /\ job' = [r \in Requests |-> Idle]
    /\ disturbed' = TRUE
    /\ UNCHANGED <<current, mustChange, history, chosen, resetTo>>
-----------------------------------------------------------------------------
Next ==
    \/ \E r \in Requests, p \in Passwords : BeginChange(r, p)
    \/ \E r \in Requests, p \in Passwords : BeginReset(r, p)
    \/ \E r \in Requests : Compare(r)
    \/ \E r \in Requests : Record(r)
    \/ \E r \in Requests : Write(r)
    \/ Crash

Spec == Init /\ [][Next]_vars
-----------------------------------------------------------------------------
\* README: "An append-only history of password hashes blocks reusing any of the
\* last five passwords": the one in use and those before it.  It does as long
\* as no two requests have overlapped and none has been cut short.
NoReuse ==
    [][chosen' # chosen /\ ~disturbed
        => current' \notin Latest(chosen, HistoryLimit + 1)]_vars

\* "A permanent audit trail of when this account's password changed" (comment
\* of recordPasswordHistory): there is an entry for every change, whatever the
\* requests do to each other, because it is written before the password.
EveryChangeHasAnEntry ==
    Len(history) >= Len(chosen) - 1
        + Cardinality({r \in Requests : job[r].step = "write"})

\* README: "admin-reset accounts must change their password at first login":
\* the flag that forces the change goes only when the password of the last
\* reset has been given up by somebody who gave it.
ResetForcesChange == resetTo # {} => mustChange

\* One change at a time, a reset does force the change.
ResetAloneForcesChange == ~disturbed => ResetForcesChange
=============================================================================
