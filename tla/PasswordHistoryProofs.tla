-------------------------- MODULE PasswordHistoryProofs -------------------------
(* What PasswordHistory promises, proved for any number of requests and for any *)
(* limit.  The properties speak of the history; the invariant says what an      *)
(* undisturbed request may rely on at each of its statements.                   *)
EXTENDS PasswordHistory, FiniteSetTheorems, TLAPS

Writing == {r \in Requests : job[r].step = "write"}

\* At most one password has been reset and not been given up since.
OneReset == resetTo = {} \/ \E p \in Passwords : resetTo = {p}

Types ==
    /\ current \in Passwords
    /\ mustChange \in BOOLEAN
    /\ history \in Seq(Passwords)
    /\ job \in [Requests -> Jobs \cup {Idle}]
    /\ chosen \in Seq(Passwords) /\ chosen # <<>>
    /\ resetTo \in SUBSET Passwords /\ OneReset
    /\ disturbed \in BOOLEAN

\* While no request has met another: it goes by the row as it is, its new
\* password is none of the latest once the history has been read, and the
\* history is what the passwords were.
Alone ==
    ~disturbed =>
      /\ \A r, q \in Requests : job[r] # Idle /\ job[q] # Idle => r = q
      /\ \A r \in Requests : job[r] # Idle => job[r].was = current
      /\ \A r \in Requests : job[r].step = "compare" => job[r].new # current
      /\ \A r \in Requests : job[r].step \in {"record", "write"} =>
            job[r].new \notin Latest(chosen, HistoryLimit + 1)
      /\ \A r \in Requests : job[r].step = "write" => history = chosen
      /\ (\A r \in Requests : job[r].step # "write") => chosen = Append(history, current)
      /\ resetTo \subseteq {current}
      /\ resetTo # {} => mustChange

IInv == Types /\ EveryChangeHasAnEntry /\ Alone

\* A request under way is told from an idle one.
LEMMA IdleIsNoJob == Idle \notin Jobs /\ Idle.step = "idle"
BY DEF Idle, Jobs

\* The last n + 1 of a sequence that has grown.
LEMMA LatestAppend ==
    ASSUME NEW s \in Seq(Passwords), NEW p \in Passwords, NEW n \in Nat
    PROVE  Latest(Append(s, p), n + 1) = Latest(s, n) \cup {p}
<1> DEFINE a == Append(s, p)
<1>1. /\ Len(s) \in Nat /\ Len(a) = Len(s) + 1
      /\ a[Len(s) + 1] = p
      /\ \A i \in 1..Len(s) : a[i] = s[i]
  OBVIOUS
<1>2. ASSUME NEW x \in Latest(a, n + 1) PROVE x \in Latest(s, n) \cup {p}
  <2> HIDE DEF a
  <2>1. PICK i \in 1..Len(a) : i > Len(a) - (n + 1) /\ x = a[i]
    BY <1>2 DEF Latest
  <2>2. CASE i = Len(s) + 1
    BY <1>1, <2>1, <2>2
  <2>3. CASE i # Len(s) + 1
    <3>1. i \in 1..Len(s) /\ i > Len(s) - n
      BY <1>1, <2>1, <2>3
    <3> QED BY <1>1, <2>1, <3>1 DEF Latest
  <2> QED BY <2>2, <2>3
<1>3. ASSUME NEW x \in Latest(s, n) \cup {p} PROVE x \in Latest(a, n + 1)
  <2> HIDE DEF a
  <2>1. CASE x = p
    <3>1. Len(s) + 1 \in {j \in 1..Len(a) : j > Len(a) - (n + 1)}
      BY <1>1
    <3> QED BY <1>1, <2>1, <3>1 DEF Latest
  <2>2. CASE x \in Latest(s, n)
    <3>1. PICK i \in 1..Len(s) : i > Len(s) - n /\ x = s[i]
      BY <2>2 DEF Latest
    <3>2. i \in {j \in 1..Len(a) : j > Len(a) - (n + 1)} /\ x = a[i]
      BY <1>1, <3>1
    <3> QED BY <3>2 DEF Latest
  <2> QED BY <1>3, <2>1, <2>2
<1> QED BY <1>2, <1>3
-----------------------------------------------------------------------------
\* A new account.
LEMMA InitInvariant == Init => IInv
<1> SUFFICES ASSUME Init PROVE IInv
  OBVIOUS
<1> PICK p \in Passwords : current = p /\ chosen = <<p>> /\ resetTo = {p}
  BY DEF Init
<1>1. Types
  <2>1. <<>> \in Seq(Passwords) /\ <<p>> \in Seq(Passwords) /\ <<p>> # <<>>
    OBVIOUS
  <2>2. job \in [Requests -> Jobs \cup {Idle}]
    BY DEF Init
  <2>3. resetTo \in SUBSET Passwords /\ OneReset
    BY DEF OneReset
  <2>4. mustChange \in BOOLEAN /\ disturbed \in BOOLEAN
    BY DEF Init
  <2> QED BY <2>1, <2>2, <2>3, <2>4 DEF Init, Types
<1>2. EveryChangeHasAnEntry
  <2>1. Writing = {}
    BY IdleIsNoJob DEF Init, Writing
  <2>2. Cardinality(Writing) = 0
    BY <2>1, FS_EmptySet
  <2>3. Len(history) = 0 /\ Len(chosen) = 1
    BY DEF Init
  <2> QED BY <2>2, <2>3 DEF EveryChangeHasAnEntry, Writing
<1>3. chosen = Append(history, current)
  BY DEF Init
<1>4. Alone
  BY <1>3, IdleIsNoJob DEF Init, Alone
<1> QED BY <1>1, <1>2, <1>4 DEF IInv

\* What a request is between its statements.
LEMMA JobsTyped ==
    ASSUME Types, NEW r \in Requests, job[r].step # "idle"
    PROVE  job[r] \in Jobs /\ job[r] # Idle
BY IdleIsNoJob DEF Types

\* Each statement keeps the types.
LEMMA StepTypes == IInv /\ [Next]_vars => Types'
<1> SUFFICES ASSUME IInv, [Next]_vars PROVE Types'
  OBVIOUS
<1> USE DEF IInv, Types, OneReset
<1>1. ASSUME NEW r \in Requests, NEW p \in Passwords, NEW kind \in Kinds, Begin(r, kind, p)
      PROVE  Types'
  BY <1>1 DEF Begin, Jobs
<1>2. ASSUME NEW r \in Requests, Compare(r) PROVE Types'
  <2>1. job[r] \in Jobs
    BY <1>2, JobsTyped DEF Compare
  <2> QED BY <1>2, <2>1 DEF Compare, Finish, Goto, Jobs
<1>3. ASSUME NEW r \in Requests, Record(r) PROVE Types'
  <2>1. job[r] \in Jobs
    BY <1>3, JobsTyped DEF Record
  <2> QED BY <1>3, <2>1 DEF Record, Goto, Jobs
<1>4. ASSUME NEW r \in Requests, Write(r) PROVE Types'
  <2>1. job[r] \in Jobs
    BY <1>4, JobsTyped DEF Write
  <2>2. job' \in [Requests -> Jobs \cup {Idle}]
    BY <1>4 DEF Write, Finish
  <2>3. chosen' \in Seq(Passwords) /\ chosen' # <<>>
    BY <1>4, <2>1 DEF Write, Jobs
  <2> QED BY <1>4, <2>1, <2>2, <2>3 DEF Write, Jobs, Kinds
<1>5. CASE Crash
  BY <1>5 DEF Crash
<1>6. CASE UNCHANGED vars
  BY <1>6 DEF vars
<1> QED
  BY <1>1, <1>2, <1>3, <1>4, <1>5, <1>6 DEF Next, BeginChange, BeginReset, Kinds

\* Each statement keeps an entry for every change made or about to be.
LEMMA StepEntries == IInv /\ [Next]_vars => EveryChangeHasAnEntry'
<1> SUFFICES ASSUME IInv, [Next]_vars PROVE EveryChangeHasAnEntry'
  OBVIOUS
<1> DEFINE n == Cardinality(Writing)
           m == Cardinality(Writing')
<1>1. IsFiniteSet(Writing) /\ n \in Nat
  BY PasswordHistoryAssumption, FS_Subset, FS_CardinalityType DEF Writing
<1>2. Len(history) \in Nat /\ Len(chosen) \in Nat /\ Len(history) >= Len(chosen) - 1 + n
  BY DEF IInv, Types, EveryChangeHasAnEntry, Writing
<1>3. SUFFICES Len(history') >= Len(chosen') - 1 + m
  BY DEF EveryChangeHasAnEntry, Writing
<1> USE DEF Types
<1>4. ASSUME NEW r \in Requests, NEW p \in Passwords, NEW kind \in Kinds, Begin(r, kind, p)
      PROVE  Len(history') >= Len(chosen') - 1 + m
  <2>1. Writing' = Writing
    BY <1>4, IdleIsNoJob DEF Begin, Writing, IInv
  <2> QED BY <1>2, <1>4, <2>1 DEF Begin
<1>5. ASSUME NEW r \in Requests, Compare(r) PROVE Len(history') >= Len(chosen') - 1 + m
  <2>1. job[r] \in Jobs
    BY <1>5, JobsTyped DEF Compare, IInv
  <2>2. Writing' = Writing
    BY <1>5, <2>1, IdleIsNoJob DEF Compare, Goto, Finish, Writing, Jobs, IInv
  <2> QED BY <1>2, <1>5, <2>2 DEF Compare
<1>6. ASSUME NEW r \in Requests, Record(r) PROVE Len(history') >= Len(chosen') - 1 + m
  <2>1. job[r] \in Jobs
    BY <1>6, JobsTyped DEF Record, IInv
  <2>2. Writing' = Writing \cup {r} /\ r \notin Writing
    BY <1>6, <2>1, IdleIsNoJob DEF Record, Goto, Writing, Jobs, IInv
  <2>3. m = n + 1
    BY <1>1, <2>2, FS_AddElement
  <2>4. Len(history') = Len(history) + 1 /\ chosen' = chosen
    BY <1>6, <2>1 DEF Record, IInv, Jobs
  <2> HIDE DEF n, m
  <2> QED BY <1>1, <1>2, <2>3, <2>4
<1>7. ASSUME NEW r \in Requests, Write(r) PROVE Len(history') >= Len(chosen') - 1 + m
  <2>1. job[r] \in Jobs
    BY <1>7, JobsTyped DEF Write, IInv
  <2>2. Writing' = Writing \ {r} /\ r \in Writing
    BY <1>7, IdleIsNoJob DEF Write, Finish, Writing, IInv
  <2>3. m = n - 1
    BY <1>1, <2>2, FS_RemoveElement
  <2>4. Len(chosen') = Len(chosen) + 1 /\ history' = history
    BY <1>7, <2>1 DEF Write, IInv, Jobs
  <2> HIDE DEF n, m
  <2> QED BY <1>1, <1>2, <2>3, <2>4
<1>8. CASE Crash
  <2>1. Writing' = {}
    BY <1>8, IdleIsNoJob DEF Crash, Writing
  <2>2. m = 0
    BY <2>1, FS_EmptySet
  <2>3. history' = history /\ chosen' = chosen
    BY <1>8 DEF Crash
  <2> HIDE DEF n, m
  <2> QED BY <1>1, <1>2, <2>2, <2>3
<1>9. CASE UNCHANGED vars
  <2>1. Writing' = Writing
    BY <1>9 DEF vars, Writing
  <2> QED BY <1>2, <1>9, <2>1 DEF vars
<1> HIDE DEF m
<1> QED
  BY <1>4, <1>5, <1>6, <1>7, <1>8, <1>9 DEF Next, BeginChange, BeginReset, Kinds

\* A request that has met no other is the only one.
LEMMA OnlyOne ==
    ASSUME IInv, ~disturbed, NEW r \in Requests, job[r].step # "idle", NEW q \in Requests, q # r
    PROVE  job[q] = Idle
BY JobsTyped DEF IInv, Alone

\* Each statement keeps what an undisturbed request relies on.
LEMMA StepAlone == IInv /\ [Next]_vars => Alone'
<1> SUFFICES ASSUME IInv, [Next]_vars, ~disturbed' PROVE Alone'
  BY DEF Alone
<1> USE DEF Types
<1>1. ASSUME NEW r \in Requests, NEW p \in Passwords, NEW kind \in Kinds, Begin(r, kind, p)
      PROVE  Alone'
  <2>1. ~disturbed /\ \A q \in Requests : job[q] = Idle
    BY <1>1 DEF Begin
  <2>2. /\ job'[r] = [step |-> "compare", kind |-> kind, was |-> current, new |-> p]
        /\ \A q \in Requests : q # r => job'[q] = Idle
    BY <1>1, <2>1 DEF Begin, IInv
  <2>3. chosen = Append(history, current) /\ resetTo \subseteq {current} /\ (resetTo # {} => mustChange)
    BY <2>1, IdleIsNoJob DEF IInv, Alone
  <2>4. UNCHANGED <<current, mustChange, history, chosen, resetTo>> /\ p # current
    BY <1>1 DEF Begin
  <2> QED BY <2>2, <2>3, <2>4, IdleIsNoJob DEF Alone
<1>2. ASSUME NEW r \in Requests, Compare(r) PROVE Alone'
  <2>1. ~disturbed /\ job[r] \in Jobs /\ job[r].step = "compare"
    BY <1>2, JobsTyped DEF Compare, IInv
  <2>2. \A q \in Requests : q # r => job[q] = Idle
    BY <2>1, OnlyOne
  <2>3. /\ job[r].was = current /\ job[r].new # current
        /\ chosen = Append(history, current)
        /\ resetTo \subseteq {current} /\ (resetTo # {} => mustChange)
    BY <2>1, <2>2, IdleIsNoJob DEF IInv, Alone
  <2>4. Latest(chosen, HistoryLimit + 1) = Latest(history, HistoryLimit) \cup {current}
    BY <2>3, LatestAppend, PasswordHistoryAssumption DEF IInv
  <2>5. UNCHANGED <<current, mustChange, history, chosen, resetTo>>
    BY <1>2 DEF Compare
  <2>6. \A q \in Requests : q # r => job'[q] = Idle
    BY <1>2, <2>2 DEF Compare, Finish, Goto, IInv
  <2>7. CASE Reused(job[r].new)
    <3>1. job'[r] = Idle
      BY <1>2, <2>7 DEF Compare, Finish, IInv
    <3> QED BY <2>3, <2>5, <2>6, <3>1, IdleIsNoJob DEF Alone
  <2>8. CASE ~Reused(job[r].new)
    <3>1. job'[r].step = "record" /\ job'[r].was = job[r].was /\ job'[r].new = job[r].new
      BY <1>2, <2>1, <2>8 DEF Compare, Goto, IInv, Jobs
    <3>2. job'[r].new \notin Latest(chosen, HistoryLimit + 1)
      BY <2>3, <2>4, <2>8, <3>1 DEF Reused
    <3> QED BY <2>3, <2>5, <2>6, <3>1, <3>2, IdleIsNoJob DEF Alone, Latest
  <2> QED BY <2>7, <2>8
<1>3. ASSUME NEW r \in Requests, Record(r) PROVE Alone'
  <2>1. ~disturbed /\ job[r] \in Jobs /\ job[r].step = "record"
    BY <1>3, JobsTyped DEF Record, IInv
  <2>2. \A q \in Requests : q # r => job[q] = Idle
    BY <2>1, OnlyOne
  <2>3. /\ job[r].was = current /\ job[r].new \notin Latest(chosen, HistoryLimit + 1)
        /\ chosen = Append(history, current)
        /\ resetTo \subseteq {current} /\ (resetTo # {} => mustChange)
    BY <2>1, <2>2, IdleIsNoJob DEF IInv, Alone
  <2>4. history' = chosen' /\ UNCHANGED <<current, mustChange, chosen, resetTo>>
    BY <1>3, <2>3 DEF Record
  <2>5. /\ job'[r].step = "write" /\ job'[r].was = job[r].was /\ job'[r].new = job[r].new
        /\ \A q \in Requests : q # r => job'[q] = Idle
    BY <1>3, <2>1, <2>2 DEF Record, Goto, IInv, Jobs
  <2> QED BY <2>3, <2>4, <2>5, IdleIsNoJob DEF Alone, Latest
<1>4. ASSUME NEW r \in Requests, Write(r) PROVE Alone'
  <2>1. ~disturbed /\ job[r] \in Jobs /\ job[r].step = "write"
    BY <1>4, JobsTyped DEF Write, IInv
  <2>2. \A q \in Requests : job'[q] = Idle
    BY <1>4, <2>1, OnlyOne DEF Write, Finish, IInv
  <2>3. job[r].was = current /\ history = chosen /\ resetTo \subseteq {current}
    BY <2>1, IdleIsNoJob DEF IInv, Alone
  <2>4. chosen' = Append(history', current')
    BY <1>4, <2>3 DEF Write
  <2>5. resetTo' \subseteq {current'} /\ (resetTo' # {} => mustChange')
    BY <1>4, <2>3 DEF Write
  <2> QED BY <2>2, <2>4, <2>5, IdleIsNoJob DEF Alone
<1>5. CASE Crash
  BY <1>5 DEF Crash
<1>6. CASE UNCHANGED vars
  BY <1>6 DEF vars, IInv, Alone, Latest
<1> QED
  BY <1>1, <1>2, <1>3, <1>4, <1>5, <1>6 DEF Next, BeginChange, BeginReset, Kinds

\* So the invariant holds always.
LEMMA Invariance == Spec => []IInv
<1>1. IInv /\ [Next]_vars => IInv'
  BY StepTypes, StepEntries, StepAlone DEF IInv
<1> QED BY InitInvariant, <1>1, PTL DEF Spec
-----------------------------------------------------------------------------
\* Type correctness of the account's row, its history and the requests.
THEOREM TypeCorrect == Spec => []TypeOK
<1>1. IInv => TypeOK
  <2> SUFFICES ASSUME IInv PROVE TypeOK
    OBVIOUS
  <2>1. CASE resetTo = {}
    <3>1. Cardinality(resetTo) = 0
      BY <2>1, FS_EmptySet
    <3> QED BY <3>1 DEF IInv, Types, TypeOK
  <2>2. CASE \E p \in Passwords : resetTo = {p}
    <3>1. Cardinality(resetTo) = 1
      BY <2>2, FS_Singleton
    <3> QED BY <3>1 DEF IInv, Types, TypeOK
  <2> QED BY <2>1, <2>2 DEF IInv, Types, OneReset
<1> QED BY <1>1, Invariance, PTL

\* However requests overlap and wherever they are cut short, every change of
\* the password (applyPasswordReset, changePassword) has left its entry.
THEOREM Trail == Spec => []EveryChangeHasAnEntry
<1>1. IInv => EveryChangeHasAnEntry
  BY DEF IInv
<1> QED BY <1>1, Invariance, PTL

\* While no two requests have overlapped, a reset is not forgotten: whoever
\* has not given up the password it set still has to change it.
THEOREM ResetForces == Spec => []ResetAloneForcesChange
<1>1. IInv => ResetAloneForcesChange
  BY DEF IInv, Alone, ResetAloneForcesChange, ResetForcesChange
<1> QED BY <1>1, Invariance, PTL

\* For every HistoryLimit (assertPasswordNotReused): an undisturbed change
\* takes up none of the HistoryLimit + 1 latest passwords.
THEOREM NotReused == Spec => NoReuse
<1>1. IInv /\ [Next]_vars
        => [chosen' # chosen /\ ~disturbed => current' \notin Latest(chosen, HistoryLimit + 1)]_vars
  <2> SUFFICES ASSUME IInv, Next, chosen' # chosen, ~disturbed
               PROVE  current' \notin Latest(chosen, HistoryLimit + 1)
    OBVIOUS
  <2>1. PICK r \in Requests : Write(r)
    BY DEF Next, BeginChange, BeginReset, Begin, Compare, Record, Crash
  <2>2. job[r].new \notin Latest(chosen, HistoryLimit + 1)
    BY <2>1 DEF Write, IInv, Alone
  <2> QED BY <2>1, <2>2 DEF Write
<1> QED BY <1>1, Invariance, PTL DEF Spec, NoReuse
=============================================================================
