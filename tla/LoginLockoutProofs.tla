-------------------------- MODULE LoginLockoutProofs --------------------------
(* Proofs about LoginLockout for every number of requests, every threshold    *)
(* and every duration of the lock.                                            *)
EXTENDS LoginLockout, FiniteSetTheorems, TLAPS

\* A login that goes on after the verification has seen no lock that is still
\* running, so the lock it finds at its next statement is a later one.
ReadsOK ==
    \A r \in Requests : pc[r] \in {"increment", "lock", "clear"} => read[r].lockedUntil <= now

IInv == TypeOK /\ ReadsOK /\ LockFollows

LEMMA ConstantsOK == Threshold \in Nat \ {0} /\ Duration \in Nat \ {0}
  BY LoginLockoutAssumption

LEMMA InitIInv == Init => IInv
  <1>1. ~ (0 >= Threshold)
    BY ConstantsOK
  <1>2. NoRow \in Row /\ 0 \in Nat
    BY DEF NoRow, Row
  <1> QED
    BY <1>1, <1>2, Zenon DEF Init, IInv, TypeOK, ReadsOK, LockFollows

LEMMA TypeStep == TypeOK /\ [Next]_vars => TypeOK'
  <1> SUFFICES ASSUME TypeOK, [Next]_vars PROVE TypeOK'
    OBVIOUS
  <1> USE ConstantsOK DEF TypeOK, Row, NoRow
  <1>1. ASSUME NEW r \in Requests, NEW g \in BOOLEAN, Find(r, g) PROVE TypeOK'
    BY <1>1 DEF Find, Goto, history
  <1>2. ASSUME NEW r \in Requests, Accept(r) PROVE TypeOK'
    BY <1>2 DEF Accept, Goto, Finish, history
  <1>3. ASSUME NEW r \in Requests, Refuse(r) PROVE TypeOK'
    BY <1>3 DEF Refuse, Goto, history
  <1>4. ASSUME NEW r \in Requests, RefuseLocked(r) PROVE TypeOK'
    BY <1>4 DEF RefuseLocked, Goto, Finish, history
  <1>5. ASSUME NEW r \in Requests, Increment(r) PROVE TypeOK'
    BY <1>5 DEF Increment, Goto, Finish, history
  <1>6. ASSUME NEW r \in Requests, Lock(r) PROVE TypeOK'
    <2>1. now + Duration \in Nat /\ NoRow \in Row /\ 0 \in Nat
      OBVIOUS
    <2>2. lockedUntil' \in Nat /\ late' \in Nat /\ read' \in [Requests -> Row]
      BY <1>6 DEF Lock, Finish
    <2>3. pc' \in [Requests -> {"idle", "verify", "increment", "lock", "clear"}]
      BY <1>6 DEF Lock, Goto, Finish
    <2>4. good' \subseteq Requests /\ UNCHANGED <<failed, now, wrong>>
      BY <1>6 DEF Lock, Finish
    <2>5. lost' \in BOOLEAN
      BY <1>6 DEF Lock
    <2> QED
      BY <2>2, <2>3, <2>4, <2>5
  <1>7. ASSUME NEW r \in Requests, Clear(r) PROVE TypeOK'
    BY <1>7 DEF Clear, ClearCounter, Goto, Finish, history
  <1>8. CASE AdminReset
    BY <1>8 DEF AdminReset, ClearCounter, history
  <1>9. CASE Crash
    BY <1>9 DEF Crash, history
  <1>10. CASE Tick
    BY <1>10 DEF Tick, history
  <1>11. CASE UNCHANGED vars
    BY <1>11 DEF vars, history
  <1> QED
    BY <1>1, <1>2, <1>3, <1>4, <1>5, <1>6, <1>7, <1>8, <1>9, <1>10, <1>11 DEF Next, Step

LEMMA ReadsStep == TypeOK /\ ReadsOK /\ [Next]_vars => ReadsOK'
  <1> SUFFICES ASSUME TypeOK, ReadsOK, [Next]_vars PROVE ReadsOK'
    OBVIOUS
  <1> USE ConstantsOK DEF TypeOK, Row, NoRow, ReadsOK, SeesLock
  <1>1. ASSUME NEW r \in Requests, NEW g \in BOOLEAN, Find(r, g) PROVE ReadsOK'
    BY <1>1 DEF Find, Goto, history
  <1>2. ASSUME NEW r \in Requests, Accept(r) PROVE ReadsOK'
    BY <1>2 DEF Accept, Goto, Finish, history
  <1>3. ASSUME NEW r \in Requests, Refuse(r) PROVE ReadsOK'
    BY <1>3 DEF Refuse, Goto, history
  <1>4. ASSUME NEW r \in Requests, RefuseLocked(r) PROVE ReadsOK'
    BY <1>4 DEF RefuseLocked, Goto, Finish, history
  <1>5. ASSUME NEW r \in Requests, Increment(r) PROVE ReadsOK'
    BY <1>5 DEF Increment, Goto, Finish, history
  <1>6. ASSUME NEW r \in Requests, Lock(r) PROVE ReadsOK'
    BY <1>6 DEF Lock, Goto, Finish, history
  <1>7. ASSUME NEW r \in Requests, Clear(r) PROVE ReadsOK'
    BY <1>7 DEF Clear, ClearCounter, Goto, Finish, history
  <1>8. CASE AdminReset
    BY <1>8 DEF AdminReset, ClearCounter, history
  <1>9. CASE Crash
    BY <1>9 DEF Crash, history
  <1>10. CASE Tick
    BY <1>10 DEF Tick, history
  <1>11. CASE UNCHANGED vars
    BY <1>11 DEF vars, history
  <1> QED
    BY <1>1, <1>2, <1>3, <1>4, <1>5, <1>6, <1>7, <1>8, <1>9, <1>10, <1>11 DEF Next, Step

LEMMA FollowsStep == TypeOK /\ LockFollows /\ [Next]_vars => LockFollows'
  <1> SUFFICES ASSUME TypeOK, LockFollows, [Next]_vars PROVE LockFollows'
    OBVIOUS
  <1> USE ConstantsOK DEF TypeOK, LockFollows, In
  <1>1. ASSUME NEW r \in Requests, NEW g \in BOOLEAN, Find(r, g) PROVE LockFollows'
    BY <1>1 DEF Find, Goto, history
  <1>2. ASSUME NEW r \in Requests, Accept(r) PROVE LockFollows'
    BY <1>2 DEF Accept, Goto, Finish, history
  <1>3. ASSUME NEW r \in Requests, Refuse(r) PROVE LockFollows'
    BY <1>3 DEF Refuse, Goto, history
  <1>4. ASSUME NEW r \in Requests, RefuseLocked(r) PROVE LockFollows'
    BY <1>4 DEF RefuseLocked, Goto, Finish, history
  <1>5. ASSUME NEW r \in Requests, Increment(r) PROVE LockFollows'
    BY <1>5 DEF Increment, Goto, Finish, history
  <1>6. ASSUME NEW r \in Requests, Lock(r) PROVE LockFollows'
    BY <1>6 DEF Lock, Goto, Finish, history
  <1>7. ASSUME NEW r \in Requests, Clear(r) PROVE LockFollows'
    BY <1>7 DEF Clear, ClearCounter, Goto, Finish, history
  <1>8. CASE AdminReset
    BY <1>8 DEF AdminReset, ClearCounter, history
  <1>9. CASE Crash
    BY <1>9 DEF Crash, history
  <1>10. CASE Tick
    BY <1>10 DEF Tick, history
  <1>11. CASE UNCHANGED vars
    BY <1>11 DEF vars, history
  <1> QED
    BY <1>1, <1>2, <1>3, <1>4, <1>5, <1>6, <1>7, <1>8, <1>9, <1>10, <1>11 DEF Next, Step

-----------------------------------------------------------------------------
\* Counting logins in progress.
LEMMA Counting ==
    ASSUME NEW S \in SUBSET Requests
    PROVE  /\ Cardinality(S) \in Nat /\ Cardinality(Requests) \in Nat
           /\ \A T \in SUBSET S : Cardinality(T) <= Cardinality(S)
           /\ \A r \in S : Cardinality(S \ {r}) = Cardinality(S) - 1
           /\ \A r \in Requests \ S : Cardinality(S \cup {r}) = Cardinality(S) + 1
  <1>1. IsFiniteSet(Requests)
    BY LoginLockoutAssumption
  <1>2. IsFiniteSet(S)
    BY <1>1, FS_Subset
  <1> QED
    BY <1>1, <1>2, FS_CardinalityType, FS_Subset, FS_AddElement, FS_RemoveElement

\* A failure is counted, or about to be, one by one.
LEMMA CountStep == TypeOK /\ NoUndercount /\ [Next]_vars => NoUndercount'
  <1> SUFFICES ASSUME TypeOK, NoUndercount, [Next]_vars PROVE NoUndercount'
    OBVIOUS
  <1> DEFINE Due == In("increment")
  <1>1. Due \in SUBSET Requests /\ Due' \in SUBSET Requests
    BY DEF In
  <1>2. Cardinality(Due) \in Nat /\ Cardinality(Due') \in Nat
    BY <1>1, Counting
  <1>3. ASSUME UNCHANGED <<failed, wrong>>, Due' = Due PROVE NoUndercount'
    BY <1>3 DEF NoUndercount
  <1>4. ASSUME wrong' = 0, failed' \in Nat PROVE NoUndercount'
    BY <1>2, <1>4 DEF NoUndercount
  <1>5. ASSUME NEW r \in Requests, NEW step, step # "increment", pc[r] # "increment",
               Goto(r, step)
        PROVE  Due' = Due
    BY <1>5 DEF In, Goto, TypeOK
  <1>6. ASSUME NEW r \in Requests, NEW g \in BOOLEAN, Find(r, g) PROVE NoUndercount'
    BY <1>3, <1>5, <1>6 DEF Find, history
  <1>7. ASSUME NEW r \in Requests, Accept(r) \/ RefuseLocked(r) PROVE NoUndercount'
    BY <1>3, <1>5, <1>7 DEF Accept, RefuseLocked, Finish, history
  <1>8. ASSUME NEW r \in Requests, Refuse(r) PROVE NoUndercount'
    <2>1. r \notin Due /\ Due' = Due \cup {r}
      BY <1>8 DEF Refuse, In, Goto, TypeOK
    <2>2. Cardinality(Due') = Cardinality(Due) + 1
      BY <1>1, <2>1, Counting
    <2> QED
      BY <1>2, <1>8, <2>2 DEF Refuse, NoUndercount, TypeOK
  <1>9. ASSUME NEW r \in Requests, Increment(r) PROVE NoUndercount'
    <2>1. r \in Due /\ Due' = Due \ {r}
      BY <1>9 DEF Increment, In, Goto, Finish, TypeOK
    <2>2. Cardinality(Due') = Cardinality(Due) - 1
      BY <1>1, <2>1, Counting
    <2> QED
      BY <1>2, <1>9, <2>2 DEF Increment, history, NoUndercount, TypeOK
  <1>10. ASSUME NEW r \in Requests, Lock(r) PROVE NoUndercount'
    BY <1>3, <1>5, <1>10 DEF Lock, Finish
  <1>11. CASE AdminReset \/ \E r \in Requests : Clear(r)
    BY <1>4, <1>11 DEF AdminReset, Clear, ClearCounter
  <1>12. CASE Crash
    BY <1>4, <1>12 DEF Crash, TypeOK
  <1>13. CASE Tick \/ UNCHANGED vars
    BY <1>3, <1>13 DEF Tick, vars, history, In
  <1> QED
    BY <1>6, <1>7, <1>8, <1>9, <1>10, <1>11, <1>12, <1>13 DEF Next, Step

\* The logins that do not know of the lock there is: each of them can still be
\* told whether its password is right, and nobody joins them.
Guessers == {r \in Requests : pc[r] = "verify" /\ read[r].lockedUntil # lockedUntil}

GuessesOK == Locked => late + Cardinality(Guessers) <= Cardinality(Requests) - 1

LEMMA GuessesStep == TypeOK /\ GuessesOK /\ [Next]_vars => GuessesOK'
  <1> SUFFICES ASSUME TypeOK, GuessesOK, [Next]_vars, Locked' PROVE GuessesOK'
    BY DEF GuessesOK
  <1>1. Guessers \in SUBSET Requests /\ Guessers' \in SUBSET Requests
    BY DEF Guessers
  <1>2. /\ Cardinality(Guessers) \in Nat /\ Cardinality(Guessers') \in Nat
        /\ Cardinality(Requests) \in Nat
    BY <1>1, Counting
  <1>3. ASSUME Locked, late' = late, Guessers' \subseteq Guessers PROVE GuessesOK'
    <2>1. Cardinality(Guessers') <= Cardinality(Guessers)
      BY <1>1, <1>3, Counting
    <2> QED
      BY <1>2, <1>3, <2>1 DEF GuessesOK, TypeOK
  <1>4. ASSUME NEW r \in Requests, NEW g \in BOOLEAN, Find(r, g) PROVE GuessesOK'
    <2>1. Guessers' \subseteq Guessers
      BY <1>4 DEF Find, Goto, Guessers, TypeOK
    <2> QED
      BY <1>3, <1>4, <2>1 DEF Find, history, Locked
  <1>5. ASSUME NEW r \in Requests, Accept(r) \/ Refuse(r) PROVE GuessesOK'
    <2>1. Locked /\ late' = late + 1
      BY <1>5 DEF Accept, Refuse, Locked
    <2>2. r \in Guessers
      BY <1>5, <2>1 DEF Accept, Refuse, Locked, SeesLock, Guessers, TypeOK, Row
    <2>3. Guessers' = Guessers \ {r}
      <3>1. lockedUntil' = lockedUntil /\ pc'[r] # "verify"
        BY <1>5 DEF Accept, Refuse, Finish, Goto, TypeOK
      <3>2. \A q \in Requests \ {r} : pc'[q] = pc[q] /\ read'[q] = read[q]
        BY <1>5 DEF Accept, Refuse, Finish, Goto, TypeOK
      <3> QED
        BY <3>1, <3>2 DEF Guessers
    <2>4. Cardinality(Guessers') = Cardinality(Guessers) - 1
      BY <1>1, <2>2, <2>3, Counting
    <2> QED
      BY <1>2, <2>1, <2>4 DEF GuessesOK, TypeOK
  <1>6. ASSUME NEW r \in Requests, RefuseLocked(r) \/ Increment(r) PROVE GuessesOK'
    <2>1. Guessers' \subseteq Guessers
      BY <1>6 DEF RefuseLocked, Increment, Finish, Goto, Guessers, TypeOK
    <2> QED
      BY <1>3, <1>6, <2>1 DEF RefuseLocked, Increment, history, Locked
  <1>7. ASSUME NEW r \in Requests, Lock(r) PROVE GuessesOK'
    <2>1. CASE lockedUntil' = lockedUntil
      <3>1. Locked
        BY <1>7, <2>1 DEF Lock, Locked
      <3>2. Guessers' \subseteq Guessers
        BY <1>7, <2>1 DEF Lock, Finish, Goto, Guessers, TypeOK
      <3> QED
        BY <1>3, <1>7, <2>1, <3>1, <3>2 DEF Lock
    <2>2. CASE lockedUntil' # lockedUntil
      <3>1. Guessers' \in SUBSET (Requests \ {r})
        BY <1>1, <1>7 DEF Lock, Finish, Goto, Guessers, TypeOK
      <3>2. Cardinality(Guessers') <= Cardinality(Requests \ {r})
        BY <3>1, Counting
      <3>3. Cardinality(Requests \ {r}) = Cardinality(Requests) - 1
        BY Counting
      <3> QED
        BY <1>2, <1>7, <2>2, <3>2, <3>3 DEF Lock, GuessesOK
    <2> QED
      BY <2>1, <2>2
  <1>8. CASE AdminReset \/ \E r \in Requests : Clear(r)
    BY <1>8 DEF AdminReset, Clear, ClearCounter, Locked, TypeOK
  <1>9. CASE Crash
    <2>1. Guessers' \subseteq Guessers
      BY <1>9 DEF Crash, Guessers
    <2> QED
      BY <1>3, <1>9, <2>1 DEF Crash, Locked
  <1>10. CASE Tick \/ UNCHANGED vars
    <2>1. Guessers' \subseteq Guessers /\ late' = late
      BY <1>10 DEF Tick, vars, history, Guessers
    <2>2. Locked
      BY <1>10 DEF Tick, vars, Locked, TypeOK
    <2> QED
      BY <1>3, <2>1, <2>2
  <1> QED
    BY <1>4, <1>5, <1>6, <1>7, <1>8, <1>9, <1>10 DEF Next, Step

LEMMA Invariance == Spec => []IInv
  <1>1. IInv /\ [Next]_vars => IInv'
    BY TypeStep, ReadsStep, FollowsStep DEF IInv
  <1> QED
    BY <1>1, InitIInv, PTL DEF Spec
-----------------------------------------------------------------------------
\* Every variable keeps its type.
THEOREM TypeCorrect == Spec => []TypeOK
  BY Invariance, PTL DEF IInv

\* The lock follows the threshold unless a crash comes between.
THEOREM ThresholdLocks == Spec => []LockFollows
  BY Invariance, PTL DEF IInv

\* Concurrent failures are all counted.
THEOREM EveryFailureCounts == Spec => []NoUndercount
  <1>1. Init => NoUndercount
    <2>1. Cardinality(In("increment")) \in Nat
      <3>1. In("increment") \in SUBSET Requests
        BY DEF In
      <3> QED
        BY <3>1, Counting
    <2> QED
      BY <2>1 DEF Init, NoUndercount
  <1>2. TypeOK /\ NoUndercount /\ [Next]_vars => NoUndercount'
    BY CountStep
  <1> QED
    BY <1>1, <1>2, TypeCorrect, PTL DEF Spec

\* While a lock runs, at most the other logins in progress when it was set learn
\* whether their password was right, whatever follows: logins, crashes, further
\* locks, resets.
THEOREM LockBoundsGuessing == Spec => []LockStopsGuessing
  <1>1. Init => GuessesOK
    BY DEF Init, GuessesOK, Locked
  <1>2. TypeOK /\ GuessesOK /\ [Next]_vars => GuessesOK'
    BY GuessesStep
  <1>3. TypeOK /\ GuessesOK => LockStopsGuessing
    <2>1. Guessers \in SUBSET Requests
      BY DEF Guessers
    <2>2. Cardinality(Guessers) \in Nat /\ Cardinality(Requests) \in Nat
      BY <2>1, Counting
    <2> QED
      BY <2>2 DEF GuessesOK, LockStopsGuessing, TypeOK
  <1> QED
    BY <1>1, <1>2, <1>3, TypeCorrect, PTL DEF Spec

\* A lock is moved or lifted only by a login that had read the row without it.
THEOREM LockMovedByEarlierLogin == Spec => OnlyEarlierLoginsMoveTheLock
  <1>1. ASSUME IInv, [Next]_vars PROVE MovedByEarlierLogin
    <2> SUFFICES ASSUME NEW r \in Requests, Locked, pc[r] # "idle", pc'[r] = "idle",
                        lockedUntil' # lockedUntil
                 PROVE  read[r].lockedUntil # lockedUntil
      BY DEF MovedByEarlierLogin
    <2>1. pc[r] \in {"increment", "lock", "clear"}
      BY <1>1 DEF IInv, TypeOK, Next, Step, Find, Accept, Refuse, RefuseLocked, Increment,
         Lock, Clear, AdminReset, Crash, Tick, vars, Goto, Finish
    <2> QED
      BY <1>1, <2>1 DEF IInv, TypeOK, Row, ReadsOK, Locked
  <1> QED
    BY <1>1, Invariance, PTL DEF Spec, OnlyEarlierLoginsMoveTheLock
==============================================================================
