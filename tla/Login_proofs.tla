---------------------------- MODULE Login_proofs ----------------------------
(***************************************************************************)
(* The limiter and the sessions of Login, for any number of clients,       *)
(* requests in flight and sessions, and any limit.                         *)
(***************************************************************************)
EXTENDS Login, FiniteSetTheorems, TLAPS

\* Fewer requests count for less, and none for more than all of them.
LEMMA CountsGrow ==
  ASSUME NEW S \in SUBSET Requests, NEW T \in SUBSET S
  PROVE  /\ Cardinality(S) \in Nat /\ Cardinality(T) \in Nat
         /\ Cardinality(Requests) \in Nat
         /\ Cardinality(T) <= Cardinality(S)
         /\ Cardinality(S) <= Cardinality(Requests)
<1>1. IsFiniteSet(Requests)
  BY LoginAssumption
<1>2. IsFiniteSet(S) /\ Cardinality(S) <= Cardinality(Requests)
  BY <1>1, FS_Subset
<1>3. IsFiniteSet(T) /\ Cardinality(T) <= Cardinality(S)
  BY <1>2, FS_Subset
<1>4. QED BY <1>1, <1>2, <1>3, FS_CardinalityType

\* A request that is over no longer counts, in the key it came with or another.
LEMMA OneLess ==
  ASSUME TypeOK, NEW r \in Requests, request[r] # Idle,
         request' = [request EXCEPT ![r] = Idle], NEW k \in Keys
  PROVE  LetIn(k)' = LetIn(k) \ {r}
<1>1. request \in [Requests -> {Idle} \cup Working]
  BY DEF TypeOK
<1>2. \A q \in Requests : request'[q] = IF q = r THEN Idle ELSE request[q]
  BY <1>1
<1>3. QED BY <1>2 DEF LetIn

-----------------------------------------------------------------------------
\* The types are kept by every handler.
LEMMA TypeCorrectStep == TypeOK /\ [Next]_vars => TypeOK'
<1> SUFFICES ASSUME TypeOK, [Next]_vars PROVE TypeOK'
  OBVIOUS
<1> USE DEF TypeOK, table
<1>1. ASSUME NEW r \in Requests, NEW kind \in {"login", "enroll"}, NEW k \in Keys,
             Arrives(r, kind, k)
      PROVE  TypeOK'
  <2>1. <<kind, k>> \in Working
    BY DEF Working
  <2>2. QED BY <1>1, <2>1 DEF Arrives, Refused
<1>2. ASSUME NEW r \in Requests, Fails(r)
      PROVE  TypeOK'
  <2>1. request[r][2] \in Keys
    BY <1>2 DEF Fails, Working
  <2>2. attempts' \in [Keys -> Nat]
    BY <1>2, <2>1 DEF Fails
  <2>3. QED BY <1>2, <2>2 DEF Fails
<1>3. ASSUME NEW r \in Requests, Leaves(r)
      PROVE  TypeOK'
  BY <1>3 DEF Leaves
<1>4. ASSUME NEW r \in Requests, Succeeds(r)
      PROVE  TypeOK'
  <2>1. PICK s \in Sids \ issued : sessions' = Sweep(s) /\ issued' = issued \cup {s}
    BY <1>4 DEF Succeeds
  <2>2. sessions' \in [Sids -> {"absent", "valid", "overdue"}]
    BY <2>1 DEF Sweep
  <2>3. \A t \in Sids : sessions'[t] # "absent" => t \in issued'
    BY <2>1 DEF Sweep
  <2>4. attempts' \in [Keys -> Nat]
    BY <1>4 DEF Succeeds
  <2>5. QED BY <1>4, <2>1, <2>2, <2>3, <2>4 DEF Succeeds
<1>5. ASSUME NEW s \in Sids, NEW private \in BOOLEAN, NEW publicly \in BOOLEAN,
             Asks(private, publicly, s)
      PROVE  TypeOK'
  BY <1>5 DEF Asks, Checked, Honoured
<1>6. ASSUME NEW s \in Sids, Logout(s)
      PROVE  TypeOK'
  BY <1>6 DEF Logout
<1>7. ASSUME NEW s \in Sids, Expires(s)
      PROVE  TypeOK'
  BY <1>7 DEF Expires
<1>8. ASSUME NEW k \in Keys, Forgets(k)
      PROVE  TypeOK'
  <2>1. attempts' \in [Keys -> Nat]
    BY <1>8 DEF Forgets
  <2>2. QED BY <1>8, <2>1 DEF Forgets
<1>9. CASE Restart
  BY <1>9 DEF Restart
<1>10. CASE UNCHANGED vars
  BY <1>10 DEF vars
<1>11. QED
  BY <1>1, <1>2, <1>3, <1>4, <1>5, <1>6, <1>7, <1>8, <1>9, <1>10 DEF Next

LEMMA TypeCorrectInit == Init => TypeOK
BY DEF Init, TypeOK

-----------------------------------------------------------------------------
\* A failure takes the place of the attempt that was let in.
LEMMA LimiterStep == TypeOK /\ LimiterInv /\ [Next]_vars => LimiterInv'
<1> SUFFICES ASSUME TypeOK, LimiterInv, [Next]_vars, NEW k \in Keys
             PROVE  attempts'[k] + Cardinality(LetIn(k)')
                      < MaxAttempts + Cardinality(Requests)
  BY DEF LimiterInv
<1> DEFINE N == Cardinality(Requests)
           before == Cardinality(LetIn(k))
           after == Cardinality(LetIn(k)')
<1>1. /\ LetIn(k) \in SUBSET Requests
      /\ LetIn(k)' \in SUBSET Requests
  BY DEF LetIn
<1>2. /\ N \in Nat /\ before \in Nat /\ after \in Nat
      /\ before <= N /\ after <= N
  <2>1. before \in Nat /\ N \in Nat /\ before <= N
    BY <1>1, CountsGrow
  <2>2. after \in Nat /\ after <= N
    BY <1>1, CountsGrow
  <2>3. QED BY <2>1, <2>2
<1>3. /\ MaxAttempts \in Nat /\ MaxAttempts > 0
      /\ attempts[k] \in Nat
      /\ attempts[k] + before < MaxAttempts + N
  BY LoginAssumption DEF TypeOK, LimiterInv
<1>4. LetIn(k)' \subseteq LetIn(k) => after <= before
  <2> HAVE LetIn(k)' \subseteq LetIn(k)
  <2>1. LetIn(k)' \in SUBSET LetIn(k)
    OBVIOUS
  <2>2. QED BY <1>1, <2>1, CountsGrow
<1> HIDE DEF N, before, after
<1> SUFFICES attempts'[k] + after < MaxAttempts + N
  BY DEF N, after
<1>5. ASSUME request' = request, attempts'[k] \in Nat, attempts'[k] <= attempts[k]
      PROVE  attempts'[k] + after < MaxAttempts + N
  <2>1. LetIn(k)' = LetIn(k)
    BY <1>5 DEF LetIn
  <2>2. QED BY <1>2, <1>3, <1>4, <1>5, <2>1
<1>6. ASSUME NEW r \in Requests, NEW kind \in {"login", "enroll"}, NEW j \in Keys,
             Arrives(r, kind, j)
      PROVE  attempts'[k] + after < MaxAttempts + N
  <2>1. attempts' = attempts
    BY <1>6 DEF Arrives, Refused
  <2>2. CASE Limited(j)
    <3>1. request' = request
      BY <1>6, <2>2 DEF Arrives
    <3>2. QED BY <1>3, <1>5, <2>1, <3>1
  <2>3. CASE ~Limited(j) /\ j = k
    BY <1>2, <1>3, <2>1, <2>3 DEF Limited
  <2>4. CASE ~Limited(j) /\ j # k
    <3>1. request' = [request EXCEPT ![r] = <<kind, j>>]
      BY <1>6, <2>4 DEF Arrives
    <3>2. \A q \in Requests : request'[q] = IF q = r THEN <<kind, j>> ELSE request[q]
      BY <3>1 DEF TypeOK
    <3>3. LetIn(k)' \subseteq LetIn(k)
      BY <2>4, <3>2 DEF LetIn
    <3>4. QED BY <1>2, <1>3, <1>4, <2>1, <3>3
  <2>5. QED BY <2>2, <2>3, <2>4
<1>7. ASSUME NEW r \in Requests, Fails(r)
      PROVE  attempts'[k] + after < MaxAttempts + N
  <2>1. LetIn(k)' = LetIn(k) \ {r}
    BY <1>7, OneLess DEF Fails
  <2>2. request[r][2] \in Keys
    BY <1>7 DEF Fails, TypeOK, Working
  <2>3. CASE request[r][2] = k
    <3>1. r \in LetIn(k)
      BY <1>7, <2>3 DEF Fails, LetIn
    <3>2. IsFiniteSet(LetIn(k))
      BY <1>1, FS_Subset, LoginAssumption
    <3>3. after = before - 1
      BY <2>1, <3>1, <3>2, FS_RemoveElement DEF after, before
    <3>4. attempts'[k] = attempts[k] + 1
      BY <1>7, <2>3 DEF Fails, TypeOK
    <3>5. QED BY <1>2, <1>3, <3>3, <3>4
  <2>4. CASE request[r][2] # k
    <3>1. attempts'[k] = attempts[k]
      BY <1>7, <2>4 DEF Fails, TypeOK
    <3>2. after <= before
      BY <1>4, <2>1
    <3>3. QED BY <1>2, <1>3, <3>1, <3>2
  <2>5. QED BY <2>3, <2>4
<1>8. ASSUME NEW r \in Requests, Leaves(r)
      PROVE  attempts'[k] + after < MaxAttempts + N
  <2>1. LetIn(k)' = LetIn(k) \ {r}
    BY <1>8, OneLess DEF Leaves
  <2>2. after <= before /\ attempts' = attempts
    BY <1>4, <1>8, <2>1 DEF Leaves
  <2>3. QED BY <1>2, <1>3, <2>2
<1>9. ASSUME NEW r \in Requests, Succeeds(r)
      PROVE  attempts'[k] + after < MaxAttempts + N
  <2>1. LetIn(k)' = LetIn(k) \ {r}
    BY <1>9, OneLess DEF Succeeds
  <2>2. after <= before
    BY <1>4, <2>1
  <2>3. attempts'[k] = 0 \/ attempts'[k] = attempts[k]
    BY <1>9 DEF Succeeds, TypeOK
  <2>4. QED BY <1>2, <1>3, <2>2, <2>3
<1>10. ASSUME NEW s \in Sids
       PROVE  /\ (\E private, publicly \in BOOLEAN : Asks(private, publicly, s))
                   \/ Logout(s) \/ Expires(s)
                => attempts'[k] + after < MaxAttempts + N
  BY <1>3, <1>5 DEF Asks, Logout, Expires
<1>11. ASSUME NEW j \in Keys, Forgets(j)
       PROVE  attempts'[k] + after < MaxAttempts + N
  <2>1. attempts'[k] = attempts[k] \/ (attempts[k] > 0 /\ attempts'[k] = attempts[k] - 1)
    BY <1>11 DEF Forgets, TypeOK
  <2>2. request' = request
    BY <1>11 DEF Forgets
  <2>3. QED BY <1>3, <1>5, <2>1, <2>2
<1>12. CASE Restart
  <2>1. attempts'[k] = 0
    BY <1>12 DEF Restart
  <2>2. LetIn(k)' \subseteq LetIn(k)
    BY <1>12 DEF Restart, LetIn
  <2>3. QED BY <1>2, <1>3, <1>4, <2>1, <2>2
<1>13. CASE UNCHANGED vars
  BY <1>3, <1>5, <1>13 DEF vars
<1>14. QED
  BY <1>6, <1>7, <1>8, <1>9, <1>10, <1>11, <1>12, <1>13 DEF Next

\* With nobody let in there is room below the limit.
LEMMA LimiterInit == Init => LimiterInv
<1> SUFFICES ASSUME Init, NEW k \in Keys
             PROVE  attempts[k] + Cardinality(LetIn(k))
                      < MaxAttempts + Cardinality(Requests)
  BY DEF LimiterInv
<1>1. LetIn(k) = {}
  BY DEF Init, LetIn
<1>2. attempts[k] = 0
  BY DEF Init
<1>3. Cardinality(LetIn(k)) = 0 /\ Cardinality(Requests) \in Nat
  BY <1>1, FS_EmptySet, FS_CardinalityType, LoginAssumption
<1>4. QED BY <1>2, <1>3, LoginAssumption

-----------------------------------------------------------------------------
\* A session that has ended is never valid again, and only a valid one is served.
LEMMA SessionsStep ==
  TypeOK /\ ValidInv /\ EndedStaysOut /\ [Next]_vars => ValidInv' /\ EndedStaysOut'
<1> SUFFICES ASSUME TypeOK, ValidInv, EndedStaysOut, [Next]_vars
             PROVE  ValidInv' /\ EndedStaysOut'
  OBVIOUS
<1> USE DEF TypeOK, ValidInv, EndedStaysOut, table
<1>1. ASSUME NEW r \in Requests
      PROVE  /\ (\E kind \in {"login", "enroll"}, k \in Keys : Arrives(r, kind, k))
                  \/ Fails(r) \/ Leaves(r)
               => ValidInv' /\ EndedStaysOut'
  BY DEF Arrives, Fails, Leaves
<1>2. ASSUME NEW r \in Requests, Succeeds(r)
      PROVE  ValidInv' /\ EndedStaysOut'
  <2>1. PICK s \in Sids \ issued : sessions' = Sweep(s) /\ issued' = issued \cup {s}
    BY <1>2 DEF Succeeds
  <2>2. ended' = ended /\ served' = None
    BY <1>2 DEF Succeeds
  <2>3. QED BY <2>1, <2>2 DEF Sweep
<1>3. ASSUME NEW s \in Sids, NEW private \in BOOLEAN, NEW publicly \in BOOLEAN,
             Asks(private, publicly, s)
      PROVE  ValidInv' /\ EndedStaysOut'
  BY <1>3 DEF Asks, Checked, Honoured
<1>4. ASSUME NEW s \in Sids, Logout(s)
      PROVE  ValidInv' /\ EndedStaysOut'
  BY <1>4 DEF Logout
<1>5. ASSUME NEW s \in Sids, Expires(s)
      PROVE  ValidInv' /\ EndedStaysOut'
  BY <1>5 DEF Expires
<1>6. ASSUME NEW k \in Keys, Forgets(k)
      PROVE  ValidInv' /\ EndedStaysOut'
  BY <1>6 DEF Forgets
<1>7. CASE Restart
  BY <1>7 DEF Restart
<1>8. CASE UNCHANGED vars
  BY <1>8 DEF vars
<1>9. QED
  BY <1>1, <1>2, <1>3, <1>4, <1>5, <1>6, <1>7, <1>8 DEF Next

-----------------------------------------------------------------------------
\* Whatever the login, the limiter, the gate and a restart do, in whatever order:
\* an attempt that is under way counts with the failures, and what is valid has not
\* ended.
THEOREM InductiveInvariant == Spec => []IInv
<1>1. Init => IInv
  <2>1. Init => ValidInv /\ EndedStaysOut
    BY DEF Init, ValidInv, EndedStaysOut
  <2>2. QED BY <2>1, TypeCorrectInit, LimiterInit DEF IInv
<1>2. IInv /\ [Next]_vars => IInv'
  BY TypeCorrectStep, LimiterStep, SessionsStep DEF IInv
<1>3. QED BY <1>1, <1>2, PTL DEF Spec

\* The table, the limiter and the requests keep their types, and only ids that were
\* drawn are in the table of sessions.
THEOREM TypeCorrect == Spec => []TypeOK
<1>1. IInv => TypeOK
  BY DEF IInv
<1>2. QED BY <1>1, InductiveInvariant, PTL

\* However many attempts overlap, the failures of a key within a window stay below
\* the limit plus the attempts that can be under way (rate_limited, note_failure).
THEOREM LimitedByOverlap == Spec => []LimiterHolds
<1>1. IInv => LimiterHolds
  <2> SUFFICES ASSUME IInv, NEW k \in Keys
               PROVE  attempts[k] < MaxAttempts + Cardinality(Requests)
    BY DEF LimiterHolds
  <2>1. LetIn(k) \in SUBSET Requests
    BY DEF LetIn
  <2>2. Cardinality(LetIn(k)) \in Nat /\ Cardinality(Requests) \in Nat
    BY <2>1, CountsGrow
  <2>3. attempts[k] + Cardinality(LetIn(k)) < MaxAttempts + Cardinality(Requests)
    BY DEF IInv, LimiterInv
  <2>4. attempts[k] \in Nat /\ MaxAttempts \in Nat
    BY LoginAssumption DEF IInv, TypeOK
  <2>5. QED BY <2>2, <2>3, <2>4
<1>2. QED BY <1>1, InductiveInvariant, PTL

\* No page is served to a session that has ended (session_ok, logout, a restart).
THEOREM NeverServedAgain == Spec => []EndedStaysOut
<1>1. IInv => EndedStaysOut
  BY DEF IInv
<1>2. QED BY <1>1, InductiveInvariant, PTL
=============================================================================
