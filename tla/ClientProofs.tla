---------------------------- MODULE ClientProofs ----------------------------
(***************************************************************************)
(* What a client checks before it sends, for any number of endpoints, calls *)
(* and limits, any ratio, floor and window: no slot of the circuit breaker  *)
(* is lost, used twice or taken above the limit; the balancer uses the      *)
(* limiters as CircuitBreaker says, and the pressure it computes costs from *)
(* is exact; and the retry budget grants what it allows.                    *)
(***************************************************************************)
EXTENDS AdaptivePicker, RetryBudget, FiniteSetTheorems, TLAPS

----------------------------------------------------------------------------
(* CircuitBreaker.                                                          *)

\* A call that found its limiter holds the one in the map.
OwnLimiter ==
  \A c \in Call : pc[c] \notin {"idle", "create"} =>
    limiter[c] \in Call /\ limiters[endpoint[c]] = limiter[c]

\* Nobody counts on a limiter that is not in the map yet.
UnmadeUnused ==
  \A e \in Endpoint : limiters[e] = NoLimiter => \A c \in Call : inflight[e][c] = 0

\* The history variable is what its comment says.
AllowedBounds ==
  \A c \in Call : /\ pc[c] # "idle" => max <= allowed[c]
                  /\ pc[c] = "cas" => current[c] < allowed[c]

IInv == TypeOK /\ OwnLimiter /\ UnmadeUnused /\ AllowedBounds /\ CountsHolders

\* What a swap does to the counters.
LEMMA SwapCounter ==
  ASSUME TypeOK, OwnLimiter, NEW c \in Call, pc[c] \notin {"idle", "create"},
         NEW n \in Nat, SetInflight(c, n)
  PROVE  /\ inflight' \in [Endpoint -> [Call -> Nat]]
         /\ inflight'[endpoint[c]][limiters[endpoint[c]]] = n
         /\ \A e \in Endpoint \ {endpoint[c]} : inflight'[e] = inflight[e]
<1>1. endpoint[c] \in Endpoint /\ limiter[c] \in Call /\ limiters[endpoint[c]] = limiter[c]
  BY DEF TypeOK, OwnLimiter
<1> DEFINE row == [inflight[endpoint[c]] EXCEPT ![limiter[c]] = n]
<1>2. row \in [Call -> Nat] /\ row[limiter[c]] = n
  BY <1>1 DEF TypeOK
<1>3. inflight' = [inflight EXCEPT ![endpoint[c]] = row]
  BY DEF SetInflight
<1> HIDE DEF row
<1> QED BY <1>1, <1>2, <1>3 DEF TypeOK

\* The type invariant is inductive.
LEMMA TypeStep == TypeOK /\ OwnLimiter /\ CountsHolders /\ [Next]_vars => TypeOK'
<1> SUFFICES ASSUME TypeOK, OwnLimiter, CountsHolders, [Next]_vars PROVE TypeOK'
  OBVIOUS
<1> USE LimitAssumption, CallAssumption DEF TypeOK, shared, PC, Counted, normalizeMaxInflight, Goto, Inflight, SetInflight
<1>1. ASSUME NEW m \in Limit, SetMax(m) PROVE TypeOK'
  BY <1>1 DEF SetMax
<1>2. ASSUME NEW c \in Call, NEW e \in Endpoint, Begin(c, e) PROVE TypeOK'
  BY <1>2 DEF Begin
<1>3. ASSUME NEW c \in Call, LoadOrStore(c) PROVE TypeOK'
  BY <1>3 DEF LoadOrStore, Winner
<1>4. ASSUME NEW c \in Call, LoadInflight(c) PROVE TypeOK'
  <2>1. Inflight(c) \in Nat
    BY <1>4 DEF LoadInflight, OwnLimiter
  <2> QED BY <1>4, <2>1 DEF LoadInflight
<1>5. ASSUME NEW c \in Call, CheckMax(c) PROVE TypeOK'
  BY <1>5 DEF CheckMax, Full
<1>6. ASSUME NEW c \in Call, CompareAndSwap(c) PROVE TypeOK'
  <2>1. CASE Inflight(c) = current[c]
    <3>1. SetInflight(c, current[c] + 1) /\ current[c] + 1 \in Nat
      BY <1>6, <2>1 DEF CompareAndSwap
    <3>2. inflight' \in [Endpoint -> [Call -> Nat]]
      BY ZenonT(30), <1>6, <3>1, SwapCounter DEF CompareAndSwap
    <3> QED BY ZenonT(30), <1>6, <2>1, <3>2 DEF CompareAndSwap
  <2>2. CASE Inflight(c) # current[c]
    BY SMTT(30), <1>6, <2>2 DEF CompareAndSwap
  <2> QED BY <2>1, <2>2
<1>7. ASSUME NEW c \in Call, Recheck(c) PROVE TypeOK'
  BY <1>7 DEF Recheck
<1>8. ASSUME NEW c \in Call, Release(c) PROVE TypeOK'
  BY <1>8 DEF Release
<1>9. ASSUME NEW c \in Call, ReleaseLoad(c) PROVE TypeOK'
  <2>1. Inflight(c) \in Nat
    BY <1>9 DEF ReleaseLoad, OwnLimiter
  <2> QED BY <1>9, <2>1 DEF ReleaseLoad
<1>10. ASSUME NEW c \in Call, ReleaseSwap(c) PROVE TypeOK'
  <2>1. c \in Counting(endpoint[c]) /\ endpoint[c] \in Endpoint
    BY <1>10 DEF ReleaseSwap, Counting
  <2>2. Cardinality(Counting(endpoint[c])) # 0
    BY ZenonT(30), <2>1, FS_EmptySet, FS_Subset DEF Counting
  <2>3. Inflight(c) # 0
    BY <1>10, <2>1, <2>2, NoLimiterAssumption DEF ReleaseSwap, OwnLimiter, CountsHolders
  <2>4. Inflight(c) \in Nat
    BY <1>10 DEF ReleaseSwap, OwnLimiter
  <2>5. CASE Inflight(c) = current[c]
    <3>1. current[c] - 1 \in Nat
      BY <2>3, <2>4, <2>5
    <3>2. SetInflight(c, current[c] - 1)
      BY <1>10, <2>5 DEF ReleaseSwap
    <3>3. inflight' \in [Endpoint -> [Call -> Nat]]
      BY ZenonT(30), <1>10, <3>1, <3>2, SwapCounter DEF ReleaseSwap
    <3> QED BY ZenonT(30), <1>10, <2>5, <3>3 DEF ReleaseSwap
  <2>6. CASE Inflight(c) # current[c]
    BY <1>10, <2>6 DEF ReleaseSwap
  <2> QED BY <2>5, <2>6
<1>11. CASE UNCHANGED vars
  BY <1>11 DEF vars
<1>12. ASSUME NEW c \in Call, NEW S \in SUBSET Endpoint, NewLimiters(c, S) PROVE TypeOK'
  BY <1>12 DEF NewLimiters
<1> QED BY ZenonT(30), <1>1, <1>2, <1>3, <1>4, <1>5, <1>6, <1>7, <1>8, <1>9, <1>10, <1>11, <1>12 DEF Next

\* A limiter found stays the one in the map, and is counted on only then.
LEMMA LimiterStep == TypeOK /\ OwnLimiter /\ UnmadeUnused /\ [Next]_vars => OwnLimiter' /\ UnmadeUnused'
<1> SUFFICES ASSUME TypeOK, OwnLimiter, UnmadeUnused, [Next]_vars PROVE OwnLimiter' /\ UnmadeUnused'
  OBVIOUS
<1> USE NoLimiterAssumption DEF TypeOK, OwnLimiter, UnmadeUnused, shared, PC, Counted, Goto
<1>1. ASSUME NEW m \in Limit, SetMax(m) PROVE OwnLimiter' /\ UnmadeUnused'
  BY <1>1 DEF SetMax
<1>2. ASSUME NEW c \in Call, NEW e \in Endpoint, Begin(c, e) PROVE OwnLimiter' /\ UnmadeUnused'
  BY <1>2 DEF Begin
<1>3. ASSUME NEW c \in Call, LoadOrStore(c) PROVE OwnLimiter' /\ UnmadeUnused'
  <2>1. Winner(c) \in Call
    BY DEF Winner
  <2>2. \A d \in Call : pc[d] \notin {"idle", "create"} => limiters'[endpoint[d]] = limiters[endpoint[d]]
    BY <1>3, <2>1 DEF LoadOrStore, Winner
  <2> QED BY <1>3, <2>1, <2>2 DEF LoadOrStore
<1>4. ASSUME NEW c \in Call, LoadInflight(c) PROVE OwnLimiter' /\ UnmadeUnused'
  BY <1>4 DEF LoadInflight
<1>5. ASSUME NEW c \in Call, CheckMax(c) PROVE OwnLimiter' /\ UnmadeUnused'
  BY <1>5 DEF CheckMax
<1>6. ASSUME NEW c \in Call, CompareAndSwap(c) PROVE OwnLimiter' /\ UnmadeUnused'
  <2>1. OwnLimiter'
    BY <1>6 DEF CompareAndSwap
  <2>2. limiters[endpoint[c]] # NoLimiter /\ limiters' = limiters
    BY <1>6 DEF CompareAndSwap
  <2>3. \A e \in Endpoint \ {endpoint[c]} : inflight'[e] = inflight[e]
    BY <1>6 DEF CompareAndSwap, SetInflight
  <2> QED BY <2>1, <2>2, <2>3
<1>7. ASSUME NEW c \in Call, Recheck(c) PROVE OwnLimiter' /\ UnmadeUnused'
  BY <1>7 DEF Recheck
<1>8. ASSUME NEW c \in Call, Release(c) PROVE OwnLimiter' /\ UnmadeUnused'
  BY <1>8 DEF Release
<1>9. ASSUME NEW c \in Call, ReleaseLoad(c) PROVE OwnLimiter' /\ UnmadeUnused'
  BY <1>9 DEF ReleaseLoad
<1>10. ASSUME NEW c \in Call, ReleaseSwap(c) PROVE OwnLimiter' /\ UnmadeUnused'
  <2>1. OwnLimiter'
    BY SMTT(30), <1>10 DEF ReleaseSwap
  <2>2. limiters[endpoint[c]] # NoLimiter /\ limiters' = limiters
    BY <1>10 DEF ReleaseSwap
  <2>3. \A e \in Endpoint \ {endpoint[c]} : inflight'[e] = inflight[e]
    BY <1>10 DEF ReleaseSwap, SetInflight
  <2> QED BY <2>1, <2>2, <2>3
<1>11. CASE UNCHANGED vars
  BY <1>11 DEF vars
<1>12. ASSUME NEW c \in Call, NEW S \in SUBSET Endpoint, NewLimiters(c, S) PROVE OwnLimiter' /\ UnmadeUnused'
  BY <1>12 DEF NewLimiters
<1> QED BY ZenonT(30), <1>1, <1>2, <1>3, <1>4, <1>5, <1>6, <1>7, <1>8, <1>9, <1>10, <1>11, <1>12 DEF Next

\* What is allowed to a call bounds what it compares its count with.
LEMMA AllowedStep == TypeOK /\ TypeOK' /\ AllowedBounds /\ [Next]_vars => AllowedBounds'
<1> SUFFICES ASSUME TypeOK, TypeOK', AllowedBounds, [Next]_vars PROVE AllowedBounds'
  OBVIOUS
<1> USE DEF TypeOK, AllowedBounds, shared, PC, Counted, Goto
<1>1. ASSUME NEW m \in Limit, SetMax(m) PROVE AllowedBounds'
  BY <1>1 DEF SetMax
<1>2. ASSUME NEW c \in Call, NEW e \in Endpoint, Begin(c, e) PROVE AllowedBounds'
  BY <1>2 DEF Begin
<1>3. ASSUME NEW c \in Call, LoadOrStore(c) PROVE AllowedBounds'
  BY <1>3 DEF LoadOrStore
<1>4. ASSUME NEW c \in Call, LoadInflight(c) PROVE AllowedBounds'
  BY <1>4 DEF LoadInflight
<1>5. ASSUME NEW c \in Call, CheckMax(c) PROVE AllowedBounds'
  BY <1>5 DEF CheckMax, Full
<1>6. ASSUME NEW c \in Call, CompareAndSwap(c) PROVE AllowedBounds'
  BY <1>6 DEF CompareAndSwap
<1>7. ASSUME NEW c \in Call, Recheck(c) PROVE AllowedBounds'
  BY <1>7 DEF Recheck
<1>8. ASSUME NEW c \in Call, Release(c) PROVE AllowedBounds'
  BY <1>8 DEF Release
<1>9. ASSUME NEW c \in Call, ReleaseLoad(c) PROVE AllowedBounds'
  BY <1>9 DEF ReleaseLoad
<1>10. ASSUME NEW c \in Call, ReleaseSwap(c) PROVE AllowedBounds'
  BY <1>10 DEF ReleaseSwap
<1>11. CASE UNCHANGED vars
  BY <1>11 DEF vars
<1>12. ASSUME NEW c \in Call, NEW S \in SUBSET Endpoint, NewLimiters(c, S) PROVE AllowedBounds'
  BY <1>12 DEF NewLimiters
<1> QED BY ZenonT(30), <1>1, <1>2, <1>3, <1>4, <1>5, <1>6, <1>7, <1>8, <1>9, <1>10, <1>11, <1>12 DEF Next

\* Sets of calls are finite, and grow and shrink by one.
LEMMA CountByOne ==
  ASSUME NEW S \in SUBSET Call, NEW c \in Call
  PROVE  /\ IsFiniteSet(S) /\ Cardinality(S) \in Nat
         /\ c \notin S => Cardinality(S \cup {c}) = Cardinality(S) + 1
         /\ c \in S => Cardinality(S \ {c}) = Cardinality(S) - 1
BY ZenonT(30), CallAssumption, FS_Subset, FS_CardinalityType, FS_AddElement, FS_RemoveElement

\* A step that swaps no counter leaves the counted calls alone.
LEMMA CountedStay ==
  ASSUME TypeOK, OwnLimiter, UnmadeUnused, CountsHolders,
         inflight' = inflight,
         \A e \in Endpoint : Counting(e)' = Counting(e),
         \A e \in Endpoint : limiters'[e] = limiters[e] \/ (limiters[e] = NoLimiter /\ limiters'[e] \in Call)
  PROVE  CountsHolders'
<1> SUFFICES ASSUME NEW e \in Endpoint, limiters'[e] # NoLimiter
             PROVE  inflight[e][limiters'[e]] = Cardinality(Counting(e))
  BY DEF CountsHolders
<1>1. CASE limiters'[e] = limiters[e]
  BY <1>1 DEF CountsHolders
<1>2. CASE limiters[e] = NoLimiter /\ limiters'[e] \in Call
  <2>1. Counting(e) = {}
    BY <1>2, NoLimiterAssumption DEF Counting, OwnLimiter, Counted
  <2> QED BY <1>2, <2>1, FS_EmptySet DEF UnmadeUnused
<1> QED BY <1>1, <1>2

\* The counter of a limiter follows the calls that hold its slots.
LEMMA CountsStep ==
  TypeOK /\ OwnLimiter /\ UnmadeUnused /\ CountsHolders /\ [Next]_vars => CountsHolders'
<1> SUFFICES ASSUME TypeOK, OwnLimiter, UnmadeUnused, CountsHolders, [Next]_vars PROVE CountsHolders'
  OBVIOUS
<1>1. ASSUME NEW m \in Limit, SetMax(m) PROVE CountsHolders'
  BY <1>1, CountedStay DEF SetMax, Counting
<1>2. ASSUME NEW c \in Call, NEW e \in Endpoint, Begin(c, e) PROVE CountsHolders'
  <2>1. pc[c] \notin Counted /\ pc'[c] \notin Counted
    BY <1>2 DEF Begin, Goto, TypeOK, Counted
  <2>2. \A d \in Call \ {c} : pc'[d] = pc[d] /\ endpoint'[d] = endpoint[d]
    BY <1>2 DEF Begin, Goto, TypeOK
  <2>3. \A x \in Endpoint : Counting(x)' = Counting(x)
    BY <2>1, <2>2 DEF Counting, Counted
  <2> QED BY <1>2, <2>3, CountedStay DEF Begin, shared
<1>3. ASSUME NEW c \in Call, LoadOrStore(c) PROVE CountsHolders'
  <2>1. \A x \in Endpoint : Counting(x)' = Counting(x)
    BY <1>3 DEF LoadOrStore, Goto, TypeOK, Counting, Counted
  <2>2. \A x \in Endpoint : limiters'[x] = limiters[x] \/ (limiters[x] = NoLimiter /\ limiters'[x] \in Call)
    BY <1>3 DEF LoadOrStore, Winner, TypeOK
  <2> QED BY <1>3, <2>1, <2>2, CountedStay DEF LoadOrStore
<1>4. ASSUME NEW c \in Call, LoadInflight(c) PROVE CountsHolders'
  <2>1. \A x \in Endpoint : Counting(x)' = Counting(x)
    BY <1>4 DEF LoadInflight, Goto, TypeOK, Counting, Counted
  <2> QED BY <1>4, <2>1, CountedStay DEF LoadInflight, shared
<1>5. ASSUME NEW c \in Call, CheckMax(c) PROVE CountsHolders'
  <2>1. \A x \in Endpoint : Counting(x)' = Counting(x)
    BY <1>5 DEF CheckMax, Goto, TypeOK, Counting, Counted
  <2> QED BY <1>5, <2>1, CountedStay DEF CheckMax, shared
<1>6. ASSUME NEW c \in Call, CompareAndSwap(c) PROVE CountsHolders'
  <2>1. CASE Inflight(c) = current[c]
    <3>1. SetInflight(c, current[c] + 1) /\ current[c] + 1 \in Nat /\ Goto(c, "recheck")
          /\ limiters' = limiters /\ endpoint' = endpoint
      BY <1>6, <2>1 DEF CompareAndSwap, TypeOK
    <3>2. Counting(endpoint[c])' = Counting(endpoint[c]) \cup {c} /\ c \notin Counting(endpoint[c])
      BY <1>6, <3>1 DEF CompareAndSwap, Goto, TypeOK, Counting, Counted
    <3>3. \A x \in Endpoint \ {endpoint[c]} : Counting(x)' = Counting(x)
      BY <3>1 DEF Goto, TypeOK, Counting, Counted
    <3>4. Counting(endpoint[c]) \in SUBSET Call
      BY DEF Counting
    <3>5. Cardinality(Counting(endpoint[c])') = Cardinality(Counting(endpoint[c])) + 1
      BY <3>2, <3>4, CountByOne
    <3>6. /\ inflight'[endpoint[c]][limiters[endpoint[c]]] = current[c] + 1
          /\ \A x \in Endpoint \ {endpoint[c]} : inflight'[x] = inflight[x]
      BY <1>6, <3>1, SwapCounter DEF CompareAndSwap
    <3>7. endpoint[c] \in Endpoint /\ limiters[endpoint[c]] = limiter[c] /\ limiter[c] # NoLimiter
      BY <1>6, NoLimiterAssumption DEF CompareAndSwap, OwnLimiter, TypeOK
    <3>8. current[c] = Cardinality(Counting(endpoint[c]))
      BY <2>1, <3>7 DEF CountsHolders, Inflight
    <3> QED BY ZenonT(30), <3>1, <3>3, <3>5, <3>6, <3>7, <3>8 DEF CountsHolders
  <2>2. CASE Inflight(c) # current[c]
    <3>1. \A x \in Endpoint : Counting(x)' = Counting(x)
      BY <1>6, <2>2 DEF CompareAndSwap, Goto, TypeOK, Counting, Counted
    <3> QED BY <1>6, <2>2, <3>1, CountedStay DEF CompareAndSwap
  <2> QED BY <2>1, <2>2
<1>7. ASSUME NEW c \in Call, Recheck(c) PROVE CountsHolders'
  <2>1. \A x \in Endpoint : Counting(x)' = Counting(x)
    BY <1>7 DEF Recheck, Goto, TypeOK, Counting, Counted
  <2> QED BY <1>7, <2>1, CountedStay DEF Recheck, shared
<1>8. ASSUME NEW c \in Call, Release(c) PROVE CountsHolders'
  <2>1. \A x \in Endpoint : Counting(x)' = Counting(x)
    BY <1>8 DEF Release, Goto, TypeOK, Counting, Counted
  <2> QED BY <1>8, <2>1, CountedStay DEF Release, shared
<1>9. ASSUME NEW c \in Call, ReleaseLoad(c) PROVE CountsHolders'
  <2>1. c \in Counting(endpoint[c]) /\ Counting(endpoint[c]) \in SUBSET Call
    BY <1>9 DEF ReleaseLoad, Counting, Counted
  <2>2. Cardinality(Counting(endpoint[c])) # 0 /\ Cardinality(Counting(endpoint[c])) \in Nat
    BY ZenonT(30), <2>1, CountByOne, FS_EmptySet
  <2>3. Inflight(c) = Cardinality(Counting(endpoint[c]))
    BY <1>9, NoLimiterAssumption DEF ReleaseLoad, CountsHolders, Inflight, OwnLimiter, TypeOK
  <2>4. Goto(c, "swap")
    BY <1>9, <2>2, <2>3 DEF ReleaseLoad
  <2>5. \A x \in Endpoint : Counting(x)' = Counting(x)
    BY <1>9, <2>4 DEF ReleaseLoad, Goto, TypeOK, Counting, Counted
  <2> QED BY <1>9, <2>5, CountedStay DEF ReleaseLoad, shared
<1>10. ASSUME NEW c \in Call, ReleaseSwap(c) PROVE CountsHolders'
  <2>1. CASE Inflight(c) = current[c]
    <3>1. SetInflight(c, current[c] - 1) /\ Goto(c, "idle") /\ limiters' = limiters /\ endpoint' = endpoint
      BY <1>10, <2>1 DEF ReleaseSwap
    <3>2. Counting(endpoint[c])' = Counting(endpoint[c]) \ {c} /\ c \in Counting(endpoint[c])
      BY <1>10, <3>1 DEF ReleaseSwap, Goto, TypeOK, Counting, Counted
    <3>3. \A x \in Endpoint \ {endpoint[c]} : Counting(x)' = Counting(x)
      BY <3>1 DEF Goto, TypeOK, Counting, Counted
    <3>4. Counting(endpoint[c]) \in SUBSET Call
      BY DEF Counting
    <3>5. /\ Cardinality(Counting(endpoint[c])') = Cardinality(Counting(endpoint[c])) - 1
          /\ Cardinality(Counting(endpoint[c])) \in Nat
          /\ Cardinality(Counting(endpoint[c])) # 0
      BY <3>2, <3>4, CountByOne, FS_EmptySet
    <3>6. endpoint[c] \in Endpoint /\ limiters[endpoint[c]] = limiter[c] /\ limiter[c] # NoLimiter
      BY <1>10, NoLimiterAssumption DEF ReleaseSwap, OwnLimiter, TypeOK
    <3>7. current[c] = Cardinality(Counting(endpoint[c]))
      BY <2>1, <3>6 DEF CountsHolders, Inflight
    <3>8. current[c] - 1 \in Nat
      BY <3>5, <3>7
    <3>9. /\ inflight'[endpoint[c]][limiters[endpoint[c]]] = current[c] - 1
          /\ \A x \in Endpoint \ {endpoint[c]} : inflight'[x] = inflight[x]
      BY <1>10, <3>1, <3>8, SwapCounter DEF ReleaseSwap
    <3> QED BY ZenonT(30), <3>1, <3>3, <3>5, <3>6, <3>7, <3>9 DEF CountsHolders
  <2>2. CASE Inflight(c) # current[c]
    <3>1. \A x \in Endpoint : Counting(x)' = Counting(x)
      BY <1>10, <2>2 DEF ReleaseSwap, Goto, TypeOK, Counting, Counted
    <3> QED BY <1>10, <2>2, <3>1, CountedStay DEF ReleaseSwap
  <2> QED BY <2>1, <2>2
<1>11. CASE UNCHANGED vars
  BY <1>11 DEF vars, shared, CountsHolders, Counting
<1>12. ASSUME NEW c \in Call, NEW S \in SUBSET Endpoint, NewLimiters(c, S) PROVE CountsHolders'
  <2>1. \A x \in Endpoint : limiters'[x] = limiters[x] \/ (limiters[x] = NoLimiter /\ limiters'[x] \in Call)
    BY <1>12 DEF NewLimiters
  <2>2. \A x \in Endpoint : Counting(x)' = Counting(x)
    BY <1>12 DEF NewLimiters, Counting
  <2> QED BY <1>12, <2>1, <2>2, CountedStay DEF NewLimiters
<1> QED BY <1>1, <1>2, <1>3, <1>4, <1>5, <1>6, <1>7, <1>8, <1>9, <1>10, <1>11, <1>12 DEF Next

\* The inductive invariant holds at first.
LEMMA InitiallyIInv == Init => IInv
<1> SUFFICES ASSUME Init PROVE IInv
  OBVIOUS
<1>1. TypeOK
  BY LimitAssumption DEF Init, TypeOK, PC, normalizeMaxInflight
<1>2. OwnLimiter /\ UnmadeUnused /\ AllowedBounds
  BY DEF Init, OwnLimiter, UnmadeUnused, AllowedBounds
<1>3. CountsHolders
  BY DEF Init, CountsHolders
<1> QED BY <1>1, <1>2, <1>3 DEF IInv

\* Every step preserves it.
LEMMA IInvStep == IInv /\ [Next]_vars => IInv'
BY TypeStep, LimiterStep, AllowedStep, CountsStep DEF IInv

\* The inductive invariant holds throughout.
LEMMA Inductive == Spec => []IInv
BY InitiallyIInv, IInvStep, PTL DEF Spec

\* The breaker's state is well typed, the limit positive whatever it is set to.
THEOREM TypeCorrect == Spec => []TypeOK
BY Inductive, PTL DEF IInv

\* TryAcquire and Release lose no slot and use none twice: the one limiter of
\* an endpoint counts the calls that hold its slots.
THEOREM SlotsCounted == Spec => []CountsHolders
BY Inductive, PTL DEF IInv

\* TryAcquire never takes a slot above every limit in force since it began.
THEOREM AdmissionBounded == Spec => AdmittedWithinMax
<1>1. IInv /\ IInv' /\ [Next]_vars =>
        [\A c \in Call : (pc[c] = "cas" /\ pc'[c] = "recheck")
           => Cardinality(Counting(endpoint[c])') <= allowed[c]]_vars
  <2> SUFFICES ASSUME IInv, IInv', Next, NEW c \in Call, pc[c] = "cas", pc'[c] = "recheck"
               PROVE  Cardinality(Counting(endpoint[c])') <= allowed[c]
    OBVIOUS
  <2>1. CompareAndSwap(c)
    <3>1. pc' # pc /\ pc \in [Call -> PC]
      BY DEF IInv, TypeOK
    <3>2. PICK d \in Call : \/ \E e \in Endpoint : Begin(d, e)
                            \/ LoadOrStore(d) \/ LoadInflight(d) \/ CheckMax(d) \/ CompareAndSwap(d)
                            \/ Recheck(d) \/ Release(d) \/ ReleaseLoad(d) \/ ReleaseSwap(d)
      BY Zenon, <3>1 DEF Next, SetMax, NewLimiters
    <3>3. \A x \in Call \ {d} : pc'[x] = pc[x]
      BY <3>1, <3>2 DEF Begin, LoadOrStore, LoadInflight, CheckMax, CompareAndSwap, Recheck, Release, ReleaseLoad,
                        ReleaseSwap, Goto
    <3>4. pc[d] = "cas"
      BY <3>3
    <3>5. d = c
      BY <3>3
    <3> QED BY ZenonT(30), <3>2, <3>4, <3>5 DEF Begin, LoadOrStore, LoadInflight, CheckMax, Recheck, Release,
                                                ReleaseLoad, ReleaseSwap
  <2>2. SetInflight(c, current[c] + 1) /\ limiters' = limiters /\ endpoint' = endpoint
    BY <2>1 DEF CompareAndSwap, Goto, IInv, TypeOK
  <2>3. inflight'[endpoint[c]][limiters[endpoint[c]]] = current[c] + 1
    <3>1. TypeOK /\ OwnLimiter /\ current[c] + 1 \in Nat
      BY DEF IInv, TypeOK
    <3> QED BY ZenonT(30), <2>2, <3>1, SwapCounter
  <2>4. endpoint[c] \in Endpoint /\ limiters[endpoint[c]] # NoLimiter
    BY ZenonT(30), NoLimiterAssumption DEF IInv, OwnLimiter, TypeOK
  <2>5. Cardinality(Counting(endpoint[c])') = current[c] + 1
    BY <2>2, <2>3, <2>4 DEF IInv, CountsHolders
  <2>6. current[c] \in Nat /\ allowed[c] \in Nat /\ current[c] < allowed[c]
    BY DEF IInv, TypeOK, AllowedBounds
  <2> QED BY <2>5, <2>6
<1> QED BY <1>1, Inductive, PTL DEF Spec, AdmittedWithinMax

----------------------------------------------------------------------------
(* AdaptivePicker.                                                          *)

\* A call that has no slot yet is not counted as sent.
NotSentYet ==
  \A c \in Call : pc[c] \in {"create", "load", "check", "cas", "recheck"} \/ ~pooled => stage[c] = "picked"

PressureCounts == \A e \in Endpoint : pressure[e] = Cardinality(Sent(e))

PInv == IInv /\ PickerTypeOK /\ NotSentYet /\ PressureCounts

\* Every step of the balancer is a step of the breaker, or none.
LEMMA StepsAreBreakerSteps == PickerTypeOK /\ [PickerStep]_pickerVars => [Next]_vars
<1> SUFFICES ASSUME PickerTypeOK, [PickerStep]_pickerVars PROVE [Next]_vars
  OBVIOUS
<1>1. ASSUME NEW ready \in [Endpoint -> Status], Build(ready) PROVE Next
  BY <1>1, PickingAssumption DEF Build, Next
<1>2. ASSUME NEW m \in Limit, SetMaxInflightPerEndpoint(m) PROVE Next
  BY <1>2 DEF SetMaxInflightPerEndpoint, Next
<1>3. ASSUME NEW c \in Picking, Pick(c) PROVE Next
  BY <1>3, PickingAssumption DEF Pick, Next, pickCandidates, With
<1>4. ASSUME NEW c \in Picking, CallLimiter(c) PROVE Next
  BY <1>4, PickingAssumption DEF CallLimiter, Next
<1>5. ASSUME NEW c \in Picking, IncrementInflight(c) PROVE UNCHANGED vars
  BY <1>5 DEF IncrementInflight
<1>6. ASSUME NEW c \in Picking, finish(c) PROVE [Next]_vars
  BY ZenonT(30), <1>6, PickingAssumption DEF finish, Next
<1>7. ASSUME BreakerNext PROVE Next
  BY <1>7 DEF BreakerNext, Next
<1>8. CASE UNCHANGED pickerVars
  BY <1>8 DEF pickerVars
<1> QED BY <1>1, <1>2, <1>3, <1>4, <1>5, <1>6, <1>7, <1>8 DEF PickerStep, PickerNext

\* A step that moves no call into or out of the sent ones leaves the pressure.
LEMMA SentStay ==
  ASSUME PressureCounts, pressure' = pressure, \A e \in Endpoint : Sent(e)' = Sent(e)
  PROVE  PressureCounts'
BY DEF PressureCounts

\* A breaker step of a call that is not sent keeps the sent calls.
LEMMA BreakerKeepsSent ==
  ASSUME TypeOK, NEW c \in Call,
         \A d \in Call \ {c} : pc'[d] = pc[d] /\ endpoint'[d] = endpoint[d],
         \A d \in Call \ {c} : stage'[d] = stage[d],
         ~(pc[c] = "held" /\ stage[c] = "sent"),
         ~(pc'[c] = "held" /\ stage'[c] = "sent")
  PROVE  \A e \in Endpoint : Sent(e)' = Sent(e)
BY DEF Sent

\* A step of the pool's pickers.
LEMMA PickerKeepsPressure ==
  ASSUME PInv, PickerNext, pooled PROVE PickerTypeOK' /\ NotSentYet' /\ PressureCounts'
<1> USE PickingAssumption DEF PInv, IInv
<1>1. ASSUME NEW ready \in [Endpoint -> Status], Build(ready) PROVE PickerTypeOK' /\ NotSentYet' /\ PressureCounts'
  <2>1. PickerTypeOK' /\ NotSentYet'
    BY <1>1 DEF Build, NewLimiters, newAdaptivePickerItem, PickerTypeOK, NotSentYet
  <2>2. \A e \in Endpoint : Sent(e)' = Sent(e)
    BY <1>1 DEF Build, NewLimiters, Sent
  <2> QED BY <1>1, <2>1, <2>2, SentStay DEF Build
<1>2. ASSUME NEW m \in Limit, SetMaxInflightPerEndpoint(m) PROVE PickerTypeOK' /\ NotSentYet' /\ PressureCounts'
  <2>1. PickerTypeOK' /\ NotSentYet'
    BY <1>2 DEF SetMaxInflightPerEndpoint, SetMax, PickerTypeOK, NotSentYet, pickVars
  <2>2. \A e \in Endpoint : Sent(e)' = Sent(e)
    BY <1>2 DEF SetMaxInflightPerEndpoint, SetMax, Sent, pickVars
  <2> QED BY <1>2, <2>1, <2>2, SentStay DEF SetMaxInflightPerEndpoint, pickVars
<1>3. ASSUME NEW c \in Picking, Pick(c) PROVE PickerTypeOK' /\ NotSentYet' /\ PressureCounts'
  <2>1. PICK e \in Endpoint : Begin(c, e)
    BY <1>3 DEF Pick, pickCandidates, With
  <2>2. PickerTypeOK' /\ NotSentYet'
    BY <1>3, <2>1 DEF Pick, Begin, At, Goto, PickerTypeOK, NotSentYet, TypeOK
  <2>3. \A x \in Endpoint : Sent(x)' = Sent(x)
    <3>1. pc[c] = "idle" /\ stage'[c] = "picked"
      BY <1>3, <2>1 DEF Pick, Begin, At, PickerTypeOK
    <3>2. \A d \in Call \ {c} : pc'[d] = pc[d] /\ endpoint'[d] = endpoint[d] /\ stage'[d] = stage[d]
      BY <1>3, <2>1 DEF Pick, Begin, At, Goto, PickerTypeOK, TypeOK
    <3> QED BY ZenonT(30), <3>1, <3>2, BreakerKeepsSent
  <2> QED BY <1>3, <2>2, <2>3, SentStay DEF Pick
<1>4. ASSUME NEW c \in Picking, CallLimiter(c) PROVE PickerTypeOK' /\ NotSentYet' /\ PressureCounts'
  <2>1. UNCHANGED <<pooled, picker, pressure, stage, endpoint>>
    BY ZenonT(30), <1>4 DEF CallLimiter, pickVars, LoadInflight, CheckMax, CompareAndSwap, Recheck,
                            ReleaseLoad, ReleaseSwap
  <2>2. pc[c] # "held" /\ pc' = [pc EXCEPT ![c] = pc'[c]]
    BY <1>4 DEF CallLimiter, LoadInflight, CheckMax, CompareAndSwap, Recheck, ReleaseLoad, ReleaseSwap, Goto, TypeOK
  <2>3. /\ pc'[c] \in {"check", "cas", "recheck", "held", "load"} => pc[c] \in {"load", "check", "cas", "recheck"}
        /\ pc'[c] # "create"
    BY ZenonT(30), <1>4 DEF CallLimiter, LoadInflight, CheckMax, CompareAndSwap, Recheck, ReleaseLoad,
                            ReleaseSwap, Goto, TypeOK
  <2>4. NotSentYet'
    BY <2>1, <2>2, <2>3 DEF NotSentYet, TypeOK
  <2>5. ~(pc'[c] = "held" /\ stage'[c] = "sent")
    BY <2>1, <2>3 DEF NotSentYet
  <2>6. \A d \in Call \ {c} : pc'[d] = pc[d] /\ endpoint'[d] = endpoint[d] /\ stage'[d] = stage[d]
    BY <2>1, <2>2 DEF TypeOK
  <2>7. \A x \in Endpoint : Sent(x)' = Sent(x)
    BY ZenonT(30), <2>2, <2>5, <2>6, BreakerKeepsSent
  <2> QED BY <2>1, <2>4, <2>7, SentStay DEF PickerTypeOK
<1>5. ASSUME NEW c \in Picking, IncrementInflight(c) PROVE PickerTypeOK' /\ NotSentYet' /\ PressureCounts'
  <2>1. /\ pc[c] = "held" /\ stage[c] = "picked" /\ endpoint[c] \in Endpoint
        /\ stage' = [stage EXCEPT ![c] = "sent"]
        /\ pressure' = [pressure EXCEPT ![endpoint[c]] = @ + 1]
        /\ pc' = pc /\ endpoint' = endpoint /\ pooled' = pooled /\ picker' = picker
    BY <1>5 DEF IncrementInflight, At, vars, TypeOK
  <2>2. PickerTypeOK' /\ NotSentYet'
    BY <2>1 DEF PickerTypeOK, NotSentYet
  <2>3. Sent(endpoint[c])' = Sent(endpoint[c]) \cup {c} /\ c \notin Sent(endpoint[c])
    BY <2>1 DEF Sent, PickerTypeOK
  <2>4. \A x \in Endpoint \ {endpoint[c]} : Sent(x)' = Sent(x)
    BY <2>1 DEF Sent, PickerTypeOK
  <2>5. Cardinality(Sent(endpoint[c])') = Cardinality(Sent(endpoint[c])) + 1
    BY ZenonT(30), <2>3, CountByOne DEF Sent
  <2> QED BY ZenonT(30), <2>1, <2>2, <2>4, <2>5 DEF PressureCounts, PickerTypeOK
<1>6. ASSUME NEW c \in Picking, finish(c) PROVE PickerTypeOK' /\ NotSentYet' /\ PressureCounts'
  <2>1. CASE stage[c] = "sent"
    <3>1. /\ pc[c] = "held" /\ stage[c] = "sent" /\ endpoint[c] \in Endpoint
          /\ stage' = [stage EXCEPT ![c] = "done"]
          /\ pressure' = [pressure EXCEPT ![endpoint[c]] = Decremented(@)]
          /\ pc' = pc /\ endpoint' = endpoint /\ pooled' = pooled /\ picker' = picker
      BY <1>6, <2>1 DEF finish, At, vars, TypeOK
    <3>2. PickerTypeOK' /\ NotSentYet'
      BY <3>1 DEF PickerTypeOK, NotSentYet, Decremented
    <3>3. Sent(endpoint[c])' = Sent(endpoint[c]) \ {c} /\ c \in Sent(endpoint[c])
      BY <3>1 DEF Sent, PickerTypeOK
    <3>4. \A x \in Endpoint \ {endpoint[c]} : Sent(x)' = Sent(x)
      BY <3>1 DEF Sent, PickerTypeOK
    <3>5. Sent(endpoint[c]) \in SUBSET Call
      BY DEF Sent
    <3>6. /\ Cardinality(Sent(endpoint[c])') = Cardinality(Sent(endpoint[c])) - 1
          /\ Cardinality(Sent(endpoint[c])) \in Nat /\ Cardinality(Sent(endpoint[c])) # 0
      BY <3>3, <3>5, CountByOne, FS_EmptySet
    <3>7. Decremented(pressure[endpoint[c]]) = pressure[endpoint[c]] - 1
      BY <3>1, <3>6 DEF PressureCounts, Decremented
    <3> QED BY ZenonT(30), <3>1, <3>2, <3>4, <3>6, <3>7 DEF PressureCounts, PickerTypeOK
  <2>2. CASE stage[c] # "sent"
    <3>1. pc[c] = "held" /\ Release(c) /\ UNCHANGED pickVars
      BY <1>6, <2>2 DEF finish, pickVars
    <3>2. PickerTypeOK' /\ NotSentYet'
      BY <3>1 DEF Release, Goto, pickVars, PickerTypeOK, NotSentYet, TypeOK
    <3>3. pc'[c] = "release" /\ \A d \in Call \ {c} : pc'[d] = pc[d] /\ endpoint'[d] = endpoint[d] /\ stage'[d] = stage[d]
      BY <3>1 DEF Release, Goto, pickVars, TypeOK
    <3>4. \A x \in Endpoint : Sent(x)' = Sent(x)
      BY ZenonT(30), <2>2, <3>3, BreakerKeepsSent
    <3> QED BY <3>1, <3>2, <3>4, SentStay DEF pickVars
  <2> QED BY <2>1, <2>2
<1> QED BY <1>1, <1>2, <1>3, <1>4, <1>5, <1>6 DEF PickerNext

\* What is proved of the balancer's state is preserved by every step.
LEMMA PInvStep == PInv /\ [PickerStep]_pickerVars => PInv'
<1> SUFFICES ASSUME PInv, [PickerStep]_pickerVars PROVE PInv'
  OBVIOUS
<1>1. IInv'
  BY StepsAreBreakerSteps, IInvStep DEF PInv
<1>2. CASE pooled /\ PickerNext
  BY <1>1, <1>2, PickerKeepsPressure DEF PInv
<1>3. CASE (~pooled /\ BreakerNext) \/ UNCHANGED pickerVars
  <2>1. UNCHANGED pickVars
    BY <1>3 DEF BreakerNext, pickerVars
  <2>2. PickerTypeOK'
    BY <2>1 DEF pickVars, PInv, PickerTypeOK
  <2>3. CASE ~pooled
    <3>1. NotSentYet' /\ \A e \in Endpoint : Sent(e)' = Sent(e)
      BY <2>1, <2>3 DEF pickVars, PInv, NotSentYet, Sent
    <3> QED BY <1>1, <2>1, <2>2, <3>1, SentStay DEF PInv, pickVars
  <2>4. CASE UNCHANGED pickerVars
    <3>1. NotSentYet' /\ \A e \in Endpoint : Sent(e)' = Sent(e)
      BY <2>4 DEF pickerVars, pickVars, vars, PInv, NotSentYet, Sent
    <3> QED BY <1>1, <2>1, <2>2, <3>1, SentStay DEF PInv, pickVars
  <2> QED BY <1>3, <2>3, <2>4
<1> QED BY <1>2, <1>3 DEF PickerStep

\* The invariant of the balancer holds throughout.
LEMMA PickerInductive == PickerSpec => []PInv
<1>1. PickerInit => PInv
  <2> SUFFICES ASSUME PickerInit PROVE PInv
    OBVIOUS
  <2>1. IInv
    BY InitiallyIInv DEF PickerInit
  <2>2. PickerTypeOK /\ NotSentYet
    BY DEF PickerInit, PickerTypeOK, NotSentYet
  <2>3. \A e \in Endpoint : Sent(e) = {}
    BY DEF PickerInit, Init, Sent
  <2>4. PressureCounts
    BY <2>3, FS_EmptySet DEF PickerInit, PressureCounts
  <2> QED BY <2>1, <2>2, <2>4 DEF PInv
<1> QED BY <1>1, PInvStep, PTL DEF PickerSpec

\* The balancer, its pool and its pickers use limiters only as CircuitBreaker
\* describes: what is proved of the breaker holds of picked calls.
THEOREM PicksAreBreakerCalls == PickerSpec => Spec
<1>1. PickerInit => Init
  BY DEF PickerInit
<1>2. PInv /\ [PickerStep]_pickerVars => [Next]_vars
  BY StepsAreBreakerSteps DEF PInv
<1> QED BY <1>1, <1>2, PickerInductive, PTL DEF PickerSpec, Spec

\* The pressure is the number of unfinished calls sent, each of which holds a
\* slot, whatever pickers are built meanwhile.
THEOREM PressureExact == PickerSpec => []PressureHeld
<1>1. PInv => PressureHeld
  <2> SUFFICES ASSUME PInv, NEW e \in Endpoint
               PROVE  /\ pressure[e] = Cardinality(Sent(e))
                      /\ limiters[e] = NoLimiter => pressure[e] = 0
                      /\ limiters[e] # NoLimiter => pressure[e] <= inflight[e][limiters[e]]
    BY DEF PressureHeld
  <2>1. pressure[e] = Cardinality(Sent(e))
    BY DEF PInv, PressureCounts
  <2>2. ASSUME limiters[e] = NoLimiter PROVE pressure[e] = 0
    <3>1. Sent(e) = {}
      BY <2>2, NoLimiterAssumption DEF PInv, IInv, OwnLimiter, Sent
    <3> QED BY <2>1, <3>1, FS_EmptySet
  <2>3. ASSUME limiters[e] # NoLimiter PROVE pressure[e] <= inflight[e][limiters[e]]
    <3>1. Sent(e) \subseteq Counting(e)
      BY DEF Sent, Counting, Counted
    <3>2. Counting(e) \in SUBSET Call
      BY DEF Counting
    <3>3. IsFiniteSet(Counting(e))
      BY <3>2, CallAssumption, FS_Subset
    <3>4. Cardinality(Sent(e)) <= Cardinality(Counting(e))
      BY <3>1, <3>3, FS_Subset
    <3> QED BY <2>1, <2>3, <3>4 DEF PInv, IInv, CountsHolders
  <2> QED BY <2>1, <2>2, <2>3
<1> QED BY <1>1, PickerInductive, PTL

----------------------------------------------------------------------------
(* RetryBudget.                                                             *)

\* Time moves forward.
TimesOrdered == windowStart <= clock /\ \A c \in Caller : now[c] <= clock

\* CountedInCurrentWindow, from the moment the write lock is released.
Fresh == \A c \in Caller : at[c] \in Reading \cup {"relock"} => now[c] - windowStart < Window

\* An allowance that was read still stands: first attempts are only added while
\* its reader keeps the window open.
AllowanceStands == \A c \in Caller : at[c] = "add" => allowance[c] <= allowedRetriesFor(original)

BInv == BudgetTypeOK /\ TimesOrdered /\ Fresh /\ AllowanceStands /\ RetriesAccounted /\ GrantedWithinBudget

\* More first attempts never allow fewer retries.
LEMMA AllowanceGrows ==
  ASSUME NEW n \in Nat
  PROVE  /\ allowedRetriesFor(n) \in Nat
         /\ allowedRetriesFor(n) <= allowedRetriesFor(n + 1)
<1>1. n * BudgetRatio \in Nat /\ (n + 1) * BudgetRatio = n * BudgetRatio + BudgetRatio
  BY ConfigAssumption
<1> DEFINE p == n * BudgetRatio
<1>2. p \in Nat /\ (n + 1) * BudgetRatio = p + BudgetRatio
  BY <1>1
<1> HIDE DEF p
<1>3. p \div 1000 \in Nat /\ p \div 1000 <= (p + BudgetRatio) \div 1000 /\ (p + BudgetRatio) \div 1000 \in Nat
  BY <1>2, ConfigAssumption
<1>4. allowedRetriesFor(n) = IF p \div 1000 < MinBudget THEN MinBudget ELSE p \div 1000
  BY DEF allowedRetriesFor, p
<1>5. allowedRetriesFor(n + 1) = IF (p + BudgetRatio) \div 1000 < MinBudget THEN MinBudget ELSE (p + BudgetRatio) \div 1000
  BY <1>2 DEF allowedRetriesFor
<1> QED BY <1>3, <1>4, <1>5, ConfigAssumption

\* The cardinality of the callers rolling back follows one caller's coming and going.
LEMMA CallersByOne ==
  ASSUME NEW S \in SUBSET Caller, NEW c \in Caller
  PROVE  /\ IsFiniteSet(S) /\ Cardinality(S) \in Nat
         /\ c \notin S => Cardinality(S \cup {c}) = Cardinality(S) + 1
         /\ c \in S => Cardinality(S \ {c}) = Cardinality(S) - 1 /\ Cardinality(S) > 0
<1>1. IsFiniteSet(S)
  BY CallerAssumption, FS_Subset
<1>2. c \in S => Cardinality(S) # 0
  BY <1>1, FS_EmptySet
<1> QED BY <1>1, <1>2, FS_CardinalityType, FS_AddElement, FS_RemoveElement

\* The type invariant is inductive, given that a rollback finds what it added.
LEMMA BudgetTypeStep == BudgetTypeOK /\ RetriesAccounted /\ [BudgetNext]_budgetVars => BudgetTypeOK'
<1> SUFFICES ASSUME BudgetTypeOK, RetriesAccounted, [BudgetNext]_budgetVars PROVE BudgetTypeOK'
  OBVIOUS
<1> USE DEF BudgetTypeOK, counters, Reading, Op, GoTo, Return
<1>1. CASE Advance
  BY <1>1 DEF Advance
<1>2. ASSUME NEW c \in Caller, NEW o \in Op, Enter(c, o) PROVE BudgetTypeOK'
  BY <1>2 DEF Enter
<1>3. ASSUME NEW c \in Caller, RLock(c) PROVE BudgetTypeOK'
  BY <1>3 DEF RLock
<1>4. ASSUME NEW c \in Caller, Lock(c) PROVE BudgetTypeOK'
  BY <1>4 DEF Lock, StartWindow
<1>5. ASSUME NEW c \in Caller, RelockShared(c) PROVE BudgetTypeOK'
  BY <1>5 DEF RelockShared
<1>6. ASSUME NEW c \in Caller, RecordOriginal(c) PROVE BudgetTypeOK'
  BY <1>6 DEF RecordOriginal
<1>7. ASSUME NEW c \in Caller, RecordRetry(c) PROVE BudgetTypeOK'
  BY <1>7 DEF RecordRetry
<1>8. ASSUME NEW c \in Caller, AllowRetry(c) PROVE BudgetTypeOK'
  BY <1>8 DEF AllowRetry
<1>9. ASSUME NEW c \in Caller, ReadAllowed(c) PROVE BudgetTypeOK'
  BY <1>9, AllowanceGrows DEF ReadAllowed
<1>10. ASSUME NEW c \in Caller, AddRetry(c) PROVE BudgetTypeOK'
  BY <1>10 DEF AddRetry
<1>11. ASSUME NEW c \in Caller, Rollback(c) PROVE BudgetTypeOK'
  <2>1. c \in RollingBack /\ RollingBack \in SUBSET Caller
    BY <1>11 DEF Rollback, RollingBack
  <2>2. Cardinality(RollingBack) \in Nat /\ Cardinality(RollingBack) > 0
    BY ZenonT(30), <2>1, CallersByOne
  <2>3. retries - 1 \in Nat
    BY <2>2 DEF RetriesAccounted
  <2> QED BY <1>11, <2>3 DEF Rollback, Returned
<1>12. CASE UNCHANGED budgetVars
  BY <1>12 DEF budgetVars
<1> QED BY ZenonT(30), <1>1, <1>2, <1>3, <1>4, <1>5, <1>6, <1>7, <1>8, <1>9, <1>10, <1>11, <1>12 DEF BudgetNext

\* Nobody is left in a window that was over when the call began.
LEMMA WindowStep ==
  BudgetTypeOK /\ BudgetTypeOK' /\ TimesOrdered /\ Fresh /\ [BudgetNext]_budgetVars => TimesOrdered' /\ Fresh'
<1> SUFFICES ASSUME BudgetTypeOK, BudgetTypeOK', TimesOrdered, Fresh, [BudgetNext]_budgetVars PROVE TimesOrdered' /\ Fresh'
  OBVIOUS
<1> USE ConfigAssumption DEF BudgetTypeOK, TimesOrdered, Fresh, counters, Reading, GoTo, Return
<1>1. CASE Advance
  BY <1>1 DEF Advance
<1>2. ASSUME NEW c \in Caller, NEW o \in Op, Enter(c, o) PROVE TimesOrdered' /\ Fresh'
  BY <1>2 DEF Enter
<1>3. ASSUME NEW c \in Caller, RLock(c) PROVE TimesOrdered' /\ Fresh'
  BY <1>3 DEF RLock, Expired
<1>4. ASSUME NEW c \in Caller, Lock(c) PROVE TimesOrdered' /\ Fresh'
  BY <1>4 DEF Lock, StartWindow, Rollover, Expired
<1>5. ASSUME NEW c \in Caller, RelockShared(c) PROVE TimesOrdered' /\ Fresh'
  BY <1>5 DEF RelockShared
<1>6. ASSUME NEW c \in Caller, RecordOriginal(c) PROVE TimesOrdered' /\ Fresh'
  BY <1>6 DEF RecordOriginal
<1>7. ASSUME NEW c \in Caller, RecordRetry(c) PROVE TimesOrdered' /\ Fresh'
  BY <1>7 DEF RecordRetry
<1>8. ASSUME NEW c \in Caller, AllowRetry(c) PROVE TimesOrdered' /\ Fresh'
  BY <1>8 DEF AllowRetry
<1>9. ASSUME NEW c \in Caller, ReadAllowed(c) PROVE TimesOrdered' /\ Fresh'
  BY <1>9 DEF ReadAllowed
<1>10. ASSUME NEW c \in Caller, AddRetry(c) PROVE TimesOrdered' /\ Fresh'
  BY <1>10 DEF AddRetry
<1>11. ASSUME NEW c \in Caller, Rollback(c) PROVE TimesOrdered' /\ Fresh'
  BY <1>11 DEF Rollback
<1>12. CASE UNCHANGED budgetVars
  BY <1>12 DEF budgetVars
<1> QED BY ZenonT(30), <1>1, <1>2, <1>3, <1>4, <1>5, <1>6, <1>7, <1>8, <1>9, <1>10, <1>11, <1>12 DEF BudgetNext

\* Steps of one caller that neither start nor finish a rollback.
LEMMA RollingBackStays ==
  ASSUME BudgetTypeOK, NEW c \in Caller, NEW label, GoTo(c, label), at[c] # "rollback", label # "rollback"
  PROVE  RollingBack' = RollingBack
BY DEF BudgetTypeOK, GoTo, RollingBack

\* The counter follows the retries let through and the callers rolling back.
LEMMA AccountStep == BudgetTypeOK /\ RetriesAccounted /\ [BudgetNext]_budgetVars => RetriesAccounted'
<1> SUFFICES ASSUME BudgetTypeOK, RetriesAccounted, [BudgetNext]_budgetVars PROVE RetriesAccounted'
  OBVIOUS
<1> USE DEF RetriesAccounted, counters, Return
<1>0. Cardinality(RollingBack) \in Nat /\ RollingBack \in SUBSET Caller /\ IsFiniteSet(RollingBack)
  BY CallerAssumption, FS_Subset, FS_CardinalityType DEF RollingBack
<1>1. CASE Advance
  BY <1>1 DEF Advance, RollingBack
<1>2. ASSUME NEW c \in Caller, NEW o \in Op, Enter(c, o) PROVE RetriesAccounted'
  <2>1. RollingBack' = RollingBack
    BY <1>2, RollingBackStays DEF Enter
  <2> QED BY <1>2, <2>1 DEF Enter
<1>3. ASSUME NEW c \in Caller, RLock(c) PROVE RetriesAccounted'
  <2>1. RollingBack' = RollingBack
    BY <1>3, RollingBackStays DEF RLock
  <2> QED BY <1>3, <2>1 DEF RLock
<1>4. ASSUME NEW c \in Caller, Lock(c) PROVE RetriesAccounted'
  <2>1. RollingBack' = RollingBack
    BY <1>4, RollingBackStays DEF Lock
  <2>2. RollingBack = {}
    BY <1>4 DEF Lock, RollingBack, Reading
  <2>3. Cardinality(RollingBack') = 0
    BY <2>1, <2>2, FS_EmptySet
  <2>4. CASE StartWindow
    BY <2>3, <2>4 DEF StartWindow
  <2>5. CASE UNCHANGED <<windowStart, counters>>
    BY <2>1, <2>5
  <2> QED BY <1>4, <2>4, <2>5 DEF Lock
<1>5. ASSUME NEW c \in Caller, RelockShared(c) PROVE RetriesAccounted'
  <2>1. RollingBack' = RollingBack
    BY <1>5, RollingBackStays DEF RelockShared
  <2> QED BY <1>5, <2>1 DEF RelockShared
<1>6. ASSUME NEW c \in Caller, RecordOriginal(c) PROVE RetriesAccounted'
  <2>1. RollingBack' = RollingBack
    BY <1>6, RollingBackStays DEF RecordOriginal
  <2> QED BY <1>6, <2>1 DEF RecordOriginal
<1>7. ASSUME NEW c \in Caller, RecordRetry(c) PROVE RetriesAccounted'
  <2>1. RollingBack' = RollingBack
    BY <1>7, RollingBackStays DEF RecordRetry
  <2> QED BY <1>0, <1>7, <2>1 DEF RecordRetry, BudgetTypeOK
<1>8. ASSUME NEW c \in Caller, AllowRetry(c) PROVE RetriesAccounted'
  <2>1. RollingBack' = RollingBack
    BY <1>8, RollingBackStays DEF AllowRetry
  <2> QED BY <1>8, <2>1 DEF AllowRetry
<1>9. ASSUME NEW c \in Caller, ReadAllowed(c) PROVE RetriesAccounted'
  <2>1. RollingBack' = RollingBack
    BY <1>9, RollingBackStays DEF ReadAllowed
  <2> QED BY <1>9, <2>1 DEF ReadAllowed
<1>10. ASSUME NEW c \in Caller, AddRetry(c) PROVE RetriesAccounted'
  <2>1. CASE Fits(c) /\ granted' = granted + 1 /\ Return(c)
    <3>1. RollingBack' = RollingBack
      BY <1>10, <2>1, RollingBackStays DEF AddRetry
    <3> QED BY <1>0, <1>10, <2>1, <3>1 DEF AddRetry, BudgetTypeOK
  <2>2. CASE GoTo(c, "rollback") /\ UNCHANGED granted
    <3>1. c \notin RollingBack /\ RollingBack' = RollingBack \cup {c}
      BY <1>10, <2>2 DEF AddRetry, BudgetTypeOK, GoTo, RollingBack
    <3>2. Cardinality(RollingBack') = Cardinality(RollingBack) + 1
      BY <1>0, <3>1, CallersByOne
    <3> QED BY <1>0, <1>10, <2>2, <3>2 DEF AddRetry, BudgetTypeOK
  <2> QED BY <1>10, <2>1, <2>2 DEF AddRetry
<1>11. ASSUME NEW c \in Caller, Rollback(c) PROVE RetriesAccounted'
  <2>1. c \in RollingBack /\ RollingBack' = RollingBack \ {c}
    BY <1>11 DEF Rollback, BudgetTypeOK, GoTo, RollingBack
  <2>2. Cardinality(RollingBack') = Cardinality(RollingBack) - 1
    BY <1>0, <2>1, CallersByOne
  <2> QED BY <1>0, <1>11, <2>2 DEF Rollback, Returned, BudgetTypeOK
<1>12. CASE UNCHANGED budgetVars
  BY <1>12 DEF budgetVars, RollingBack
<1> QED BY <1>1, <1>2, <1>3, <1>4, <1>5, <1>6, <1>7, <1>8, <1>9, <1>10, <1>11, <1>12 DEF BudgetNext

\* An allowance stands and bounds the retries let through until the window ends.
LEMMA BudgetStep ==
  BudgetTypeOK /\ RetriesAccounted /\ AllowanceStands /\ GrantedWithinBudget /\ [BudgetNext]_budgetVars
    => AllowanceStands' /\ GrantedWithinBudget'
<1> DEFINE Goal == AllowanceStands' /\ GrantedWithinBudget'
<1> SUFFICES ASSUME BudgetTypeOK, RetriesAccounted, AllowanceStands, GrantedWithinBudget, [BudgetNext]_budgetVars
             PROVE  Goal
  OBVIOUS
<1> DEFINE b == allowedRetriesFor(original)
<1>0. b \in Nat
  BY AllowanceGrows DEF BudgetTypeOK
<1>s. ASSUME UNCHANGED <<original, granted>>,
             \A c \in Caller : at'[c] = "add" => (at[c] = "add" /\ allowance'[c] = allowance[c]) \/ allowance'[c] = b
      PROVE  Goal
  <2>1. original' = original /\ granted' <= b
    BY <1>s DEF GrantedWithinBudget
  <2>2. \A c \in Caller : at'[c] = "add" => allowance'[c] <= b
    <3> HIDE DEF b
    <3>1. b <= b
      BY <1>0
    <3>2. \A c \in Caller : at[c] = "add" => allowance[c] <= b
      BY DEF AllowanceStands, b
    <3> QED BY Zenon, <1>s, <3>1, <3>2
  <2> QED BY <2>1, <2>2 DEF AllowanceStands, GrantedWithinBudget
<1> USE DEF BudgetTypeOK, counters, GoTo, Return
<1>1. CASE Advance
  BY <1>1, <1>s DEF Advance
<1>2. ASSUME NEW c \in Caller, NEW o \in Op, Enter(c, o) PROVE Goal
  BY <1>2, <1>s DEF Enter
<1>3. ASSUME NEW c \in Caller, RLock(c) PROVE Goal
  BY <1>3, <1>s DEF RLock
<1>4. ASSUME NEW c \in Caller, Lock(c) PROVE Goal
  <2>1. CASE StartWindow
    <3>1. allowedRetriesFor(0) \in Nat
      BY AllowanceGrows
    <3>2. granted' = 0 /\ original' = 0 /\ \A d \in Caller : at'[d] # "add"
      BY <1>4, <2>1 DEF Lock, StartWindow, Reading
    <3>3. granted' <= allowedRetriesFor(0)
      BY <3>1, <3>2
    <3> QED BY Zenon, <3>2, <3>3 DEF AllowanceStands, GrantedWithinBudget
  <2>2. CASE UNCHANGED <<windowStart, counters>>
    BY <1>4, <2>2, <1>s DEF Lock
  <2> QED BY <1>4, <2>1, <2>2 DEF Lock
<1>5. ASSUME NEW c \in Caller, RelockShared(c) PROVE Goal
  BY <1>5, <1>s DEF RelockShared
<1>6. ASSUME NEW c \in Caller, RecordOriginal(c) PROVE Goal
  <2>1. original' = original + 1 /\ granted' = granted
    BY <1>6 DEF RecordOriginal
  <2>2. b <= allowedRetriesFor(original + 1) /\ allowedRetriesFor(original + 1) \in Nat
    BY AllowanceGrows
  <2>3. \A d \in Caller : at'[d] = "add" => at[d] = "add" /\ allowance'[d] = allowance[d]
    BY <1>6 DEF RecordOriginal
  <2>4. ASSUME NEW d \in Caller, at'[d] = "add" PROVE allowance'[d] <= allowedRetriesFor(original + 1)
    <3>1. allowance'[d] \in Nat /\ allowance'[d] <= b
      BY <2>3, <2>4 DEF AllowanceStands
    <3> QED BY <1>0, <2>2, <3>1
  <2>5. granted <= allowedRetriesFor(original + 1)
    BY <1>0, <2>2 DEF GrantedWithinBudget
  <2> QED BY <2>1, <2>4, <2>5 DEF AllowanceStands, GrantedWithinBudget
<1>7. ASSUME NEW c \in Caller, RecordRetry(c) PROVE Goal
  BY <1>7, <1>s DEF RecordRetry
<1>8. ASSUME NEW c \in Caller, AllowRetry(c) PROVE Goal
  BY <1>8, <1>s DEF AllowRetry
<1>9. ASSUME NEW c \in Caller, ReadAllowed(c) PROVE Goal
  BY <1>9, <1>s DEF ReadAllowed
<1>10. ASSUME NEW c \in Caller, AddRetry(c) PROVE Goal
  <2>1. CASE Fits(c) /\ granted' = granted + 1 /\ Return(c)
    <3>1. granted <= retries
      <4>1. Cardinality(RollingBack) \in Nat
        BY CallerAssumption, FS_Subset, FS_CardinalityType DEF RollingBack
      <4> QED BY <4>1 DEF RetriesAccounted
    <3>2. retries + 1 <= allowance[c] /\ allowance[c] <= b /\ allowance[c] \in Nat
      BY <1>10, <2>1 DEF AddRetry, Fits, AllowanceStands
    <3>3. granted' <= b
      BY <1>0, <2>1, <3>1, <3>2
    <3>4. \A d \in Caller : at'[d] = "add" => at[d] = "add" /\ allowance'[d] = allowance[d]
      BY <2>1
    <3>5. original' = original
      BY <1>10 DEF AddRetry
    <3> QED BY ZenonT(30), <3>3, <3>4, <3>5 DEF AllowanceStands, GrantedWithinBudget
  <2>2. CASE GoTo(c, "rollback") /\ UNCHANGED <<granted, op, now, allowance>>
    BY <1>10, <2>2, <1>s DEF AddRetry
  <2> QED BY <1>10, <2>1, <2>2 DEF AddRetry
<1>11. ASSUME NEW c \in Caller, Rollback(c) PROVE Goal
  BY <1>11, <1>s DEF Rollback
<1>12. CASE UNCHANGED budgetVars
  BY <1>12, <1>s DEF budgetVars
<1> QED BY ZenonT(30), <1>1, <1>2, <1>3, <1>4, <1>5, <1>6, <1>7, <1>8, <1>9, <1>10, <1>11, <1>12 DEF BudgetNext

LEMMA BudgetInductive == BudgetSpec => []BInv
<1>1. BudgetInit => BInv
  <2> SUFFICES ASSUME BudgetInit PROVE BInv
    OBVIOUS
  <2>1. BudgetTypeOK /\ TimesOrdered /\ Fresh /\ AllowanceStands
    BY DEF BudgetInit, BudgetTypeOK, TimesOrdered, Fresh, AllowanceStands, Reading, Op
  <2>2. RollingBack = {}
    BY DEF BudgetInit, RollingBack
  <2>3. RetriesAccounted
    BY <2>2, FS_EmptySet DEF BudgetInit, RetriesAccounted
  <2>4. GrantedWithinBudget
    BY AllowanceGrows DEF BudgetInit, GrantedWithinBudget
  <2> QED BY <2>1, <2>3, <2>4 DEF BInv
<1>2. BInv /\ [BudgetNext]_budgetVars => BInv'
  BY BudgetTypeStep, WindowStep, AccountStep, BudgetStep DEF BInv
<1> QED BY <1>1, <1>2, PTL DEF BudgetSpec

\* BudgetTypeOK, for any callers, ratio, floor and window.
THEOREM BudgetTypeCorrect == BudgetSpec => []BudgetTypeOK
<1>1. BInv => BudgetTypeOK
  BY DEF BInv
<1> QED BY <1>1, BudgetInductive, PTL

\* The budget is never exceeded: TryAcquireRetry lets at most the larger of
\* MinBudget and the ratio of the window's first attempts through.
THEOREM BudgetHolds == BudgetSpec => []GrantedWithinBudget
<1>1. BInv => GrantedWithinBudget
  BY DEF BInv
<1> QED BY <1>1, BudgetInductive, PTL

\* TryAcquireRetry's optimistic increments leave nothing behind in the counter.
THEOREM RollbacksBalance == BudgetSpec => []RetriesAccounted
<1>1. BInv => RetriesAccounted
  BY DEF BInv
<1> QED BY <1>1, BudgetInductive, PTL

\* lockCurrentWindow leaves no caller in a window that was over when it called.
THEOREM WindowCurrent == BudgetSpec => []CountedInCurrentWindow
<1>1. BInv => CountedInCurrentWindow
  BY DEF BInv, Fresh, CountedInCurrentWindow
<1> QED BY <1>1, BudgetInductive, PTL

\* The second time check of lockCurrentWindow: windows last at least Window.
THEOREM WindowsNeverShort == BudgetSpec => WindowsLast
<1>1. [BudgetNext]_budgetVars => [windowStart' # windowStart => windowStart' - windowStart >= Window]_budgetVars
  BY ZenonT(30) DEF BudgetNext, budgetVars, counters, Advance, Enter, RLock, Lock, StartWindow, Rollover, Expired,
         RelockShared, RecordOriginal, RecordRetry, AllowRetry, ReadAllowed, AddRetry, Rollback
<1> QED BY <1>1, PTL DEF BudgetSpec, WindowsLast
=============================================================================
