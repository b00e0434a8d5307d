------------------------- MODULE LeakyBucketProofs -------------------------
(***************************************************************************)
(* Proofs about LeakyBucket, for every rate, size and resolution of the    *)
(* timer: its types, the bound on what it grants, and that it is a         *)
(* TokenPool.                                                              *)
(***************************************************************************)
EXTENDS LeakyBucket, TLAPS

\* Whole division, as the provers need it.
LEMMA Division ==
  ASSUME NEW a \in Nat, NEW s \in Nat \ {0}
  PROVE  /\ a \div s \in Nat
         /\ s * (a \div s) <= a
         /\ a < s * (a \div s) + s
  OBVIOUS

\* What flows in between two moments, counted from an earlier one.
LEMMA Passing ==
  ASSUME NEW r \in Nat, NEW n \in Nat, NEW m \in Nat, n < m, NEW l \in Nat, l <= n
  PROVE  /\ r * (m - n) \in Nat
         /\ r * (m - l) = r * (n - l) + r * (m - n)
         /\ (m - l) * r = (n - l) * r + r * (m - n)
         /\ n - l \in Nat /\ m - l \in Nat /\ n - l <= m - l
  OBVIOUS

LEMMA CapGrows ==
  ASSUME NEW t \in Nat, NEW i \in Nat, NEW j \in Nat, i <= j, NEW size \in Nat
  PROVE  (IF t + i > size THEN size ELSE t + i) <= (IF t + j > size THEN size ELSE t + j)
  OBVIOUS

LEMMA Product == \A a, b \in Nat : a * b \in Nat
  OBVIOUS

LEMMA DivisionGrows ==
  ASSUME NEW a \in Nat, NEW b \in Nat, a <= b, NEW r \in Nat, NEW s \in Nat \ {0}
  PROVE  (a * r) \div s <= (b * r) \div s
<1>1. a * r \in Nat /\ b * r \in Nat /\ a * r <= b * r
  OBVIOUS
<1> QED
  BY <1>1

LEMMA IncrementTyped ==
  ASSUME TypeOK
  PROVE  /\ TimeSinceLastRefill = now - lastRefillTime
         /\ now - lastRefillTime \in Nat
         /\ Increment \in Nat
         /\ Second * Increment <= (now - lastRefillTime) * Rate
         /\ (now - lastRefillTime) * Rate < Second * Increment + Second
<1>1. /\ TimeSinceLastRefill = now - lastRefillTime
      /\ now - lastRefillTime \in Nat
  BY HorizonAssumption DEF TypeOK, TimeSinceLastRefill
<1>2. (now - lastRefillTime) * Rate \in Nat
  BY <1>1, RateAssumption, Product
<1> QED
  BY <1>1, <1>2, Division, SecondAssumption DEF Increment

LEMMA AvailableTyped == TypeOK => Available \in 0..Size
  BY IncrementTyped, SizeAssumption DEF TypeOK, Available

-----------------------------------------------------------------------------
LEMMA TypeInit == Init => TypeOK
  BY SizeAssumption, HorizonAssumption DEF Init, TypeOK, Never

LEMMA TypeStep == TypeOK /\ [Next]_vars => TypeOK'
<1> SUFFICES ASSUME TypeOK, [Next]_vars PROVE TypeOK'
  OBVIOUS
<1>1. CASE Granted
  <2>1. tokens' \in 0..Size
    BY <1>1, AvailableTyped, SizeAssumption DEF Granted, Left
  <2> QED
    BY <1>1, <2>1, HorizonAssumption DEF Granted, Left, RefillTime, TypeOK
<1>2. CASE Refused
  BY <1>2, SizeAssumption, HorizonAssumption DEF Refused, RefillTime, TypeOK
<1>3. CASE Tick
  BY <1>3, HorizonAssumption DEF Tick, TypeOK
<1>4. CASE Observe
  BY <1>4, HorizonAssumption DEF Observe, TypeOK
<1>5. CASE UNCHANGED vars
  BY <1>5 DEF vars, TypeOK
<1> QED
  BY <1>1, <1>2, <1>3, <1>4, <1>5 DEF Next

\* The type invariant, with the bucket's size, holds in every reachable state.
THEOREM BucketTypesHold == Spec => []TypeOK
<1> QED
  BY TypeInit, TypeStep, PTL DEF Spec

-----------------------------------------------------------------------------
(* What is granted in a stretch of time is paid from a credit, counted in    *)
(* Second-ths of a token: the tokens in the bucket and all that has flowed   *)
(* since the last filling, but no more than a full bucket and a fraction.    *)

Flow == (now - lastRefillTime) * Rate
Cap  == Second * Size + Second - 1

Credit == IF Second * tokens + Flow > Cap THEN Cap ELSE Second * tokens + Flow

WindowInv ==
  /\ TypeOK
  /\ Second * granted + Credit <= Cap + Rate * (now - since)

LEMMA CreditTyped ==
  ASSUME TypeOK
  PROVE  /\ Flow \in Nat /\ Second * tokens \in Nat /\ Second * Size \in Nat
         /\ Cap \in Nat /\ Credit \in 0..Cap /\ Second * granted \in Nat
         /\ Rate * (now - since) \in Nat
<1>1. /\ now - lastRefillTime \in Nat /\ now - since \in Nat
      /\ tokens \in Nat /\ granted \in Nat
  BY SizeAssumption, HorizonAssumption DEF TypeOK
<1>2. /\ Flow \in Nat /\ Second * tokens \in Nat /\ Second * Size \in Nat
      /\ Second * granted \in Nat /\ Rate * (now - since) \in Nat
  BY <1>1, Product, RateAssumption, SizeAssumption, SecondAssumption DEF Flow
<1>3. Cap \in Nat
  BY <1>2, SecondAssumption DEF Cap
<1> QED
  BY <1>2, <1>3 DEF Credit

\* A token costs Second of the credit, a refusal nothing.
LEMMA GrantPays ==
  ASSUME TypeOK, Granted
  PROVE  Credit' <= Credit - Second
<1>1. /\ Available \in 1..Size /\ tokens' = Available - 1 /\ now' = now
      /\ lastRefillTime' = IF Increment > 0 THEN now ELSE lastRefillTime
  BY AvailableTyped, SizeAssumption DEF Granted, Left, RefillTime
<1>2. /\ Increment \in Nat
      /\ Second * Increment <= Flow
      /\ Flow < Second * Increment + Second
  BY IncrementTyped DEF Flow
<1>3. /\ now \in Nat /\ now - now = 0 /\ 0 * Rate = 0
      /\ tokens \in 0..Size /\ Size \in Nat /\ Second \in Nat \ {0}
  BY SizeAssumption, HorizonAssumption, SecondAssumption, RateAssumption DEF TypeOK
<1>4. Second * tokens' = Second * Available - Second
  BY <1>1, <1>3
<1>5. CASE Increment > 0
  <2>1. Flow' = 0
    BY <1>1, <1>3, <1>5 DEF Flow
  <2>2. Second * Available <= Second * Size
    BY <1>1, <1>3
  <2>3. Second * Available <= Second * tokens + Second * Increment
    <3>1. Available <= tokens + Increment
      BY <1>1, <1>2, <1>3 DEF Available
    <3>2. Second * Available <= Second * (tokens + Increment)
      BY <1>1, <1>2, <1>3, <3>1
    <3> QED
      BY <1>2, <1>3, <3>2
  <2>4. Second * tokens' + Flow' = Second * Available - Second
    BY <1>1, <1>3, <1>4, <2>1
  <2> QED
    BY <1>1, <1>2, <1>3, <2>2, <2>3, <2>4, CreditTyped DEF Credit, Cap
<1>6. CASE Increment = 0
  <2>1. Available = tokens
    BY <1>3, <1>6 DEF Available
  <2>2. Flow' = Flow /\ Flow < Second
    <3>1. Second * Increment = 0
      BY <1>3, <1>6
    <3> QED
      BY <1>1, <1>2, <1>3, <1>6, <3>1 DEF Flow
  <2>3. Second * tokens <= Second * Size
    BY <1>3
  <2>4. Credit = Second * tokens + Flow
    BY <1>3, <2>2, <2>3, CreditTyped DEF Credit, Cap
  <2>5. Second * tokens' + Flow' = Credit - Second
    BY <1>3, <1>4, <2>1, <2>2, <2>4, CreditTyped
  <2>6. Credit' = Credit - Second
    BY <1>3, <2>5, CreditTyped DEF Credit, Cap
  <2> QED
    BY <2>6, <1>3, CreditTyped
<1> QED
  BY <1>2, <1>5, <1>6

\* The same in the state after a step.
LEMMA TypedNext ==
  (TypeOK => Credit \in Nat /\ Increment \in Nat /\ Available \in 0..Size)'
<1>1. TypeOK => Credit \in Nat /\ Increment \in Nat /\ Available \in 0..Size
  BY CreditTyped, IncrementTyped, AvailableTyped
<1> QED
  BY <1>1, PTL

LEMMA RefusalKeeps ==
  ASSUME TypeOK, Refused
  PROVE  Credit' <= Credit
<1>1. /\ Available = 0 /\ tokens' = 0 /\ now' = now
      /\ lastRefillTime' = IF Increment > 0 THEN now ELSE lastRefillTime
  BY DEF Refused, RefillTime
<1>2. now \in Nat /\ now - now = 0 /\ 0 * Rate = 0 /\ Second * 0 = 0
  BY HorizonAssumption, RateAssumption, SecondAssumption DEF TypeOK
<1>3. Flow' = 0 \/ Flow' = Flow
  BY <1>1, <1>2 DEF Flow
<1>4. Second * tokens' + Flow' <= Second * tokens + Flow
  BY <1>1, <1>2, <1>3, CreditTyped
<1>5. Second * tokens' + Flow' \in Nat
  BY <1>1, <1>2, <1>3, CreditTyped
<1> QED
  BY <1>4, <1>5, CreditTyped DEF Credit, Cap

LEMMA WindowStep == WindowInv /\ [Next]_vars => WindowInv'
<1> SUFFICES ASSUME WindowInv, [Next]_vars PROVE WindowInv'
  OBVIOUS
<1>0. TypeOK /\ TypeOK' /\ Second \in Nat \ {0} /\ Rate \in Nat
  BY TypeStep, SecondAssumption, RateAssumption DEF WindowInv
<1>1. Second * granted + Credit <= Cap + Rate * (now - since)
  BY DEF WindowInv
<1> SUFFICES Second * granted' + Credit' <= Cap + Rate * (now' - since')
  BY <1>0 DEF WindowInv, Cap
<1>2. CASE Granted
  <2>1. granted' = granted + 1 /\ now' = now /\ since' = since
    BY <1>2 DEF Granted, Left
  <2>2. Second * granted' = Second * granted + Second
    BY <1>0, <2>1 DEF TypeOK
  <2>3. Credit' <= Credit - Second /\ Credit' \in Nat
    <3>1. Credit' \in Nat
      BY <1>0, TypedNext
    <3> QED
      BY <1>0, <1>2, <3>1, GrantPays
  <2> QED
    BY <1>0, <1>1, <2>1, <2>2, <2>3, CreditTyped
<1>3. CASE Refused
  <2>1. granted' = granted /\ now' = now /\ since' = since
    BY <1>3 DEF Refused
  <2>2. Credit' <= Credit
    BY <1>0, <1>3, RefusalKeeps
  <2> QED
    BY <1>0, <1>1, <2>1, <2>2, CreditTyped, TypedNext
<1>4. CASE Tick
  <2>1. PICK m \in (now + 1)..Horizon : now' = m
    BY <1>4 DEF Tick
  <2>2. /\ m \in Nat /\ now \in Nat /\ now < m
        /\ since \in Nat /\ since <= now /\ lastRefillTime \in Nat /\ lastRefillTime <= now
    BY <1>0, HorizonAssumption DEF TypeOK
  <2>3. UNCHANGED tokens /\ UNCHANGED lastRefillTime /\ UNCHANGED since /\ UNCHANGED granted
    BY <1>4 DEF Tick
  <2> DEFINE in == Rate * (m - now)
  <2>4. in \in Nat /\ Rate * (m - since) = Rate * (now - since) + in
    BY <1>0, <2>2, Passing
  <2>5. Flow' = Flow + in
    BY <1>0, <2>1, <2>2, <2>3, Passing DEF Flow
  <2> HIDE DEF in
  <2>6. Credit' <= Credit + in
    BY <1>0, <2>3, <2>4, <2>5, CreditTyped DEF Credit, Cap
  <2> QED
    BY <1>0, <1>1, <2>1, <2>3, <2>4, <2>6, CreditTyped, TypedNext
<1>5. CASE Observe
  <2>1. granted' = 0 /\ since' = now /\ UNCHANGED <<now, tokens, lastRefillTime>>
    BY <1>5 DEF Observe
  <2>2. Second * granted' = 0 /\ Rate * (now' - since') = 0
    BY <1>0, <2>1, HorizonAssumption DEF TypeOK
  <2>3. Credit' = Credit
    BY <2>1 DEF Credit, Flow, Cap
  <2> QED
    BY <1>0, <2>2, <2>3, CreditTyped
<1>6. CASE UNCHANGED vars
  BY <1>1, <1>6 DEF vars, Credit, Flow, Cap
<1> QED
  BY <1>2, <1>3, <1>4, <1>5, <1>6 DEF Next

LEMMA WindowInit == Init => WindowInv
<1> SUFFICES ASSUME Init PROVE WindowInv
  OBVIOUS
<1>1. TypeOK
  BY TypeInit
<1>2. granted = 0 /\ now - since = 0 /\ Second * 0 = 0 /\ Rate * 0 = 0
  BY HorizonAssumption, SecondAssumption, RateAssumption DEF Init
<1> QED
  BY <1>1, <1>2, CreditTyped DEF WindowInv

\* However the asking and the time interleave, no stretch of time sees more
\* requests than a full bucket, one fraction and the rate allow.
THEOREM WindowsAreBounded == Spec => []WindowBound
<1>1. WindowInv => WindowBound
  BY CreditTyped DEF WindowInv, WindowBound, Cap
<1> QED
  BY <1>1, WindowInit, WindowStep, PTL DEF Spec

-----------------------------------------------------------------------------
(* The bucket is a TokenPool. *)

LEMMA PoolStep == TypeOK /\ [Next]_vars => [Pool!Next]_Available
<1> SUFFICES ASSUME TypeOK, [Next]_vars PROVE [Pool!Next]_Available
  OBVIOUS
<1>0. /\ Available \in 0..Size /\ Available' \in 0..Size /\ Size \in Nat
      /\ Increment \in Nat /\ Increment' \in Nat /\ tokens \in 0..Size /\ tokens' \in 0..Size
  <2>1. TypeOK'
    BY TypeStep
  <2>2. Increment' \in Nat /\ Available' \in 0..Size
    BY <2>1, TypedNext
  <2> QED
    BY <2>1, <2>2, AvailableTyped, IncrementTyped, SizeAssumption DEF TypeOK
<1>1. ASSUME now' = now, lastRefillTime' = IF Increment > 0 THEN now ELSE lastRefillTime
      PROVE  Increment' = 0
  <2>1. TimeSinceLastRefill' = IF Increment > 0 THEN 0 ELSE TimeSinceLastRefill
    BY <1>1, HorizonAssumption DEF TimeSinceLastRefill, TypeOK
  <2>2. CASE Increment > 0
    <3>1. TimeSinceLastRefill' * Rate = 0
      BY <2>1, <2>2, RateAssumption
    <3>2. 0 \div Second = 0
      BY SecondAssumption, Division
    <3> QED
      BY <3>1, <3>2 DEF Increment
  <2>3. CASE Increment = 0
    BY <2>1, <2>3 DEF Increment
  <2> QED
    BY <1>0, <2>2, <2>3
<1>2. CASE Granted
  <2>1. Available > 0 /\ Available' = Available - 1
    BY <1>0, <1>1, <1>2 DEF Granted, Left, RefillTime, Available
  <2> QED
    BY <2>1 DEF Pool!Next, Pool!Take
<1>3. CASE Refused
  <2>1. Available' = Available
    BY <1>0, <1>1, <1>3 DEF Refused, RefillTime, Available
  <2> QED
    BY <2>1
<1>4. CASE Tick
  <2>1. Increment <= Increment'
    <3>1. PICK m \in (now + 1)..Horizon : now' = m /\ lastRefillTime' = lastRefillTime
      BY <1>4 DEF Tick
    <3>2. /\ now \in Nat /\ m \in Nat /\ now < m
          /\ lastRefillTime \in Nat /\ lastRefillTime <= now
      BY HorizonAssumption DEF TypeOK
    <3>3. TimeSinceLastRefill = now - lastRefillTime /\ TimeSinceLastRefill' = m - lastRefillTime
      BY <3>1, <3>2 DEF TimeSinceLastRefill
    <3>4. /\ TimeSinceLastRefill \in Nat /\ TimeSinceLastRefill' \in Nat
          /\ TimeSinceLastRefill <= TimeSinceLastRefill'
      BY <3>2, <3>3, Passing
    <3> QED
      BY <3>4, DivisionGrows, SecondAssumption, RateAssumption DEF Increment
  <2>2. tokens' = tokens
    BY <1>4 DEF Tick
  <2>3. Available <= Available'
    <3>1. tokens \in Nat
      BY <1>0
    <3> QED
      BY <1>0, <2>1, <2>2, <3>1, CapGrows DEF Available
  <2> QED
    BY <1>0, <2>3 DEF Pool!Next, Pool!Refill
<1>5. CASE Observe \/ UNCHANGED vars
  BY <1>5 DEF Observe, vars, Available, Increment, TimeSinceLastRefill
<1> QED
  BY <1>2, <1>3, <1>4, <1>5 DEF Next

\* The bucket implements the pool of tokens that SfcCache draws from: what is
\* there for the taking only grows with time, and shrinks by one per grant.
THEOREM BucketIsTokenPool == Spec => IsTokenPool
<1>1. Init => Pool!Init
  BY TypeInit, AvailableTyped DEF Pool!Init
<1>2. TypeOK /\ [Next]_vars => [Pool!Next]_Available
  BY PoolStep
<1> QED
  BY <1>1, <1>2, BucketTypesHold, PTL DEF Spec, IsTokenPool, Pool!Spec

-----------------------------------------------------------------------------
(* A refusal finds the bucket empty and leaves the clock of the filling      *)
(* alone, so what flows in from there on is not lost by asking again.        *)

RefusedAfterRefill == Size > 0 /\ refused # Never => lastRefillTime <= refused

LEMMA RefusedStep ==
  TypeOK /\ RefusedAfterRefill /\ [Next]_vars => RefusedAfterRefill'
<1> SUFFICES ASSUME TypeOK, RefusedAfterRefill, [Next]_vars PROVE RefusedAfterRefill'
  OBVIOUS
<1>1. CASE Granted
  BY <1>1 DEF Granted, Left, RefusedAfterRefill
<1>2. CASE Refused /\ Size > 0
  <2>1. Increment = 0
    BY <1>2, IncrementTyped, SizeAssumption DEF Refused, Available, TypeOK
  <2>2. UNCHANGED lastRefillTime
    BY <1>2, <2>1 DEF Refused, RefillTime
  <2>3. lastRefillTime <= now
    BY DEF TypeOK
  <2> QED
    BY <1>2, <2>2, <2>3 DEF Refused, RefusedAfterRefill
<1>3. CASE Tick \/ Observe \/ UNCHANGED vars
  BY <1>3 DEF Tick, Observe, vars, RefusedAfterRefill
<1>4. CASE ~(Size > 0)
  BY <1>4 DEF RefusedAfterRefill
<1> QED
  BY <1>1, <1>2, <1>3, <1>4 DEF Next

\* Asking often is never punished: from the first refusal on, a token is there
\* as soon as the rate brings one.
THEOREM RefusalsEnd == Spec => []RefusalsAreShort
<1>1. Init => RefusedAfterRefill
  BY DEF Init, RefusedAfterRefill
<1>2. TypeOK /\ RefusedAfterRefill => RefusalsAreShort
  <2> SUFFICES ASSUME TypeOK, RefusedAfterRefill, refused # Never, Size > 0, Available = 0
               PROVE  Rate * (now - refused) < Second
    BY DEF RefusalsAreShort
  <2>1. Increment = 0
    BY IncrementTyped, SizeAssumption DEF Available, TypeOK
  <2>2. (now - lastRefillTime) * Rate < Second
    <3>1. Second * 0 = 0
      BY SecondAssumption
    <3> QED
      BY <2>1, <3>1, IncrementTyped, SecondAssumption
  <2>3. /\ lastRefillTime \in Nat /\ refused \in Nat /\ now \in Nat
        /\ lastRefillTime <= refused /\ refused <= now
    BY HorizonAssumption DEF TypeOK, RefusedAfterRefill
  <2>4. Rate * (now - refused) <= (now - lastRefillTime) * Rate
    <3>1. now - refused \in Nat /\ now - lastRefillTime \in Nat
          /\ now - refused <= now - lastRefillTime
      BY <2>3
    <3> QED
      BY <3>1, RateAssumption
  <2>5. Rate * (now - refused) \in Int /\ (now - lastRefillTime) * Rate \in Int
    BY <2>3, RateAssumption
  <2> QED
    BY <2>2, <2>4, <2>5, SecondAssumption
<1> QED
  BY <1>1, <1>2, RefusedStep, BucketTypesHold, PTL DEF Spec
=============================================================================
