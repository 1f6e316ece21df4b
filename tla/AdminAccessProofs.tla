--------------------------- MODULE AdminAccessProofs ----------------------------
(***************************************************************************)
(* Theorems about AdminRateLimiter, for any finite set of requests, limit, *)
(* length of a minute and number of minutes, and about AdminAccess, which  *)
(* implements it, for any settings.                                        *)
(***************************************************************************)
EXTENDS AdminAccess, FiniteSetTheorems, TLAPS

USE DEF Minutes, Forever, Key

\* What an INCR that reaches Redis does to the types.
LEMMA CountType ==
  ASSUME TypeOK, NEW p \in Requests, Count(p)
  PROVE  /\ count' \in [Minutes -> Nat] /\ current' \in [Requests -> Nat]
         /\ inTime' \subseteq Requests /\ ttl' = ttl
BY DEF Count, TypeOK

LEMMA TimeoutType ==
  ASSUME TypeOK, NEW p \in Requests, SetTimeout(p)
  PROVE  ttl' \in [Minutes -> 1..Forever]
BY WindowAssumption DEF SetTimeout, TypeOK

LEMMA TypeInit == Init => TypeOK
BY WindowAssumption, LastMinuteAssumption DEF Init, TypeOK, Ended

LEMMA TypeNext == TypeOK /\ [Next]_vars => TypeOK'
<1> SUFFICES ASSUME TypeOK, [Next]_vars PROVE TypeOK'
  OBVIOUS
<1> USE WindowAssumption, LastMinuteAssumption DEF Ended, clock, redis
<1>1. ASSUME NEW p \in Requests, Stamp(p) PROVE TypeOK'
  BY <1>1 DEF Stamp, TypeOK
<1>2. ASSUME NEW p \in Requests, Incr(p) PROVE TypeOK'
  BY <1>2, CountType DEF Incr, Verdict, TypeOK
<1>3. ASSUME NEW p \in Requests, IncrError(p) PROVE TypeOK'
  <2>0. bucket[p] \in Minutes /\ broken \subseteq Minutes
    BY DEF TypeOK
  <2>1. broken' \in {broken, broken \cup {bucket[p]}}
    BY <1>3 DEF IncrError
  <2>2. broken' \subseteq Minutes
    BY <2>0, <2>1
  <2> QED BY <1>3, <2>2, CountType DEF IncrError, TypeOK
<1>4. ASSUME NEW p \in Requests, Expire(p) PROVE TypeOK'
  BY <1>4, TimeoutType DEF Expire, Verdict, TypeOK
<1>5. ASSUME NEW p \in Requests, ExpireError(p) PROVE TypeOK'
  BY <1>5, TimeoutType DEF ExpireError, TypeOK
<1>6. ASSUME NEW m \in Minutes, RedisForgets(m) PROVE TypeOK'
  <2>1. count' \in [Minutes -> Nat]
    BY <1>6 DEF RedisForgets, TypeOK
  <2>2. ttl' \in [Minutes -> 1..Forever]
    <3>1. ttl' \in {ttl, [ttl EXCEPT ![m] = Forever]}
      BY <1>6 DEF RedisForgets
    <3>2. Forever \in 1..Forever /\ ttl \in [Minutes -> 1..Forever]
      BY DEF TypeOK
    <3> QED BY <3>1, <3>2
  <2> QED BY <1>6, <2>1, <2>2 DEF RedisForgets, TypeOK
<1>7. CASE Tick
  <2>1. minute' \in Minutes /\ second' \in 0..(Window - 1)
    BY <1>7 DEF Tick, TypeOK
  <2>2. count' \in [Minutes -> Nat] /\ ttl' \in [Minutes -> 1..Forever]
    BY <1>7 DEF Tick, TypeOK
  <2> QED BY <1>7, <2>1, <2>2 DEF Tick, TypeOK
<1>8. CASE UNCHANGED vars
  BY <1>8 DEF vars, TypeOK
<1> QED
  BY <1>1, <1>2, <1>3, <1>4, <1>5, <1>6, <1>7, <1>8 DEF Next

\* Counters, timeouts and requests keep their domains.
THEOREM TypeCorrect == Spec => []TypeOK
BY TypeInit, TypeNext, PTL DEF Spec

-----------------------------------------------------------------------------
(* No more than Limit per minute *)

\* Requests and keys belong to minutes that have begun, a request has no count
\* before its INCR, and one that was admitted had a count within the limit.
CallInv ==
  /\ \A m \in Minutes : count[m] > 0 => m <= minute
  /\ \A m \in Minutes : count[m] = 0 => ttl[m] = Forever
  /\ \A p \in Requests :
       /\ bucket[p] <= minute
       /\ pc[p] \in {"idle", "incr"} => current[p] = 0 /\ p \notin inTime
       /\ p \in inTime => current[p] > 0
       /\ pc[p] = "admitted" => current[p] <= Limit
       /\ pc[p] = "refused" => current[p] > Limit

\* The key of the minute that is running lives to the end of it, so the counts
\* that were given in time are below it and differ from each other.
CountsInv ==
  \A m \in Minutes \ forgotten :
    /\ m = minute /\ ttl[m] # Forever => ttl[m] + second >= Window
    /\ \A p \in inTime : bucket[p] = m /\ m = minute => current[p] <= count[m]
    /\ \A p, q \in inTime :
         bucket[p] = m /\ bucket[q] = m /\ current[p] = current[q] => p = q

LEMMA CallInit == Init => CallInv /\ CountsInv
BY WindowAssumption, LastMinuteAssumption DEF Init, CallInv, CountsInv

\* INCR, which may add the request to those counted in time.
LEMMA CountKeeps ==
  ASSUME TypeOK, TypeOK', CallInv, CountsInv, NEW p \in Requests,
         pc[p] = "incr", Count(p), UNCHANGED <<clock, bucket, forgotten>>
  PROVE  /\ CountsInv'
         /\ \A m \in Minutes : count'[m] > 0 => m <= minute'
         /\ \A m \in Minutes : count'[m] = 0 => ttl'[m] = Forever
         /\ current'[p] > 0
         /\ \A q \in Requests \ {p} : current'[q] = current[q] /\ (q \in inTime' <=> q \in inTime)
<1> USE LastMinuteAssumption
<1>a. bucket[p] \in Minutes /\ count[bucket[p]] \in Nat /\ p \notin inTime
  BY DEF TypeOK, CallInv
<1>b. current' = [current EXCEPT ![p] = count[bucket[p]] + 1]
  BY DEF Count
<1>c. /\ \A q \in Requests \ {p} : current'[q] = current[q]
      /\ current'[p] = count[bucket[p]] + 1 /\ current'[p] > 0
  <2>1. current \in [Requests -> Nat]
    BY DEF TypeOK
  <2>2. current'[p] = count[bucket[p]] + 1
    BY <1>b, <2>1
  <2>3. \A q \in Requests \ {p} : current'[q] = current[q]
    BY <1>b, <2>1
  <2> QED BY <1>a, <2>2, <2>3
<1>d. /\ \A q \in Requests \ {p} : q \in inTime' <=> q \in inTime
      /\ p \in inTime' <=> bucket[p] = minute
  BY <1>a DEF Count
<1>1. /\ \A q \in Requests \ {p} : current'[q] = current[q] /\ (q \in inTime' <=> q \in inTime)
      /\ current'[p] = count[bucket[p]] + 1 /\ current'[p] > 0
      /\ p \in inTime' <=> bucket[p] = minute
      /\ bucket[p] \in Minutes
  BY <1>a, <1>c, <1>d
<1>2. /\ count'[bucket[p]] = count[bucket[p]] + 1
      /\ \A m \in Minutes : m # bucket[p] => count'[m] = count[m]
      /\ ttl' = ttl /\ minute' = minute /\ second' = second /\ bucket' = bucket
      /\ forgotten' = forgotten
  BY DEF Count, TypeOK, clock
<1>3. \A m \in Minutes : count[m] \in Nat /\ count'[m] \in Nat /\ (count[m] > 0 => m <= minute)
  BY DEF TypeOK, CallInv
<1>4. \A m \in Minutes : count'[m] > 0 => m <= minute'
  BY <1>2, <1>3 DEF CallInv
<1>5. \A m \in Minutes : count'[m] = 0 => ttl'[m] = Forever
  BY <1>1, <1>2, <1>3 DEF CallInv
<1>6. ASSUME NEW m \in Minutes \ forgotten PROVE
        /\ m = minute' /\ ttl'[m] # Forever => ttl'[m] + second' >= Window
        /\ \A q \in inTime' : bucket'[q] = m /\ m = minute' => current'[q] <= count'[m]
        /\ \A q, r \in inTime' :
             bucket'[q] = m /\ bucket'[r] = m /\ current'[q] = current'[r] => q = r
  <2>1. inTime' \subseteq Requests /\ \A q \in Requests : current[q] \in Nat /\ current'[q] \in Nat
    BY DEF TypeOK
  <2>2. m = minute' /\ ttl'[m] # Forever => ttl'[m] + second' >= Window
    BY <1>2 DEF CountsInv
  <2>3. \A q \in inTime' : bucket'[q] = m /\ m = minute' => current'[q] <= count'[m]
    BY <1>1, <1>2, <1>3, <2>1 DEF CountsInv
  <2>4. \A q \in inTime : bucket[q] = m /\ m = minute => current[q] <= count[m]
    BY DEF CountsInv
  <2>5. \A q \in inTime' \ {p} : bucket[q] = m /\ bucket[p] = m /\ p \in inTime'
          => current'[q] # current'[p]
    BY <1>1, <1>3, <2>1, <2>4
  <2>6. \A q, r \in inTime' \ {p} :
          bucket[q] = m /\ bucket[r] = m /\ current'[q] = current'[r] => q = r
    BY <1>1, <2>1 DEF CountsInv
  <2> QED BY <1>2, <2>2, <2>3, <2>5, <2>6
<1> QED BY <1>1, <1>2, <1>4, <1>5, <1>6 DEF CountsInv

\* EXPIRE gives the key a whole window from now.
LEMMA TimeoutKeeps ==
  ASSUME TypeOK, CallInv, CountsInv, NEW p \in Requests, SetTimeout(p),
         UNCHANGED <<clock, count, bucket, current, inTime, forgotten>>
  PROVE  CountsInv' /\ \A m \in Minutes : count'[m] = 0 => ttl'[m] = Forever
<1>1. /\ \A m \in Minutes : ttl'[m] = ttl[m] \/ ttl'[m] \in {Forever, Window}
      /\ \A m \in Minutes : count[m] = 0 => ttl'[m] = ttl[m] \/ ttl'[m] = Forever
  BY DEF SetTimeout, TypeOK
<1>2. minute' = minute /\ second' = second /\ second \in Nat
  BY WindowAssumption DEF clock, TypeOK
<1>3. \A m \in Minutes \ forgotten :
        m = minute' /\ ttl'[m] # Forever => ttl'[m] + second' >= Window
  BY <1>1, <1>2, WindowAssumption DEF CountsInv
<1>4. CountsInv'
  BY <1>2, <1>3 DEF CountsInv
<1> QED BY <1>1, <1>4 DEF CallInv

LEMMA CallNext == TypeOK /\ TypeOK' /\ CallInv /\ CountsInv /\ [Next]_vars => CallInv' /\ CountsInv'
<1> SUFFICES ASSUME TypeOK, TypeOK', CallInv, CountsInv, [Next]_vars PROVE CallInv' /\ CountsInv'
  OBVIOUS
<1> USE WindowAssumption, LastMinuteAssumption, LimitAssumption DEF clock, redis
<1>1. ASSUME NEW p \in Requests, Stamp(p) PROVE CallInv' /\ CountsInv'
  <2>1. /\ \A q \in Requests \ {p} : pc'[q] = pc[q] /\ bucket'[q] = bucket[q]
        /\ pc'[p] = "incr" /\ bucket'[p] = minute /\ p \notin inTime /\ current[p] = 0
    BY <1>1 DEF Stamp, TypeOK, CallInv
  <2>2. CallInv'
    BY <1>1, <2>1 DEF Stamp, TypeOK, CallInv
  <2>3. \A q \in inTime : q # p /\ bucket'[q] = bucket[q]
    BY <2>1 DEF TypeOK
  <2>4. CountsInv'
    BY <1>1, <2>3 DEF Stamp, CountsInv
  <2> QED BY <2>2, <2>4
<1>2. ASSUME NEW p \in Requests, Incr(p) PROVE CallInv' /\ CountsInv'
  <2>0. pc[p] = "incr" /\ Count(p) /\ UNCHANGED <<clock, bucket, forgotten>>
    BY <1>2 DEF Incr
  <2>1. /\ CountsInv'
        /\ \A m \in Minutes : count'[m] > 0 => m <= minute'
        /\ \A m \in Minutes : count'[m] = 0 => ttl'[m] = Forever
        /\ current'[p] > 0
        /\ \A q \in Requests \ {p} : current'[q] = current[q] /\ (q \in inTime' <=> q \in inTime)
    BY <2>0, CountKeeps
  <2>2. /\ pc'[p] \in {"expire", Verdict(current'[p])}
        /\ \A q \in Requests \ {p} : pc'[q] = pc[q]
    BY <1>2 DEF Incr, TypeOK
  <2>3. current'[p] \in Nat
    BY DEF TypeOK
  <2> QED BY <2>0, <2>1, <2>2, <2>3 DEF CallInv, Verdict
<1>3. ASSUME NEW p \in Requests, IncrError(p) PROVE CallInv' /\ CountsInv'
  <2>0. /\ pc[p] = "incr" /\ UNCHANGED <<clock, bucket, forgotten>> /\ pc'[p] = "unavailable"
        /\ \A q \in Requests \ {p} : pc'[q] = pc[q]
    BY <1>3 DEF IncrError, TypeOK
  <2>1. CASE Count(p)
    <3>1. /\ CountsInv'
          /\ \A m \in Minutes : count'[m] > 0 => m <= minute'
          /\ \A m \in Minutes : count'[m] = 0 => ttl'[m] = Forever
          /\ current'[p] > 0
          /\ \A q \in Requests \ {p} : current'[q] = current[q] /\ (q \in inTime' <=> q \in inTime)
      BY <2>0, <2>1, CountKeeps
    <3> QED BY <2>0, <3>1 DEF CallInv
  <2>2. CASE UNCHANGED <<redis, current, inTime, broken>>
    BY <2>0, <2>2 DEF CallInv, CountsInv
  <2> QED BY <1>3, <2>1, <2>2 DEF IncrError
<1>4. ASSUME NEW p \in Requests, Expire(p) PROVE CallInv' /\ CountsInv'
  <2>1. CountsInv' /\ \A m \in Minutes : count'[m] = 0 => ttl'[m] = Forever
    BY <1>4, TimeoutKeeps DEF Expire
  <2>a. /\ pc[p] = "expire" /\ pc'[p] = Verdict(current[p])
        /\ \A q \in Requests \ {p} : pc'[q] = pc[q]
        /\ current[p] \in Nat
    BY <1>4 DEF Expire, TypeOK
  <2>b. \A q \in Requests :
          /\ pc'[q] \in {"idle", "incr"} => pc[q] = pc'[q]
          /\ pc'[q] = "admitted" => current[q] <= Limit
          /\ pc'[q] = "refused" => current[q] > Limit
    BY <2>a DEF Verdict, CallInv
  <2>2. CallInv'
    BY <1>4, <2>1, <2>b DEF Expire, CallInv
  <2> QED BY <2>1, <2>2
<1>5. ASSUME NEW p \in Requests, ExpireError(p) PROVE CallInv' /\ CountsInv'
  <2>1. CASE SetTimeout(p)
    <3>1. CountsInv' /\ \A m \in Minutes : count'[m] = 0 => ttl'[m] = Forever
      BY <1>5, <2>1, TimeoutKeeps DEF ExpireError
    <3> QED BY <1>5, <3>1 DEF ExpireError, TypeOK, CallInv
  <2>2. CASE UNCHANGED ttl
    BY <1>5, <2>2 DEF ExpireError, TypeOK, CallInv, CountsInv
  <2> QED BY <1>5, <2>1, <2>2 DEF ExpireError
<1>6. ASSUME NEW m \in Minutes, RedisForgets(m) PROVE CallInv' /\ CountsInv'
  <2>1. PICK n \in 0..(count[m] - 1) :
          /\ count' = [count EXCEPT ![m] = n]
          /\ \/ ttl' = [ttl EXCEPT ![m] = Forever]
             \/ n > 0 /\ UNCHANGED ttl
    BY <1>6 DEF RedisForgets
  <2>2. /\ \A k \in Minutes \ {m} : count'[k] = count[k] /\ ttl'[k] = ttl[k]
        /\ count[m] > 0 /\ count'[m] = n
        /\ ttl'[m] = Forever \/ n > 0
    <3>1. count \in [Minutes -> Nat] /\ ttl \in [Minutes -> 1..Forever]
      BY DEF TypeOK
    <3>2. \A k \in Minutes \ {m} : count'[k] = count[k] /\ ttl'[k] = ttl[k]
      BY <2>1, <3>1
    <3>3. count'[m] = n /\ (ttl'[m] = Forever \/ n > 0)
      BY <2>1, <3>1
    <3>4. count[m] > 0
      BY <2>1, <3>1
    <3> QED BY <3>2, <3>3, <3>4
  <2>3. CallInv'
    BY <1>6, <2>2 DEF RedisForgets, CallInv
  <2>4. CountsInv'
    BY <1>6, <2>2 DEF RedisForgets, CountsInv
  <2> QED BY <2>3, <2>4
<1>7. CASE Tick
  <2>1. /\ \A m \in Minutes : count'[m] = count[m] \/ (ttl[m] = 1 /\ count'[m] = 0)
        /\ \A m \in Minutes : ttl'[m] = Forever \/ (ttl[m] > 1 /\ ttl'[m] = ttl[m] - 1)
        /\ \A m \in Minutes : ttl[m] \in {1, Forever} => ttl'[m] = Forever
        /\ UNCHANGED <<pc, bucket, current, inTime, forgotten>>
    BY <1>7 DEF Tick, TypeOK
  <2>2. minute' \in {minute, minute + 1} /\ minute \in Nat
    BY <1>7 DEF Tick, TypeOK
  <2>3. CallInv'
    <3>1. \A m \in Minutes : count'[m] > 0 => m <= minute'
      BY <2>1, <2>2 DEF CallInv
    <3>2. \A m \in Minutes : count'[m] = 0 => ttl'[m] = Forever
      BY <2>1 DEF CallInv
    <3>3. \A p \in Requests : bucket'[p] <= minute'
      <4> TAKE p \in Requests
      <4>1. bucket[p] <= minute /\ bucket[p] \in Nat
        BY DEF CallInv, TypeOK
      <4> QED BY <2>1, <2>2, <4>1
    <3> QED BY <2>1, <3>1, <3>2, <3>3 DEF CallInv
  <2>4. CASE minute' = minute
    <3>1. second' = second + 1 /\ second + 1 < Window
      BY <1>7, <2>2, <2>4 DEF Tick
    <3>0. second \in Nat /\ \A m \in Minutes : ttl[m] \in Nat
      <4>1. ttl \in [Minutes -> 1..Forever] /\ second \in 0..(Window - 1)
        BY DEF TypeOK
      <4>2. \A m \in Minutes : ttl[m] \in 1..Forever
        BY <4>1
      <4>3. \A n \in 1..Forever : n \in Nat
        OBVIOUS
      <4> QED BY <4>1, <4>2, <4>3
    <3>2. \A m \in Minutes \ forgotten : m = minute => ttl[m] # 1
      BY <3>0, <3>1 DEF CountsInv
    <3>3. \A m \in Minutes \ forgotten :
            m = minute' /\ ttl'[m] # Forever => ttl'[m] + second' >= Window
      BY <2>1, <2>4, <3>0, <3>1 DEF CountsInv
    <3> QED BY <2>1, <2>3, <2>4, <3>2, <3>3 DEF CountsInv
  <2>5. CASE minute' = minute + 1
    <3>1. \A m \in Minutes : m = minute' => ttl'[m] = Forever
      BY <2>1, <2>2, <2>5 DEF CallInv, TypeOK
    <3>2. \A p \in inTime : bucket[p] # minute'
      BY <2>2, <2>5 DEF CallInv, TypeOK
    <3> QED BY <2>1, <2>3, <3>1, <3>2 DEF CountsInv
  <2> QED BY <2>2, <2>4, <2>5
<1>8. CASE UNCHANGED vars
  BY <1>8 DEF vars, CallInv, CountsInv
<1> QED
  BY <1>1, <1>2, <1>3, <1>4, <1>5, <1>6, <1>7, <1>8 DEF Next

\* Different counts within the limit: at most Limit requests.
LEMMA AdmittedWithinLimit == TypeOK /\ CallInv /\ CountsInv => WindowLimit
<1> SUFFICES ASSUME TypeOK, CallInv, CountsInv, NEW m \in Minutes \ forgotten
             PROVE  Cardinality({p \in inTime : bucket[p] = m /\ pc[p] = "admitted"}) <= Limit
  BY DEF WindowLimit
<1> DEFINE A == {p \in inTime : bucket[p] = m /\ pc[p] = "admitted"}
           f == [p \in A |-> current[p]]
<1>1. f \in Injection(A, 1..Limit)
  <2>1. \A p \in A : current[p] \in 1..Limit
    BY LimitAssumption DEF TypeOK, CallInv
  <2>2. \A p, q \in A : current[p] = current[q] => p = q
    BY DEF CountsInv
  <2> QED BY <2>1, <2>2 DEF Injection, IsInjective
<1>2. IsFiniteSet(1..Limit) /\ Cardinality(1..Limit) = Limit
  BY LimitAssumption, FS_Interval
<1> QED BY <1>1, <1>2, FS_Injection

\* At most Limit of the requests counted within a minute are admitted.
THEOREM LimitHolds == Spec => []WindowLimit
BY CallInit, CallNext, TypeCorrect, AdmittedWithinLimit, PTL DEF Spec

-----------------------------------------------------------------------------
(* Refusals *)

\* The requests that were counted in minute m.
Counted(m) == {q \in Requests : bucket[q] = m /\ current[q] > 0}

\* No counter, and no count that was given, is above the number of requests that
\* were counted in its minute.
CountedInv ==
  /\ \A m \in Minutes : count[m] <= Cardinality(Counted(m))
  /\ \A p \in Requests : current[p] <= Cardinality(Counted(bucket[p]))

LEMMA CountedFinite ==
  \A m : IsFiniteSet(Counted(m)) /\ Cardinality(Counted(m)) \in Nat
BY RequestsAssumption, FS_Subset, FS_CardinalityType DEF Counted

LEMMA CountedInit == Init => CountedInv
BY CountedFinite DEF Init, CountedInv

\* INCR adds the request to those counted in its minute.
LEMMA CountedGrows ==
  ASSUME TypeOK, TypeOK', CallInv, CountedInv, NEW p \in Requests,
         pc[p] = "incr", Count(p), UNCHANGED bucket
  PROVE  CountedInv'
<1>0. bucket[p] \in Minutes /\ current[p] = 0 /\ current \in [Requests -> Nat]
      /\ count \in [Minutes -> Nat]
  BY DEF TypeOK, CallInv
<1>1. /\ current' = [current EXCEPT ![p] = count[bucket[p]] + 1]
      /\ count' = [count EXCEPT ![bucket[p]] = @ + 1]
  BY DEF Count
<1>2. current'[p] = count[bucket[p]] + 1 /\ \A q \in Requests \ {p} : current'[q] = current[q]
  BY <1>0, <1>1
<1>3. Counted(bucket[p])' = Counted(bucket[p]) \cup {p} /\ p \notin Counted(bucket[p])
  BY <1>0, <1>2 DEF Counted
<1>4. \A m : m # bucket[p] => Counted(m)' = Counted(m)
  BY <1>0, <1>2 DEF Counted
<1>5. Cardinality(Counted(bucket[p])') = Cardinality(Counted(bucket[p])) + 1
  BY <1>3, CountedFinite, FS_AddElement
<1>6. \A m \in Minutes : count'[m] <= Cardinality(Counted(m)')
  BY <1>0, <1>1, <1>4, <1>5, CountedFinite DEF CountedInv
<1>7. ASSUME NEW q \in Requests PROVE current'[q] <= Cardinality(Counted(bucket[q])')
  <2>1. CASE q = p
    BY <1>0, <1>2, <1>5, <2>1, CountedFinite DEF CountedInv
  <2>2. CASE q # p
    <3>1. current[q] <= Cardinality(Counted(bucket[q])) /\ current[q] \in Nat
      BY <1>0 DEF CountedInv
    <3> QED BY <1>2, <1>4, <1>5, <2>2, <3>1, CountedFinite
  <2> QED BY <2>1, <2>2
<1> QED BY <1>6, <1>7 DEF CountedInv

\* Every other step leaves them, and raises no counter.
LEMMA CountedStays ==
  ASSUME TypeOK, TypeOK', CountedInv, UNCHANGED current,
         \A p \in Requests : bucket'[p] # bucket[p] => current[p] = 0,
         \A m \in Minutes : count'[m] <= count[m]
  PROVE  CountedInv'
<1>1. \A m : Counted(m)' = Counted(m)
  BY DEF Counted
<1>2. \A m \in Minutes : count[m] \in Nat /\ count'[m] \in Nat
  BY DEF TypeOK
<1>3. \A m \in Minutes : count'[m] <= Cardinality(Counted(m)')
  BY <1>1, <1>2, CountedFinite DEF CountedInv
<1>4. ASSUME NEW p \in Requests PROVE (current[p] <= Cardinality(Counted(bucket[p])))'
  <2>1. \A m : Cardinality(Counted(m))' = Cardinality(Counted(m))
    BY <1>1
  <2>2. Cardinality(Counted(bucket[p]))' = Cardinality(Counted(bucket'[p]))
    BY DEF Counted
  <2>3. current[p] \in Nat /\ current'[p] = current[p]
    BY DEF TypeOK
  <2>4. bucket'[p] = bucket[p] \/ current[p] = 0
    OBVIOUS
  <2>5. current[p] <= Cardinality(Counted(bucket'[p]))
    BY <2>3, <2>4, CountedFinite DEF CountedInv
  <2> QED BY <2>2, <2>3, <2>5
<1> QED BY <1>3, <1>4 DEF CountedInv

LEMMA CountedNext == TypeOK /\ TypeOK' /\ CallInv /\ CountedInv /\ [Next]_vars => CountedInv'
<1> SUFFICES ASSUME TypeOK, TypeOK', CallInv, CountedInv, [Next]_vars PROVE CountedInv'
  OBVIOUS
<1> USE DEF clock, redis
<1>0. \A m \in Minutes : count[m] \in Nat
  BY DEF TypeOK
<1>1. ASSUME NEW p \in Requests, Stamp(p) PROVE CountedInv'
  <2>1. \A q \in Requests : bucket'[q] # bucket[q] => current[q] = 0
    BY <1>1 DEF Stamp, TypeOK, CallInv
  <2> QED BY <1>0, <1>1, <2>1, CountedStays DEF Stamp
<1>2. ASSUME NEW p \in Requests, Incr(p) PROVE CountedInv'
  BY <1>2, CountedGrows DEF Incr
<1>3. ASSUME NEW p \in Requests, IncrError(p) PROVE CountedInv'
  <2>1. CASE Count(p)
    BY <1>3, <2>1, CountedGrows DEF IncrError
  <2>2. CASE UNCHANGED <<redis, current, inTime, broken>>
    BY <1>0, <1>3, <2>2, CountedStays DEF IncrError
  <2> QED BY <1>3, <2>1, <2>2 DEF IncrError
<1>4. ASSUME NEW p \in Requests, Expire(p) \/ ExpireError(p) PROVE CountedInv'
  BY <1>0, <1>4, CountedStays DEF Expire, ExpireError
<1>5. ASSUME NEW m \in Minutes, RedisForgets(m) PROVE CountedInv'
  <2>1. \A k \in Minutes : count'[k] <= count[k]
    BY <1>0, <1>5 DEF RedisForgets, TypeOK
  <2> QED BY <1>5, <2>1, CountedStays DEF RedisForgets
<1>6. CASE Tick
  <2>1. \A k \in Minutes : count'[k] <= count[k]
    BY <1>0, <1>6 DEF Tick
  <2> QED BY <1>6, <2>1, CountedStays DEF Tick
<1>7. CASE UNCHANGED vars
  BY <1>0, <1>7, CountedStays DEF vars
<1> QED
  BY <1>1, <1>2, <1>3, <1>4, <1>5, <1>6, <1>7 DEF Next

\* A request is refused only when its own minute has counted more than Limit.
THEOREM RefusalsAreJustified == Spec => []RefusalsJustified
<1>1. TypeOK /\ CallInv /\ CountedInv => RefusalsJustified
  <2> SUFFICES ASSUME TypeOK, CallInv, CountedInv, NEW p \in Requests, pc[p] = "refused"
               PROVE  Cardinality(Counted(bucket[p])) > Limit
    BY DEF RefusalsJustified, Counted
  <2>1. current[p] > Limit /\ current[p] <= Cardinality(Counted(bucket[p]))
    BY DEF CallInv, CountedInv
  <2>2. current[p] \in Nat
    BY DEF TypeOK
  <2> QED BY <2>1, <2>2, CountedFinite, LimitAssumption
<1> QED
  BY <1>1, CallInit, CallNext, CountedInit, CountedNext, TypeCorrect, PTL DEF Spec

-----------------------------------------------------------------------------
(* Timeouts *)

LEMMA KeysNext == TypeOK /\ TypeOK' /\ KeysGetTimeouts /\ [Next]_vars => KeysGetTimeouts'
<1> SUFFICES ASSUME TypeOK, TypeOK', KeysGetTimeouts, [Next]_vars,
                    NEW m \in Minutes, m \notin broken', count'[m] > 0, ttl'[m] = Forever
             PROVE  \E p \in Requests : pc'[p] = "expire" /\ bucket'[p] = m
  BY DEF KeysGetTimeouts
<1> USE DEF clock, redis
<1>0. m \notin broken /\ count[m] > 0 /\ ttl[m] = Forever =>
        \E p \in Requests : pc[p] = "expire" /\ bucket[p] = m
  BY DEF KeysGetTimeouts
<1>1. ASSUME NEW p \in Requests, Stamp(p)
      PROVE  \E q \in Requests : pc'[q] = "expire" /\ bucket'[q] = m
  BY <1>0, <1>1 DEF Stamp, TypeOK
<1>2. ASSUME NEW p \in Requests, pc[p] = "incr", Count(p), UNCHANGED bucket,
             m \notin broken, bucket[p] = m => count[m] > 0,
             \A q \in Requests \ {p} : pc'[q] = pc[q]
      PROVE  \E q \in Requests : pc'[q] = "expire" /\ bucket'[q] = m
  <2>1. count[m] > 0 /\ ttl[m] = Forever
    BY <1>2 DEF Count, TypeOK
  <2> QED BY <1>0, <1>2, <2>1
<1>3. ASSUME NEW p \in Requests, Incr(p)
      PROVE  \E q \in Requests : pc'[q] = "expire" /\ bucket'[q] = m
  <2>1. /\ pc[p] = "incr" /\ Count(p) /\ UNCHANGED <<bucket, broken>>
        /\ \A q \in Requests \ {p} : pc'[q] = pc[q]
    BY <1>3 DEF Incr, TypeOK
  <2>2. current'[p] = count[bucket[p]] + 1 /\ count[bucket[p]] \in Nat
    BY <2>1 DEF Count, TypeOK
  <2>3. CASE bucket[p] = m /\ ~(count[m] > 0)
    <3>1. current'[p] = 1
      BY <2>2, <2>3
    <3>2. pc'[p] = "expire"
      BY <1>3, <3>1 DEF Incr, First, TypeOK
    <3> QED BY <2>1, <2>3, <3>2
  <2>4. CASE bucket[p] = m => count[m] > 0
    BY <1>2, <2>1, <2>4
  <2> QED BY <2>3, <2>4
<1>4. ASSUME NEW p \in Requests, IncrError(p)
      PROVE  \E q \in Requests : pc'[q] = "expire" /\ bucket'[q] = m
  <2>1. /\ pc[p] = "incr" /\ UNCHANGED bucket /\ pc'[p] = "unavailable"
        /\ \A q \in Requests \ {p} : pc'[q] = pc[q]
    BY <1>4 DEF IncrError, TypeOK
  <2>2. CASE /\ Count(p)
             /\ broken' = IF current'[p] = 1 THEN broken \cup {Key(p)} ELSE broken
    <3>1. current'[p] = count[bucket[p]] + 1 /\ count[bucket[p]] \in Nat
      BY <2>2 DEF Count, TypeOK
    <3>2. m \notin broken /\ (bucket[p] = m => current'[p] # 1)
      BY <2>2
    <3>3. bucket[p] = m => count[m] > 0
      BY <3>1, <3>2
    <3> QED BY <1>2, <2>1, <2>2, <3>2, <3>3
  <2>3. CASE UNCHANGED <<redis, current, inTime, broken>>
    BY <1>0, <2>1, <2>3
  <2> QED BY <1>4, <2>2, <2>3 DEF IncrError
<1>5. ASSUME NEW p \in Requests, pc[p] = "expire", UNCHANGED <<count, bucket>>,
             m \notin broken, SetTimeout(p) \/ (UNCHANGED ttl /\ bucket[p] # m),
             \A q \in Requests \ {p} : pc'[q] = pc[q]
      PROVE  \E q \in Requests : pc'[q] = "expire" /\ bucket'[q] = m
  <2>1. bucket[p] # m /\ ttl[m] = Forever
    BY <1>5, WindowAssumption DEF SetTimeout, TypeOK
  <2> QED BY <1>0, <1>5, <2>1
<1>6. ASSUME NEW p \in Requests, Expire(p)
      PROVE  \E q \in Requests : pc'[q] = "expire" /\ bucket'[q] = m
  BY <1>5, <1>6 DEF Expire, TypeOK
<1>7. ASSUME NEW p \in Requests, ExpireError(p)
      PROVE  \E q \in Requests : pc'[q] = "expire" /\ bucket'[q] = m
  BY <1>5, <1>7 DEF ExpireError, TypeOK
<1>8. ASSUME NEW k \in Minutes, RedisForgets(k)
      PROVE  \E q \in Requests : pc'[q] = "expire" /\ bucket'[q] = m
  <2>1. k # m /\ m \notin broken /\ UNCHANGED <<pc, bucket>>
    BY <1>8 DEF RedisForgets
  <2>2. count'[m] = count[m] /\ ttl'[m] = ttl[m]
    BY <1>8, <2>1 DEF RedisForgets, TypeOK
  <2> QED BY <1>0, <2>1, <2>2
<1>9. ASSUME Tick
      PROVE  \E q \in Requests : pc'[q] = "expire" /\ bucket'[q] = m
  <2>1. count[m] > 0 /\ ttl[m] = Forever
    BY <1>9, WindowAssumption DEF Tick, TypeOK
  <2> QED BY <1>0, <1>9, <2>1 DEF Tick
<1>10. ASSUME UNCHANGED vars
       PROVE  \E q \in Requests : pc'[q] = "expire" /\ bucket'[q] = m
  BY <1>0, <1>10 DEF vars
<1> QED
  BY <1>1, <1>3, <1>4, <1>6, <1>7, <1>8, <1>9, <1>10 DEF Next

\* A key without a timeout is about to get one, unless a failure came between.
THEOREM TimeoutsAreSet == Spec => []KeysGetTimeouts
<1>1. Init => KeysGetTimeouts
  BY DEF Init, KeysGetTimeouts
<1> QED BY <1>1, KeysNext, TypeCorrect, PTL DEF Spec

-----------------------------------------------------------------------------
(* Access *)

LEMMA LimiterInit == AccessInit => Init
BY DEF AccessInit

LEMMA LimiterNext == [AccessNext]_accessVars => [Next]_vars
<1> SUFFICES ASSUME [AccessNext]_accessVars PROVE [Next]_vars
  OBVIOUS
<1>1. ASSUME NEW p \in Requests, NEW t, NEW id, Enforce(p, t, id) PROVE Next
  BY <1>1 DEF Enforce, Next
<1>2. CASE LimiterStep
  BY <1>2 DEF LimiterStep, Next
<1>3. CASE UNCHANGED limiter
  BY <1>3 DEF limiter
<1> QED
  BY <1>1, <1>2, <1>3 DEF AccessNext, Unauthenticated, Unauthorized, Elsewhere, Deny, Handle,
     accessVars

\* Whatever the settings and the tokens, the limiter sees requests as AdminRateLimiter
\* has them.
THEOREM AccessRefines == AccessSpec => Spec
BY LimiterInit, LimiterNext, PTL DEF AccessSpec, Spec

\* What request p has left behind at the stations it has passed.
Trace(p) ==
  /\ pc[p] # "idle" => Entitled(p) /\ answer[p] \notin {401, 403}
  /\ token[p] = "unsent" => pc[p] = "idle" /\ answer[p] = 0
  /\ p \in ran =>
       /\ answer[p] = 200 \/ (answer[p] = 503 /\ needs = "read")
       /\ \E id \in Granted(token[p]) : needs = "read" \/ "write" \in id.roles

AccessInv ==
  /\ config.identities \in Seq(Identity)
  /\ token \in [Requests -> Tokens \cup {NoToken, Garbled, "unsent"}]
  /\ answer \in [Requests -> Nat]
  /\ ran \subseteq Requests
  /\ \A p \in Requests : Trace(p)

LEMMA TraceInit == AccessInit => AccessInv
BY CasesAssumption DEF AccessInit, Init, AccessInv, Trace

\* A request finds the identity that the settings give its token.
LEMMA IdentifiedIsGranted ==
  ASSUME config.identities \in Seq(Identity), NEW t, NEW id \in Identified(t)
  PROVE  id \in Granted(t)
<1> DEFINE listed == {i \in DOMAIN config.identities : config.identities[i].token = t}
           legacy == [label |-> "legacy-admin", token |-> config.legacy,
                      roles |-> {"read", "write"}]
<1>1. PICK i \in Matches(t) : id = Identities[i] /\ \A j \in Matches(t) : i <= j
  BY DEF Identified
<1>2. CASE config.legacy = NoToken
  <2>1. Identities = config.identities /\ Matches(t) = listed
    BY <1>2 DEF Identities, Matches
  <2> QED BY <1>1, <2>1 DEF Granted
<1>3. CASE config.legacy # NoToken
  <2>1. Identities = Append(config.identities, legacy)
    BY <1>3 DEF Identities
  <2>2. /\ Len(config.identities) \in Nat
        /\ DOMAIN config.identities = 1..Len(config.identities)
        /\ DOMAIN Identities = 1..(Len(config.identities) + 1)
        /\ \A j \in DOMAIN config.identities : Identities[j] = config.identities[j]
        /\ Identities[Len(config.identities) + 1] = legacy
    BY <2>1
  <2>3. listed \subseteq Matches(t)
    BY <2>2 DEF Matches
  <2>4. CASE i \in DOMAIN config.identities
    <3>1. i \in listed /\ id = config.identities[i] /\ \A j \in listed : i <= j
      BY <1>1, <2>2, <2>3, <2>4 DEF Matches
    <3> QED BY <3>1 DEF Granted
  <2>5. CASE i \notin DOMAIN config.identities
    <3>1. i = Len(config.identities) + 1 /\ id = legacy /\ t = config.legacy
      BY <1>1, <2>2, <2>5 DEF Matches
    <3>2. listed = {}
      BY <1>1, <2>2, <2>3, <3>1
    <3> QED BY <1>3, <3>1, <3>2 DEF Granted
  <2> QED BY <2>4, <2>5
<1> QED BY <1>2, <1>3

\* A step about one request leaves the traces of the others.
LEMMA TraceOfOthers ==
  ASSUME NEW q \in Requests, Trace(q), UNCHANGED <<config, needs>>,
         pc'[q] = pc[q], token'[q] = token[q], answer'[q] = answer[q],
         q \in ran' <=> q \in ran
  PROVE  Trace(q)'
<1>1. /\ Entitled(q)' <=> Entitled(q)
      /\ Granted(token[q])' = Granted(token[q])
  BY DEF Entitled, Granted, HasAccess
<1> QED BY <1>1 DEF Trace

LEMMA TraceNext == TypeOK /\ AccessInv /\ [AccessNext]_accessVars => AccessInv'
<1> SUFFICES ASSUME TypeOK, AccessInv, [AccessNext]_accessVars PROVE AccessInv'
  OBVIOUS
<1> USE DEF access, limiter, vars, clock, redis
<1>a. ASSUME NEW p \in Requests, NEW t \in Tokens \cup {NoToken, Garbled}, Send(p, t)
      PROVE  /\ token' \in [Requests -> Tokens \cup {NoToken, Garbled, "unsent"}]
             /\ token'[p] = t /\ t # "unsent"
             /\ \A q \in Requests \ {p} : token'[q] = token[q]
             /\ pc[p] = "idle" /\ answer[p] = 0 /\ p \notin ran
             /\ UNCHANGED <<config, needs, Granted(t)>>
  <2>1. /\ token \in [Requests -> Tokens \cup {NoToken, Garbled, "unsent"}]
        /\ token[p] = "unsent" /\ Trace(p)
    BY <1>a DEF AccessInv, Send
  <2>2. /\ token' \in [Requests -> Tokens \cup {NoToken, Garbled, "unsent"}]
        /\ token'[p] = t
        /\ \A q \in Requests \ {p} : token'[q] = token[q]
    BY <1>a, <2>1 DEF Send
  <2>3. pc[p] = "idle" /\ answer[p] = 0 /\ p \notin ran
    BY <2>1 DEF Trace
  <2>4. UNCHANGED <<config, needs, Granted(t)>>
    BY <1>a DEF Send, Granted
  <2> QED BY <2>2, <2>3, <2>4, TokensAssumption
<1>b. ASSUME NEW p \in Requests, NEW o, Respond(p, o), Status(o) \in Nat
      PROVE  /\ answer' \in [Requests -> Nat] /\ answer'[p] = Status(o)
             /\ \A q \in Requests \ {p} : answer'[q] = answer[q]
  <2>1. answer \in [Requests -> Nat]
    BY DEF AccessInv
  <2> QED BY <1>b, <2>1 DEF Respond
<1>c. \A q \in Requests : Trace(q)
  BY DEF AccessInv
<1>d. ASSUME NEW p \in Requests, Serve(p), p \notin ran
      PROVE  /\ answer' \in [Requests -> Nat] /\ ran' \subseteq Requests
             /\ answer'[p] = 200 \/ (answer'[p] = 503 /\ (p \in ran' => needs = "read"))
             /\ \A q \in Requests \ {p} : answer'[q] = answer[q] /\ (q \in ran' <=> q \in ran)
  <2>1. ran \subseteq Requests
    BY DEF AccessInv
  <2>2. CASE Respond(p, "invalid") /\ UNCHANGED ran
    BY <1>b, <1>d, <2>1, <2>2 DEF Status
  <2>3. ASSUME NEW o \in Outcomes, Respond(p, o), ran' = ran \cup {p}
        PROVE  /\ answer' \in [Requests -> Nat] /\ ran' \subseteq Requests
               /\ answer'[p] = 200 \/ (answer'[p] = 503 /\ (p \in ran' => needs = "read"))
               /\ \A q \in Requests \ {p} : answer'[q] = answer[q] /\ (q \in ran' <=> q \in ran)
    <3>1. Status(o) = 200 \/ (Status(o) = 503 /\ needs = "read")
      <4>1. o = "answered" \/ (o = "unhealthy" /\ needs = "read")
        BY <2>3 DEF Outcomes
      <4>2. Status("answered") = 200 /\ Status("unhealthy") = 503
        BY DEF Status
      <4> QED BY <4>1, <4>2
    <3> QED BY <1>b, <2>1, <2>3, <3>1
  <2> QED BY <1>d, <2>2, <2>3 DEF Serve
<1>1. ASSUME NEW p \in Requests, NEW t \in Tokens \cup {NoToken, Garbled},
             NEW o \in {"unexpected", "unauthenticated", "unauthorized", "limited", "limiterDown"},
             Send(p, t), Respond(p, o), UNCHANGED <<limiter, ran>>
      PROVE  AccessInv'
  <2>1. Status(o) \in Nat
    BY <1>1 DEF Status
  <2>2. Trace(p)'
    BY <1>1, <1>a DEF Trace
  <2>3. \A q \in Requests \ {p} : Trace(q)'
    BY <1>1, <1>a, <1>b, <1>c, <2>1, TraceOfOthers
  <2> QED BY <1>1, <1>a, <1>b, <2>1, <2>2, <2>3 DEF AccessInv
<1>2. ASSUME NEW p \in Requests, NEW t \in Tokens \cup {NoToken, Garbled},
             NEW id \in Identified(t), Enforce(p, t, id)
      PROVE  AccessInv'
  <2>0. Send(p, t) /\ Stamp(p) /\ UNCHANGED <<answer, ran>> /\ HasAccess(id) /\ id.label = Watched
    BY <1>2 DEF Enforce
  <2>1. Entitled(p)'
    <3>1. id \in Granted(t)
      BY IdentifiedIsGranted DEF AccessInv
    <3>2. HasAccess(id)' <=> HasAccess(id)
      BY <1>a, <2>0 DEF HasAccess
    <3>3. Granted(token[p])' = Granted(t)
      BY <1>a, <2>0 DEF Granted
    <3> QED BY <2>0, <3>1, <3>2, <3>3 DEF Entitled
  <2>2. Trace(p)'
    BY <1>a, <2>0, <2>1 DEF Trace
  <2>3. \A q \in Requests \ {p} : pc'[q] = pc[q]
    BY <2>0 DEF Stamp, TypeOK
  <2>4. \A q \in Requests \ {p} : Trace(q)'
    BY <1>a, <1>c, <2>0, <2>3, TraceOfOthers
  <2> QED BY <1>a, <2>0, <2>2, <2>4 DEF AccessInv
<1>3. ASSUME NEW p \in Requests, NEW t \in Tokens \cup {NoToken, Garbled},
             NEW id \in Identified(t), Elsewhere(p, t, id)
      PROVE  AccessInv'
  <2>1. CASE \/ Respond(p, "limited") /\ UNCHANGED ran
             \/ Respond(p, "limiterDown") /\ UNCHANGED ran
    BY <1>1, <1>3, <2>1 DEF Elsewhere
  <2>2. CASE Serve(p)
    <3>0. Send(p, t) /\ HasAccess(id) /\ UNCHANGED limiter
      BY <1>3 DEF Elsewhere
    <3>1. id \in Granted(t)
      BY IdentifiedIsGranted DEF AccessInv
    <3>a. Granted(token[p])' = Granted(t) /\ needs' = needs
      BY <1>a, <3>0 DEF Granted
    <3>2. id \in Granted(token[p])' /\ (needs' = "read" \/ "write" \in id.roles)
      BY <3>0, <3>1, <3>a DEF HasAccess
    <3>3. Trace(p)'
      BY <1>a, <1>d, <2>2, <3>0, <3>2 DEF Trace
    <3>4. \A q \in Requests \ {p} : Trace(q)'
      BY <1>a, <1>c, <1>d, <2>2, <3>0, TraceOfOthers
    <3> QED BY <1>a, <1>d, <2>2, <3>0, <3>3, <3>4 DEF AccessInv
  <2> QED BY <1>3, <2>1, <2>2 DEF Elsewhere
<1>4. ASSUME NEW p \in Requests, Deny(p) PROVE AccessInv'
  <2>1. /\ pc[p] \in {"refused", "unavailable"} /\ answer[p] = 0
        /\ UNCHANGED <<limiter, config, needs, token, ran>>
        /\ \E o \in {"limited", "limiterDown"} : Respond(p, o)
    BY <1>4 DEF Deny
  <2>2. /\ answer' \in [Requests -> Nat] /\ answer'[p] \in {429, 503}
        /\ \A q \in Requests \ {p} : answer'[q] = answer[q]
    BY <1>b, <2>1 DEF Status
  <2>3. Trace(p)'
    <3>1. Entitled(p)' <=> Entitled(p)
      BY <2>1 DEF Entitled, Granted, HasAccess
    <3> QED BY <1>c, <2>1, <2>2, <3>1 DEF Trace
  <2>4. \A q \in Requests \ {p} : Trace(q)'
    BY <1>c, <2>1, <2>2, TraceOfOthers
  <2> QED BY <2>1, <2>2, <2>3, <2>4 DEF AccessInv
<1>5. ASSUME NEW p \in Requests, Handle(p) PROVE AccessInv'
  <2>1. /\ pc[p] = "admitted" /\ answer[p] = 0 /\ Serve(p)
        /\ UNCHANGED <<limiter, config, needs, token>> /\ Trace(p)
    BY <1>5, <1>c DEF Handle
  <2>2. p \notin ran /\ Entitled(p) /\ token[p] # "unsent"
    BY <2>1 DEF Trace
  <2>3. Trace(p)'
    <3>1. /\ Entitled(p)' <=> Entitled(p)
          /\ Granted(token[p])' = Granted(token[p])
      BY <2>1 DEF Entitled, Granted, HasAccess
    <3>2. \E id \in Granted(token[p]) : needs = "read" \/ "write" \in id.roles
      BY <2>2 DEF Entitled, HasAccess
    <3> QED BY <1>d, <2>1, <2>2, <3>1, <3>2 DEF Trace
  <2>4. \A q \in Requests \ {p} : Trace(q)'
    BY <1>c, <1>d, <2>1, <2>2, TraceOfOthers
  <2> QED BY <1>d, <2>1, <2>2, <2>3, <2>4 DEF AccessInv
<1>6. CASE LimiterStep
  <2>1. UNCHANGED access
    BY <1>6 DEF LimiterStep
  <2>2. \A q \in Requests : pc'[q] = pc[q] \/ (pc[q] # "idle" /\ pc'[q] # "idle")
    <3>1. ASSUME NEW p \in Requests, Incr(p) \/ IncrError(p) \/ Expire(p) \/ ExpireError(p)
          PROVE  \A q \in Requests : pc'[q] = pc[q] \/ (pc[q] # "idle" /\ pc'[q] # "idle")
      <4>1. pc[p] \in {"incr", "expire"}
        BY <3>1 DEF Incr, IncrError, Expire, ExpireError
      <4>2. PICK v \in Ended \cup {"expire"} : pc' = [pc EXCEPT ![p] = v]
        BY <3>1 DEF Incr, IncrError, Expire, ExpireError, Verdict, Ended
      <4>3. \A q \in Requests : pc'[q] = IF q = p THEN v ELSE pc[q]
        BY <4>2 DEF TypeOK
      <4> QED BY <4>1, <4>3 DEF Ended
    <3>2. ASSUME NEW m \in Minutes, RedisForgets(m)
          PROVE  pc' = pc
      BY <3>2 DEF RedisForgets
    <3>3. ASSUME Tick
          PROVE  pc' = pc
      BY <3>3 DEF Tick
    <3>4. CASE \E p \in Requests : Incr(p) \/ IncrError(p) \/ Expire(p) \/ ExpireError(p)
      BY <3>1, <3>4
    <3>5. CASE (\E m \in Minutes : RedisForgets(m)) \/ Tick
      BY <3>2, <3>3, <3>5
    <3> QED BY <1>6, <3>4, <3>5 DEF LimiterStep
  <2>3. ASSUME NEW q \in Requests PROVE Trace(q)'
    <3>1. /\ Entitled(q)' <=> Entitled(q)
          /\ Granted(token[q])' = Granted(token[q])
      BY <2>1 DEF Entitled, Granted, HasAccess
    <3> QED BY <1>c, <2>1, <2>2, <3>1 DEF Trace
  <2> QED BY <2>1, <2>3 DEF AccessInv
<1>7. CASE UNCHANGED accessVars
  BY <1>7, <1>c, TraceOfOthers DEF accessVars, AccessInv
<1>8. ASSUME NEW p \in Requests, NEW t \in Tokens \cup {NoToken, Garbled}, Unauthenticated(p, t)
      PROVE  AccessInv'
  BY <1>1, <1>8 DEF Unauthenticated
<1>9. ASSUME NEW p \in Requests, NEW t \in Tokens \cup {NoToken, Garbled}, NEW id,
             Unauthorized(p, t, id)
      PROVE  AccessInv'
  BY <1>1, <1>9 DEF Unauthorized
<1> QED
  BY <1>2, <1>3, <1>4, <1>5, <1>6, <1>7, <1>8, <1>9 DEF AccessNext

LEMMA AccessInvariant == AccessSpec => [](TypeOK /\ CallInv /\ AccessInv)
<1>1. Spec => [](TypeOK /\ CallInv)
  BY TypeCorrect, CallInit, CallNext, PTL DEF Spec
<1> QED BY <1>1, AccessRefines, TraceInit, TraceNext, PTL DEF AccessSpec

\* Only requests with the role count towards a refusal.
THEOREM RefusedByItsOwn == AccessSpec => []RefusedByEntitled
<1>1. TypeOK /\ CallInv /\ AccessInv /\ RefusalsJustified => RefusedByEntitled
  <2> SUFFICES ASSUME TypeOK, CallInv, AccessInv, RefusalsJustified,
                      NEW p \in Requests, pc[p] = "refused"
               PROVE  Cardinality({q \in Requests :
                                     bucket[q] = bucket[p] /\ current[q] > 0 /\ Entitled(q)}) > Limit
    BY DEF RefusedByEntitled
  <2>1. ASSUME NEW q \in Requests, current[q] > 0 PROVE Entitled(q)
    <3>1. pc[q] # "idle"
      BY <2>1 DEF CallInv
    <3> QED BY <3>1 DEF AccessInv, Trace
  <2>2. {q \in Requests : bucket[q] = bucket[p] /\ current[q] > 0 /\ Entitled(q)}
          = {q \in Requests : bucket[q] = bucket[p] /\ current[q] > 0}
    BY <2>1
  <2> QED BY <2>2 DEF RefusalsJustified
<1> QED BY <1>1, AccessInvariant, AccessRefines, RefusalsAreJustified, PTL

\* An answer tells what has happened.
THEOREM AnswersAreTrue == AccessSpec => []AnswersTellEffects
<1>1. CallInv /\ AccessInv => AnswersTellEffects
  <2> SUFFICES ASSUME CallInv, AccessInv, NEW p \in Requests
               PROVE  /\ answer[p] \in {401, 403} => current[p] = 0
                      /\ answer[p] \in {401, 403, 429} => p \notin ran
                      /\ answer[p] = 503 /\ needs = "write" => p \notin ran
                      /\ p \in ran =>
                           \E id \in Granted(token[p]) :
                             needs = "read" \/ "write" \in id.roles
    BY DEF AnswersTellEffects
  <2>1. Trace(p) /\ (pc[p] = "idle" => current[p] = 0)
    BY DEF AccessInv, CallInv
  <2> QED BY <2>1 DEF Trace
<1> QED BY <1>1, AccessInvariant, PTL

\* The limit holds behind the checks of tokens and roles.
THEOREM AccessLimit == AccessSpec => []WindowLimit
BY AccessRefines, LimitHolds
=============================================================================
