-------------------------- MODULE ExternalCallsProofs --------------------------
(***************************************************************************)
(* ExternalCalls for any limits, timeouts, waits and lock timeout that     *)
(* satisfy its assumptions: where the object is, and how long it all takes.*)
(***************************************************************************)
EXTENDS ExternalCalls, TLAPS

-----------------------------------------------------------------------------
(* Types *)

LEMMA CallTypes ==
  \A c \in Calls : /\ Tries(c) \in Nat \ {0}
                   /\ TryTime[c] \in Nat
                   /\ MaxWait[c] \in Nat \ {0}
BY TriesAssumption, TimesAssumption DEF Tries

\* A step that takes time has a next elapsed time in its domain.
LEMMA SpendType ==
  ASSUME NEW d \in Nat, elapsed \in 0..(LockTimeout + 1), Spend(d)
  PROVE  elapsed' \in 0..(LockTimeout + 1)
BY LeaseAssumption DEF Spend, LeaseCoversCalls

LEMMA TypeInit == Init => TypeOK
<1> SUFFICES ASSUME Init PROVE TypeOK
  OBVIOUS
<1>1. 0 \in 0..(LockTimeout + 1)
  BY LeaseAssumption DEF LeaseCoversCalls
<1>2. waiting \in BOOLEAN /\ ~waiting /\ stored \in BOOLEAN /\ late \in BOOLEAN
  BY DEF Init
<1> QED BY <1>1, <1>2 DEF Init, TypeOK, Calls, ProviderCalls

\* The bucket's state after a request is a state.
LEMMA ApplyType ==
  ASSUME NEW r, Apply(r), net \subseteq StorageCalls \X Nat
  PROVE  stored' \in BOOLEAN /\ net' \subseteq StorageCalls \X Nat
<1>1. stored' \in BOOLEAN
  BY Zenon DEF Apply
<1> QED BY <1>1 DEF Apply

LEMMA TypeNext == TypeOK /\ [Next]_vars => TypeOK'
<1> SUFFICES ASSUME TypeOK, [Next]_vars PROVE TypeOK'
  OBVIOUS
<1>a. \A d \in Nat : Spend(d) => elapsed' \in 0..(LockTimeout + 1)
  BY SpendType DEF TypeOK
<1>b. at \in Calls => /\ 0..TryTime[at] \subseteq Nat
                      /\ \A d \in 0..TryTime[at], w \in 1..MaxWait[at] : d + w \in Nat
  BY CallTypes
<1> USE DEF TypeOK, storage, Enter
<1>1. CASE Send
  BY <1>1 DEF Send
<1>2. CASE ProviderAnswers \/ ProviderRefuses
  <2>1. elapsed' \in 0..(LockTimeout + 1)
    BY <1>2, <1>a, <1>b DEF ProviderAnswers, ProviderRefuses
  <2>2. /\ at' \in {"image", "put", "failed"} /\ ~waiting' /\ tries' = 0
        /\ UNCHANGED <<net, stored, cleanup, late>>
    BY <1>2 DEF ProviderAnswers, ProviderRefuses
  <2>3. waiting' \in BOOLEAN
    BY <1>2 DEF ProviderAnswers, ProviderRefuses
  <2> QED BY <2>1, <2>2, <2>3 DEF Calls, ProviderCalls, StorageCalls
<1>3. CASE BucketAnswers
  <2>1. elapsed' \in 0..(LockTimeout + 1)
    BY <1>3, <1>a, <1>b DEF BucketAnswers
  <2>2. stored' \in BOOLEAN /\ net' \subseteq StorageCalls \X Nat
    BY <1>3, ApplyType DEF BucketAnswers
  <2>3. at' \in {"persist", "failed"} /\ tries' = 0 /\ ~waiting'
        /\ cleanup' \in {cleanup, "deleted_orphaned_object"}
    BY <1>3 DEF BucketAnswers
  <2>4. waiting' \in BOOLEAN /\ late' \in BOOLEAN
    BY <1>3, Zenon DEF BucketAnswers
  <2> QED BY <2>1, <2>2, <2>3, <2>4
<1>4. CASE Retry
  <2>1. elapsed' \in 0..(LockTimeout + 1)
    BY <1>4, <1>a, <1>b DEF Retry, TryFails
  <2> QED BY <1>4, <2>1 DEF Retry, TryFails
<1>5. CASE Raise
  <2>1. elapsed' \in 0..(LockTimeout + 1)
    BY <1>5, <1>a, <1>b DEF Raise, TryFails
  <2> QED BY <1>5, <2>1 DEF Raise, TryFails, AfterLast, Calls, StorageCalls
<1>6. CASE Persist
  <2>1. waiting' \in BOOLEAN /\ ~waiting' /\ at' \in {"recipe", "delete"} /\ tries' = 0
    BY <1>6 DEF Persist
  <2> QED BY <1>6, <2>1 DEF Persist, Calls, StorageCalls
<1>7. ASSUME NEW r \in net, Stray(r) PROVE TypeOK'
  <2>1. stored' \in BOOLEAN /\ net' \subseteq StorageCalls \X Nat
    BY <1>7, ApplyType DEF Stray
  <2> QED BY <1>7, <2>1 DEF Stray
<1>8. CASE UNCHANGED vars
  BY <1>8 DEF vars
<1> QED BY <1>1, <1>2, <1>3, <1>4, <1>5, <1>6, <1>7, <1>8 DEF Next, Client

\* Every variable of an attempt stays in its domain, and a try under way is one of
\* the four calls'.
THEOREM TypeCorrect == Spec => []TypeOK
BY TypeInit, TypeNext, PTL DEF Spec

-----------------------------------------------------------------------------
(* The object in the bucket *)

\* No upload is under way before the upload, no delete before the delete; and a
\* failed attempt without an excuse has neither an object nor an upload under way.
ObjectInv ==
  /\ at \in ProviderCalls => net = {} /\ ~stored
  /\ at \in {"persist", "recipe"} => stored
  /\ at \notin {"delete", "failed"} => \A r \in net : r[1] = "put"
  /\ at = "failed" =>
       cleanup = "delete_failed" \/ late \/ (~stored /\ Uploads = {})

LEMMA ObjectInit == Init => ObjectInv
BY DEF Init, ObjectInv, ProviderCalls

LEMMA ObjectNext == TypeOK /\ ObjectInv /\ [Next]_vars => ObjectInv'
<1> SUFFICES ASSUME TypeOK, ObjectInv, [Next]_vars PROVE ObjectInv'
  OBVIOUS
<1> USE DEF TypeOK, ObjectInv, storage, Enter, Calls, ProviderCalls, StorageCalls, Uploads
<1>1. CASE Send
  BY <1>1 DEF Send
<1>2. CASE ProviderAnswers \/ ProviderRefuses
  BY <1>2 DEF ProviderAnswers, ProviderRefuses
<1>3. CASE BucketAnswers
  <2>1. CASE at = "put"
    BY <1>3, <2>1 DEF BucketAnswers, Apply, Request
  <2>2. CASE at = "delete"
    BY <1>3, <2>2 DEF BucketAnswers, Apply, Request
  <2> QED BY <1>3, <2>1, <2>2 DEF BucketAnswers
<1>4. CASE Retry
  BY <1>4 DEF Retry, TryFails
<1>5. CASE Raise
  <2>1. CASE at \in ProviderCalls
    BY <1>5, <2>1 DEF Raise, TryFails, AfterLast
  <2>2. CASE at \in StorageCalls
    BY <1>5, <2>2 DEF Raise, TryFails, AfterLast
  <2> QED BY <1>5, <2>1, <2>2 DEF Raise, TryFails
<1>6. CASE Persist
  BY <1>6 DEF Persist
<1>7. ASSUME NEW r \in net, Stray(r) PROVE ObjectInv'
  BY <1>7 DEF Stray, Apply
<1>8. CASE UNCHANGED vars
  BY <1>8 DEF vars
<1> QED BY <1>1, <1>2, <1>3, <1>4, <1>5, <1>6, <1>7, <1>8 DEF Next, Client

LEMMA ObjectAlways == Spec => []ObjectInv
BY TypeCorrect, ObjectInit, ObjectNext, PTL DEF Spec

\* The image of a recipe is in the bucket from the upload's answer on: a delete is
\* only ever under way for an attempt that has failed, and a late upload restores
\* what is there.
THEOREM RecipeKeepsImage == Spec => []ImageStays
<1>1. ObjectInv => ImageStays
  BY DEF ObjectInv, ImageStays
<1> QED BY <1>1, ObjectAlways, PTL

\* A failed attempt's object is explained by a failed delete or by an upload that
\* was still under way when the delete was answered.
THEOREM NoUnexplainedOrphan == Spec => []OrphansExplained
<1>1. ObjectInv => OrphansExplained
  BY DEF ObjectInv, OrphansExplained
<1> QED BY <1>1, ObjectAlways, PTL

-----------------------------------------------------------------------------
(* The time an attempt takes *)

\* n tries of t with a wait of w after all but the last are within the bound for
\* any larger number of tries.
LEMMA TriesTime ==
  ASSUME NEW n \in Nat \ {0}, NEW N \in Nat \ {0}, NEW t \in Nat, NEW w \in Nat, n <= N
  PROVE  (n - 1) * (t + w) + t <= N * t + (N - 1) * w
<1>1. PICK k \in Nat : N = n + k
  <2>1. N - n \in Nat /\ N = n + (N - n)
    OBVIOUS
  <2> QED BY <2>1
<1>2. k * (t + w) \in Nat
  OBVIOUS
<1>3. N * t + (N - 1) * w = (n - 1) * (t + w) + t + k * (t + w)
  BY <1>1
<1>4. (n - 1) * (t + w) \in Int /\ N * t + (N - 1) * w \in Int
  OBVIOUS
<1> QED BY <1>2, <1>3, <1>4

\* What the calls before c may have taken.
Before(c) ==
  CASE c = "text"  -> 0
    [] c = "image" -> Longest("text")
    [] c = "put"   -> Longest("text") + Longest("image")
    [] OTHER       -> Longest("text") + Longest("image") + Longest("put")

\* Tries of the present call that are over, each with the wait after it.
Over == IF waiting THEN tries - 1 ELSE tries

TimeInv ==
  /\ at \in Calls =>
       /\ Over \in 0..(Tries(at) - 1)
       /\ elapsed <= Before(at) + Over * (TryTime[at] + MaxWait[at])
  /\ at = "persist" => elapsed <= Before("delete")
  /\ elapsed <= LockTimeout

LEMMA LongestType == \A c \in Calls : Longest(c) \in Nat
<1> TAKE c \in Calls
<1>1. Tries(c) - 1 \in Nat /\ Tries(c) \in Nat /\ TryTime[c] \in Nat /\ MaxWait[c] \in Nat
  BY CallTypes
<1> QED BY <1>1 DEF Longest

\* After a call, however it ended, the time is within the next one's Before.
LEMMA CallTime ==
  ASSUME TypeOK, TimeInv, waiting, NEW d \in 0..TryTime[at], Spend(d)
  PROVE  /\ elapsed' <= Before(at) + Longest(at)
         /\ elapsed' <= LockTimeout
         /\ elapsed' \in Nat
<1>1. at \in Calls /\ tries \in Nat
  BY DEF TypeOK
<1>2. /\ Tries(at) \in Nat \ {0} /\ TryTime[at] \in Nat /\ MaxWait[at] \in Nat
      /\ tries \in Nat \ {0} /\ tries <= Tries(at)
  BY <1>1, CallTypes DEF TimeInv, Over
<1>3. (tries - 1) * (TryTime[at] + MaxWait[at]) + TryTime[at] <= Longest(at)
  BY <1>2, TriesTime DEF Longest
<1>4. Longest("text") \in Nat /\ Longest("image") \in Nat
      /\ Longest("put") \in Nat /\ Longest("delete") \in Nat
  BY LongestType DEF Calls, ProviderCalls, StorageCalls
<1>5. /\ Before(at) \in Nat /\ Longest(at) \in Nat
      /\ Before(at) + Longest(at) <= LockTimeout
  BY <1>1, <1>4, LeaseAssumption
     DEF Before, LeaseCoversCalls, Calls, ProviderCalls, StorageCalls
<1>6. (tries - 1) * (TryTime[at] + MaxWait[at]) \in Nat
  <2>1. tries - 1 \in Nat /\ TryTime[at] + MaxWait[at] \in Nat
    BY <1>2
  <2> QED BY <2>1
<1>7. elapsed \in Nat /\ elapsed + d <= Before(at) + Longest(at) /\ d \in Nat
  BY <1>1, <1>2, <1>3, <1>5, <1>6 DEF TypeOK, TimeInv, Over
<1> QED BY <1>5, <1>7, LeaseAssumption DEF Spend, LeaseCoversCalls

LEMMA TimeInit == Init => TimeInv
<1> SUFFICES ASSUME Init PROVE TimeInv
  OBVIOUS
<1>1. at = "text" /\ at \in Calls /\ Over = 0 /\ elapsed = 0 /\ Before(at) = 0
  BY DEF Init, Calls, ProviderCalls, Over, Before
<1>2. 0 \in 0..(Tries(at) - 1) /\ 0 * (TryTime[at] + MaxWait[at]) = 0
  BY <1>1, CallTypes
<1> QED BY <1>1, <1>2, LeaseAssumption DEF TimeInv, LeaseCoversCalls

\* A new call begins, or the attempt ends, when the time is right for it.
LEMMA EnterTime ==
  ASSUME NEW c \in {"image", "put", "delete", "persist", "recipe", "failed"}, Enter(c),
         elapsed' \in Nat, elapsed' <= LockTimeout,
         c \in Calls => elapsed' <= Before(c),
         c = "persist" => elapsed' <= Before("delete")
  PROVE  TimeInv'
<1>1. CASE c \in Calls
  <2>1. at' = c /\ Over' = 0 /\ at' \in Calls /\ at' # "persist"
    BY <1>1 DEF Enter, Over, Calls, ProviderCalls, StorageCalls
  <2>2. /\ Tries(c) \in Nat \ {0} /\ TryTime[c] \in Nat /\ MaxWait[c] \in Nat
    BY <1>1, CallTypes
  <2>3. 0 \in 0..(Tries(c) - 1) /\ 0 * (TryTime[c] + MaxWait[c]) = 0
    BY <2>2
  <2>4. Before(c) \in Nat
    BY <1>1, LongestType DEF Before, Calls, ProviderCalls, StorageCalls
  <2> QED BY <2>1, <2>3, <2>4, <1>1 DEF TimeInv
<1>2. CASE c \notin Calls
  BY <1>2 DEF Enter, TimeInv
<1> QED BY <1>1, <1>2

LEMMA TimeNext == TypeOK /\ TypeOK' /\ TimeInv /\ [Next]_vars => TimeInv'
<1> SUFFICES ASSUME TypeOK, TypeOK', TimeInv, [Next]_vars PROVE TimeInv'
  OBVIOUS
<1>a. /\ Before("image") = Before("text") + Longest("text")
      /\ Before("put") = Before("image") + Longest("image")
      /\ Before("delete") = Before("put") + Longest("put")
      /\ \A c \in Calls : Before(c) \in Nat /\ Longest(c) \in Nat
  BY LongestType DEF Before, Calls, ProviderCalls, StorageCalls
<1>b. elapsed' \in Nat
  BY DEF TypeOK
<1>1. CASE Send
  <2>1. /\ at' = at /\ Over' = Over /\ elapsed' = elapsed /\ at \in Calls
    BY <1>1 DEF Send, Over, TypeOK
  <2> QED BY <2>1 DEF TimeInv
<1>2. CASE ProviderAnswers
  <2>1. elapsed' <= Before(at) + Longest(at) /\ elapsed' <= LockTimeout
    BY <1>2, CallTime DEF ProviderAnswers
  <2>2. CASE at = "text"
    BY <1>2, <2>1, <2>2, <1>a, <1>b, EnterTime DEF ProviderAnswers
  <2>3. CASE at = "image"
    BY <1>2, <2>1, <2>3, <1>a, <1>b, EnterTime DEF ProviderAnswers
  <2> QED BY <1>2, <2>2, <2>3 DEF ProviderAnswers, ProviderCalls
<1>3. CASE ProviderRefuses
  <2>1. elapsed' <= LockTimeout
    BY <1>3, CallTime DEF ProviderRefuses
  <2> QED BY <1>3, <2>1, <1>b, EnterTime
          DEF ProviderRefuses, Calls, ProviderCalls, StorageCalls
<1>4. CASE BucketAnswers
  <2>1. elapsed' <= Before(at) + Longest(at) /\ elapsed' <= LockTimeout
    BY <1>4, CallTime DEF BucketAnswers
  <2>2. CASE at = "put"
    BY <1>4, <2>1, <2>2, <1>a, <1>b, EnterTime
       DEF BucketAnswers, Calls, ProviderCalls, StorageCalls
  <2>3. CASE at = "delete"
    BY <1>4, <2>1, <2>3, <1>b, EnterTime
       DEF BucketAnswers, Calls, ProviderCalls, StorageCalls
  <2> QED BY <1>4, <2>2, <2>3 DEF BucketAnswers, StorageCalls
<1>5. CASE Retry
  <2>1. at \in Calls /\ tries \in Nat \ {0} /\ tries < Tries(at) /\ waiting
        /\ Tries(at) \in Nat /\ TryTime[at] \in Nat /\ MaxWait[at] \in Nat
    BY <1>5, CallTypes DEF Retry, TryFails, Exhausted, TypeOK, TimeInv, Over
  <2>2. PICK d \in 0..TryTime[at], w \in 1..MaxWait[at] : Spend(d + w)
    BY <1>5 DEF Retry
  <2>3. (tries - 1) * (TryTime[at] + MaxWait[at]) + TryTime[at] + MaxWait[at]
          = tries * (TryTime[at] + MaxWait[at])
    BY <2>1
  <2>4. /\ (tries - 1) * (TryTime[at] + MaxWait[at]) \in Int
        /\ tries * (TryTime[at] + MaxWait[at]) \in Int
        /\ elapsed \in Int /\ d \in Int /\ w \in Int
        /\ d <= TryTime[at] /\ w <= MaxWait[at]
    BY <2>1, <2>2 DEF TypeOK
  <2>5. elapsed <= Before(at) + (tries - 1) * (TryTime[at] + MaxWait[at])
    BY <2>1 DEF TimeInv, Over
  <2>6. elapsed + (d + w) <= Before(at) + tries * (TryTime[at] + MaxWait[at])
    BY <2>1, <2>3, <2>4, <2>5, <1>a
  <2>7. tries * (TryTime[at] + MaxWait[at]) <= Longest(at)
    <3>1. (tries + 1 - 1) * (TryTime[at] + MaxWait[at]) + TryTime[at] <= Longest(at)
      BY <2>1, TriesTime DEF Longest
    <3>2. tries + 1 - 1 = tries
      BY <2>1
    <3> QED BY <2>1, <2>4, <3>1, <3>2, <1>a
  <2>8. Before(at) + Longest(at) <= LockTimeout /\ LockTimeout \in Nat
    BY <2>1, LongestType, LeaseAssumption
       DEF Before, LeaseCoversCalls, Calls, ProviderCalls, StorageCalls
  <2>9. elapsed' = elapsed + (d + w)
    BY <2>1, <2>2, <2>4, <2>6, <2>7, <2>8, <1>a DEF Spend
  <2>10. at' = at /\ Over' = tries /\ at # "persist"
    BY <1>5, <2>1 DEF Retry, Over, Calls, ProviderCalls, StorageCalls
  <2> QED BY <2>1, <2>4, <2>6, <2>7, <2>8, <2>9, <2>10, <1>a DEF TimeInv
<1>6. CASE Raise
  <2>1. elapsed' <= Before(at) + Longest(at) /\ elapsed' <= LockTimeout /\ at \in Calls
    BY <1>6, CallTime DEF Raise, TryFails, TypeOK
  <2>2. CASE at = "put"
    BY <1>6, <2>1, <2>2, <1>a, <1>b, EnterTime DEF Raise, AfterLast
  <2>3. CASE at # "put"
    BY <1>6, <2>1, <2>3, <1>b, EnterTime
       DEF Raise, AfterLast, Calls, ProviderCalls, StorageCalls
  <2> QED BY <2>2, <2>3
<1>7. CASE Persist
  <2>1. elapsed' = elapsed /\ elapsed <= Before("delete") /\ elapsed <= LockTimeout
    BY <1>7 DEF Persist, TimeInv
  <2> QED BY <1>7, <2>1, <1>b, EnterTime DEF Persist, Calls, ProviderCalls, StorageCalls
<1>8. CASE UNCHANGED <<at, waiting, tries, elapsed>>
  BY <1>8 DEF TimeInv, Over
<1> QED BY <1>1, <1>2, <1>3, <1>4, <1>5, <1>6, <1>7, <1>8
        DEF Next, Client, Stray, vars

\* No attempt takes longer than the lock, for any limits and timeouts whose sum it
\* covers.
THEOREM AttemptsFitTheLease == Spec => []WithinLease
<1>1. TimeInv => WithinLease
  BY DEF TimeInv, WithinLease
<1> QED BY <1>1, TimeInit, TimeNext, TypeCorrect, PTL DEF Spec

-----------------------------------------------------------------------------
(* Why an attempt ends *)

\* The steps the client has left at most, once it is done with the call c: a request
\* and its end for every try, and the transaction of _persist_success.
After(c) ==
  CASE c = "text"  -> 2 * Tries("image") + 2 * Tries("put") + 1 + 2 * Tries("delete")
    [] c = "image" -> 2 * Tries("put") + 1 + 2 * Tries("delete")
    [] c = "put"   -> 1 + 2 * Tries("delete")
    [] OTHER       -> 0

Remaining ==
  CASE at \in Calls    -> 2 * (Tries(at) - tries) + (IF waiting THEN 1 ELSE 0) + After(at)
    [] at = "persist"  -> 1 + 2 * Tries("delete")
    [] OTHER           -> 0

\* Whatever a try comes to, the client is a step nearer to the end; what happens
\* in the bucket behind its back does not put it off.
StepsRunOut ==
  /\ Client => Remaining' < Remaining
  /\ ~Client => Remaining' = Remaining

LEMMA RemainingType == TypeOK /\ TimeInv => Remaining \in Nat
<1> SUFFICES ASSUME TypeOK, TimeInv PROVE Remaining \in Nat
  OBVIOUS
<1>1. \A c \in Calls : Tries(c) \in Nat \ {0} /\ After(c) \in Nat
  BY CallTypes DEF After, Calls, ProviderCalls, StorageCalls
<1>2. at \in Calls => tries \in 0..Tries(at)
  BY <1>1 DEF TypeOK, TimeInv, Over
<1> QED BY <1>1, <1>2 DEF Remaining, Calls, ProviderCalls, StorageCalls

\* The first request of a call, or the end, is nearer than any try of the call before.
LEMMA EnterRemaining ==
  ASSUME TypeOK, TimeInv, waiting,
         NEW c \in {"image", "put", "delete", "persist", "failed"}, Enter(c),
         c = "image" => at = "text",
         c = "put" => at = "image",
         c \in {"persist", "delete"} => at = "put"
  PROVE  Remaining' < Remaining
<1>1. \A b \in Calls : Tries(b) \in Nat \ {0} /\ After(b) \in Nat
  BY CallTypes DEF After, Calls, ProviderCalls, StorageCalls
<1>2. at \in Calls /\ at # "persist" /\ tries \in Nat /\ Tries(at) - tries \in Nat
  BY <1>1 DEF TypeOK, TimeInv, Over, Calls, ProviderCalls, StorageCalls
<1>3. Remaining = 2 * (Tries(at) - tries) + 1 + After(at)
  BY <1>1, <1>2 DEF Remaining
<1>4. Remaining > After(at)
  BY <1>1, <1>2, <1>3
<1>5. /\ Remaining' = CASE c \in Calls   -> 2 * Tries(c) + After(c)
                        [] c = "persist" -> 1 + 2 * Tries("delete")
                        [] OTHER         -> 0
  BY <1>1 DEF Enter, Remaining
<1>6. Remaining' <= After(at)
  BY <1>1, <1>2, <1>5 DEF After, Calls, ProviderCalls, StorageCalls
<1> QED BY <1>1, <1>2, <1>3, <1>4, <1>5, <1>6 DEF Calls, ProviderCalls, StorageCalls

LEMMA StepsRunOutNext == TypeOK /\ TimeInv /\ [Next]_vars => [StepsRunOut]_vars
<1> SUFFICES ASSUME TypeOK, TimeInv, Next PROVE StepsRunOut
  BY DEF StepsRunOut
<1>1. ASSUME Client PROVE Remaining' < Remaining
  <2>a. at \in Calls => /\ at # "persist" /\ tries \in Nat
                        /\ Tries(at) \in Nat \ {0} /\ After(at) \in Nat
    BY CallTypes DEF TypeOK, After, Calls, ProviderCalls, StorageCalls
  <2>1. CASE Send
    <3>1. at \in Calls /\ ~waiting /\ at' = at /\ waiting' /\ tries' = tries + 1
      BY <2>1 DEF Send
    <3> QED BY <2>a, <3>1 DEF Remaining
  <2>2. CASE ProviderAnswers
    <3>1. waiting /\ at \in {"text", "image"} /\ Enter(IF at = "text" THEN "image" ELSE "put")
      BY <2>2 DEF ProviderAnswers, ProviderCalls
    <3> QED BY <3>1, EnterRemaining
  <2>3. CASE ProviderRefuses
    BY <2>3, EnterRemaining DEF ProviderRefuses
  <2>4. CASE BucketAnswers
    BY <2>4, EnterRemaining DEF BucketAnswers, StorageCalls
  <2>5. CASE Retry
    <3>1. at \in Calls /\ waiting /\ at' = at /\ ~waiting' /\ tries' = tries
      BY <2>5 DEF Retry, TryFails, TypeOK
    <3> QED BY <2>a, <3>1 DEF Remaining
  <2>6. CASE Raise
    <3>1. waiting /\ Enter(IF at = "put" THEN "delete" ELSE "failed")
      BY <2>6 DEF Raise, TryFails, AfterLast
    <3> QED BY <3>1, EnterRemaining
  <2>7. CASE Persist
    <3>1. Tries("delete") \in Nat \ {0} /\ at = "persist" /\ "persist" \notin Calls
      BY <2>7, CallTypes DEF Persist, Calls, ProviderCalls, StorageCalls
    <3>2. CASE Enter("recipe")
      BY <3>1, <3>2 DEF Remaining, Enter, Calls, ProviderCalls, StorageCalls
    <3>3. CASE Enter("delete")
      BY <3>1, <3>3 DEF Remaining, Enter, After, Calls, ProviderCalls, StorageCalls
    <3> QED BY <2>7, <3>2, <3>3 DEF Persist
  <2> QED BY <1>1, <2>1, <2>2, <2>3, <2>4, <2>5, <2>6, <2>7 DEF Client
<1>2. ASSUME ~Client PROVE Remaining' = Remaining
  <2>1. UNCHANGED <<at, waiting, tries>>
    BY <1>2 DEF Next, Stray
  <2> QED BY <2>1 DEF Remaining
<1> QED BY <1>1, <1>2 DEF StepsRunOut

\* An attempt has a bounded number of steps, whatever its tries come to: at first
\* two for every try of the four calls and one for the transaction, and fewer after
\* every step it takes.
THEOREM AttemptRunsOut == Spec => [](Remaining \in Nat) /\ [][StepsRunOut]_vars
BY RemainingType, StepsRunOutNext, TimeInit, TimeNext, TypeCorrect, PTL DEF Spec
=============================================================================
