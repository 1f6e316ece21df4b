---------------------------- MODULE AdminRateLimiter ---------------------------
(***************************************************************************)
(* AdminRateLimiter.enforce: the fixed-window counter in Redis, for the    *)
(* requests of one admin to one path (any other key is another counter).   *)
(*                                                                         *)
(* A request reads the minute, INCRs that minute's key, sets the key's     *)
(* timeout in a second command if it was the first, and compares its count *)
(* with the limit.  Requests of several threads and API instances do so at *)
(* once; their clocks are taken to agree.  A command may fail, its reply   *)
(* may be lost, the process may die, and a restart of Redis may lose the   *)
(* last writes.                                                            *)
(*                                                                         *)
(* A minute has Window ticks, and so has the timeout of 60 s.  "Mutant"    *)
(* marks a plausible bug in the definition that follows.                   *)
(***************************************************************************)
EXTENDS Integers, FiniteSets

CONSTANTS
  Requests,    \* requests, each of which is made once
  Limit,       \* admin_rate_limit_requests_per_minute
  Window,      \* ticks of a minute
  LastMinute   \* bound: where the clock stops

ASSUME RequestsAssumption == IsFiniteSet(Requests)
ASSUME LimitAssumption == Limit \in Nat
ASSUME WindowAssumption == Window \in Nat \ {0}
ASSUME LastMinuteAssumption == LastMinute \in Nat

Minutes == 0..LastMinute
Forever == Window + 1   \* no timeout set

VARIABLES
  minute,    \* the wall clock
  second,    \* ticks since the minute began
  count,     \* the counter of a minute's key, 0 if there is no key
  ttl,       \* ticks until the key expires
  pc,        \* where a request is, or how it ended
  bucket,    \* current_minute_bucket of a request
  current,   \* current_count of a request, 0 before its INCR
  inTime,    \* requests whose INCR came within their minute (history)
  broken,    \* minutes whose key missed its timeout by a failure (history)
  forgotten  \* minutes whose key Redis has lost (history)

clock == <<minute, second>>
redis == <<count, ttl>>
vars == <<clock, redis, pc, bucket, current, inTime, broken, forgotten>>

Ended == {"admitted", "refused", "unavailable"}

Init ==
  /\ minute = 0 /\ second = 0
  /\ count = [m \in Minutes |-> 0]
  /\ ttl = [m \in Minutes |-> Forever]
  /\ pc = [p \in Requests |-> "idle"]
  /\ bucket = [p \in Requests |-> 0]
  /\ current = [p \in Requests |-> 0]
  /\ inTime = {}
  /\ broken = {}
  /\ forgotten = {}

\* The key of a request's counter; actor and path are the module's.
Key(p) == bucket[p]

Stamp(p) ==
  /\ pc[p] = "idle"
  /\ pc' = [pc EXCEPT ![p] = "incr"]
  /\ bucket' = [bucket EXCEPT ![p] = minute]
  /\ UNCHANGED <<clock, redis, current, inTime, broken, forgotten>>

\* Redis executes the INCR; a new key has no timeout.
Count(p) ==
  /\ count' = [count EXCEPT ![Key(p)] = @ + 1]
  /\ current' = [current EXCEPT ![p] = count[Key(p)] + 1]
  /\ inTime' = IF bucket[p] = minute THEN inTime \cup {p} ELSE inTime
  /\ UNCHANGED ttl

\* Mutant: the count before the increment is expected.
FirstZero(n) == n = 0

\* The request that created the key gives it its timeout.
First(n) == n = 1

Verdict(n) == IF n > Limit THEN "refused" ELSE "admitted"

Incr(p) ==
  /\ pc[p] = "incr"
  /\ Count(p)
  /\ pc' = [pc EXCEPT ![p] = IF First(current'[p]) THEN "expire" ELSE Verdict(current'[p])]
  /\ UNCHANGED <<clock, bucket, broken, forgotten>>

\* A RedisError, or the death of the process: before or after the command.
IncrError(p) ==
  /\ pc[p] = "incr"
  /\ pc' = [pc EXCEPT ![p] = "unavailable"]
  /\ \/ /\ Count(p)
        /\ broken' = IF current'[p] = 1 THEN broken \cup {Key(p)} ELSE broken
     \/ UNCHANGED <<redis, current, inTime, broken>>
  /\ UNCHANGED <<clock, bucket, forgotten>>

\* Mutant: a timeout that is shorter than the window.
SetTimeoutShort(p) ==
  ttl' = [ttl EXCEPT ![Key(p)] = IF count[Key(p)] = 0 THEN Forever ELSE Window - 1]

\* EXPIRE, without effect on a key that is gone.
SetTimeout(p) ==
  ttl' = [ttl EXCEPT ![Key(p)] = IF count[Key(p)] = 0 THEN Forever ELSE Window]

Expire(p) ==
  /\ pc[p] = "expire"
  /\ SetTimeout(p)
  /\ pc' = [pc EXCEPT ![p] = Verdict(current[p])]
  /\ UNCHANGED <<clock, count, bucket, current, inTime, broken, forgotten>>

ExpireError(p) ==
  /\ pc[p] = "expire"
  /\ SetTimeout(p) \/ UNCHANGED ttl
  /\ pc' = [pc EXCEPT ![p] = "unavailable"]
  /\ broken' = broken \cup {Key(p)}
  /\ UNCHANGED <<clock, count, bucket, current, inTime, forgotten>>

\* A restart of Redis takes back the last writes to a key.
RedisForgets(m) ==
  /\ \E n \in 0..(count[m] - 1) :
       /\ count' = [count EXCEPT ![m] = n]
       /\ \/ ttl' = [ttl EXCEPT ![m] = Forever]
          \/ n > 0 /\ UNCHANGED ttl
  /\ forgotten' = forgotten \cup {m}
  /\ broken' = broken \cup {m}
  /\ UNCHANGED <<clock, pc, bucket, current, inTime>>

\* The clock moves on, and keys whose time is up expire.
Tick ==
  /\ minute < LastMinute \/ second + 1 < Window
  /\ second' = IF second + 1 < Window THEN second + 1 ELSE 0
  /\ minute' = IF second + 1 < Window THEN minute ELSE minute + 1
  /\ count' = [m \in Minutes |-> IF ttl[m] = 1 THEN 0 ELSE count[m]]
  /\ ttl' = [m \in Minutes |->
               IF ttl[m] \in {1, Forever} THEN Forever ELSE ttl[m] - 1]
  /\ UNCHANGED <<pc, bucket, current, inTime, broken, forgotten>>

Next ==
  \/ \E p \in Requests :
       Stamp(p) \/ Incr(p) \/ IncrError(p) \/ Expire(p) \/ ExpireError(p)
  \/ \E m \in Minutes : RedisForgets(m)
  \/ Tick

Spec == Init /\ [][Next]_vars

-----------------------------------------------------------------------------
(* Properties *)

TypeOK ==
  /\ minute \in Minutes
  /\ second \in 0..(Window - 1)
  /\ count \in [Minutes -> Nat]
  /\ ttl \in [Minutes -> 1..Forever]
  /\ pc \in [Requests -> {"idle", "incr", "expire"} \cup Ended]
  /\ bucket \in [Requests -> Minutes]
  /\ current \in [Requests -> Nat]
  /\ inTime \subseteq Requests
  /\ broken \subseteq Minutes
  /\ forgotten \subseteq Minutes

\* Of the requests that are counted within their minute at most Limit are
\* admitted: the key lives to the end of it, whoever sets the timeout and when,
\* unless Redis loses it.
WindowLimit ==
  \A m \in Minutes \ forgotten :
    Cardinality({p \in inTime : bucket[p] = m /\ pc[p] = "admitted"}) <= Limit

\* A request is refused only if more than Limit requests were counted in its own
\* minute: no failure and no key that was left behind refuses anybody later.
RefusalsJustified ==
  \A p \in Requests : pc[p] = "refused" =>
    Cardinality({q \in Requests : bucket[q] = bucket[p] /\ current[q] > 0}) > Limit

\* A key without a timeout is about to get one, or a failure has come between
\* its two commands: nothing else piles up in Redis.
KeysGetTimeouts ==
  \A m \in Minutes \ broken : count[m] > 0 /\ ttl[m] = Forever =>
    \E p \in Requests : pc[p] = "expire" /\ bucket[p] = m
=============================================================================
