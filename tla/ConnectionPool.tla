----------------------------- MODULE ConnectionPool -----------------------------
(***************************************************************************)
(* The connection pool of one process (create_database_engine: a           *)
(* QueuePool, checked before use) and those who share it:                  *)
(*   - runs: calls of prepare_background_generation and run_for_slot, which *)
(*     keep one connection for the advisory lock, granted or refused, and  *)
(*     take a second one for each of their transactions;                   *)
(*   - requests, which have a session of get_database_session, or probe    *)
(*     the database (check_readiness), and are nothing but transactions.   *)
(*                                                                         *)
(* An advisory lock belongs to the session of a connection: it counts, so  *)
(* the same session gets it again, and it ends with the session, not with  *)
(* close(), which puts the connection back into the pool.  The Redis layer *)
(* is left out: any two runs may ask for the same slot (GenerationService  *)
(* has both layers).  "Mutant" marks a plausible bug in the definition     *)
(* that follows.                                                           *)
(***************************************************************************)
EXTENDS Integers, FiniteSets

CONSTANTS
  Runs,          \* generation calls
  Requests,      \* requests that use the database
  Conns,         \* the connections the pool may have: pool_size + max_overflow
  NoConn,        \* none of them
  PoolSize,      \* how many it keeps when they come back
  Slots,         \* hours, as lock identifiers
  Transactions,  \* transactions of a client (bound)
  MaxStuck,      \* unlocks that may fail on one session (bound)
  Faults         \* of "session" (the server ends one), "database" (connecting
                 \* or a statement fails), "unlock" (pg_advisory_unlock raises)

Clients == Runs \cup Requests

ASSUME ClientsAssumption == Runs \cap Requests = {}
ASSUME PoolAssumption ==
  /\ IsFiniteSet(Conns)
  /\ NoConn \notin Conns
  /\ PoolSize \in Nat \ {0}
ASSUME BoundsAssumption == Transactions \in Nat \ {0} /\ MaxStuck \in Nat

VARIABLES
  conn,     \* connection -> "closed", "idle" (in the pool) or "used"
  session,  \* connection -> its session: alive, the locks it has, and how many of
            \* them are left from failed unlocks (history)
  at,       \* client -> where it is
  todo,     \* client -> transactions it may still begin
  lockOn,   \* run -> the connection of its advisory lock
  granted,  \* run -> it was given the lock
  slot,     \* run -> the slot it asks for
  workOn    \* client -> the connection of its transaction

pool == <<conn, session>>
lock == <<lockOn, granted, slot>>
vars == <<pool, at, todo, lock, workOn>>

NoLocks == [s \in Slots |-> 0]
Fresh   == [alive |-> TRUE,  locks |-> NoLocks, stuck |-> NoLocks]
Ended   == [alive |-> FALSE, locks |-> NoLocks, stuck |-> NoLocks]

Init ==
  /\ conn = [x \in Conns |-> "closed"]
  /\ session = [x \in Conns |-> Ended]
  /\ at = [c \in Clients |-> "rest"]
  /\ todo = [c \in Clients |-> 0]
  /\ lockOn = [r \in Runs |-> NoConn]
  /\ granted = [r \in Runs |-> FALSE]
  /\ slot \in [Runs -> Slots]
  /\ workOn = [c \in Clients |-> NoConn]

-----------------------------------------------------------------------------
(* The pool *)

Idle == {x \in Conns : conn[x] = "idle"}

\* What connect() may use: a pooled connection, or else a new one.
Available ==
  IF Idle # {} THEN Idle ELSE {x \in Conns : conn[x] = "closed"}

\* connect() of an available connection.  pool_pre_ping replaces a connection whose
\* session has ended; after a disconnect seen elsewhere all are replaced.
Connect(x) ==
  /\ x \in Available
  /\ conn' = [conn EXCEPT ![x] = "used"]
  /\ \/ session[x].alive /\ UNCHANGED session
     \/ /\ ~session[x].alive \/ "session" \in Faults
        /\ session' = [session EXCEPT ![x] = Fresh]

\* close() after the last statement has left session s: a pooled connection keeps its
\* session, one too many is closed for good.
Close(x, s) ==
  IF Cardinality(Idle) < PoolSize
    THEN /\ conn' = [conn EXCEPT ![x] = "idle"]
         /\ session' = [session EXCEPT ![x] = s]
    ELSE /\ conn' = [conn EXCEPT ![x] = "closed"]
         /\ session' = [session EXCEPT ![x] = Ended]

\* The server ends a session; its locks end with it.
SessionEnds(x) ==
  /\ "session" \in Faults
  /\ session[x].alive
  /\ session' = [session EXCEPT ![x] = Ended]
  /\ UNCHANGED <<conn, at, todo, lock, workOn>>

\* connect() raises.  The lock manager has nothing to close yet; the error of a
\* transaction leaves its session, inside the lock of a run.
ConnectRaises(c) ==
  /\ at[c] \in {"lock", "begin"}
  /\ at' = [at EXCEPT ![c] = IF @ = "lock" THEN "rest" ELSE "inside"]
  /\ UNCHANGED <<pool, todo, lock, workOn>>

\* Mutant: a pool without a timeout.
TimesOutNever(c) == FALSE /\ ConnectRaises(c)

\* Thirty seconds without a connection.
TimesOut(c) == Available = {} /\ ConnectRaises(c)

\* The server does not let the pool in for a new session.
ServerRefuses(c) ==
  /\ "database" \in Faults
  /\ \E x \in Available : ~session[x].alive
  /\ ConnectRaises(c)

-----------------------------------------------------------------------------
(* The advisory lock of a run *)

\* prepare_background_generation or run_for_slot.
StartRun(r) ==
  /\ at[r] = "rest"
  /\ at' = [at EXCEPT ![r] = "lock"]
  /\ todo' = [todo EXCEPT ![r] = Transactions]
  /\ \E s \in Slots : slot' = [slot EXCEPT ![r] = s]
  /\ UNCHANGED <<pool, lockOn, granted, workOn>>

ConnectLock(r) ==
  /\ at[r] = "lock"
  /\ \E x \in Conns : Connect(x) /\ lockOn' = [lockOn EXCEPT ![r] = x]
  /\ at' = [at EXCEPT ![r] = "try"]
  /\ UNCHANGED <<todo, granted, slot, workOn>>

\* Mutant: the answer of the statement is not read.
TakenUnread(x, s) == FALSE

\* Another session has the lock of slot s.
Taken(x, s) == \E y \in Conns \ {x} : session[y].locks[s] > 0

\* pg_try_advisory_lock answers.  Refused, the caller has None, and the connection
\* stays with it until it leaves.
TryLock(r) ==
  LET x == lockOn[r]  s == slot[r]  IN
  /\ at[r] = "try"
  /\ session[x].alive
  /\ granted' = [granted EXCEPT ![r] = ~Taken(x, s)]
  /\ session' = IF Taken(x, s) THEN session
                ELSE [session EXCEPT ![x].locks[s] = @ + 1]
  /\ at' = [at EXCEPT ![r] = "inside"]
  /\ UNCHANGED <<conn, todo, lockOn, slot, workOn>>

\* Mutant: only a lock that was granted has its connection closed.
TryLockFailsOpen(r) ==
  /\ at[r] = "try"
  /\ ~session[lockOn[r]].alive \/ "database" \in Faults
  /\ lockOn' = [lockOn EXCEPT ![r] = NoConn]
  /\ at' = [at EXCEPT ![r] = "rest"]
  /\ UNCHANGED <<pool, todo, granted, slot, workOn>>

\* The statement raises: the connection is closed on the way out.
TryLockFails(r) ==
  LET x == lockOn[r]  IN
  /\ at[r] = "try"
  /\ ~session[x].alive \/ "database" \in Faults
  /\ Close(x, session[x])
  /\ lockOn' = [lockOn EXCEPT ![r] = NoConn]
  /\ at' = [at EXCEPT ![r] = "rest"]
  /\ UNCHANGED <<todo, granted, slot, workOn>>

\* Mutant: close() is taken for the unlock.
UnlockedNever(x, s) == {session[x]}

\* The session after pg_advisory_unlock: one grant less, or the statement has raised.
Unlocked(x, s) ==
  LET sess == session[x]  IN
  IF ~sess.alive THEN {sess}
  ELSE {[sess EXCEPT !.locks[s] = @ - 1]} \cup
       IF "unlock" \in Faults /\ sess.stuck[s] < MaxStuck
         THEN {[sess EXCEPT !.stuck[s] = @ + 1]} ELSE {}

\* The with block of acquire_lock ends, by return or exception: unlock if granted,
\* and close whatever the unlock did.
Leave(r) ==
  LET x == lockOn[r]  IN
  /\ at[r] = "inside"
  /\ \E s \in (IF granted[r] THEN Unlocked(x, slot[r]) ELSE {session[x]}) : Close(x, s)
  /\ lockOn' = [lockOn EXCEPT ![r] = NoConn]
  /\ granted' = [granted EXCEPT ![r] = FALSE]
  /\ at' = [at EXCEPT ![r] = "rest"]
  /\ UNCHANGED <<todo, slot, workOn>>

-----------------------------------------------------------------------------
(* Transactions *)

StartRequest(q) ==
  /\ at[q] = "rest"
  /\ at' = [at EXCEPT ![q] = "inside"]
  /\ todo' = [todo EXCEPT ![q] = Transactions]
  /\ UNCHANGED <<pool, lock, workOn>>

\* A new session's first statement, or the first one after a commit.
Begin(c) ==
  /\ at[c] = "inside"
  /\ todo[c] > 0
  /\ at' = [at EXCEPT ![c] = "begin"]
  /\ todo' = [todo EXCEPT ![c] = @ - 1]
  /\ UNCHANGED <<pool, lock, workOn>>

ConnectWork(c) ==
  /\ at[c] = "begin"
  /\ \E x \in Conns : Connect(x) /\ workOn' = [workOn EXCEPT ![c] = x]
  /\ at' = [at EXCEPT ![c] = "work"]
  /\ UNCHANGED <<todo, lock>>

\* Mutant: the session of the next transaction is opened inside this one's.
EndWorkNested(c) ==
  /\ at[c] = "work"
  /\ at' = [at EXCEPT ![c] = "inside"]
  /\ UNCHANGED <<pool, todo, lock, workOn>>

\* Commit, rollback or close gives the connection back, on a dead session too.
EndWork(c) ==
  /\ at[c] = "work"
  /\ Close(workOn[c], session[workOn[c]])
  /\ workOn' = [workOn EXCEPT ![c] = NoConn]
  /\ at' = [at EXCEPT ![c] = "inside"]
  /\ UNCHANGED <<todo, lock>>

EndRequest(q) ==
  /\ at[q] = "inside"
  /\ at' = [at EXCEPT ![q] = "rest"]
  /\ UNCHANGED <<pool, todo, lock, workOn>>

-----------------------------------------------------------------------------
(* Specification *)

RunStep(r) ==
  \/ ConnectLock(r) \/ TryLock(r) \/ TryLockFails(r) \/ Leave(r)

WorkStep(c) == ConnectWork(c) \/ EndWork(c) \/ TimesOut(c)

Step(c) ==
  \/ c \in Runs /\ (RunStep(c) \/ Begin(c))
  \/ c \in Requests /\ (Begin(c) \/ EndRequest(c))
  \/ WorkStep(c)

Start(c) ==
  \/ c \in Runs /\ StartRun(c)
  \/ c \in Requests /\ StartRequest(c)

Next ==
  \/ \E c \in Clients : Start(c) \/ Step(c) \/ ServerRefuses(c)
  \/ \E x \in Conns : SessionEnds(x)

Spec == Init /\ [][Next]_vars

\* Every thread goes on: a statement answers or raises, and connect() gives up.
FairSpec == Spec /\ \A c \in Clients : WF_vars(Step(c))

-----------------------------------------------------------------------------
(* Properties *)

Sessions == [alive : BOOLEAN, locks : [Slots -> Nat], stuck : [Slots -> Nat]]

TypeOK ==
  /\ conn \in [Conns -> {"closed", "idle", "used"}]
  /\ session \in [Conns -> Sessions]
  /\ at \in [Clients ->
              {"rest", "lock", "try", "inside", "begin", "work"}]
  /\ todo \in [Clients -> 0..Transactions]
  /\ lockOn \in [Runs -> Conns \cup {NoConn}]
  /\ granted \in [Runs -> BOOLEAN]
  /\ slot \in [Runs -> Slots]
  /\ workOn \in [Clients -> Conns \cup {NoConn}]

\* Who has connection x: a run as its lock's, a client as its transaction's.
LockUsers(x) == {r \in Runs : lockOn[r] = x}
WorkUsers(x) == {c \in Clients : workOn[c] = x}

\* Every connection outside the pool has one user, who is under way: whichever way a
\* run or a request ends, it has given back all it took.
ConnectionsAccounted ==
  /\ \A x \in Conns :
       IF conn[x] = "used"
         THEN \E u \in Clients :
                \/ LockUsers(x) = {u} /\ WorkUsers(x) = {}
                \/ LockUsers(x) = {} /\ WorkUsers(x) = {u}
         ELSE LockUsers(x) = {} /\ WorkUsers(x) = {}
  /\ \A c \in Clients :
       at[c] = "rest" => workOn[c] = NoConn /\ (c \in Runs => lockOn[c] = NoConn)

\* Run r believes it has the lock of slot s, on connection x.
Holds(r, x, s) == granted[r] /\ lockOn[r] = x /\ slot[r] = s

\* A session has a lock once for the run inside, and once for every unlock that
\* raised on it.  No other way leaves a lock behind on a pooled connection.
LocksAccounted ==
  \A x \in Conns, s \in Slots :
    session[x].alive =>
      session[x].locks[s] =
        session[x].stuck[s] + (IF \E r \in Runs : Holds(r, x, s) THEN 1 ELSE 0)

\* Two runs are inside for one slot only if the session of one of them has ended.
OneRunPerSlot ==
  \A r1, r2 \in Runs :
    r1 # r2 /\ granted[r1] /\ granted[r2] /\ slot[r1] = slot[r2] =>
      ~session[lockOn[r1]].alive \/ ~session[lockOn[r2]].alive

\* Client c has a connection of either kind.
Uses(c) == workOn[c] # NoConn \/ (c \in Runs /\ lockOn[c] # NoConn)

\* Nothing is available, and all who have a connection wait for another one.
Stalled == Available = {} /\ \A c \in Clients : Uses(c) => at[c] = "begin"

\* Everyone waits on everyone only when each connection is the one of a run's lock:
\* as many runs at once as the pool may have connections, and not one fewer.
StallNeedsRuns == Stalled => \A x \in Conns : LockUsers(x) # {}

\* Every run and request ends, a stalled one by the timeout of the pool.
EveryClientEnds == \A c \in Clients : at[c] # "rest" ~> at[c] = "rest"
=============================================================================
