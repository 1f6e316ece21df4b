-------------------------- MODULE ConnectionPoolProofs --------------------------
(***************************************************************************)
(* ConnectionPool for any sets of runs, requests, connections and slots,   *)
(* any pool size and any faults: who has which connection, which locks its *)
(* session has, and what it takes to stall the pool.                       *)
(***************************************************************************)
EXTENDS ConnectionPool, FiniteSetTheorems, TLAPS

-----------------------------------------------------------------------------
(* Types, and what connect() and close() change *)

LEMMA SessionTypes == Fresh \in Sessions /\ Ended \in Sessions
BY DEF Fresh, Ended, Sessions, NoLocks

\* connect() takes one connection that nobody used, and may replace its session.
LEMMA ConnectEffect ==
  ASSUME TypeOK, NEW x \in Conns, Connect(x)
  PROVE  /\ conn[x] # "used"
         /\ conn' = [conn EXCEPT ![x] = "used"]
         /\ \/ session[x].alive /\ session' = session
            \/ session' = [session EXCEPT ![x] = Fresh]
BY DEF TypeOK, Connect, Available, Idle

\* close() makes one connection unused, with the session it was left in or none.
LEMMA CloseEffect ==
  ASSUME TypeOK, NEW x \in Conns, NEW s \in Sessions, Close(x, s)
  PROVE  \E v \in {"idle", "closed"}, t \in {s, Ended} :
           /\ conn' = [conn EXCEPT ![x] = v]
           /\ session' = [session EXCEPT ![x] = t]
<1>1. CASE Cardinality(Idle) < PoolSize
  <2>1. conn' = [conn EXCEPT ![x] = "idle"] /\ session' = [session EXCEPT ![x] = s]
    BY <1>1, Zenon DEF Close
  <2> QED BY <2>1
<1>2. CASE ~(Cardinality(Idle) < PoolSize)
  <2>1. conn' = [conn EXCEPT ![x] = "closed"] /\ session' = [session EXCEPT ![x] = Ended]
    BY <1>2, Zenon DEF Close
  <2> QED BY <2>1
<1> QED BY <1>1, <1>2

\* What an unlock may leave: a dead session as it is, one grant less, or one more
\* lock that is stuck.
LEMMA UnlockedEffect ==
  ASSUME TypeOK, NEW x \in Conns, NEW s \in Slots, NEW t \in Unlocked(x, s)
  PROVE  \/ ~session[x].alive /\ t = session[x]
         \/ session[x].alive /\ t = [session[x] EXCEPT !.locks[s] = @ - 1]
         \/ session[x].alive /\ t = [session[x] EXCEPT !.stuck[s] = @ + 1]
<1>1. CASE ~session[x].alive
  BY <1>1, Zenon DEF Unlocked
<1>2. CASE session[x].alive
  BY <1>2, Zenon DEF Unlocked
<1> QED BY <1>1, <1>2

-----------------------------------------------------------------------------
(* Who is where, and with which connection *)

\* The stages of a client, and the connections it has in each.
Stages ==
  /\ \A q \in Requests : at[q] \notin {"lock", "try"}
  /\ \A c \in Clients : workOn[c] = NoConn <=> at[c] # "work"
  /\ \A r \in Runs : lockOn[r] = NoConn <=> at[r] \in {"rest", "lock"}
  /\ \A r \in Runs : granted[r] => at[r] \in {"inside", "begin", "work"}

\* A connection is used by one client at most, for one purpose, and by one if it is
\* outside the pool.
Owners ==
  /\ \A r \in Runs : lockOn[r] # NoConn => conn[lockOn[r]] = "used"
  /\ \A c \in Clients : workOn[c] # NoConn => conn[workOn[c]] = "used"
  /\ \A r1, r2 \in Runs : lockOn[r1] = lockOn[r2] => r1 = r2 \/ lockOn[r1] = NoConn
  /\ \A c, d \in Clients : workOn[c] = workOn[d] => c = d \/ workOn[c] = NoConn
  /\ \A r \in Runs, c \in Clients : lockOn[r] = workOn[c] => workOn[c] = NoConn
  /\ \A x \in Conns : conn[x] = "used" =>
       \/ \E r \in Runs : lockOn[r] = x
       \/ \E c \in Clients : workOn[c] = x

\* The locks of sessions: dead ones have none, live ones theirs, and no two the same.
Locks ==
  /\ \A x \in Conns : ~session[x].alive => session[x].locks = NoLocks
  /\ \A x \in Conns, s \in Slots :
       session[x].alive =>
         session[x].locks[s] =
           session[x].stuck[s] + (IF \E r \in Runs : Holds(r, x, s) THEN 1 ELSE 0)
  /\ \A x, y \in Conns, s \in Slots :
       session[x].locks[s] > 0 /\ session[y].locks[s] > 0 => x = y

PoolInv == TypeOK /\ Stages /\ Owners /\ Locks

LEMMA RunsAreClients == Runs \subseteq Clients /\ Requests \subseteq Clients
BY DEF Clients

LEMMA InitPool == Init => PoolInv
<1> SUFFICES ASSUME Init PROVE PoolInv
  OBVIOUS
<1> USE DEF Init
<1>1. TypeOK
  <2>1. session \in [Conns -> Sessions]
    BY SessionTypes
  <2>2. 0 \in 0..Transactions
    BY BoundsAssumption
  <2> QED BY <2>1, <2>2 DEF TypeOK
<1>2. Stages
  BY RunsAreClients DEF Stages
<1>3. Owners
  BY DEF Owners
<1>4. Locks
  BY DEF Locks, Ended, NoLocks
<1> QED BY <1>1, <1>2, <1>3, <1>4 DEF PoolInv

LEMMA NextCases ==
  ASSUME Next
  PROVE  \/ \E r \in Runs :
              StartRun(r) \/ ConnectLock(r) \/ TryLock(r) \/ TryLockFails(r) \/ Leave(r)
         \/ \E q \in Requests : StartRequest(q) \/ EndRequest(q)
         \/ \E c \in Clients : Begin(c) \/ ConnectWork(c) \/ EndWork(c) \/ ConnectRaises(c)
         \/ \E x \in Conns : SessionEnds(x)
BY DEF Next, Start, Step, RunStep, WorkStep, TimesOut, ServerRefuses, Clients

-----------------------------------------------------------------------------
(* Steps that take and give back nothing *)

\* The slot a run asks for is of no consequence before it has the lock.
LEMMA SlotKeepsLocks ==
  ASSUME PoolInv, UNCHANGED <<pool, lockOn, granted>>,
         \A r \in Runs : granted[r] => slot'[r] = slot[r]
  PROVE  Locks'
<1>1. \A r \in Runs, x \in Conns, s \in Slots : Holds(r, x, s)' <=> Holds(r, x, s)
  BY DEF Holds
<1> QED BY <1>1 DEF PoolInv, Locks, pool

LEMMA QuietStep ==
  ASSUME PoolInv, NEW c \in Clients,
         \/ c \in Runs /\ StartRun(c)
         \/ c \in Requests /\ (StartRequest(c) \/ EndRequest(c))
         \/ Begin(c)
         \/ ConnectRaises(c)
  PROVE  PoolInv'
<1> USE DEF PoolInv, TypeOK, pool, lock
<1>1. UNCHANGED <<pool, lockOn, granted, workOn>>
  BY DEF StartRun, StartRequest, EndRequest, Begin, ConnectRaises
<1>2. TypeOK'
  <2>1. CASE c \in Runs /\ StartRun(c)
    BY <2>1, BoundsAssumption DEF StartRun
  <2>2. CASE c \in Requests /\ (StartRequest(c) \/ EndRequest(c))
    BY <2>2, BoundsAssumption DEF StartRequest, EndRequest
  <2>3. CASE Begin(c)
    BY <2>3, BoundsAssumption DEF Begin
  <2>4. CASE ConnectRaises(c)
    BY <2>4 DEF ConnectRaises
  <2> QED BY <2>1, <2>2, <2>3, <2>4
<1>3. Stages'
  BY <1>1, RunsAreClients, ClientsAssumption
  DEF Stages, StartRun, StartRequest, EndRequest, Begin, ConnectRaises
<1>4. Owners'
  BY <1>1 DEF Owners
<1>5. \A r \in Runs : granted[r] => slot'[r] = slot[r]
  BY RunsAreClients DEF Stages, StartRun, StartRequest, EndRequest, Begin, ConnectRaises
<1>6. Locks'
  BY <1>1, <1>5, SlotKeepsLocks
<1> QED BY <1>2, <1>3, <1>4, <1>6

\* When the server ends a session nobody's connection changes hands.
LEMMA SessionEndsStep ==
  ASSUME PoolInv, NEW x \in Conns, SessionEnds(x)
  PROVE  PoolInv'
<1> USE DEF PoolInv, TypeOK, lock, SessionEnds
<1>1. TypeOK'
  BY SessionTypes
<1>2. Stages' /\ Owners'
  BY DEF Stages, Owners
<1>3. Locks'
  <2>1. \A r \in Runs, y \in Conns, s \in Slots : Holds(r, y, s)' <=> Holds(r, y, s)
    BY DEF Holds
  <2>2. session'[x] = Ended /\ \A y \in Conns \ {x} : session'[y] = session[y]
    OBVIOUS
  <2>3. ~session'[x].alive /\ session'[x].locks = NoLocks
    BY <2>2, Zenon DEF Ended
  <2>4. \A s \in Slots : NoLocks[s] = 0
    BY DEF NoLocks
  <2> QED BY <2>1, <2>2, <2>3, <2>4 DEF Locks
<1> QED BY <1>1, <1>2, <1>3

-----------------------------------------------------------------------------
(* Steps that take a connection *)

\* Nobody has a connection that is not used.
LEMMA Unowned ==
  ASSUME PoolInv, NEW x \in Conns, conn[x] # "used"
  PROVE  /\ \A r \in Runs : lockOn[r] # x
         /\ \A c \in Clients : workOn[c] # x
BY PoolAssumption DEF PoolInv, TypeOK, Owners

\* A connection nobody has may be given another session, without locks.
LEMMA ConnectKeepsLocks ==
  ASSUME PoolInv, NEW x \in Conns, Connect(x),
         UNCHANGED <<granted, slot>>,
         \A r \in Runs : granted[r] => lockOn'[r] = lockOn[r],
         \A r \in Runs : lockOn'[r] # lockOn[r] => ~granted[r]
  PROVE  Locks'
<1> USE DEF PoolInv
<1>1. \A r \in Runs, y \in Conns, s \in Slots : Holds(r, y, s)' <=> Holds(r, y, s)
  BY DEF Holds
<1>2. \A r \in Runs, s \in Slots : ~Holds(r, x, s)
  BY ConnectEffect, Unowned DEF Holds
<1>3. \/ session' = session
      \/ /\ session'[x] = Fresh
         /\ \A y \in Conns \ {x} : session'[y] = session[y]
  BY ConnectEffect DEF TypeOK
<1>4. CASE session' = session
  BY <1>1, <1>4 DEF Locks
<1>5. CASE /\ session'[x] = Fresh
           /\ \A y \in Conns \ {x} : session'[y] = session[y]
  BY <1>1, <1>2, <1>5 DEF Locks, Fresh, NoLocks
<1> QED BY <1>3, <1>4, <1>5

LEMMA ConnectLockStep ==
  ASSUME PoolInv, NEW r \in Runs, ConnectLock(r)
  PROVE  PoolInv'
<1> USE DEF PoolInv
<1>1. PICK x \in Conns : Connect(x) /\ lockOn' = [lockOn EXCEPT ![r] = x]
  BY DEF ConnectLock
<1>2. /\ conn[x] # "used"
      /\ conn' = [conn EXCEPT ![x] = "used"]
      /\ session' = session \/ session' = [session EXCEPT ![x] = Fresh]
  BY <1>1, ConnectEffect
<1>3. /\ at[r] = "lock" /\ at' = [at EXCEPT ![r] = "try"]
      /\ UNCHANGED <<todo, granted, slot, workOn>>
  BY DEF ConnectLock
<1>4. TypeOK'
  BY <1>1, <1>2, <1>3, SessionTypes, RunsAreClients DEF TypeOK
<1>5. Stages'
  BY <1>1, <1>3, RunsAreClients, ClientsAssumption, PoolAssumption DEF Stages, TypeOK
<1>6. Owners'
  BY <1>1, <1>2, <1>3, Unowned, RunsAreClients, PoolAssumption DEF Owners, Stages, TypeOK
<1>7. ~granted[r] /\ \A p \in Runs : p # r => lockOn'[p] = lockOn[p]
  BY <1>1, <1>3 DEF Stages, TypeOK
<1>8. Locks'
  BY <1>1, <1>3, <1>7, ConnectKeepsLocks
<1> QED BY <1>4, <1>5, <1>6, <1>8

LEMMA ConnectWorkStep ==
  ASSUME PoolInv, NEW c \in Clients, ConnectWork(c)
  PROVE  PoolInv'
<1> USE DEF PoolInv
<1>1. PICK x \in Conns : Connect(x) /\ workOn' = [workOn EXCEPT ![c] = x]
  BY DEF ConnectWork
<1>2. /\ conn[x] # "used"
      /\ conn' = [conn EXCEPT ![x] = "used"]
      /\ session' = session \/ session' = [session EXCEPT ![x] = Fresh]
  BY <1>1, ConnectEffect
<1>3. /\ at[c] = "begin" /\ at' = [at EXCEPT ![c] = "work"]
      /\ UNCHANGED <<todo, lockOn, granted, slot>>
  BY DEF ConnectWork, lock
<1>4. TypeOK'
  BY <1>1, <1>2, <1>3, SessionTypes, RunsAreClients DEF TypeOK
<1>5. Stages'
  BY <1>1, <1>3, RunsAreClients, PoolAssumption DEF Stages, TypeOK
<1>6. Owners'
  BY <1>1, <1>2, <1>3, Unowned, RunsAreClients, PoolAssumption DEF Owners, Stages, TypeOK
<1>7. Locks'
  BY <1>1, <1>3, ConnectKeepsLocks
<1> QED BY <1>4, <1>5, <1>6, <1>7

-----------------------------------------------------------------------------
(* The lock is granted or refused *)

LEMMA TryLockStep ==
  ASSUME PoolInv, NEW r \in Runs, TryLock(r)
  PROVE  PoolInv'
<1> DEFINE x == lockOn[r]
<1> DEFINE s == slot[r]
<1> DEFINE got == ~Taken(x, s)
<1> USE DEF PoolInv
<1>1. /\ at[r] = "try" /\ session[x].alive
      /\ granted' = [granted EXCEPT ![r] = got]
      /\ at' = [at EXCEPT ![r] = "inside"]
      /\ UNCHANGED <<conn, todo, lockOn, slot, workOn>>
  BY Zenon DEF TryLock
<1>2. session' = IF got THEN [session EXCEPT ![x].locks[s] = @ + 1] ELSE session
  BY DEF TryLock
<1>3. x \in Conns /\ s \in Slots /\ ~granted[r]
  BY <1>1 DEF Stages, TypeOK
<1>4. got \in BOOLEAN
  BY DEF Taken
<1> HIDE DEF got
<1>5. TypeOK'
  <2>1. session' \in [Conns -> Sessions]
    <3>1. [session[x] EXCEPT !.locks[s] = @ + 1] \in Sessions
      <4>1. session[x] \in Sessions
        BY <1>3 DEF TypeOK
      <4>2. [session[x].locks EXCEPT ![s] = @ + 1] \in [Slots -> Nat]
        BY <1>3, <4>1 DEF Sessions
      <4> HIDE DEF x, s
      <4> QED BY <4>1, <4>2 DEF Sessions
    <3>2. CASE got
      BY <1>2, <1>3, <3>1, <3>2 DEF TypeOK
    <3>3. CASE ~got
      BY <1>2, <3>3 DEF TypeOK
    <3> QED BY <3>2, <3>3
  <2>2. granted' \in [Runs -> BOOLEAN]
    BY <1>1, <1>4, Zenon DEF TypeOK
  <2> QED BY <1>1, <2>1, <2>2, RunsAreClients DEF TypeOK
<1>6. Stages'
  <2>1. \A p \in Runs : p # r => granted'[p] = granted[p]
    BY <1>1 DEF TypeOK
  <2> QED BY <1>1, <2>1, RunsAreClients, ClientsAssumption DEF Stages, TypeOK
<1>7. Owners'
  BY <1>1 DEF Owners
<1>8. CASE ~got
  <2>1. \A p \in Runs, y \in Conns, t \in Slots : Holds(p, y, t)' <=> Holds(p, y, t)
    BY <1>1, <1>3, <1>8 DEF Holds, TypeOK
  <2>2. Locks'
    BY <1>2, <1>8, <2>1 DEF Locks
  <2> QED BY <1>5, <1>6, <1>7, <2>2
<1>9. CASE got
  <2>1. /\ \A y \in Conns, t \in Slots :
              <<y, t>> # <<x, s>> => session'[y].locks[t] = session[y].locks[t]
        /\ session'[x].locks[s] = session[x].locks[s] + 1
        /\ \A y \in Conns :
              session'[y].alive = session[y].alive /\ session'[y].stuck = session[y].stuck
        /\ \A y \in Conns : y # x => session'[y] = session[y]
    BY <1>2, <1>3, <1>9 DEF TypeOK, Sessions
  <2>2. \A p \in Runs, y \in Conns, t \in Slots :
          Holds(p, y, t)' <=> Holds(p, y, t) \/ (p = r /\ y = x /\ t = s)
    BY <1>1, <1>3, <1>9 DEF Holds, TypeOK
  <2>3. \A p \in Runs, t \in Slots : ~Holds(p, x, t)
    BY <1>3, PoolAssumption DEF Holds, Owners, TypeOK
  <2>4. \A y \in Conns \ {x} : ~(session[y].locks[s] > 0)
    BY <1>9 DEF got, Taken
  <2>5. \A y \in Conns, t \in Slots :
          session[y].locks[t] \in Nat /\ session[y].stuck[t] \in Nat
    BY DEF TypeOK, Sessions
  <2>6. \A y \in Conns : ~session'[y].alive => session'[y].locks = NoLocks
    BY <1>1, <2>1 DEF Locks
  <2>7. \A y \in Conns, t \in Slots : session'[y].alive =>
          session'[y].locks[t] =
            session'[y].stuck[t] + (IF \E p \in Runs : Holds(p, y, t)' THEN 1 ELSE 0)
    <3> SUFFICES ASSUME NEW y \in Conns, NEW t \in Slots, session'[y].alive
                 PROVE  session'[y].locks[t] =
                          session'[y].stuck[t]
                            + (IF \E p \in Runs : Holds(p, y, t)' THEN 1 ELSE 0)
      OBVIOUS
    <3>1. CASE y = x /\ t = s
      BY <3>1, <1>3, <2>1, <2>2, <2>3, <2>5 DEF Locks
    <3>2. CASE ~(y = x /\ t = s)
      BY <3>2, <2>1, <2>2, <2>5 DEF Locks
    <3> QED BY <3>1, <3>2
  <2>8. \A y, z \in Conns, t \in Slots :
          session'[y].locks[t] > 0 /\ session'[z].locks[t] > 0 => y = z
    BY <2>1, <2>4, <2>5 DEF Locks
  <2>9. Locks'
    BY <2>6, <2>7, <2>8, <1>1 DEF Locks
  <2> QED BY <1>5, <1>6, <1>7, <2>9
<1> QED BY <1>8, <1>9

-----------------------------------------------------------------------------
(* Steps that give a connection back *)

LEMMA EndWorkStep ==
  ASSUME PoolInv, NEW c \in Clients, EndWork(c)
  PROVE  PoolInv'
<1> DEFINE x == workOn[c]
<1> USE DEF PoolInv
<1>1. /\ at[c] = "work" /\ Close(x, session[x])
      /\ workOn' = [workOn EXCEPT ![c] = NoConn]
      /\ at' = [at EXCEPT ![c] = "inside"]
      /\ UNCHANGED <<todo, lockOn, granted, slot>>
  BY DEF EndWork, lock
<1>2. x \in Conns /\ session[x] \in Sessions
  BY <1>1 DEF Stages, TypeOK
<1>3. PICK v \in {"idle", "closed"}, t \in {session[x], Ended} :
        /\ conn' = [conn EXCEPT ![x] = v]
        /\ session' = [session EXCEPT ![x] = t]
  BY <1>1, <1>2, CloseEffect
<1>4. TypeOK'
  BY <1>1, <1>2, <1>3, SessionTypes DEF TypeOK
<1>5. Stages'
  BY <1>1, RunsAreClients, PoolAssumption DEF Stages, TypeOK
<1>6. Owners'
  BY <1>1, <1>2, <1>3, RunsAreClients, PoolAssumption DEF Owners, TypeOK
<1>7. Locks'
  <2>1. \A r \in Runs, y \in Conns, s \in Slots : Holds(r, y, s)' <=> Holds(r, y, s)
    BY <1>1 DEF Holds
  <2>2. \A y \in Conns : session'[y] = session[y] \/ session'[y] = Ended
    BY <1>2, <1>3 DEF TypeOK
  <2>3. ~Ended.alive /\ Ended.locks = NoLocks /\ \A s \in Slots : NoLocks[s] = 0
    BY DEF Ended, NoLocks
  <2> QED BY <2>1, <2>2, <2>3 DEF Locks
<1> QED BY <1>4, <1>5, <1>6, <1>7

\* A run gives back its lock's connection, having taken one grant off the session it
\* was alive and inside with, or left one behind.
LEMMA GiveBackLock ==
  ASSUME PoolInv, NEW r \in Runs, NEW x \in Conns, lockOn[r] = x,
         NEW u \in Sessions, Close(x, u),
         \/ u = session[x] /\ (~session[x].alive \/ ~granted[r])
         \/ /\ session[x].alive /\ granted[r]
            /\ u.alive
            /\ \A s \in Slots : s # slot[r] =>
                 u.locks[s] = session[x].locks[s] /\ u.stuck[s] = session[x].stuck[s]
            /\ u.locks[slot[r]] - u.stuck[slot[r]] =
                 session[x].locks[slot[r]] - session[x].stuck[slot[r]] - 1
            /\ u.locks[slot[r]] <= session[x].locks[slot[r]],
         at[r] \in {"try", "inside"},
         at' = [at EXCEPT ![r] = "rest"],
         lockOn' = [lockOn EXCEPT ![r] = NoConn],
         granted' = [granted EXCEPT ![r] = FALSE],
         UNCHANGED <<todo, slot, workOn>>
  PROVE  PoolInv'
<1> USE DEF PoolInv
<1>1. PICK v \in {"idle", "closed"}, t \in {u, Ended} :
        /\ conn' = [conn EXCEPT ![x] = v]
        /\ session' = [session EXCEPT ![x] = t]
  BY CloseEffect
<1>2. TypeOK'
  BY <1>1, SessionTypes, RunsAreClients DEF TypeOK
<1>3. Stages'
  BY RunsAreClients, ClientsAssumption, PoolAssumption DEF Stages, TypeOK
<1>4. Owners'
  BY <1>1, RunsAreClients, PoolAssumption DEF Owners, TypeOK
<1>5. Locks'
  <2>1. \A p \in Runs, y \in Conns, s \in Slots :
          Holds(p, y, s)' <=> Holds(p, y, s) /\ p # r
    BY PoolAssumption DEF Holds, TypeOK
  <2>2. \A p \in Runs, s \in Slots :
          Holds(p, x, s) <=> p = r /\ granted[r] /\ slot[r] = s
    BY PoolAssumption DEF Holds, Owners, TypeOK
  <2>3. \A p \in Runs, s \in Slots : ~Holds(p, x, s)'
    BY <2>1, <2>2
  <2>4. \A y \in Conns, s \in Slots : y # x =>
          ((\E p \in Runs : Holds(p, y, s)') <=> (\E p \in Runs : Holds(p, y, s)))
    BY <2>1 DEF Holds
  <2>5. session'[x] \in {u, Ended} /\ \A y \in Conns : y # x => session'[y] = session[y]
    BY <1>1 DEF TypeOK
  <2>6. ~Ended.alive /\ Ended.locks = NoLocks /\ \A s \in Slots : NoLocks[s] = 0
    BY DEF Ended, NoLocks
  <2>7. \A y \in Conns, s \in Slots :
          /\ session[y].locks[s] \in Nat /\ session[y].stuck[s] \in Nat
          /\ u.locks[s] \in Nat /\ u.stuck[s] \in Nat
    BY DEF TypeOK, Sessions
  <2>8. \A s \in Slots : u.locks[s] <= session[x].locks[s]
    BY <2>7
  <2>9. \A s \in Slots : session'[x].locks[s] > 0 => session[x].locks[s] > 0
    BY <2>5, <2>6, <2>7, <2>8
  <2>10. \A s \in Slots : u.alive => u.locks[s] = u.stuck[s]
    <3> SUFFICES ASSUME NEW s \in Slots, u.alive PROVE u.locks[s] = u.stuck[s]
      OBVIOUS
    <3>1. slot[r] \in Slots
      BY DEF TypeOK
    <3>2. session[x].locks[s] = session[x].stuck[s]
            + (IF granted[r] /\ slot[r] = s THEN 1 ELSE 0)
      BY <2>2 DEF Locks
    <3> QED BY <2>7, <3>1, <3>2
  <2>11. \A y \in Conns : ~session'[y].alive => session'[y].locks = NoLocks
    BY <2>5, <2>6 DEF Locks
  <2>12. \A y \in Conns, s \in Slots : session'[y].alive =>
           session'[y].locks[s] =
             session'[y].stuck[s] + (IF \E p \in Runs : Holds(p, y, s)' THEN 1 ELSE 0)
    <3> SUFFICES ASSUME NEW y \in Conns, NEW s \in Slots, session'[y].alive
                 PROVE  session'[y].locks[s] =
                          session'[y].stuck[s]
                            + (IF \E p \in Runs : Holds(p, y, s)' THEN 1 ELSE 0)
      OBVIOUS
    <3>1. CASE y = x
      BY <3>1, <2>3, <2>5, <2>6, <2>7, <2>10
    <3>2. CASE y # x
      BY <3>2, <2>4, <2>5 DEF Locks
    <3> QED BY <3>1, <3>2
  <2>13. \A y, z \in Conns, s \in Slots :
           session'[y].locks[s] > 0 /\ session'[z].locks[s] > 0 => y = z
    BY <2>5, <2>9 DEF Locks
  <2> QED BY <2>11, <2>12, <2>13 DEF Locks
<1> QED BY <1>2, <1>3, <1>4, <1>5

LEMMA TryLockFailsStep ==
  ASSUME PoolInv, NEW r \in Runs, TryLockFails(r)
  PROVE  PoolInv'
<1> DEFINE x == lockOn[r]
<1>1. /\ at[r] = "try" /\ Close(x, session[x])
      /\ lockOn' = [lockOn EXCEPT ![r] = NoConn]
      /\ at' = [at EXCEPT ![r] = "rest"]
      /\ UNCHANGED <<todo, granted, slot, workOn>>
  BY DEF TryLockFails
<1>2. x \in Conns /\ session[x] \in Sessions /\ ~granted[r]
  BY <1>1 DEF PoolInv, Stages, TypeOK
<1>3. granted' = [granted EXCEPT ![r] = FALSE]
  BY <1>1, <1>2 DEF PoolInv, TypeOK
<1> QED BY <1>1, <1>2, <1>3, GiveBackLock

LEMMA LeaveStep ==
  ASSUME PoolInv, NEW r \in Runs, Leave(r)
  PROVE  PoolInv'
<1> DEFINE x == lockOn[r]
<1> DEFINE s == slot[r]
<1>1. /\ at[r] = "inside"
      /\ lockOn' = [lockOn EXCEPT ![r] = NoConn]
      /\ granted' = [granted EXCEPT ![r] = FALSE]
      /\ at' = [at EXCEPT ![r] = "rest"]
      /\ UNCHANGED <<todo, slot, workOn>>
  BY DEF Leave
<1>2. x \in Conns /\ session[x] \in Sessions /\ s \in Slots
  BY <1>1 DEF PoolInv, Stages, TypeOK
<1>3. CASE ~granted[r]
  <2>1. Close(x, session[x])
    BY <1>3, Zenon DEF Leave
  <2> QED BY <1>1, <1>2, <1>3, <2>1, GiveBackLock
<1>4. CASE granted[r]
  <2>1. PICK u \in Unlocked(x, s) : Close(x, u)
    BY <1>4, Zenon DEF Leave
  <2>2. CASE ~session[x].alive
    <3>1. u = session[x]
      BY <1>2, <2>1, <2>2, UnlockedEffect DEF PoolInv
    <3> QED BY <1>1, <1>2, <2>1, <2>2, <3>1, GiveBackLock
  <2>3. CASE session[x].alive
    <3>1. Holds(r, x, s)
      BY <1>4 DEF Holds
    <3>2. session[x].locks[s] = session[x].stuck[s] + 1
      BY <1>2, <2>3, <3>1 DEF PoolInv, Locks
    <3>3. \/ u = [session[x] EXCEPT !.locks[s] = @ - 1]
          \/ u = [session[x] EXCEPT !.stuck[s] = @ + 1]
      BY <1>2, <2>1, <2>3, UnlockedEffect DEF PoolInv
    <3>4. u \in Sessions
      BY <1>2, <3>2, <3>3 DEF Sessions
    <3>5. /\ u.alive
          /\ \A t \in Slots : t # s =>
               u.locks[t] = session[x].locks[t] /\ u.stuck[t] = session[x].stuck[t]
          /\ u.locks[s] - u.stuck[s] = session[x].locks[s] - session[x].stuck[s] - 1
          /\ u.locks[s] <= session[x].locks[s]
      BY <1>2, <2>3, <3>3 DEF Sessions
    <3> QED BY <1>1, <1>2, <1>4, <2>1, <2>3, <3>4, <3>5, GiveBackLock
  <2> QED BY <2>2, <2>3
<1> QED BY <1>3, <1>4

-----------------------------------------------------------------------------
(* The theorems *)

LEMMA NextPool == PoolInv /\ [Next]_vars => PoolInv'
<1> SUFFICES ASSUME PoolInv, [Next]_vars PROVE PoolInv'
  OBVIOUS
<1>1. CASE Next
  <2>1. ASSUME NEW r \in Runs,
               StartRun(r) \/ ConnectLock(r) \/ TryLock(r) \/ TryLockFails(r) \/ Leave(r)
        PROVE  PoolInv'
    BY <2>1, RunsAreClients, QuietStep, ConnectLockStep, TryLockStep, TryLockFailsStep,
       LeaveStep
  <2>2. ASSUME NEW q \in Requests, StartRequest(q) \/ EndRequest(q) PROVE PoolInv'
    BY <2>2, RunsAreClients, QuietStep
  <2>3. ASSUME NEW c \in Clients,
               Begin(c) \/ ConnectWork(c) \/ EndWork(c) \/ ConnectRaises(c)
        PROVE  PoolInv'
    BY <2>3, QuietStep, ConnectWorkStep, EndWorkStep
  <2>4. ASSUME NEW x \in Conns, SessionEnds(x) PROVE PoolInv'
    BY <2>4, SessionEndsStep
  <2> QED BY <1>1, <2>1, <2>2, <2>3, <2>4, NextCases
<1>2. CASE UNCHANGED vars
  <2>1. \A r \in Runs, y \in Conns, s \in Slots : Holds(r, y, s)' <=> Holds(r, y, s)
    BY <1>2 DEF Holds, vars, lock
  <2>2. Locks'
    BY <1>2, <2>1 DEF PoolInv, Locks, vars, pool
  <2> QED BY <1>2, <2>2 DEF PoolInv, TypeOK, Stages, Owners, vars, pool, lock
<1> QED BY <1>1, <1>2

THEOREM PoolInvariant == Spec => []PoolInv
BY InitPool, NextPool, PTL DEF Spec

\* Every variable of the pool and of its clients stays in its domain.
THEOREM TypeCorrect == Spec => []TypeOK
<1>1. PoolInv => TypeOK
  BY DEF PoolInv
<1> QED BY <1>1, PoolInvariant, PTL

LEMMA OwnersAccounted == PoolInv => ConnectionsAccounted
<1> SUFFICES ASSUME PoolInv PROVE ConnectionsAccounted
  OBVIOUS
<1> USE DEF PoolInv
<1>1. ASSUME NEW x \in Conns, conn[x] # "used"
      PROVE  LockUsers(x) = {} /\ WorkUsers(x) = {}
  BY <1>1, Unowned DEF LockUsers, WorkUsers
<1>2. ASSUME NEW x \in Conns, conn[x] = "used"
      PROVE  \E u \in Clients :
                \/ LockUsers(x) = {u} /\ WorkUsers(x) = {}
                \/ LockUsers(x) = {} /\ WorkUsers(x) = {u}
  <2>1. CASE \E r \in Runs : lockOn[r] = x
    <3>1. PICK r \in Runs : lockOn[r] = x
      BY <2>1
    <3>2. LockUsers(x) = {r} /\ WorkUsers(x) = {}
      BY <3>1, PoolAssumption DEF Owners, LockUsers, WorkUsers
    <3> QED BY <3>2, RunsAreClients
  <2>2. CASE \E c \in Clients : workOn[c] = x
    <3>1. PICK c \in Clients : workOn[c] = x
      BY <2>2
    <3>2. LockUsers(x) = {} /\ WorkUsers(x) = {c}
      BY <3>1, PoolAssumption DEF Owners, LockUsers, WorkUsers
    <3> QED BY <3>2
  <2> QED BY <1>2, <2>1, <2>2 DEF Owners
<1>3. \A c \in Clients :
        at[c] = "rest" => workOn[c] = NoConn /\ (c \in Runs => lockOn[c] = NoConn)
  BY DEF Stages
<1> QED BY <1>1, <1>2, <1>3 DEF ConnectionsAccounted

\* However a run or a request ends, it has given back every connection it took, and
\* no connection outside the pool is without a user.
THEOREM NoConnectionLost == Spec => []ConnectionsAccounted
BY OwnersAccounted, PoolInvariant, PTL

\* A pooled session has the locks of failed unlocks, and no others.
THEOREM NoLockLost == Spec => []LocksAccounted
<1>1. PoolInv => LocksAccounted
  BY DEF PoolInv, Locks, LocksAccounted
<1> QED BY <1>1, PoolInvariant, PTL

LEMMA LocksExclude == PoolInv => OneRunPerSlot
<1> SUFFICES ASSUME PoolInv, NEW r1 \in Runs, NEW r2 \in Runs,
                    granted[r1], granted[r2], slot[r1] = slot[r2],
                    session[lockOn[r1]].alive, session[lockOn[r2]].alive
             PROVE  r1 = r2
  BY DEF OneRunPerSlot
<1> USE DEF PoolInv
<1>1. /\ lockOn[r1] \in Conns /\ lockOn[r2] \in Conns
      /\ slot[r1] \in Slots
      /\ lockOn[r1] # NoConn
  BY PoolAssumption DEF Stages, TypeOK
<1>2. Holds(r1, lockOn[r1], slot[r1]) /\ Holds(r2, lockOn[r2], slot[r1])
  BY DEF Holds
<1>3. \A y \in Conns : session[y].stuck[slot[r1]] \in Nat
  BY <1>1 DEF TypeOK, Sessions
<1>4. /\ session[lockOn[r1]].locks[slot[r1]] > 0
      /\ session[lockOn[r2]].locks[slot[r1]] > 0
  BY <1>1, <1>2, <1>3 DEF Locks
<1>5. lockOn[r1] = lockOn[r2]
  BY <1>1, <1>4 DEF Locks
<1> QED BY <1>1, <1>5 DEF Owners

\* The advisory lock excludes, whatever is left on pooled sessions, except for a run
\* whose session has ended.
THEOREM OneRunInside == Spec => []OneRunPerSlot
BY LocksExclude, PoolInvariant, PTL

LEMMA StalledByLocks == PoolInv => StallNeedsRuns
<1> SUFFICES ASSUME PoolInv, Stalled, NEW x \in Conns
             PROVE  LockUsers(x) # {}
  BY DEF StallNeedsRuns
<1> USE DEF PoolInv
<1>1. conn[x] = "used"
  BY DEF Stalled, Available, Idle, TypeOK
<1>2. \A c \in Clients : workOn[c] = NoConn
  BY DEF Stalled, Uses, Stages
<1>3. \E r \in Runs : lockOn[r] = x
  BY <1>1, <1>2, PoolAssumption DEF Owners
<1> QED BY <1>3 DEF LockUsers

\* The pool stalls only when every connection it may have is kept for a run's lock.
THEOREM StalledOnlyByRuns == Spec => []StallNeedsRuns
BY StalledByLocks, PoolInvariant, PTL

\* With fewer runs than connections somebody can always go on.
THEOREM FewRunsNeverStall ==
  ASSUME IsFiniteSet(Runs), Cardinality(Runs) < Cardinality(Conns)
  PROVE  Spec => []~Stalled
<1>1. PoolInv => ~Stalled
  <2> SUFFICES ASSUME PoolInv, Stalled PROVE FALSE
    OBVIOUS
  <2>1. \A x \in Conns : \E r \in Runs : lockOn[r] = x
    BY StalledByLocks DEF StallNeedsRuns, LockUsers
  <2> DEFINE f == [x \in Conns |-> CHOOSE r \in Runs : lockOn[r] = x]
  <2>2. \A x \in Conns : f[x] \in Runs /\ lockOn[f[x]] = x
    BY <2>1
  <2> HIDE DEF f
  <2>3. \A x, y \in Conns : f[x] = f[y] => x = y
    BY <2>2
  <2>4. f \in Injection(Conns, Runs)
    BY <2>2, <2>3 DEF f, Injection, IsInjective
  <2>5. Cardinality(Conns) <= Cardinality(Runs)
    BY <2>4, PoolAssumption, FS_Injection
  <2>6. Cardinality(Conns) \in Nat /\ Cardinality(Runs) \in Nat
    BY PoolAssumption, FS_CardinalityType
  <2> QED BY <2>5, <2>6
<1> QED BY <1>1, PoolInvariant, PTL

-----------------------------------------------------------------------------
(* Why every client ends *)

\* The steps a client has left at most: three for each transaction it may still
\* begin, those of the present one, and its end.
StepsLeft(c) ==
  CASE at[c] = "rest"   -> 0
    [] at[c] = "inside" -> 3 * todo[c] + 1
    [] at[c] = "work"   -> 3 * todo[c] + 2
    [] at[c] = "begin"  -> 3 * todo[c] + 3
    [] at[c] = "try"    -> 3 * todo[c] + 2
    [] OTHER            -> 3 * todo[c] + 3

\* Every step of a client, a refused lock, a failed statement or a timeout among them,
\* takes it nearer to its end, and nobody else's step puts it off.
ClientsShorten ==
  \A c \in Clients :
    /\ Step(c) => StepsLeft(c)' < StepsLeft(c)
    /\ at[c] # "rest" => StepsLeft(c)' <= StepsLeft(c)

LEMMA OwnStep ==
  ASSUME TypeOK, NEW c \in Clients, Step(c) \/ ConnectRaises(c)
  PROVE  StepsLeft(c)' < StepsLeft(c)
<1>a. todo[c] \in Nat
  BY BoundsAssumption DEF TypeOK
<1> USE <1>a DEF TypeOK, StepsLeft
<1>1. CASE c \in Runs /\ ConnectLock(c) BY <1>1 DEF ConnectLock
<1>2. CASE c \in Runs /\ TryLock(c) BY <1>2 DEF TryLock
<1>3. CASE c \in Runs /\ TryLockFails(c) BY <1>3 DEF TryLockFails
<1>4. CASE c \in Runs /\ Leave(c) BY <1>4 DEF Leave
<1>5. CASE Begin(c)
  <2>1. todo'[c] = todo[c] - 1 /\ todo[c] > 0 /\ at[c] = "inside" /\ at'[c] = "begin"
    BY <1>5 DEF Begin
  <2> QED BY <2>1
<1>6. CASE EndRequest(c) BY <1>6 DEF EndRequest
<1>7. CASE ConnectWork(c) BY <1>7 DEF ConnectWork
<1>8. CASE EndWork(c) BY <1>8 DEF EndWork
<1>9. CASE ConnectRaises(c) BY <1>9 DEF ConnectRaises
<1> QED BY <1>1, <1>2, <1>3, <1>4, <1>5, <1>6, <1>7, <1>8, <1>9
        DEF Step, RunStep, WorkStep, TimesOut

LEMMA OthersStep ==
  ASSUME TypeOK, NEW c \in Clients, NEW d \in Clients \ {c}, Step(d) \/ ConnectRaises(d)
  PROVE  UNCHANGED <<at[c], todo[c]>>
<1> USE DEF TypeOK
<1>1. CASE RunStep(d) BY <1>1 DEF RunStep, ConnectLock, TryLock, TryLockFails, Leave
<1>2. CASE Begin(d) \/ EndRequest(d) BY <1>2 DEF Begin, EndRequest
<1>3. CASE WorkStep(d) \/ ConnectRaises(d)
  BY <1>3 DEF WorkStep, ConnectWork, EndWork, TimesOut, ConnectRaises
<1> QED BY <1>1, <1>2, <1>3 DEF Step

LEMMA ShortenNext == TypeOK /\ TypeOK' /\ [Next]_vars => [ClientsShorten]_vars
<1> SUFFICES ASSUME TypeOK, TypeOK', Next, NEW c \in Clients
             PROVE  /\ Step(c) => StepsLeft(c)' < StepsLeft(c)
                    /\ at[c] # "rest" => StepsLeft(c)' <= StepsLeft(c)
  BY DEF ClientsShorten
<1>a. /\ StepsLeft(c) \in Nat /\ StepsLeft(c)' \in Nat
      /\ UNCHANGED <<at[c], todo[c]>> => StepsLeft(c)' = StepsLeft(c)
  <2>1. todo[c] \in Nat /\ todo'[c] \in Nat
    BY BoundsAssumption DEF TypeOK
  <2> QED BY <2>1 DEF StepsLeft
<1>1. Step(c) => StepsLeft(c)' < StepsLeft(c)
  BY OwnStep
<1>2. ASSUME at[c] # "rest" PROVE StepsLeft(c)' <= StepsLeft(c)
  <2>1. ASSUME NEW d \in Clients, Step(d) \/ ServerRefuses(d)
        PROVE  StepsLeft(c)' <= StepsLeft(c)
    <3>1. CASE d = c
      BY <1>a, <2>1, <3>1, OwnStep DEF ServerRefuses
    <3>2. CASE d # c
      BY <1>a, <2>1, <3>2, OthersStep DEF ServerRefuses
    <3> QED BY <3>1, <3>2
  <2>2. ASSUME NEW d \in Clients, Start(d) PROVE UNCHANGED <<at[c], todo[c]>>
    BY <1>2, <2>2 DEF Start, StartRun, StartRequest, TypeOK
  <2>3. ASSUME NEW x \in Conns, SessionEnds(x) PROVE UNCHANGED <<at[c], todo[c]>>
    BY <2>3 DEF SessionEnds
  <2> QED BY <1>a, <2>1, <2>2, <2>3 DEF Next
<1> QED BY <1>1, <1>2

\* No run and no request goes round in a circle: after it has begun it takes at most
\* three steps for each of its transactions and three more, with every fault.
THEOREM ClientsAreShort == Spec => [][ClientsShorten]_vars
BY ShortenNext, TypeCorrect, PTL DEF Spec
=============================================================================
