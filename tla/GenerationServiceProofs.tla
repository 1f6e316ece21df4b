----------------------- MODULE GenerationServiceProofs -----------------------
(* What GenerationService guarantees for every value of its constants, and that *)
(* it implements HourlySlot.                                                    *)
EXTENDS GenerationRefinement, FiniteSetTheorems, TLAPS

-----------------------------------------------------------------------------
(* Type correctness *)

\* The initial state is well typed.
LEMMA TypeInit == Init => TypeOK
BY SlotsAssumption, TimesAssumption
   DEF Init, TypeOK, PCs, Inside, Executing, Statuses

\* What create_or_get_job and the stale recovery hand on is a job row.
LEMMA LoadedType ==
  ASSUME TypeOK, NEW s \in Slots
  PROVE  Loaded(s) \in [status : Statuses, retries : Nat, recipe : Nat]
<1>1. job[s] \in [status : Statuses, retries : Nat, recipe : Nat]
  BY DEF TypeOK
<1>2. CASE job[s].status = "absent"
  <2>1. Loaded(s) = [job[s] EXCEPT !.status = "pending"]
    BY <1>2 DEF Loaded, Stale
  <2> QED BY <1>1, <2>1 DEF Statuses
<1>3. CASE job[s].status # "absent" /\ Stale(s)
  <2>1. Loaded(s) = [job[s] EXCEPT !.status = "failed", !.retries = job[s].retries + 1]
    BY <1>3 DEF Loaded
  <2>2. job[s].retries + 1 \in Nat /\ "failed" \in Statuses
    BY <1>1 DEF Statuses
  <2> QED BY <1>1, <2>1, <2>2
<1>4. CASE job[s].status # "absent" /\ ~Stale(s)
  BY <1>1, <1>4 DEF Loaded
<1> QED BY <1>2, <1>3, <1>4

LEMMA CommitLoadedType ==
  ASSUME TypeOK, NEW s \in Slots, CommitLoaded(s)
  PROVE  /\ job' \in [Slots -> [status : Statuses, retries : Nat, recipe : Nat]]
         /\ slotRow' \in [Slots -> Statuses]
         /\ age' \in [Slots -> 0..StaleAfter]
<1>1. Loaded(s) \in [status : Statuses, retries : Nat, recipe : Nat]
  BY LoadedType
<1>2. "failed" \in Statuses /\ 0 \in 0..StaleAfter
  BY TimesAssumption DEF Statuses
<1> QED BY <1>1, <1>2 DEF TypeOK, CommitLoaded

\* A key is a slot and an attempt.
LEMMA KeyType ==
  ASSUME TypeOK, NEW p \in Procs, pc[p] # "idle"
  PROVE  Key(p) \in Slots \X Nat
BY DEF TypeOK, Key

\* A lease that begins has the whole timeout before it.
LEMMA FullLease ==
  ASSUME TypeOK, NEW s
  PROVE  [ttl EXCEPT ![s] = LockTimeout] \in [Slots -> 0..LockTimeout]
<1>1. LockTimeout \in 0..LockTimeout
  BY TimesAssumption
<1> QED BY <1>1 DEF TypeOK

LEMMA TypeLock ==
  ASSUME TypeOK, NEW p \in Procs, LockStep(p)
  PROVE  TypeOK'
<1> USE ProcsAssumption, TimesAssumption DEF TypeOK, PCs, Inside, Executing
<1> USE DEF callVars, lockVars, dbVars, storeVars, Goto, Finish
<1>1. CASE AcquireRedis(p) BY <1>1 DEF AcquireRedis, Entry
<1>2. CASE RedisBusy(p) BY <1>2 DEF RedisBusy
<1>3. CASE RedisAcquireError(p)
  <2>1. /\ redis' \in [Slots -> Procs \cup {NoOne, Ghost}]
        /\ ttl' \in [Slots -> 0..LockTimeout]
    <3>1. CASE UNCHANGED <<redis, ttl>>
      BY <3>1
    <3>2. CASE /\ redis' = [redis EXCEPT ![slot[p]] = Ghost]
               /\ ttl' = [ttl EXCEPT ![slot[p]] = LockTimeout]
      <4>1. redis' \in [Slots -> Procs \cup {NoOne, Ghost}]
        BY <3>2 DEF TypeOK
      <4>2. ttl' \in [Slots -> 0..LockTimeout]
        BY <3>2, FullLease
      <4> QED BY <4>1, <4>2
    <3> QED BY <1>3, <3>1, <3>2 DEF RedisAcquireError
  <2> QED BY <1>3, <2>1 DEF RedisAcquireError
<1>4. CASE AcquirePostgres(p) BY <1>4 DEF AcquirePostgres, Entry
<1>5. CASE PostgresBusy(p) BY <1>5 DEF PostgresBusy
<1>6. CASE PostgresError(p) BY <1>6 DEF PostgresError
<1>7. CASE ExitPostgres(p)
  <2>1. CASE pg[slot[p]] = p
    <3>1. pg' = [pg EXCEPT ![slot[p]] = NoOne] /\ UNCHANGED enqueue
      BY <1>7, <2>1 DEF ExitPostgres
    <3> QED BY <1>7, <3>1 DEF ExitPostgres
  <2>2. CASE pg[slot[p]] # p
    <3>1. enqueue' = [enqueue EXCEPT ![p] = FALSE] /\ UNCHANGED pg
      BY <1>7, <2>2 DEF ExitPostgres
    <3> QED BY <1>7, <3>1 DEF ExitPostgres
  <2> QED BY <2>1, <2>2
<1>8. CASE ExitRedis(p)
  <2>1. /\ redis' \in [Slots -> Procs \cup {NoOne, Ghost}]
        /\ ttl' \in [Slots -> 0..LockTimeout]
        /\ holds' \in [Procs -> SUBSET {"redis", "pg"}]
        /\ enqueue' \in [Procs -> BOOLEAN]
    BY <1>8 DEF ExitRedis, Leave
  <2>2. CASE enqueue[p]
    <3>1. /\ pc[p] = "exit" /\ Goto(p, "queued")
          /\ UNCHANGED <<callVars, pg, pooled, dbVars, storeVars>>
      BY <1>8, <2>2 DEF ExitRedis, Leave
    <3> QED BY <2>1, <3>1
  <2>3. CASE ~enqueue[p]
    <3>1. Finish(p) /\ UNCHANGED <<pg, pooled, dbVars, storeVars>>
      BY <1>8, <2>3 DEF ExitRedis, Leave
    <3> QED BY <2>1, <3>1
  <2> QED BY <2>2, <2>3
<1>9. CASE ExitPostgresError(p) BY <1>9 DEF ExitPostgresError
<1>10. CASE RedisReleaseError(p) BY <1>10 DEF RedisReleaseError
<1> QED BY <1>1, <1>2, <1>3, <1>4, <1>5, <1>6, <1>7, <1>8, <1>9, <1>10 DEF LockStep

LEMMA TypePrepare ==
  ASSUME TypeOK, NEW p \in Procs, PrepareStep(p)
  PROVE  TypeOK'
<1> DEFINE s == slot[p]
<1>0. PrepareStep(p) => s \in Slots
  BY DEF TypeOK, PrepareStep, LookupJob, CreateSlot, DatabaseError, JobRunning,
         JobExhausted, JobCompleted, StartAttempt, DispatchJob
<1>a. s \in Slots /\ Loaded(s) \in [status : Statuses, retries : Nat, recipe : Nat]
  BY <1>0, LoadedType
<1>b. CommitLoaded(s) => /\ job' \in [Slots -> [status : Statuses, retries : Nat, recipe : Nat]]
                         /\ slotRow' \in [Slots -> Statuses]
                         /\ age' \in [Slots -> 0..StaleAfter]
  BY <1>a, CommitLoadedType
<1> USE <1>a, TimesAssumption DEF TypeOK, PCs, Inside, Executing
<1> USE DEF callVars, lockVars, dbVars, storeVars, Goto
<1>1. CASE LookupJob(p) BY <1>1 DEF LookupJob
<1>2. CASE CreateSlot(p) BY <1>2 DEF CreateSlot, Onward, Statuses
<1>3. CASE DatabaseError(p) BY <1>3 DEF DatabaseError
<1>4. CASE JobRunning(p) BY <1>4 DEF JobRunning
<1>5. CASE JobExhausted(p) BY <1>5, <1>b DEF JobExhausted
<1>6. CASE JobCompleted(p) BY <1>6 DEF JobCompleted
<1>7. CASE StartAttempt(p)
  <2>1. /\ job' \in [Slots -> [status : Statuses, retries : Nat, recipe : Nat]]
        /\ slotRow' \in [Slots -> Statuses]
        /\ age' \in [Slots -> 0..StaleAfter]
        /\ attempts' \in [Slots -> Nat]
    BY <1>7 DEF StartAttempt, Statuses
  <2>2. att' \in [Procs -> Nat] /\ retry' \in [Procs -> Nat]
    BY <1>7 DEF StartAttempt
  <2>3. /\ pc' \in [Procs -> PCs]
        /\ \A q \in Procs : pc'[q] # "idle" => slot'[q] \in Slots
    BY <1>7 DEF StartAttempt, Onward
  <2> QED BY <1>7, <2>1, <2>2, <2>3 DEF StartAttempt
<1>8. CASE DispatchJob(p)
  <2>1. enqueue' \in [Procs -> BOOLEAN]
    BY <1>8 DEF DispatchJob
  <2> QED BY <1>8, <1>b, <2>1 DEF DispatchJob
<1> QED BY <1>1, <1>2, <1>3, <1>4, <1>5, <1>6, <1>7, <1>8 DEF PrepareStep

LEMMA TypeAttempt ==
  ASSUME TypeOK, NEW p \in Procs, AttemptStep(p)
  PROVE  TypeOK'
<1>0. pc[p] # "idle"
  BY DEF AttemptStep, Generate, GenerateError, Upload, UploadError, Persist,
         PersistError, Reload, ReloadError, DeleteObject, DeleteError,
         MarkFailed, MarkFailedError
<1>a. Key(p) \in Slots \X Nat
  BY <1>0, KeyType
<1>b. slot[p] \in Slots /\ 0 \in 0..StaleAfter
  BY <1>0, TimesAssumption DEF TypeOK
<1>c. CommitSuccess(p) => /\ job' \in [Slots -> [status : Statuses, retries : Nat, recipe : Nat]]
                          /\ slotRow' \in [Slots -> Statuses]
                          /\ age' \in [Slots -> 0..StaleAfter]
                          /\ recipes' \subseteq Slots \X Nat
                          /\ attempts' = attempts
  <2> SUFFICES ASSUME CommitSuccess(p)
               PROVE  /\ job' \in [Slots -> [status : Statuses, retries : Nat, recipe : Nat]]
                      /\ slotRow' \in [Slots -> Statuses]
                      /\ age' \in [Slots -> 0..StaleAfter]
                      /\ recipes' \subseteq Slots \X Nat
                      /\ attempts' = attempts
    OBVIOUS
  <2>1. job' \in [Slots -> [status : Statuses, retries : Nat, recipe : Nat]]
    <3>1. att[p] \in Nat /\ "completed" \in Statuses
      BY DEF TypeOK, Statuses
    <3>2. job' = [job EXCEPT ![slot[p]].status = "completed", ![slot[p]].recipe = att[p]]
      BY DEF CommitSuccess
    <3> QED BY <1>b, <3>1, <3>2 DEF TypeOK
  <2>2. slotRow' \in [Slots -> Statuses] /\ age' \in [Slots -> 0..StaleAfter]
    BY <1>b DEF TypeOK, CommitSuccess, Statuses
  <2> QED BY <1>a, <2>1, <2>2 DEF TypeOK, CommitSuccess
<1> USE <1>0, <1>a, <1>b DEF TypeOK, PCs, Inside, Executing
<1> USE DEF callVars, lockVars, dbVars, storeVars, Goto
<1>1. CASE Generate(p) BY <1>1 DEF Generate
<1>2. CASE GenerateError(p) BY <1>2 DEF GenerateError
<1>3. CASE Upload(p) BY <1>3 DEF Upload
<1>4. CASE UploadError(p) BY <1>4 DEF UploadError
<1>5. CASE Persist(p) BY <1>5, <1>c DEF Persist
<1>6. CASE PersistError(p) BY <1>6, <1>c DEF PersistError
<1>7. CASE Reload(p) BY <1>7 DEF Reload
<1>8. CASE ReloadError(p) BY <1>8 DEF ReloadError
<1>9. CASE DeleteObject(p) BY <1>9 DEF DeleteObject
<1>10. CASE DeleteError(p) BY <1>10 DEF DeleteError, Unreferenced
<1>11. CASE MarkFailed(p) BY <1>11 DEF MarkFailed, Statuses
<1>12. CASE MarkFailedError(p) BY <1>12 DEF MarkFailedError
<1> QED BY <1>1, <1>2, <1>3, <1>4, <1>5, <1>6, <1>7, <1>8, <1>9, <1>10, <1>11,
           <1>12 DEF AttemptStep

\* Every step keeps every variable in its domain.
LEMMA TypeNext == TypeOK /\ [Next]_vars => TypeOK'
<1> SUFFICES ASSUME TypeOK, [Next]_vars PROVE TypeOK'
  OBVIOUS
<1> USE DEF callVars, lockVars, dbVars, storeVars
<1>1. ASSUME NEW p \in Procs, Step(p) PROVE TypeOK'
  <2>1. CASE StartQueued(p)
    BY <2>1 DEF StartQueued, Goto, TypeOK, PCs
  <2> QED BY <1>1, <2>1, TypeLock, TypePrepare, TypeAttempt DEF Step
<1>2. ASSUME NEW p \in Procs, Crash(p) PROVE TypeOK'
  BY <1>2, KeyType DEF Crash, Finish, Unreferenced, TypeOK, PCs
<1>3. ASSUME NEW p \in Procs, NEW s \in Slots, StartRun(p, s) \/ StartPrepare(p, s)
      PROVE TypeOK'
  <2>1. CASE StartRun(p, s)
    BY <2>1 DEF StartRun, Goto, TypeOK, PCs
  <2>2. CASE StartPrepare(p, s)
    BY <2>2 DEF StartPrepare, Goto, TypeOK, PCs
  <2> QED BY <1>3, <2>1, <2>2
<1>4. ASSUME NEW s \in Slots, RedisForgets(s) \/ PostgresDrops(s) \/ PooledSessionEnds(s)
      PROVE TypeOK'
  <2>1. CASE RedisForgets(s)
    BY <2>1, TimesAssumption DEF RedisForgets, TypeOK
  <2>2. CASE PostgresDrops(s)
    BY <2>2 DEF PostgresDrops, TypeOK
  <2>3. CASE PooledSessionEnds(s)
    BY <2>3 DEF PooledSessionEnds, TypeOK
  <2> QED BY <1>4, <2>1, <2>2, <2>3
<1>5. CASE Tick
  BY <1>5, TimesAssumption DEF Tick, TypeOK
<1>6. CASE UNCHANGED vars
  BY <1>6 DEF vars, TypeOK
<1> QED BY <1>1, <1>2, <1>3, <1>4, <1>5, <1>6 DEF Next

\* The variables of every caller, lock, row and object stay in their domains,
\* for any number of callers and slots, any timeouts, retry limit and faults.
THEOREM TypeCorrect == Spec => []TypeOK
BY TypeInit, TypeNext, PTL DEF Spec

-----------------------------------------------------------------------------
(* What the groups of steps leave alone *)

\* Work under the lock leaves the locks alone and stays inside until it exits.
LEMMA WorkFrame ==
  ASSUME TypeOK, NEW p \in Procs, PrepareStep(p) \/ AttemptStep(p)
  PROVE  /\ UNCHANGED <<slot, call, holds, redis, ttl, pg>>
         /\ pc[p] \in Inside
         /\ \E label \in Inside \cup {"exit"} : pc' = [pc EXCEPT ![p] = label]
<1> USE DEF callVars, lockVars, Goto, Inside, Executing
<1>1. CASE PrepareStep(p)
  <2>1. CASE LookupJob(p) BY <2>1 DEF LookupJob
  <2>2. CASE CreateSlot(p) BY <2>2 DEF CreateSlot, Onward
  <2>3. CASE DatabaseError(p) BY <2>3 DEF DatabaseError
  <2>4. CASE JobRunning(p) BY <2>4 DEF JobRunning
  <2>5. CASE JobExhausted(p) BY <2>5 DEF JobExhausted
  <2>6. CASE JobCompleted(p) BY <2>6 DEF JobCompleted
  <2>7. CASE StartAttempt(p) BY <2>7 DEF StartAttempt, Onward
  <2>8. CASE DispatchJob(p) BY <2>8 DEF DispatchJob
  <2> QED BY <1>1, <2>1, <2>2, <2>3, <2>4, <2>5, <2>6, <2>7, <2>8 DEF PrepareStep
<1>2. CASE AttemptStep(p)
  <2>1. CASE Generate(p) BY <2>1 DEF Generate
  <2>2. CASE GenerateError(p) BY <2>2 DEF GenerateError
  <2>3. CASE Upload(p) \/ UploadError(p) BY <2>3 DEF Upload, UploadError
  <2>4. CASE Persist(p) BY <2>4 DEF Persist
  <2>5. CASE PersistError(p) BY <2>5 DEF PersistError
  <2>6. CASE Reload(p) \/ ReloadError(p) BY <2>6 DEF Reload, ReloadError
  <2>7. CASE DeleteObject(p) \/ DeleteError(p) BY <2>7 DEF DeleteObject, DeleteError
  <2>8. CASE MarkFailed(p) BY <2>8 DEF MarkFailed
  <2>9. CASE MarkFailedError(p) BY <2>9 DEF MarkFailedError
  <2> QED BY <1>2, <2>1, <2>2, <2>3, <2>4, <2>5, <2>6, <2>7, <2>8, <2>9 DEF AttemptStep
<1> QED BY <1>1, <1>2

\* Lock commands leave the rows and the objects alone, and no attempt is under
\* way in the caller before or after them.
LEMMA LockFrame ==
  ASSUME TypeOK, NEW p \in Procs, LockStep(p)
  PROVE  /\ UNCHANGED <<dbVars, storeVars>>
         /\ pc[p] \in {"redis", "pg", "exit"}
         /\ pc'[p] \in {"idle", "queued", "pg", "exit", "lookup", "slotRow"}
         /\ \A q \in Procs \ {p} : /\ pc'[q] = pc[q] /\ slot'[q] = slot[q]
                                   /\ call'[q] = call[q] /\ att'[q] = att[q]
                                   /\ retry'[q] = retry[q] /\ holds'[q] = holds[q]
                                   /\ enqueue'[q] = enqueue[q]
<1> USE DEF TypeOK, callVars, Goto, Finish
<1>1. CASE AcquireRedis(p) BY <1>1 DEF AcquireRedis, Entry
<1>2. CASE RedisBusy(p) BY <1>2 DEF RedisBusy
<1>3. CASE RedisAcquireError(p) BY <1>3 DEF RedisAcquireError
<1>4. CASE AcquirePostgres(p) BY <1>4 DEF AcquirePostgres, Entry
<1>5. CASE PostgresBusy(p) BY <1>5 DEF PostgresBusy
<1>6. CASE PostgresError(p) BY <1>6 DEF PostgresError
<1>7. CASE ExitPostgres(p) BY <1>7 DEF ExitPostgres
<1>8. CASE ExitRedis(p) BY <1>8 DEF ExitRedis, Leave
<1>9. CASE ExitPostgresError(p) BY <1>9 DEF ExitPostgresError
<1>10. CASE RedisReleaseError(p) BY <1>10 DEF RedisReleaseError
<1> QED BY <1>1, <1>2, <1>3, <1>4, <1>5, <1>6, <1>7, <1>8, <1>9, <1>10 DEF LockStep

-----------------------------------------------------------------------------
(* One worker per slot *)

\* What OneWorkerPerSlot rests on: where a caller is tells which locks are on
\* its exit stack, and a lock on the stack is really held, as long as nothing
\* takes it away.
LockInv ==
  \A p \in Procs :
    /\ pc[p] \in {"idle", "queued", "redis"} => holds[p] = {}
    /\ pc[p] = "pg" => holds[p] = {"redis"}
    /\ pc[p] \in Inside => "redis" \in holds[p] /\ (PostgresLock => "pg" \in holds[p])
    /\ "postgres" \notin Faults /\ "pg" \in holds[p] => pg[slot[p]] = p
    /\ LeaseCoversRun /\ "redis" \notin Faults /\ "redis" \in holds[p]
         => redis[slot[p]] = p

LEMMA LockInit == Init => LockInv
BY DEF Init, LockInv, Inside, Executing

LEMMA LockByLockStep ==
  ASSUME TypeOK, LockInv, NEW p \in Procs, LockStep(p)
  PROVE  LockInv'
<1>a. /\ pc \in [Procs -> PCs] /\ slot \in [Procs -> Slots \cup {None}]
      /\ holds \in [Procs -> SUBSET {"redis", "pg"}]
      /\ redis \in [Slots -> Procs \cup {NoOne, Ghost}]
      /\ pg \in [Slots -> Procs \cup {NoOne}]
      /\ slot[p] \in Slots
  BY LockFrame DEF TypeOK
<1>b. NoOne \notin Procs /\ Ghost \notin Procs
  BY ProcsAssumption
<1>c. \A q \in Procs \ {p} : pc'[q] = pc[q] /\ slot'[q] = slot[q] /\ holds'[q] = holds[q]
  BY LockFrame
<1> USE <1>a, <1>b DEF LockInv, Inside, Executing, Goto, Finish, callVars, lockVars
<1>1. CASE AcquireRedis(p) BY <1>1 DEF AcquireRedis, Entry
<1>2. CASE RedisBusy(p) BY <1>2 DEF RedisBusy
<1>3. CASE RedisAcquireError(p) BY <1>3 DEF RedisAcquireError
<1>4. CASE AcquirePostgres(p) BY <1>4 DEF AcquirePostgres, Entry
<1>5. CASE PostgresBusy(p) BY <1>5 DEF PostgresBusy
<1>6. CASE PostgresError(p) BY <1>6 DEF PostgresError
<1>7. CASE ExitPostgres(p)
  <2>1. /\ UNCHANGED <<pc, slot, redis>>
        /\ pc[p] = "exit" /\ holds' = [holds EXCEPT ![p] = @ \ {"pg"}]
    BY <1>7 DEF ExitPostgres
  <2>2. CASE pg[slot[p]] = p
    <3>1. pg' = [pg EXCEPT ![slot[p]] = NoOne]
      BY <1>7, <2>2 DEF ExitPostgres
    <3>2. \A q \in Procs \ {p} : pg[slot[q]] = q => pg'[slot[q]] = q
      BY <2>2, <3>1
    <3>3. "pg" \notin holds'[p]
      BY <2>1
    <3> QED BY <2>1, <3>2, <3>3
  <2>3. CASE pg[slot[p]] # p
    BY <1>7, <2>1, <2>3 DEF ExitPostgres
  <2> QED BY <2>2, <2>3
<1>8. CASE ExitRedis(p)
  <2>1. /\ pg' = pg
        /\ pc[p] = "exit" /\ holds' = [holds EXCEPT ![p] = {}]
        /\ redis' = [redis EXCEPT ![slot[p]] = IF @ = p THEN NoOne ELSE @]
    BY <1>8 DEF ExitRedis, Leave
  <2>2. pc'[p] \in {"idle", "queued"}
    BY <1>8 DEF ExitRedis, Leave
  <2> QED BY <2>1, <2>2, <1>c
<1>9. CASE ExitPostgresError(p)
  <2>1. /\ UNCHANGED <<pc, slot, redis>>
        /\ pc[p] = "exit" /\ holds' = [holds EXCEPT ![p] = @ \ {"pg"}]
        /\ pg[slot[p]] = p /\ pg' = [pg EXCEPT ![slot[p]] = NoOne]
    BY <1>9 DEF ExitPostgresError
  <2>2. \A q \in Procs \ {p} : pg[slot[q]] = q => pg'[slot[q]] = q
    BY <2>1
  <2>3. "pg" \notin holds'[p]
    BY <2>1
  <2> QED BY <2>1, <2>2, <2>3
<1>10. CASE RedisReleaseError(p) BY <1>10 DEF RedisReleaseError
<1> QED BY <1>1, <1>2, <1>3, <1>4, <1>5, <1>6, <1>7, <1>8, <1>9, <1>10 DEF LockStep

\* A lock is taken only when it is free, and a caller forgets its slot only
\* with an empty exit stack.
LEMMA LockNext == TypeOK /\ LockInv /\ [Next]_vars => LockInv'
<1> SUFFICES ASSUME TypeOK, LockInv, [Next]_vars PROVE LockInv'
  OBVIOUS
<1>1. ASSUME NEW p \in Procs, Step(p) PROVE LockInv'
  <2>1. CASE StartQueued(p)
    BY <2>1 DEF StartQueued, Goto, LockInv, TypeOK, Inside, Executing, lockVars
  <2>2. CASE LockStep(p)
    BY <2>2, LockByLockStep
  <2>3. CASE PrepareStep(p) \/ AttemptStep(p)
    BY <2>3, WorkFrame DEF LockInv, TypeOK, Inside, Executing
  <2> QED BY <1>1, <2>1, <2>2, <2>3 DEF Step
<1>2. ASSUME NEW p \in Procs, Crash(p) PROVE LockInv'
  BY <1>2, ProcsAssumption DEF Crash, Finish, LockInv, TypeOK, Inside, Executing
<1>3. ASSUME NEW p \in Procs, NEW s \in Slots, StartRun(p, s) \/ StartPrepare(p, s)
      PROVE LockInv'
  BY <1>3 DEF StartRun, StartPrepare, Goto, LockInv, TypeOK, Inside, Executing, lockVars
<1>4. ASSUME NEW s \in Slots, RedisForgets(s) \/ PostgresDrops(s) \/ PooledSessionEnds(s)
      PROVE LockInv'
  BY <1>4 DEF RedisForgets, PostgresDrops, PooledSessionEnds, LockInv, callVars
<1>5. CASE Tick
  BY <1>5 DEF Tick, LockInv, TypeOK, callVars, Inside, Executing
<1>6. CASE UNCHANGED vars
  BY <1>6 DEF vars, callVars, lockVars, LockInv
<1> QED BY <1>1, <1>2, <1>3, <1>4, <1>5, <1>6 DEF Next

LEMMA LockExcludes == ReliableLock /\ TypeOK /\ LockInv => OneWorkerPerSlot
BY DEF ReliableLock, TypeOK, LockInv, OneWorkerPerSlot

\* Two callers are never at work on the same slot, for any number of callers,
\* any timeouts and any faults but those that take a lock away silently.
THEOREM WorkersExclude == ReliableLock /\ Spec => []OneWorkerPerSlot
<1> SUFFICES ASSUME ReliableLock PROVE Spec => []OneWorkerPerSlot
  OBVIOUS
<1>1. TypeOK /\ LockInv => OneWorkerPerSlot
  BY LockExcludes
<1> QED BY <1>1, TypeInit, TypeNext, LockInit, LockNext, PTL DEF Spec

-----------------------------------------------------------------------------
(* Why every call returns *)

\* Where a caller is, counted from the end of its call: the steps it has left at most.
Place(p) ==
  CASE pc[p] = "idle"       -> 0
    [] pc[p] = "exit"       -> IF "pg" \in holds[p] THEN 2 ELSE 1
    [] pc[p] = "markFailed" -> 3
    [] pc[p] = "cleanup"    -> 4
    [] pc[p] = "reload"     -> 5
    [] pc[p] = "persist"    -> 6
    [] pc[p] = "upload"     -> 7
    [] pc[p] = "image"      -> 8
    [] pc[p] = "text"       -> 9
    [] pc[p] = "jobRow"     -> 10
    [] pc[p] = "slotRow"    -> 11
    [] pc[p] = "lookup"     -> 12
    [] pc[p] = "pg"         -> 13
    [] pc[p] = "redis"      -> 14
    [] OTHER                -> 15

\* run-now may have its background task before it.
StepsLeft(p) ==
  Place(p) + (IF call[p] = "prepare" /\ pc[p] \notin {"idle", "queued"} THEN 15 ELSE 0)

\* A caller's own steps take it nearer to the end of its call, and what other
\* callers, the environment and the clock do does not put it off.
CallsShorten ==
  \A p \in Procs :
    /\ Step(p) => StepsLeft(p)' < StepsLeft(p)
    /\ pc[p] # "idle" => StepsLeft(p)' <= StepsLeft(p)

\* A caller that leaves has a lock to release: its exit can be carried out.
ExitHolds == \A p \in Procs : pc[p] = "exit" => "redis" \in holds[p]

LEMMA ExitByLockStep ==
  ASSUME TypeOK, LockInv, ExitHolds, NEW p \in Procs, LockStep(p)
  PROVE  pc'[p] = "exit" => "redis" \in holds'[p]
<1> USE DEF TypeOK, LockInv, ExitHolds, callVars, Goto, Finish
<1>1. CASE AcquireRedis(p) BY <1>1 DEF AcquireRedis, Entry
<1>2. CASE RedisBusy(p) BY <1>2 DEF RedisBusy
<1>3. CASE RedisAcquireError(p) BY <1>3 DEF RedisAcquireError
<1>4. CASE AcquirePostgres(p) BY <1>4 DEF AcquirePostgres, Entry
<1>5. CASE PostgresBusy(p) BY <1>5 DEF PostgresBusy
<1>6. CASE PostgresError(p) BY <1>6 DEF PostgresError
<1>7. CASE ExitPostgres(p) BY <1>7 DEF ExitPostgres
<1>8. CASE ExitRedis(p) BY <1>8 DEF ExitRedis, Leave
<1>9. CASE ExitPostgresError(p) BY <1>9 DEF ExitPostgresError
<1>10. CASE RedisReleaseError(p) BY <1>10 DEF RedisReleaseError
<1> QED BY <1>1, <1>2, <1>3, <1>4, <1>5, <1>6, <1>7, <1>8, <1>9, <1>10 DEF LockStep

LEMMA ExitNext == TypeOK /\ LockInv /\ ExitHolds /\ [Next]_vars => ExitHolds'
<1> SUFFICES ASSUME TypeOK, LockInv, ExitHolds, [Next]_vars PROVE ExitHolds'
  OBVIOUS
<1>1. ASSUME NEW p \in Procs, PrepareStep(p) \/ AttemptStep(p) PROVE ExitHolds'
  BY <1>1, WorkFrame DEF ExitHolds, LockInv, TypeOK
<1>2. ASSUME NEW p \in Procs, LockStep(p) PROVE ExitHolds'
  BY <1>2, LockFrame, ExitByLockStep DEF ExitHolds
<1>3. ASSUME NEW p \in Procs, StartQueued(p) \/ Crash(p) PROVE ExitHolds'
  BY <1>3 DEF StartQueued, Crash, Goto, Finish, ExitHolds, TypeOK
<1>4. ASSUME NEW p \in Procs, NEW s \in Slots, StartRun(p, s) \/ StartPrepare(p, s)
      PROVE ExitHolds'
  BY <1>4 DEF StartRun, StartPrepare, Goto, ExitHolds, TypeOK
<1>5. CASE UNCHANGED <<pc, holds>>
  BY <1>5 DEF ExitHolds
<1> QED
  BY <1>1, <1>2, <1>3, <1>4, <1>5 DEF Next, Step, RedisForgets, PostgresDrops,
     PooledSessionEnds, Tick, vars

\* Where a call ends, in every path through the locks and the handlers, the Redis
\* lock is still on the exit stack: no caller comes to its exit with nothing to
\* release, and none releases twice.
THEOREM ExitHasItsLock == Spec => []ExitHolds
<1>1. Init => ExitHolds
  BY DEF Init, ExitHolds
<1> QED BY <1>1, TypeInit, TypeNext, LockInit, LockNext, ExitNext, PTL DEF Spec

\* Only run-now enqueues, and it has decided to do so only when it leaves: a
\* background task never enqueues another one.
PrepareEnqueues == \A p \in Procs : enqueue[p] => call[p] = "prepare" /\ pc[p] = "exit"

LEMMA EnqueueByLockStep ==
  ASSUME TypeOK, PrepareEnqueues, NEW p \in Procs, LockStep(p)
  PROVE  enqueue'[p] => call'[p] = "prepare" /\ pc'[p] = "exit"
<1> USE DEF TypeOK, PrepareEnqueues, callVars, Goto, Finish
<1>1. CASE AcquireRedis(p) BY <1>1 DEF AcquireRedis
<1>2. CASE RedisBusy(p) BY <1>2 DEF RedisBusy
<1>3. CASE RedisAcquireError(p) BY <1>3 DEF RedisAcquireError
<1>4. CASE AcquirePostgres(p) BY <1>4 DEF AcquirePostgres
<1>5. CASE PostgresBusy(p) BY <1>5 DEF PostgresBusy
<1>6. CASE PostgresError(p) BY <1>6 DEF PostgresError
<1>7. CASE ExitPostgres(p) BY <1>7 DEF ExitPostgres
<1>8. CASE ExitRedis(p) BY <1>8 DEF ExitRedis, Leave
<1>9. CASE ExitPostgresError(p) BY <1>9 DEF ExitPostgresError
<1>10. CASE RedisReleaseError(p) BY <1>10 DEF RedisReleaseError
<1> QED BY <1>1, <1>2, <1>3, <1>4, <1>5, <1>6, <1>7, <1>8, <1>9, <1>10 DEF LockStep

LEMMA EnqueueByWork ==
  ASSUME TypeOK, PrepareEnqueues, NEW p \in Procs, PrepareStep(p) \/ AttemptStep(p)
  PROVE  PrepareEnqueues'
<1>a. /\ UNCHANGED call /\ pc[p] # "exit"
      /\ \A q \in Procs \ {p} : pc'[q] = pc[q]
  BY WorkFrame DEF TypeOK, Inside, Executing
<1>1. CASE DispatchJob(p)
  BY <1>a, <1>1 DEF DispatchJob, Goto, TypeOK, PrepareEnqueues
<1>2. CASE UNCHANGED enqueue
  BY <1>a, <1>2 DEF PrepareEnqueues
<1>3. CASE PrepareStep(p)
  BY <1>1, <1>2, <1>3 DEF PrepareStep, LookupJob, CreateSlot, DatabaseError, JobRunning,
     JobExhausted, JobCompleted, StartAttempt
<1>4. CASE AttemptStep(p)
  BY <1>2, <1>4 DEF AttemptStep, Generate, GenerateError, Upload, UploadError, Persist,
     PersistError, Reload, ReloadError, DeleteObject, DeleteError, MarkFailed,
     MarkFailedError
<1> QED BY <1>3, <1>4

LEMMA EnqueueNext == TypeOK /\ PrepareEnqueues /\ [Next]_vars => PrepareEnqueues'
<1> SUFFICES ASSUME TypeOK, PrepareEnqueues, [Next]_vars PROVE PrepareEnqueues'
  OBVIOUS
<1>1. ASSUME NEW p \in Procs, LockStep(p) PROVE PrepareEnqueues'
  BY <1>1, LockFrame, EnqueueByLockStep DEF PrepareEnqueues
<1>2. ASSUME NEW p \in Procs, StartQueued(p) \/ Crash(p) PROVE PrepareEnqueues'
  BY <1>2 DEF StartQueued, Crash, Goto, Finish, PrepareEnqueues, TypeOK
<1>3. ASSUME NEW p \in Procs, NEW s \in Slots, StartRun(p, s) \/ StartPrepare(p, s)
      PROVE PrepareEnqueues'
  BY <1>3 DEF StartRun, StartPrepare, Goto, PrepareEnqueues, TypeOK
<1>4. CASE UNCHANGED <<pc, call, enqueue>>
  BY <1>4 DEF PrepareEnqueues
<1> QED
  BY <1>1, <1>2, <1>3, <1>4, EnqueueByWork DEF Next, Step, RedisForgets,
     PostgresDrops, PooledSessionEnds, Tick, vars, callVars

LEMMA EnqueueAlways == Spec => []PrepareEnqueues
<1>1. Init => PrepareEnqueues
  BY DEF Init, PrepareEnqueues
<1> QED BY <1>1, TypeInit, TypeNext, EnqueueNext, PTL DEF Spec

LEMMA ShortenByLockStep ==
  ASSUME TypeOK, LockInv, PrepareEnqueues, NEW p \in Procs, LockStep(p)
  PROVE  StepsLeft(p)' < StepsLeft(p)
<1> USE DEF TypeOK, LockInv, callVars, Goto, Finish, StepsLeft, Place
<1>1. CASE AcquireRedis(p) BY <1>1 DEF AcquireRedis, Entry
<1>2. CASE RedisBusy(p) BY <1>2 DEF RedisBusy
<1>3. CASE RedisAcquireError(p) BY <1>3 DEF RedisAcquireError
<1>4. CASE AcquirePostgres(p) BY <1>4 DEF AcquirePostgres, Entry
<1>5. CASE PostgresBusy(p) BY <1>5 DEF PostgresBusy
<1>6. CASE PostgresError(p) BY <1>6 DEF PostgresError
<1>7. CASE ExitPostgres(p) BY <1>7 DEF ExitPostgres
<1>8. CASE ExitRedis(p)
  <2>1. pc[p] = "exit" /\ call' \in [Procs -> {"run", "prepare", None}]
    BY <1>8 DEF ExitRedis, Leave
  <2>2. CASE enqueue[p]
    <3>1. pc'[p] = "queued" /\ call' = call
      BY <1>8, <2>2 DEF ExitRedis, Leave
    <3>2. call[p] = "prepare"
      BY <2>2 DEF PrepareEnqueues
    <3>3. StepsLeft(p)' = 15
      BY <3>1
    <3>4. StepsLeft(p) > 15
      BY <2>1, <3>2
    <3> QED BY <3>3, <3>4
  <2>3. CASE ~enqueue[p]
    <3>1. pc'[p] = "idle"
      BY <1>8, <2>3 DEF ExitRedis, Leave
    <3>2. StepsLeft(p)' = 0
      BY <3>1
    <3>3. StepsLeft(p) > 0
      BY <2>1
    <3> QED BY <3>2, <3>3
  <2> QED BY <2>2, <2>3
<1>9. CASE ExitPostgresError(p) BY <1>9 DEF ExitPostgresError
<1>10. CASE RedisReleaseError(p) BY <1>10 DEF RedisReleaseError
<1> QED BY <1>1, <1>2, <1>3, <1>4, <1>5, <1>6, <1>7, <1>8, <1>9, <1>10 DEF LockStep

LEMMA ShortenByWork ==
  ASSUME TypeOK, NEW p \in Procs, PrepareStep(p) \/ AttemptStep(p)
  PROVE  StepsLeft(p)' < StepsLeft(p)
<1>a. UNCHANGED <<call, holds>>
  BY WorkFrame
<1> USE <1>a DEF TypeOK, Goto, StepsLeft, Place
<1>1. CASE PrepareStep(p)
  <2>1. CASE LookupJob(p) BY <2>1 DEF LookupJob
  <2>2. CASE CreateSlot(p) BY <2>2 DEF CreateSlot, Onward
  <2>3. CASE DatabaseError(p) BY <2>3 DEF DatabaseError
  <2>4. CASE JobRunning(p) BY <2>4 DEF JobRunning
  <2>5. CASE JobExhausted(p) BY <2>5 DEF JobExhausted
  <2>6. CASE JobCompleted(p) BY <2>6 DEF JobCompleted
  <2>7. CASE StartAttempt(p) BY <2>7 DEF StartAttempt, Onward
  <2>8. CASE DispatchJob(p) BY <2>8 DEF DispatchJob
  <2> QED BY <1>1, <2>1, <2>2, <2>3, <2>4, <2>5, <2>6, <2>7, <2>8 DEF PrepareStep
<1>2. CASE AttemptStep(p)
  <2>1. CASE Generate(p) BY <2>1 DEF Generate
  <2>2. CASE GenerateError(p) BY <2>2 DEF GenerateError
  <2>3. CASE Upload(p) \/ UploadError(p) BY <2>3 DEF Upload, UploadError
  <2>4. CASE Persist(p) \/ PersistError(p) BY <2>4 DEF Persist, PersistError
  <2>5. CASE Reload(p) \/ ReloadError(p) BY <2>5 DEF Reload, ReloadError
  <2>6. CASE DeleteObject(p) \/ DeleteError(p) BY <2>6 DEF DeleteObject, DeleteError
  <2>7. CASE MarkFailed(p) \/ MarkFailedError(p) BY <2>7 DEF MarkFailed, MarkFailedError
  <2> QED BY <1>2, <2>1, <2>2, <2>3, <2>4, <2>5, <2>6, <2>7 DEF AttemptStep
<1> QED BY <1>1, <1>2

LEMMA StepsLeftType == \A p : StepsLeft(p) \in 0..30 /\ StepsLeft(p)' \in 0..30
BY DEF StepsLeft, Place

LEMMA ShortenNext == TypeOK /\ LockInv /\ PrepareEnqueues /\ [Next]_vars => [CallsShorten]_vars
<1> SUFFICES ASSUME TypeOK, LockInv, PrepareEnqueues, Next, NEW p \in Procs
             PROVE  /\ Step(p) => StepsLeft(p)' < StepsLeft(p)
                    /\ pc[p] # "idle" => StepsLeft(p)' <= StepsLeft(p)
  BY DEF CallsShorten
<1>a. StepsLeft(p) \in Nat /\ (UNCHANGED <<pc[p], call[p], holds[p]>>
                                 => StepsLeft(p)' = StepsLeft(p))
  BY StepsLeftType DEF StepsLeft, Place
<1>1. ASSUME Step(p) PROVE StepsLeft(p)' < StepsLeft(p)
  <2>1. CASE StartQueued(p)
    BY <2>1 DEF StartQueued, Goto, TypeOK, StepsLeft, Place
  <2> QED BY <1>1, <2>1, ShortenByLockStep, ShortenByWork DEF Step
<1>2. ASSUME ~Step(p), pc[p] # "idle" PROVE StepsLeft(p)' <= StepsLeft(p)
  <2>1. ASSUME NEW q \in Procs, q # p, Step(q) PROVE UNCHANGED <<pc[p], call[p], holds[p]>>
    <3>1. CASE StartQueued(q)
      BY <2>1, <3>1 DEF StartQueued, Goto, TypeOK
    <3>2. CASE LockStep(q)
      BY <2>1, <3>2, LockFrame
    <3>3. CASE PrepareStep(q) \/ AttemptStep(q)
      BY <2>1, <3>3, WorkFrame DEF TypeOK
    <3> QED BY <2>1, <3>1, <3>2, <3>3 DEF Step
  <2>2. ASSUME NEW q \in Procs, Crash(q) PROVE StepsLeft(p)' <= StepsLeft(p)
    <3>1. CASE q = p
      <4>1. pc'[p] = "idle"
        BY <2>2, <3>1 DEF Crash, Finish, TypeOK
      <4>2. StepsLeft(p)' = 0
        BY <4>1 DEF StepsLeft, Place
      <4> QED BY <1>a, <4>2
    <3>2. CASE q # p
      BY <2>2, <3>2, <1>a DEF Crash, Finish, TypeOK
    <3> QED BY <3>1, <3>2
  <2>3. ASSUME NEW q \in Procs, NEW s \in Slots, StartRun(q, s) \/ StartPrepare(q, s)
        PROVE  UNCHANGED <<pc[p], call[p], holds[p]>>
    BY <1>2, <2>3 DEF StartRun, StartPrepare, Goto, TypeOK
  <2>4. ASSUME UNCHANGED <<pc, call, holds>> PROVE UNCHANGED <<pc[p], call[p], holds[p]>>
    BY <2>4
  <2> QED BY <1>2, <1>a, <2>1, <2>2, <2>3, <2>4
          DEF Next, RedisForgets, PostgresDrops, PooledSessionEnds, Tick, callVars
<1> QED BY <1>1, <1>2, <1>a, StepsLeftType

\* A call takes at most 29 steps, a background task's included, whatever its lock, the
\* rows and the providers answer: no path leads back, and no other caller, crash or
\* lost key makes it longer.
THEOREM CallsAreShort == Spec => [][CallsShorten]_vars
BY TypeInit, TypeNext, LockInit, LockNext, EnqueueAlways, ShortenNext, PTL DEF Spec

-----------------------------------------------------------------------------
(* A worker and the job it started *)

\* Work for a slot changes the rows of that slot alone, and its caller alone.
LEMMA OwnSlotFrame ==
  ASSUME TypeOK, NEW p \in Procs, PrepareStep(p) \/ AttemptStep(p)
  PROVE  /\ slot[p] \in Slots
         /\ \A s \in Slots \ {slot[p]} :
              /\ job'[s] = job[s] /\ attempts'[s] = attempts[s]
              /\ slotRow'[s] = slotRow[s] /\ age'[s] = age[s]
         /\ \A q \in Procs \ {p} : att'[q] = att[q] /\ retry'[q] = retry[q]
<1>a. slot[p] \in Slots
  BY WorkFrame DEF TypeOK, Inside, Executing
<1>b. /\ job \in [Slots -> [status : Statuses, retries : Nat, recipe : Nat]]
      /\ slotRow \in [Slots -> Statuses] /\ age \in [Slots -> 0..StaleAfter]
      /\ attempts \in [Slots -> Nat]
      /\ att \in [Procs -> Nat] /\ retry \in [Procs -> Nat]
  BY DEF TypeOK
<1> USE <1>a, <1>b DEF callVars, dbVars
<1>1. CASE PrepareStep(p)
  <2>1. CASE LookupJob(p) BY <2>1 DEF LookupJob
  <2>2. CASE CreateSlot(p) BY <2>2 DEF CreateSlot
  <2>3. CASE DatabaseError(p) BY <2>3 DEF DatabaseError
  <2>4. CASE JobRunning(p) BY <2>4 DEF JobRunning
  <2>5. CASE JobExhausted(p) BY <2>5 DEF JobExhausted, CommitLoaded
  <2>6. CASE JobCompleted(p) BY <2>6 DEF JobCompleted
  <2>7. CASE StartAttempt(p) BY <2>7 DEF StartAttempt
  <2>8. CASE DispatchJob(p) BY <2>8 DEF DispatchJob, CommitLoaded
  <2> QED BY <1>1, <2>1, <2>2, <2>3, <2>4, <2>5, <2>6, <2>7, <2>8 DEF PrepareStep
<1>2. CASE AttemptStep(p)
  <2>1. CASE Generate(p) BY <2>1 DEF Generate
  <2>2. CASE GenerateError(p) BY <2>2 DEF GenerateError
  <2>3. CASE Upload(p) \/ UploadError(p) BY <2>3 DEF Upload, UploadError
  <2>4. CASE Persist(p) BY <2>4 DEF Persist, CommitSuccess
  <2>5. CASE PersistError(p) BY <2>5 DEF PersistError, CommitSuccess
  <2>6. CASE Reload(p) \/ ReloadError(p) BY <2>6 DEF Reload, ReloadError
  <2>7. CASE DeleteObject(p) \/ DeleteError(p) BY <2>7 DEF DeleteObject, DeleteError
  <2>8. CASE MarkFailed(p) BY <2>8 DEF MarkFailed
  <2>9. CASE MarkFailedError(p) BY <2>9 DEF MarkFailedError
  <2> QED BY <1>2, <2>1, <2>2, <2>3, <2>4, <2>5, <2>6, <2>7, <2>8, <2>9 DEF AttemptStep
<1> QED BY <1>1, <1>2

\* What WorkerOwnsJob says of one caller.
Owns(p) ==
  pc[p] \in Executing =>
    /\ attempts[slot[p]] = att[p]
    /\ job[slot[p]].retries = retry[p]
    /\ job[slot[p]].status \in {"running", "completed"}
    /\ pc[p] \in {"text", "image", "upload", "persist"} =>
         job[slot[p]].status = "running"

LEMMA OwnsByPrepare ==
  ASSUME TypeOK, NEW p \in Procs, PrepareStep(p)
  PROVE  Owns(p)'
<1>a. slot[p] \in Slots /\ slot' = slot
  BY WorkFrame, OwnSlotFrame
<1>b. /\ pc \in [Procs -> PCs] /\ att \in [Procs -> Nat] /\ retry \in [Procs -> Nat]
      /\ job \in [Slots -> [status : Statuses, retries : Nat, recipe : Nat]]
      /\ attempts \in [Slots -> Nat]
  BY DEF TypeOK
<1> USE <1>a, <1>b DEF Owns, Executing, Goto
<1>1. CASE LookupJob(p) BY <1>1 DEF LookupJob
<1>2. CASE CreateSlot(p) BY <1>2 DEF CreateSlot, Onward
<1>3. CASE DatabaseError(p) BY <1>3 DEF DatabaseError
<1>4. CASE JobRunning(p) BY <1>4 DEF JobRunning
<1>5. CASE JobExhausted(p) BY <1>5 DEF JobExhausted
<1>6. CASE JobCompleted(p) BY <1>6 DEF JobCompleted
<1>7. CASE StartAttempt(p)
  <2>1. Loaded(slot[p]) \in [status : Statuses, retries : Nat, recipe : Nat]
    BY LoadedType
  <2> QED BY <1>7, <2>1 DEF StartAttempt
<1>8. CASE DispatchJob(p) BY <1>8 DEF DispatchJob
<1> QED BY <1>1, <1>2, <1>3, <1>4, <1>5, <1>6, <1>7, <1>8 DEF PrepareStep

LEMMA OwnsByAttempt ==
  ASSUME TypeOK, NEW p \in Procs, AttemptStep(p), Owns(p)
  PROVE  Owns(p)'
<1>a. slot[p] \in Slots /\ slot' = slot
  BY WorkFrame, OwnSlotFrame
<1>b. /\ pc \in [Procs -> PCs]
      /\ job \in [Slots -> [status : Statuses, retries : Nat, recipe : Nat]]
  BY DEF TypeOK
<1> USE <1>a, <1>b DEF Owns, Executing, Goto, callVars, dbVars
<1>1. CASE Generate(p) BY <1>1 DEF Generate
<1>2. CASE GenerateError(p) BY <1>2 DEF GenerateError
<1>3. CASE Upload(p) BY <1>3 DEF Upload
<1>4. CASE UploadError(p) BY <1>4 DEF UploadError
<1>5. CASE Persist(p) BY <1>5 DEF Persist, CommitSuccess
<1>6. CASE PersistError(p) BY <1>6 DEF PersistError, CommitSuccess
<1>7. CASE Reload(p) BY <1>7 DEF Reload
<1>8. CASE ReloadError(p) BY <1>8 DEF ReloadError
<1>9. CASE DeleteObject(p) BY <1>9 DEF DeleteObject
<1>10. CASE DeleteError(p) BY <1>10 DEF DeleteError
<1>11. CASE MarkFailed(p) BY <1>11 DEF MarkFailed
<1>12. CASE MarkFailedError(p) BY <1>12 DEF MarkFailedError
<1> QED BY <1>1, <1>2, <1>3, <1>4, <1>5, <1>6, <1>7, <1>8, <1>9, <1>10, <1>11,
           <1>12 DEF AttemptStep

LEMMA OwnInit == Init => WorkerOwnsJob
BY DEF Init, WorkerOwnsJob, Executing

\* A caller inside the lock writes the rows of its slot: no other caller is
\* executing there.
LEMMA OwnNext == TypeOK /\ OneWorkerPerSlot /\ WorkerOwnsJob /\ [Next]_vars => WorkerOwnsJob'
<1> SUFFICES ASSUME TypeOK, OneWorkerPerSlot, WorkerOwnsJob, [Next]_vars
             PROVE  WorkerOwnsJob'
  OBVIOUS
<1>0. WorkerOwnsJob <=> \A q \in Procs : Owns(q)
  BY DEF WorkerOwnsJob, Owns
<1>1. ASSUME NEW p \in Procs, Step(p) PROVE WorkerOwnsJob'
  <2>1. CASE StartQueued(p)
    BY <2>1 DEF StartQueued, Goto, WorkerOwnsJob, TypeOK, Executing, dbVars
  <2>2. CASE LockStep(p)
    BY <2>2, LockFrame DEF WorkerOwnsJob, Executing, dbVars
  <2>3. CASE PrepareStep(p) \/ AttemptStep(p)
    <3> SUFFICES ASSUME NEW q \in Procs PROVE Owns(q)'
      BY DEF WorkerOwnsJob, Owns
    <3>1. CASE q = p
      BY <1>0, <2>3, <3>1, OwnsByPrepare, OwnsByAttempt
    <3>2. CASE q # p
      <4>1. pc'[q] = pc[q] /\ slot' = slot /\ att'[q] = att[q] /\ retry'[q] = retry[q]
        BY <2>3, <3>2, WorkFrame, OwnSlotFrame DEF TypeOK
      <4>2. CASE pc[q] \in Executing
        <5>1. slot[q] # slot[p] /\ slot[q] \in Slots
          BY <2>3, <3>2, <4>2, WorkFrame DEF OneWorkerPerSlot, TypeOK, Inside, Executing
        <5> QED BY <1>0, <2>3, <4>1, <5>1, OwnSlotFrame DEF Owns
      <4> QED BY <4>1, <4>2 DEF Owns
    <3> QED BY <3>1, <3>2
  <2> QED BY <1>1, <2>1, <2>2, <2>3 DEF Step
<1>2. ASSUME NEW p \in Procs, Crash(p) PROVE WorkerOwnsJob'
  BY <1>2 DEF Crash, Finish, WorkerOwnsJob, TypeOK, Executing, dbVars
<1>3. ASSUME NEW p \in Procs, NEW s \in Slots, StartRun(p, s) \/ StartPrepare(p, s)
      PROVE WorkerOwnsJob'
  BY <1>3 DEF StartRun, StartPrepare, Goto, WorkerOwnsJob, TypeOK, Executing, dbVars
<1>4. ASSUME NEW s \in Slots, RedisForgets(s) \/ PostgresDrops(s) \/ PooledSessionEnds(s)
      PROVE WorkerOwnsJob'
  BY <1>4 DEF RedisForgets, PostgresDrops, PooledSessionEnds, WorkerOwnsJob, callVars,
     dbVars
<1>5. CASE Tick
  BY <1>5 DEF Tick, WorkerOwnsJob, callVars
<1>6. CASE UNCHANGED vars
  BY <1>6 DEF vars, callVars, dbVars, WorkerOwnsJob
<1> QED BY <1>1, <1>2, <1>3, <1>4, <1>5, <1>6 DEF Next

\* What a worker read when it began its attempt still holds when it writes.
THEOREM WorkerKeepsItsJob == ReliableLock /\ Spec => []WorkerOwnsJob
<1> SUFFICES ASSUME ReliableLock PROVE Spec => []WorkerOwnsJob
  OBVIOUS
<1>1. Spec => []TypeOK
  BY TypeCorrect
<1>2. Spec => []OneWorkerPerSlot
  BY WorkersExclude
<1> QED BY <1>1, <1>2, OwnInit, OwnNext, PTL DEF Spec

-----------------------------------------------------------------------------
(* The retry budget *)

\* Every attempt but the current or the successful one has cost a retry, and an
\* attempt begins only while there is one left (or none was used).
Budget(s) ==
  /\ attempts[s] = job[s].retries
                    + (IF job[s].status \in {"running", "completed"} THEN 1 ELSE 0)
  /\ job[s].status \in {"absent", "pending"} => job[s].retries = 0
  /\ job[s].status \in {"running", "completed"} =>
       job[s].retries < MaxRetryCount \/ job[s].retries = 0
  /\ job[s].status = "failed" => job[s].retries <= MaxRetryCount \/ job[s].retries <= 1

BudgetInv == \A s \in Slots : Budget(s)

\* The recovery of a stale job counts the attempt it gives up.
LEMMA LoadedBudget ==
  ASSUME TypeOK, NEW s \in Slots, Budget(s)
  PROVE  LET row == Loaded(s) IN
         /\ attempts[s] = row.retries
                           + (IF row.status \in {"running", "completed"} THEN 1 ELSE 0)
         /\ row.status # "absent"
         /\ row.status = "pending" => row.retries = 0
         /\ row.status \in {"running", "completed"} =>
              row.retries < MaxRetryCount \/ row.retries = 0
         /\ row.status = "failed" => row.retries <= MaxRetryCount \/ row.retries <= 1
<1>1. /\ job[s] \in [status : Statuses, retries : Nat, recipe : Nat]
      /\ attempts[s] \in Nat /\ MaxRetryCount \in Nat
  BY TimesAssumption DEF TypeOK
<1>2. CASE job[s].status = "absent"
  <2>1. Loaded(s) = [job[s] EXCEPT !.status = "pending"]
    BY <1>2 DEF Loaded, Stale
  <2> QED BY <1>1, <1>2, <2>1 DEF Budget
<1>3. CASE job[s].status # "absent" /\ Stale(s)
  <2>1. Loaded(s) = [job[s] EXCEPT !.status = "failed", !.retries = job[s].retries + 1]
    BY <1>3 DEF Loaded
  <2>2. job[s].status = "running"
    BY <1>3 DEF Stale
  <2> QED BY <1>1, <2>1, <2>2 DEF Budget
<1>4. CASE job[s].status # "absent" /\ ~Stale(s)
  <2>1. Loaded(s) = job[s]
    BY <1>4 DEF Loaded
  <2> QED BY <1>1, <1>4, <2>1 DEF Budget
<1> QED BY <1>2, <1>3, <1>4

LEMMA BudgetByPrepare ==
  ASSUME TypeOK, NEW p \in Procs, PrepareStep(p), Budget(slot[p])
  PROVE  Budget(slot[p])'
<1>a. slot[p] \in Slots /\ slot' = slot
  BY WorkFrame, OwnSlotFrame
<1>b. /\ job \in [Slots -> [status : Statuses, retries : Nat, recipe : Nat]]
      /\ attempts \in [Slots -> Nat] /\ MaxRetryCount \in Nat
  BY TimesAssumption DEF TypeOK
<1>c. Loaded(slot[p]) \in [status : Statuses, retries : Nat, recipe : Nat]
  BY <1>a, LoadedType
<1> USE <1>a, <1>b
<1>1. CASE UNCHANGED <<job, attempts>>
  BY <1>1 DEF Budget
<1>2. CASE CommitLoaded(slot[p]) /\ UNCHANGED attempts
  BY <1>2, <1>c, LoadedBudget DEF CommitLoaded, Budget
<1>3. CASE StartAttempt(p)
  BY <1>3, <1>c, LoadedBudget DEF StartAttempt, Startable, Exhausted, Budget
<1> QED
  BY <1>1, <1>2, <1>3 DEF PrepareStep, LookupJob, CreateSlot, DatabaseError, JobRunning,
     JobExhausted, JobCompleted, DispatchJob, dbVars

\* The failure handler counts the attempt it ends: the count it read is current.
LEMMA BudgetByAttempt ==
  ASSUME TypeOK, NEW p \in Procs, AttemptStep(p), Owns(p), Budget(slot[p])
  PROVE  Budget(slot[p])'
<1>a. slot[p] \in Slots /\ slot' = slot
  BY WorkFrame, OwnSlotFrame
<1>b. /\ job \in [Slots -> [status : Statuses, retries : Nat, recipe : Nat]]
      /\ attempts \in [Slots -> Nat] /\ MaxRetryCount \in Nat
  BY TimesAssumption DEF TypeOK
<1> USE <1>a, <1>b
<1>1. CASE UNCHANGED <<job, attempts>>
  BY <1>1 DEF Budget
<1>2. CASE pc[p] = "persist" /\ CommitSuccess(p)
  BY <1>2 DEF CommitSuccess, Budget, Owns, Executing
<1>3. CASE MarkFailed(p)
  BY <1>3 DEF MarkFailed, Budget, Owns, Executing
<1> QED
  BY <1>1, <1>2, <1>3 DEF AttemptStep, Generate, GenerateError, Upload, UploadError,
     Persist, PersistError, Reload, ReloadError, DeleteObject, DeleteError,
     MarkFailedError, dbVars

LEMMA BudgetInit == Init => BudgetInv
BY DEF Init, BudgetInv, Budget

LEMMA BudgetNext == TypeOK /\ WorkerOwnsJob /\ BudgetInv /\ [Next]_vars => BudgetInv'
<1> SUFFICES ASSUME TypeOK, WorkerOwnsJob, BudgetInv, [Next]_vars PROVE BudgetInv'
  OBVIOUS
<1>1. CASE UNCHANGED <<job, attempts>>
  BY <1>1 DEF BudgetInv, Budget
<1>2. ASSUME NEW p \in Procs, PrepareStep(p) \/ AttemptStep(p) PROVE BudgetInv'
  <2>1. Owns(p)
    BY DEF WorkerOwnsJob, Owns
  <2>2. Budget(slot[p])'
    BY <1>2, <2>1, OwnSlotFrame, BudgetByPrepare, BudgetByAttempt DEF BudgetInv
  <2>3. \A s \in Slots \ {slot[p]} : Budget(s)'
    BY <1>2, OwnSlotFrame DEF BudgetInv, Budget
  <2>4. slot[p]' = slot[p]
    BY <1>2, WorkFrame
  <2> QED BY <2>2, <2>3, <2>4 DEF BudgetInv, Budget
<1>3. ASSUME NEW p \in Procs, StartQueued(p) \/ LockStep(p) \/ Crash(p)
      PROVE UNCHANGED <<job, attempts>>
  BY <1>3, LockFrame DEF StartQueued, Crash, dbVars
<1> QED
  BY <1>1, <1>2, <1>3 DEF Next, Step, StartRun, StartPrepare, RedisForgets,
     PostgresDrops, PooledSessionEnds, Tick, vars, dbVars

LEMMA BudgetKept == TypeOK /\ BudgetInv => AttemptBudget
BY TimesAssumption DEF TypeOK, BudgetInv, Budget, AttemptBudget, Statuses

\* A slot is never attempted more often than generation_max_retry_count allows,
\* through crashes, recoveries, lost replies and failed failure handlers.
THEOREM AttemptsBounded == ReliableLock /\ Spec => []AttemptBudget
<1> SUFFICES ASSUME ReliableLock PROVE Spec => []AttemptBudget
  OBVIOUS
<1>1. Spec => []TypeOK
  BY TypeCorrect
<1>2. Spec => []WorkerOwnsJob
  BY WorkerKeepsItsJob
<1> QED BY <1>1, <1>2, BudgetInit, BudgetNext, BudgetKept, PTL DEF Spec

-----------------------------------------------------------------------------
(* Slot row and job row *)

\* The two rows of a slot agree, and once its slot row was committed, the
\* transactions that follow find it.
RowsInv ==
  /\ StatusAgreement
  /\ \A p \in Procs : pc[p] = "jobRow" => slotRow[slot[p]] # "absent"

\* What StatusAgreement says of one slot.
Agree(s) ==
  IF job[s].status = "absent" THEN slotRow[s] \in {"absent", "pending"}
                              ELSE slotRow[s] = job[s].status

LEMMA AgreeByPrepare ==
  ASSUME TypeOK, RowsInv, NEW p \in Procs, PrepareStep(p)
  PROVE  /\ Agree(slot[p])'
         /\ slotRow[slot[p]] # "absent" => slotRow'[slot[p]] # "absent"
         /\ pc'[p] = "jobRow" => slotRow'[slot[p]] # "absent"
<1>a. slot[p] \in Slots /\ slot' = slot /\ Agree(slot[p])
  BY WorkFrame, OwnSlotFrame DEF RowsInv, StatusAgreement, Agree
<1>b. /\ job \in [Slots -> [status : Statuses, retries : Nat, recipe : Nat]]
      /\ slotRow \in [Slots -> Statuses] /\ pc \in [Procs -> PCs]
  BY DEF TypeOK
<1>c. Loaded(slot[p]) \in [status : Statuses, retries : Nat, recipe : Nat]
  BY <1>a, LoadedType
<1> USE <1>a, <1>b
<1>1. CASE CreateSlot(p)
  BY <1>1 DEF CreateSlot, Onward, Agree
<1>2. CASE StartAttempt(p)
  BY <1>2, <1>c DEF StartAttempt, Onward, Agree
<1>3. CASE pc[p] = "jobRow" /\ CommitLoaded(slot[p]) /\ Goto(p, "exit")
  <2>0. slotRow[slot[p]] # "absent"
    BY <1>3 DEF RowsInv
  <2>1. CASE job[slot[p]].status = "absent"
    <3>1. Loaded(slot[p]).status = "pending" /\ ~Stale(slot[p])
      BY <2>1 DEF Loaded, Stale
    <3> QED BY <1>3, <2>0, <2>1, <3>1, <1>c DEF CommitLoaded, Agree, Goto
  <2>2. CASE job[slot[p]].status # "absent" /\ Stale(slot[p])
    <3>1. Loaded(slot[p]).status = "failed"
      BY <2>2 DEF Loaded
    <3> QED BY <1>3, <2>2, <3>1, <1>c DEF CommitLoaded, Agree, Goto
  <2>3. CASE job[slot[p]].status # "absent" /\ ~Stale(slot[p])
    <3>1. Loaded(slot[p]) = job[slot[p]]
      BY <2>3 DEF Loaded
    <3> QED BY <1>3, <2>0, <2>3, <3>1 DEF CommitLoaded, Agree, Goto
  <2> QED BY <2>1, <2>2, <2>3
<1>4. CASE UNCHANGED dbVars /\ pc'[p] # "jobRow"
  BY <1>4 DEF dbVars, Agree
<1> QED
  BY <1>1, <1>2, <1>3, <1>4 DEF PrepareStep, LookupJob, DatabaseError, JobRunning,
     JobExhausted, JobCompleted, DispatchJob, Goto

LEMMA AgreeByAttempt ==
  ASSUME TypeOK, RowsInv, NEW p \in Procs, AttemptStep(p)
  PROVE  /\ Agree(slot[p])'
         /\ slotRow[slot[p]] # "absent" => slotRow'[slot[p]] # "absent"
         /\ pc'[p] # "jobRow"
<1>a. slot[p] \in Slots /\ slot' = slot /\ Agree(slot[p])
  BY WorkFrame, OwnSlotFrame DEF RowsInv, StatusAgreement, Agree
<1>b. /\ job \in [Slots -> [status : Statuses, retries : Nat, recipe : Nat]]
      /\ slotRow \in [Slots -> Statuses] /\ pc \in [Procs -> PCs]
  BY DEF TypeOK
<1>1. pc'[p] # "jobRow"
  BY <1>b DEF AttemptStep, Generate, GenerateError, Upload, UploadError, Persist,
     PersistError, Reload, ReloadError, DeleteObject, DeleteError, MarkFailed,
     MarkFailedError, Goto
<1>2. CASE UNCHANGED dbVars
  BY <1>a, <1>1, <1>2 DEF dbVars, Agree
<1>3. CASE CommitSuccess(p)
  BY <1>a, <1>b, <1>1, <1>3 DEF CommitSuccess, Agree
<1>4. CASE MarkFailed(p)
  BY <1>a, <1>b, <1>1, <1>4 DEF MarkFailed, Agree
<1> QED
  BY <1>2, <1>3, <1>4 DEF AttemptStep, Generate, GenerateError, Upload, UploadError,
     Persist, PersistError, Reload, ReloadError, DeleteObject, DeleteError,
     MarkFailedError

LEMMA RowsInit == Init => RowsInv
BY DEF Init, RowsInv, StatusAgreement

LEMMA RowsNext == TypeOK /\ RowsInv /\ [Next]_vars => RowsInv'
<1> SUFFICES ASSUME TypeOK, RowsInv, [Next]_vars PROVE RowsInv'
  OBVIOUS
<1>1. ASSUME NEW p \in Procs, PrepareStep(p) \/ AttemptStep(p) PROVE RowsInv'
  <2>1. /\ slot[p] \in Slots /\ slot' = slot
        /\ \A q \in Procs \ {p} : pc'[q] = pc[q]
    BY <1>1, WorkFrame, OwnSlotFrame DEF TypeOK
  <2>2. /\ Agree(slot[p])'
        /\ slotRow[slot[p]] # "absent" => slotRow'[slot[p]] # "absent"
        /\ pc'[p] = "jobRow" => slotRow'[slot[p]] # "absent"
    BY <1>1, AgreeByPrepare, AgreeByAttempt
  <2>3. \A s \in Slots \ {slot[p]} : slotRow'[s] = slotRow[s] /\ job'[s] = job[s]
    BY <1>1, OwnSlotFrame
  <2>4. StatusAgreement'
    BY <2>1, <2>2, <2>3 DEF RowsInv, StatusAgreement, Agree
  <2>5. ASSUME NEW q \in Procs, pc'[q] = "jobRow" PROVE slotRow'[slot[q]] # "absent"
    <3>1. CASE q = p BY <2>2, <2>5, <3>1
    <3>2. CASE q # p
      <4>1. pc[q] = "jobRow" /\ slot[q] \in Slots
        BY <2>1, <2>5, <3>2 DEF TypeOK
      <4> QED BY <2>2, <2>3, <4>1 DEF RowsInv
    <3> QED BY <3>1, <3>2
  <2> QED BY <2>1, <2>4, <2>5 DEF RowsInv
<1>2. ASSUME NEW p \in Procs, LockStep(p) PROVE RowsInv'
  BY <1>2, LockFrame DEF RowsInv, StatusAgreement, dbVars
<1>3. ASSUME NEW p \in Procs, StartQueued(p) \/ Crash(p) PROVE RowsInv'
  BY <1>3 DEF StartQueued, Crash, Goto, Finish, RowsInv, StatusAgreement, TypeOK, dbVars
<1>4. ASSUME NEW p \in Procs, NEW s \in Slots, StartRun(p, s) \/ StartPrepare(p, s)
      PROVE RowsInv'
  BY <1>4 DEF StartRun, StartPrepare, Goto, RowsInv, StatusAgreement, TypeOK, dbVars
<1>5. ASSUME UNCHANGED <<pc, callVars, slotRow, job>> PROVE RowsInv'
  BY <1>5 DEF RowsInv, StatusAgreement, callVars
<1> QED
  BY <1>1, <1>2, <1>3, <1>4, <1>5 DEF Next, Step, RedisForgets, PostgresDrops,
     PooledSessionEnds, Tick,
     vars, dbVars

\* Slot row and job row tell the same status, for every value of the constants.
THEOREM RowsAgree == Spec => []StatusAgreement
<1>1. RowsInv => StatusAgreement
  BY DEF RowsInv
<1> QED BY <1>1, TypeInit, TypeNext, RowsInit, RowsNext, PTL DEF Spec

-----------------------------------------------------------------------------
(* The objects in the bucket *)

\* The keys of the workers whose object no row refers to yet.
InFlight == {Key(p) : p \in {q \in Procs : pc[q] \in {"persist", "cleanup"}}}

\* A step of another caller does not change a caller's key.
LEMMA KeysOfOthers ==
  ASSUME NEW p \in Procs, NEW k \in InFlight,
         \A q \in Procs \ {p} : pc'[q] = pc[q] /\ slot'[q] = slot[q] /\ att'[q] = att[q]
  PROVE  \/ k = Key(p) /\ pc[p] \in {"persist", "cleanup"}
         \/ k \in InFlight'
BY DEF InFlight, Key

LEMMA ObjectsByAttempt ==
  ASSUME TypeOK, ObjectsAccounted, NEW p \in Procs, AttemptStep(p)
  PROVE  ObjectsAccounted'
<1>a. /\ slot' = slot /\ att' = att /\ pc \in [Procs -> PCs]
      /\ \A q \in Procs \ {p} : pc'[q] = pc[q]
  BY WorkFrame DEF TypeOK, AttemptStep, Generate, GenerateError, Upload, UploadError,
     Persist, PersistError, Reload, ReloadError, DeleteObject, DeleteError, MarkFailed,
     MarkFailedError, callVars
<1>b. objects \subseteq recipes \cup leaked \cup InFlight
  BY DEF ObjectsAccounted, InFlight
<1>c. \A k \in InFlight : \/ k = Key(p) /\ pc[p] \in {"persist", "cleanup"}
                          \/ k \in InFlight'
  BY <1>a, KeysOfOthers
<1>d. pc'[p] \in {"persist", "cleanup"} => Key(p) \in InFlight'
  BY <1>a DEF InFlight, Key
<1> SUFFICES objects' \subseteq recipes' \cup leaked' \cup InFlight'
  BY DEF ObjectsAccounted, InFlight
<1> USE <1>a, <1>b, <1>c, <1>d DEF Goto, dbVars, storeVars
<1>1. CASE Generate(p) BY <1>1 DEF Generate
<1>2. CASE GenerateError(p) BY <1>2 DEF GenerateError
<1>3. CASE Upload(p) BY <1>3 DEF Upload
<1>4. CASE UploadError(p) BY <1>4 DEF UploadError
<1>5. CASE Persist(p) BY <1>5 DEF Persist, CommitSuccess
<1>6. CASE PersistError(p)
  <2>1. recipes \subseteq recipes' /\ UNCHANGED <<objects, leaked>> /\ Key(p) \in InFlight'
    BY <1>6 DEF PersistError, CommitSuccess
  <2> QED BY <2>1
<1>7. CASE Reload(p) BY <1>7 DEF Reload
<1>8. CASE ReloadError(p) BY <1>8 DEF ReloadError
<1>9. CASE DeleteObject(p) BY <1>9 DEF DeleteObject
<1>10. CASE DeleteError(p) BY <1>10 DEF DeleteError, Unreferenced
<1>11. CASE MarkFailed(p) BY <1>11 DEF MarkFailed
<1>12. CASE MarkFailedError(p) BY <1>12 DEF MarkFailedError
<1> QED BY <1>1, <1>2, <1>3, <1>4, <1>5, <1>6, <1>7, <1>8, <1>9, <1>10, <1>11,
           <1>12 DEF AttemptStep

LEMMA ObjectsInit == Init => ObjectsAccounted
BY DEF Init, ObjectsAccounted

LEMMA ObjectsNext == TypeOK /\ ObjectsAccounted /\ [Next]_vars => ObjectsAccounted'
<1> SUFFICES ASSUME TypeOK, ObjectsAccounted, [Next]_vars PROVE ObjectsAccounted'
  OBVIOUS
<1>a. objects \subseteq recipes \cup leaked \cup InFlight
  BY DEF ObjectsAccounted, InFlight
<1>b. ASSUME objects' \subseteq recipes' \cup leaked' \cup InFlight' PROVE ObjectsAccounted'
  BY <1>b DEF ObjectsAccounted, InFlight
\* A caller that holds no object that nobody else accounts for may go on.
<1>c. ASSUME NEW p \in Procs, pc[p] \notin {"persist", "cleanup"},
             UNCHANGED <<objects, recipes, leaked>>,
             \A q \in Procs \ {p} : pc'[q] = pc[q] /\ slot'[q] = slot[q] /\ att'[q] = att[q]
      PROVE  ObjectsAccounted'
  BY <1>a, <1>b, <1>c, KeysOfOthers
<1>1. ASSUME NEW p \in Procs, Step(p) PROVE ObjectsAccounted'
  <2>1. CASE StartQueued(p)
    BY <2>1, <1>c DEF StartQueued, Goto, TypeOK, dbVars, storeVars
  <2>2. CASE LockStep(p)
    BY <2>2, <1>c, LockFrame DEF dbVars, storeVars
  <2>3. CASE PrepareStep(p)
    <3>1. /\ pc[p] \notin {"persist", "cleanup"}
          /\ UNCHANGED <<objects, recipes, leaked>>
      BY <2>3 DEF PrepareStep, LookupJob, CreateSlot, DatabaseError, JobRunning,
         JobExhausted, JobCompleted, StartAttempt, DispatchJob, dbVars, storeVars
    <3>2. \A q \in Procs \ {p} : pc'[q] = pc[q] /\ slot'[q] = slot[q] /\ att'[q] = att[q]
      BY <2>3, WorkFrame, OwnSlotFrame DEF TypeOK
    <3> QED BY <1>c, <3>1, <3>2
  <2>4. CASE AttemptStep(p)
    BY <2>4, ObjectsByAttempt
  <2> QED BY <1>1, <2>1, <2>2, <2>3, <2>4 DEF Step
<1>2. ASSUME NEW p \in Procs, Crash(p) PROVE ObjectsAccounted'
  <2>1. /\ UNCHANGED <<objects, recipes>> /\ leaked' = leaked \cup Unreferenced(p)
        /\ \A q \in Procs \ {p} : pc'[q] = pc[q] /\ slot'[q] = slot[q] /\ att'[q] = att[q]
    BY <1>2 DEF Crash, Finish, TypeOK, dbVars
  <2>2. \A k \in InFlight : k = Key(p) \/ k \in InFlight'
    BY <2>1, KeysOfOthers
  <2> QED BY <1>a, <1>b, <2>1, <2>2 DEF Unreferenced
<1>3. ASSUME NEW p \in Procs, NEW s \in Slots, StartRun(p, s) \/ StartPrepare(p, s)
      PROVE ObjectsAccounted'
  BY <1>3, <1>c DEF StartRun, StartPrepare, Goto, TypeOK, dbVars, storeVars
<1>4. ASSUME UNCHANGED <<pc, callVars, recipes, storeVars>> PROVE ObjectsAccounted'
  BY <1>4 DEF ObjectsAccounted, Key, callVars, storeVars
<1> QED
  BY <1>1, <1>2, <1>3, <1>4 DEF Next, RedisForgets, PostgresDrops,
     PooledSessionEnds, Tick, vars, dbVars

\* The failure handling forgets no object: what neither a recipe nor a worker
\* accounts for was left by a crash or a delete that failed.
THEOREM NoForgottenObject == Spec => []ObjectsAccounted
BY TypeInit, TypeNext, ObjectsInit, ObjectsNext, PTL DEF Spec

-----------------------------------------------------------------------------
(* What is left of a slot when replies are lost *)

\* A COMPLETED job names a stored recipe, also when an exception made the caller
\* clean up after its commit.
CompletedHasRecipe ==
  \A s \in Slots : job[s].status = "completed" => <<s, job[s].recipe>> \in recipes

\* Every recipe and every object is of an attempt that was started, and so is the
\* work of every worker.
ContentInv ==
  /\ \A s \in Slots, n \in Nat : <<s, n>> \in Content => n \in 1..attempts[s]
  /\ \A p \in Procs : pc[p] \in Executing => att[p] \in 1..attempts[slot[p]]
  /\ CompletedHasRecipe

LEMMA ContentInit == Init => ContentInv
BY DEF Init, ContentInv, Content, CompletedHasRecipe, Executing

LEMMA ContentByPrepare ==
  ASSUME TypeOK, ContentInv, NEW p \in Procs, PrepareStep(p)
  PROVE  /\ UNCHANGED <<recipes, objects>>
         /\ attempts[slot[p]] <= attempts'[slot[p]]
         /\ pc'[p] \in Executing => att'[p] \in 1..attempts'[slot[p]]
         /\ job'[slot[p]].status = "completed" => job'[slot[p]] = job[slot[p]]
<1>a. slot[p] \in Slots /\ Loaded(slot[p]) \in [status : Statuses, retries : Nat, recipe : Nat]
  BY OwnSlotFrame, LoadedType
<1>b. /\ pc \in [Procs -> PCs] /\ att \in [Procs -> Nat]
      /\ job \in [Slots -> [status : Statuses, retries : Nat, recipe : Nat]]
      /\ attempts \in [Slots -> Nat]
  BY DEF TypeOK
<1>c. Loaded(slot[p]).status = "completed" => Loaded(slot[p]) = job[slot[p]]
  BY <1>a, <1>b DEF Loaded
<1> USE <1>a, <1>b DEF Executing, Goto, callVars, dbVars, storeVars
<1>1. CASE LookupJob(p) BY <1>1 DEF LookupJob
<1>2. CASE CreateSlot(p) BY <1>2 DEF CreateSlot, Onward
<1>3. CASE DatabaseError(p) BY <1>3 DEF DatabaseError
<1>4. CASE JobRunning(p) BY <1>4 DEF JobRunning
<1>5. CASE JobExhausted(p) BY <1>5, <1>c DEF JobExhausted, CommitLoaded
<1>6. CASE JobCompleted(p) BY <1>6 DEF JobCompleted
<1>7. CASE StartAttempt(p) BY <1>7 DEF StartAttempt
<1>8. CASE DispatchJob(p) BY <1>8, <1>c DEF DispatchJob, CommitLoaded
<1> QED BY <1>1, <1>2, <1>3, <1>4, <1>5, <1>6, <1>7, <1>8 DEF PrepareStep

LEMMA ContentByAttempt ==
  ASSUME TypeOK, ContentInv, NEW p \in Procs, AttemptStep(p)
  PROVE  /\ recipes \subseteq recipes' /\ Content' \subseteq Content \cup {Key(p)}
         /\ pc[p] \in Executing /\ UNCHANGED <<att, attempts>>
         /\ job'[slot[p]].status = "completed" =>
              <<slot[p], job'[slot[p]].recipe>> \in recipes'
<1>a. slot[p] \in Slots
  BY OwnSlotFrame
<1>b. /\ pc \in [Procs -> PCs]
      /\ job \in [Slots -> [status : Statuses, retries : Nat, recipe : Nat]]
  BY DEF TypeOK
<1>c. job[slot[p]].status = "completed" => <<slot[p], job[slot[p]].recipe>> \in recipes
  BY <1>a DEF ContentInv, CompletedHasRecipe
<1>d. CommitSuccess(p) => /\ recipes' = recipes \cup {Key(p)}
                          /\ <<slot[p], job'[slot[p]].recipe>> = Key(p)
  BY <1>a, <1>b DEF CommitSuccess, Key
<1> USE <1>a, <1>b, <1>c, <1>d DEF Content, Executing, callVars, dbVars, storeVars
<1>1. CASE Generate(p) BY <1>1 DEF Generate
<1>2. CASE GenerateError(p) BY <1>2 DEF GenerateError
<1>3. CASE Upload(p) BY <1>3 DEF Upload
<1>4. CASE UploadError(p) BY <1>4 DEF UploadError
<1>5. CASE Persist(p) BY <1>5 DEF Persist, CommitSuccess
<1>6. CASE PersistError(p) BY <1>6 DEF PersistError, CommitSuccess
<1>7. CASE Reload(p) BY <1>7 DEF Reload
<1>8. CASE ReloadError(p) BY <1>8 DEF ReloadError
<1>9. CASE DeleteObject(p) BY <1>9 DEF DeleteObject
<1>10. CASE DeleteError(p) BY <1>10 DEF DeleteError
<1>11. CASE MarkFailed(p) BY <1>11 DEF MarkFailed
<1>12. CASE MarkFailedError(p) BY <1>12 DEF MarkFailedError
<1> QED BY <1>1, <1>2, <1>3, <1>4, <1>5, <1>6, <1>7, <1>8, <1>9, <1>10, <1>11,
           <1>12 DEF AttemptStep

LEMMA ContentNext == TypeOK /\ ContentInv /\ [Next]_vars => ContentInv'
<1> SUFFICES ASSUME TypeOK, ContentInv, [Next]_vars PROVE ContentInv'
  OBVIOUS
<1> USE DEF ContentInv, Content, CompletedHasRecipe
<1>1. ASSUME NEW p \in Procs, PrepareStep(p) \/ AttemptStep(p) PROVE ContentInv'
  <2>a. /\ slot' = slot /\ slot[p] \in Slots /\ attempts \in [Slots -> Nat]
        /\ pc \in [Procs -> PCs] /\ slot \in [Procs -> Slots \cup {None}]
        /\ \A q \in Procs : pc[q] \in Executing => slot[q] \in Slots
        /\ \A q \in Procs \ {p} : pc'[q] = pc[q] /\ att'[q] = att[q]
        /\ \A s \in Slots \ {slot[p]} : job'[s] = job[s] /\ attempts'[s] = attempts[s]
    BY <1>1, WorkFrame, OwnSlotFrame DEF TypeOK, Executing
  <2>b. /\ attempts[slot[p]] <= attempts'[slot[p]]
        /\ attempts[slot[p]] \in Nat /\ attempts'[slot[p]] \in Nat
    <3>1. attempts \in [Slots -> Nat] /\ attempts' \in [Slots -> Nat]
      BY TypeNext DEF TypeOK
    <3>2. PrepareStep(p) => attempts[slot[p]] <= attempts'[slot[p]]
      BY ContentByPrepare
    <3>3. AttemptStep(p) => attempts' = attempts
      BY ContentByAttempt
    <3> QED BY <1>1, <2>a, <3>1, <3>2, <3>3
  <2>c. \A s \in Slots, n \in Nat : n \in 1..attempts[s] => n \in 1..attempts'[s]
    BY <2>a, <2>b
  <2>1. \A s \in Slots, n \in Nat : <<s, n>> \in Content' => n \in 1..attempts'[s]
    <3>1. CASE PrepareStep(p)
      BY <2>c, <3>1, ContentByPrepare
    <3>2. CASE AttemptStep(p)
      BY <2>a, <2>c, <3>2, ContentByAttempt DEF Key
    <3> QED BY <1>1, <3>1, <3>2
  <2>2. \A q \in Procs : pc'[q] \in Executing => att'[q] \in 1..attempts'[slot'[q]]
    <3> SUFFICES ASSUME NEW q \in Procs, pc'[q] \in Executing
                 PROVE  att'[q] \in 1..attempts'[slot'[q]]
      OBVIOUS
    <3>1. CASE q # p
      BY <2>a, <2>c, <3>1
    <3>2. CASE q = p /\ PrepareStep(p)
      BY <2>a, <3>2, ContentByPrepare
    <3>3. CASE q = p /\ AttemptStep(p)
      BY <2>a, <2>c, <3>3, ContentByAttempt
    <3> QED BY <1>1, <3>1, <3>2, <3>3
  <2>3. CompletedHasRecipe'
    <3>1. CASE PrepareStep(p)
      BY <2>a, <3>1, ContentByPrepare
    <3>2. CASE AttemptStep(p)
      BY <2>a, <3>2, ContentByAttempt
    <3> QED BY <1>1, <3>1, <3>2
  <2> QED BY <2>1, <2>2, <2>3
\* The other steps leave the rows and the objects alone, and begin no attempt.
<1>2. ASSUME UNCHANGED <<recipes, objects, attempts>>,
             \A s \in Slots : job'[s] = job[s],
             \A q \in Procs : pc'[q] \in Executing =>
               pc[q] \in Executing /\ slot'[q] = slot[q] /\ att'[q] = att[q]
      PROVE  ContentInv'
  BY <1>2
<1>3. ASSUME NEW p \in Procs, StartQueued(p) \/ LockStep(p) \/ Crash(p) PROVE ContentInv'
  <2>1. CASE StartQueued(p)
    BY <2>1, <1>2 DEF StartQueued, Goto, TypeOK, Executing, dbVars, storeVars
  <2>2. CASE LockStep(p)
    BY <2>2, <1>2, LockFrame DEF Executing, dbVars, storeVars
  <2>3. CASE Crash(p)
    BY <2>3, <1>2 DEF Crash, Finish, TypeOK, Executing, dbVars
  <2> QED BY <1>3, <2>1, <2>2, <2>3
<1>4. ASSUME NEW p \in Procs, NEW s \in Slots, StartRun(p, s) \/ StartPrepare(p, s)
      PROVE ContentInv'
  BY <1>4, <1>2 DEF StartRun, StartPrepare, Goto, TypeOK, Executing, dbVars, storeVars
<1>5. CASE UNCHANGED <<pc, callVars, job, attempts, recipes, objects>>
  BY <1>5, <1>2 DEF callVars
<1> QED
  BY <1>1, <1>3, <1>4, <1>5 DEF Next, Step, RedisForgets, PostgresDrops,
     PooledSessionEnds, Tick, vars,
     dbVars, storeVars

LEMMA ContentAlways == Spec => []ContentInv
BY TypeInit, TypeNext, ContentInit, ContentNext, PTL DEF Spec

\* A job that says COMPLETED has its recipe, with every fault, replies lost after a
\* commit included.  Where the lock does not exclude, this is of transactions that
\* do not overlap.
THEOREM CompletedSlotHasRecipe == Spec => []CompletedHasRecipe
<1>1. ContentInv => CompletedHasRecipe
  BY DEF ContentInv
<1> QED BY <1>1, ContentAlways, PTL

LEMMA ContentCounts == TypeOK /\ ContentInv /\ AttemptBudget => ContentBounded
<1> SUFFICES ASSUME TypeOK, ContentInv, AttemptBudget, NEW s \in Slots
             PROVE  LET own == {k \in Content : k[1] = s}
                    IN  /\ IsFiniteSet(own)
                        /\ Cardinality(own) <= MaxRetryCount \/ Cardinality(own) <= 1
  BY DEF ContentBounded
<1> DEFINE own == {k \in Content : k[1] = s}
           numbers == 1..attempts[s]
           f == [n \in numbers |-> <<s, n>>]
<1>1. attempts[s] \in Nat
  BY DEF TypeOK
<1>2. IsFiniteSet(numbers) /\ Cardinality(numbers) = attempts[s]
  BY <1>1, FS_Interval
<1>3. own \subseteq {f[n] : n \in numbers}
  <2> SUFFICES ASSUME NEW k \in own PROVE \E n \in numbers : k = f[n]
    OBVIOUS
  <2>1. k \in Slots \X Nat /\ k[1] = s /\ k \in Content
    BY DEF Content, TypeOK
  <2>2. k = <<s, k[2]>> /\ k[2] \in Nat
    BY <2>1
  <2>3. k[2] \in numbers
    BY <2>1, <2>2 DEF ContentInv
  <2> QED BY <2>2, <2>3
<1>4. /\ IsFiniteSet({f[n] : n \in numbers})
      /\ Cardinality({f[n] : n \in numbers}) <= Cardinality(numbers)
  <2>1. f \in Surjection(numbers, {f[n] : n \in numbers})
    BY DEF Surjection
  <2> HIDE DEF f
  <2> QED BY <1>2, <2>1, FS_Surjection
<1>5. IsFiniteSet(own) /\ Cardinality(own) <= Cardinality({f[n] : n \in numbers})
  BY <1>3, <1>4, FS_Subset
<1>6. /\ Cardinality(own) \in Nat /\ Cardinality({f[n] : n \in numbers}) \in Nat
      /\ MaxRetryCount \in Nat
  BY <1>4, <1>5, FS_CardinalityType, TimesAssumption
<1>7. attempts[s] <= MaxRetryCount \/ attempts[s] <= 1
  BY DEF AttemptBudget
<1> HIDE DEF own, numbers, f
<1>8. Cardinality(own) <= attempts[s]
  BY <1>1, <1>2, <1>4, <1>5, <1>6
<1>9. IsFiniteSet(own) /\ (Cardinality(own) <= MaxRetryCount \/ Cardinality(own) <= 1)
  BY <1>1, <1>5, <1>6, <1>7, <1>8
<1> QED BY <1>9 DEF own

\* However often replies are lost, a slot's recipes and objects are bounded by its
\* retry budget, as long as the lock excludes.
THEOREM DuplicatesBounded == ReliableLock /\ Spec => []ContentBounded
<1> SUFFICES ASSUME ReliableLock PROVE Spec => []ContentBounded
  OBVIOUS
<1>1. Spec => []AttemptBudget
  BY AttemptsBounded
<1> QED BY <1>1, TypeCorrect, ContentAlways, ContentCounts, PTL

-----------------------------------------------------------------------------
(* One recipe per slot, its image stored, its job final *)

\* An error is an error of the attempt: the failure handler runs for a RUNNING
\* job, and a worker that persists has its image in the bucket.
AttemptInv ==
  \A p \in Procs :
    /\ pc[p] \in {"cleanup", "markFailed"} => job[slot[p]].status = "running"
    /\ pc[p] = "persist" => Key(p) \in objects

\* What RecipeMatchesJob says of one slot.
Matches(s) ==
  {k \in recipes : k[1] = s} =
    IF job[s].status = "completed" THEN {<<s, job[s].recipe>>} ELSE {}

RecipeInv == AttemptInv /\ RecipeMatchesJob /\ ImageStored

\* Preparing the job never touches a COMPLETED one, nor completes one.
LEMMA PrepareKeepsCompleted ==
  ASSUME TypeOK, NEW p \in Procs, PrepareStep(p)
  PROVE  /\ UNCHANGED <<recipes, objects>>
         /\ job[slot[p]].status = "completed" => job'[slot[p]] = job[slot[p]]
         /\ job[slot[p]].status # "completed" => job'[slot[p]].status # "completed"
         /\ pc'[p] \notin {"cleanup", "markFailed", "persist"}
<1>a. slot[p] \in Slots
  BY WorkFrame, OwnSlotFrame
<1>b. /\ job \in [Slots -> [status : Statuses, retries : Nat, recipe : Nat]]
      /\ pc \in [Procs -> PCs]
  BY DEF TypeOK
<1>c. Loaded(slot[p]) \in [status : Statuses, retries : Nat, recipe : Nat]
  BY <1>a, LoadedType
<1>d. CASE job[slot[p]].status = "completed"
  <2>1. Loaded(slot[p]) = job[slot[p]]
    BY <1>d DEF Loaded, Stale
  <2>2. ~StartAttempt(p)
    BY <1>d, <2>1 DEF StartAttempt, Startable
  <2> QED
    BY <1>a, <1>b, <1>d, <2>1, <2>2 DEF PrepareStep, LookupJob, CreateSlot, Onward,
       DatabaseError, JobRunning, JobExhausted, JobCompleted, DispatchJob,
       CommitLoaded, Goto, dbVars, storeVars
<1>e. CASE job[slot[p]].status # "completed"
  <2>1. Loaded(slot[p]).status # "completed"
    <3>1. CASE job[slot[p]].status = "absent"
      BY <1>b, <3>1, <1>a DEF Loaded, Stale
    <3>2. CASE job[slot[p]].status # "absent" /\ Stale(slot[p])
      BY <1>b, <3>2, <1>a DEF Loaded
    <3>3. CASE job[slot[p]].status # "absent" /\ ~Stale(slot[p])
      BY <1>e, <3>3 DEF Loaded
    <3> QED BY <3>1, <3>2, <3>3
  <2>2. CASE StartAttempt(p)
    BY <1>a, <1>b, <1>c, <1>e, <2>2 DEF StartAttempt, Onward, Goto, storeVars
  <2>3. CASE pc[p] = "jobRow" /\ CommitLoaded(slot[p]) /\ Goto(p, "exit")
             /\ UNCHANGED <<recipes, objects>>
    BY <1>a, <1>b, <1>e, <2>1, <2>3 DEF CommitLoaded, Goto
  <2> QED
    BY <1>a, <1>b, <1>e, <2>2, <2>3 DEF PrepareStep, LookupJob, CreateSlot, Onward,
       DatabaseError, JobRunning, JobExhausted, JobCompleted, DispatchJob,
       Goto, dbVars, storeVars
<1> QED BY <1>d, <1>e

\* What one step of an attempt does to its slot, its recipes and its object.
LEMMA RecipeByAttempt ==
  ASSUME "afterCommit" \notin Faults, TypeOK, RecipeInv, NEW p \in Procs,
         AttemptStep(p), Owns(p)
  PROVE  /\ Matches(slot[p])'
         /\ \A k \in recipes' \ recipes : k[1] = slot[p]
         /\ recipes \subseteq recipes'
         /\ ImageStored'
         /\ \A k \in objects \ objects' : k[1] = slot[p]
         /\ pc'[p] \in {"cleanup", "markFailed"} => job'[slot[p]].status = "running"
         /\ pc'[p] = "persist" => Key(p) \in objects'
         /\ job[slot[p]].status = "completed" => job'[slot[p]] = job[slot[p]]
<1>a. slot[p] \in Slots /\ slot' = slot
  BY WorkFrame, OwnSlotFrame
<1>b. /\ pc \in [Procs -> PCs] /\ att[p] \in Nat
      /\ job \in [Slots -> [status : Statuses, retries : Nat, recipe : Nat]]
      /\ recipes \subseteq Slots \X Nat
  BY DEF TypeOK
<1>c. /\ Matches(slot[p]) /\ recipes \subseteq objects
      /\ pc[p] \in {"text", "image", "upload", "persist", "cleanup", "markFailed"} =>
           job[slot[p]].status = "running"
      /\ pc[p] = "persist" => Key(p) \in objects
  BY <1>a DEF RecipeInv, AttemptInv, RecipeMatchesJob, Matches, ImageStored, Owns, Executing
<1>d. Key(p)[1] = slot[p] /\ Key(p) = <<slot[p], att[p]>>
  BY DEF Key
<1>e. pc[p] \in {"cleanup", "upload", "persist"} => Key(p) \notin recipes
  BY <1>c, <1>d DEF Matches
<1>1. CASE Upload(p) \/ UploadError(p)
  BY <1>1, <1>a, <1>b, <1>c, <1>d DEF Upload, UploadError, Goto, dbVars, Matches, ImageStored
<1>2. CASE Persist(p)
  <2>1. /\ recipes' = recipes \cup {Key(p)} /\ objects' = objects
        /\ job'[slot[p]].status = "completed" /\ job'[slot[p]].recipe = att[p]
    BY <1>2, <1>a, <1>b DEF Persist, CommitSuccess, storeVars
  <2>2. {k \in recipes : k[1] = slot[p]} = {}
    BY <1>2, <1>c DEF Persist, Matches
  <2>3. Matches(slot[p])'
    BY <2>1, <2>2, <1>a, <1>d DEF Matches
  <2> QED BY <1>2, <2>1, <2>3, <1>a, <1>b, <1>c, <1>d DEF Persist, Goto, ImageStored
<1>3. CASE DeleteObject(p) \/ DeleteError(p)
  <2>1. /\ UNCHANGED dbVars /\ objects' \in {objects, objects \ {Key(p)}}
        /\ pc[p] = "cleanup" /\ pc'[p] = "markFailed"
    BY <1>3, <1>b DEF DeleteObject, DeleteError, Goto
  <2> QED BY <2>1, <1>a, <1>c, <1>d, <1>e DEF dbVars, Matches, ImageStored
<1>4. CASE MarkFailed(p)
  <2>1. /\ UNCHANGED <<recipes, objects>> /\ pc[p] = "markFailed" /\ pc'[p] = "exit"
        /\ job'[slot[p]].status = "failed"
    BY <1>4, <1>a, <1>b DEF MarkFailed, Goto, storeVars
  <2> QED BY <2>1, <1>a, <1>c DEF Matches, ImageStored
<1>5. CASE UNCHANGED <<dbVars, objects>> /\ pc[p] # "reload"
           /\ pc'[p] # "persist"
  BY <1>5, <1>a, <1>c, WorkFrame DEF dbVars, Matches, ImageStored, AttemptStep, Generate,
     GenerateError, Upload, UploadError, Persist, PersistError, Reload, ReloadError,
     DeleteObject, DeleteError, MarkFailed, MarkFailedError
<1>6. CASE Reload(p)
  BY <1>6, <1>a, <1>b, <1>c DEF Reload, Goto, dbVars, storeVars, Matches, ImageStored
<1> QED
  BY <1>1, <1>2, <1>3, <1>4, <1>5, <1>6, <1>b DEF AttemptStep, Generate, GenerateError,
     PersistError, ReloadError, MarkFailedError, Goto, storeVars

LEMMA RecipeInit == Init => RecipeInv
BY DEF Init, RecipeInv, AttemptInv, RecipeMatchesJob, ImageStored

\* Work for a slot keeps RecipeInv: what it writes is its own slot's, where
\* nobody else works.
LEMMA RecipeByWork ==
  ASSUME "afterCommit" \notin Faults, TypeOK, OneWorkerPerSlot, WorkerOwnsJob, RecipeInv,
         NEW p \in Procs, PrepareStep(p) \/ AttemptStep(p)
  PROVE  RecipeInv'
<1>1. /\ slot[p] \in Slots /\ slot' = slot
      /\ \A q \in Procs \ {p} : pc'[q] = pc[q] /\ att'[q] = att[q]
      /\ \A s \in Slots \ {slot[p]} : job'[s] = job[s]
  BY WorkFrame, OwnSlotFrame DEF TypeOK
<1>2. /\ Matches(slot[p])'
      /\ \A k \in recipes' \ recipes : k[1] = slot[p]
      /\ recipes \subseteq recipes'
      /\ ImageStored'
      /\ \A k \in objects \ objects' : k[1] = slot[p]
      /\ pc'[p] \in {"cleanup", "markFailed"} => job'[slot[p]].status = "running"
      /\ pc'[p] = "persist" => Key(p)' \in objects'
  <2>1. CASE PrepareStep(p)
    <3>1. Matches(slot[p])
      BY <1>1 DEF RecipeInv, RecipeMatchesJob, Matches
    <3> QED
      BY <1>1, <2>1, <3>1, PrepareKeepsCompleted DEF RecipeInv, Matches, ImageStored
  <2>2. CASE AttemptStep(p)
    <3>1. Owns(p)
      BY DEF WorkerOwnsJob, Owns
    <3>2. att' = att
      BY <2>2 DEF AttemptStep, Generate, GenerateError, Upload, UploadError, Persist,
         PersistError, Reload, ReloadError, DeleteObject, DeleteError, MarkFailed,
         MarkFailedError, callVars
    <3>3. Key(p)' = Key(p)
      BY <1>1, <3>2 DEF Key
    <3> QED BY <1>1, <2>2, <3>1, <3>3, RecipeByAttempt
  <2> QED BY <2>1, <2>2
<1>3. RecipeMatchesJob'
  <2> SUFFICES ASSUME NEW s \in Slots PROVE Matches(s)'
    BY DEF RecipeMatchesJob, Matches
  <2>1. CASE s = slot[p]
    BY <1>1, <1>2, <2>1 DEF Matches
  <2>2. CASE s # slot[p]
    <3>1. {k \in recipes' : k[1] = s} = {k \in recipes : k[1] = s}
      BY <1>2, <2>2
    <3> QED BY <1>1, <2>2, <3>1 DEF RecipeInv, RecipeMatchesJob, Matches
  <2> QED BY <2>1, <2>2
<1>4. AttemptInv'
  <2> SUFFICES ASSUME NEW q \in Procs
               PROVE  /\ pc'[q] \in {"cleanup", "markFailed"} => job'[slot'[q]].status = "running"
                      /\ pc'[q] = "persist" => Key(q)' \in objects'
    BY DEF AttemptInv
  <2>1. CASE q = p
    BY <1>1, <1>2, <2>1
  <2>2. CASE q # p
    <3>1. pc'[q] = pc[q] /\ slot'[q] = slot[q] /\ Key(q)' = Key(q) /\ Key(q)[1] = slot[q]
      BY <1>1, <2>2 DEF Key
    <3>2. pc[q] \in Executing => slot[q] # slot[p] /\ slot[q] \in Slots
      BY <2>2, WorkFrame DEF OneWorkerPerSlot, TypeOK, Inside, Executing
    <3> QED BY <1>1, <1>2, <3>1, <3>2 DEF RecipeInv, AttemptInv, Executing
  <2> QED BY <2>1, <2>2
<1> QED BY <1>2, <1>3, <1>4 DEF RecipeInv

LEMMA RecipeNext ==
  ASSUME "afterCommit" \notin Faults
  PROVE  TypeOK /\ OneWorkerPerSlot /\ WorkerOwnsJob /\ RecipeInv /\ [Next]_vars => RecipeInv'
<1> SUFFICES ASSUME TypeOK, OneWorkerPerSlot, WorkerOwnsJob, RecipeInv, [Next]_vars
             PROVE  RecipeInv'
  OBVIOUS
\* A caller that is not executing, before or after, disturbs nothing.
<1>a. ASSUME NEW p \in Procs, UNCHANGED <<job, recipes, objects>>, pc'[p] \notin Executing,
             \A q \in Procs \ {p} : pc'[q] = pc[q] /\ slot'[q] = slot[q] /\ att'[q] = att[q]
      PROVE  RecipeInv'
  BY <1>a DEF RecipeInv, AttemptInv, RecipeMatchesJob, ImageStored, Key, Executing
<1>1. ASSUME NEW p \in Procs, Step(p) PROVE RecipeInv'
  <2>1. CASE StartQueued(p)
    BY <2>1, <1>a DEF StartQueued, Goto, TypeOK, Executing, dbVars, storeVars
  <2>2. CASE LockStep(p)
    BY <2>2, <1>a, LockFrame DEF Executing, dbVars, storeVars
  <2>3. CASE PrepareStep(p) \/ AttemptStep(p)
    BY <2>3, RecipeByWork
  <2> QED BY <1>1, <2>1, <2>2, <2>3 DEF Step
<1>2. ASSUME NEW p \in Procs, Crash(p) PROVE RecipeInv'
  BY <1>2, <1>a DEF Crash, Finish, TypeOK, Executing, dbVars
<1>3. ASSUME NEW p \in Procs, NEW s \in Slots, StartRun(p, s) \/ StartPrepare(p, s)
      PROVE RecipeInv'
  BY <1>3, <1>a DEF StartRun, StartPrepare, Goto, TypeOK, Executing, dbVars, storeVars
<1>4. ASSUME UNCHANGED <<pc, callVars, job, recipes, storeVars>> PROVE RecipeInv'
  BY <1>4 DEF RecipeInv, AttemptInv, RecipeMatchesJob, ImageStored, Key, callVars, storeVars
<1> QED
  BY <1>1, <1>2, <1>3, <1>4 DEF Next, RedisForgets, PostgresDrops,
     PooledSessionEnds, Tick, vars, dbVars

\* A step changes no COMPLETED job.
LEMMA FinalNext ==
  ASSUME "afterCommit" \notin Faults, TypeOK, WorkerOwnsJob, RecipeInv, [Next]_vars,
         NEW s \in Slots, job[s].status = "completed"
  PROVE  job'[s] = job[s]
<1>1. CASE UNCHANGED job
  BY <1>1
<1>2. ASSUME NEW p \in Procs, PrepareStep(p) \/ AttemptStep(p) PROVE job'[s] = job[s]
  <2>1. Owns(p)
    BY DEF WorkerOwnsJob, Owns
  <2> QED BY <1>2, <2>1, OwnSlotFrame, PrepareKeepsCompleted, RecipeByAttempt
<1>3. ASSUME NEW p \in Procs, StartQueued(p) \/ LockStep(p) \/ Crash(p) PROVE UNCHANGED job
  BY <1>3, LockFrame DEF StartQueued, Crash, dbVars
<1> QED
  BY <1>1, <1>2, <1>3 DEF Next, Step, StartRun, StartPrepare, RedisForgets,
     PostgresDrops, PooledSessionEnds, Tick, vars, dbVars

\* What the theorems below assume: workers exclude each other, and what happens
\* after the success has committed does not fail.
Dependable == ReliableLock /\ "afterCommit" \notin Faults

LEMMA RecipesInvariant == ASSUME Dependable PROVE Spec => []RecipeInv
<1>1. Spec => []TypeOK
  BY TypeCorrect
<1>2. Spec => []OneWorkerPerSlot
  BY WorkersExclude DEF Dependable
<1>3. Spec => []WorkerOwnsJob
  BY WorkerKeepsItsJob DEF Dependable
<1>4. TypeOK /\ OneWorkerPerSlot /\ WorkerOwnsJob /\ RecipeInv /\ [Next]_vars => RecipeInv'
  BY RecipeNext DEF Dependable
<1> QED BY <1>1, <1>2, <1>3, <1>4, RecipeInit, PTL DEF Spec

\* A slot has a recipe exactly when its job is COMPLETED, and then the one that
\* the job names.
THEOREM RecipesMatchJobs == Dependable /\ Spec => []RecipeMatchesJob
<1> SUFFICES ASSUME Dependable PROVE Spec => []RecipeMatchesJob
  OBVIOUS
<1>1. RecipeInv => RecipeMatchesJob
  BY DEF RecipeInv
<1> QED BY <1>1, RecipesInvariant, PTL

\* No slot gets duplicate content, although no constraint of the schema forbids it.
THEOREM NoDuplicateContent == Dependable /\ Spec => []AtMostOneRecipe
<1> SUFFICES ASSUME Dependable PROVE Spec => []AtMostOneRecipe
  OBVIOUS
<1>1. TypeOK /\ RecipeInv => AtMostOneRecipe
  <2> SUFFICES ASSUME TypeOK, RecipeInv, NEW k \in recipes, NEW l \in recipes, k[1] = l[1]
               PROVE  k = l
    BY DEF AtMostOneRecipe
  <2>1. k[1] \in Slots
    BY DEF TypeOK
  <2>2. {m \in recipes : m[1] = k[1]} \in {{}, {<<k[1], job[k[1]].recipe>>}}
    BY <2>1 DEF RecipeInv, RecipeMatchesJob
  <2> QED BY <2>2
<1> QED BY <1>1, TypeCorrect, RecipesInvariant, PTL

\* The image of every recipe is in the bucket.
THEOREM ImagesStored == Dependable /\ Spec => []ImageStored
<1> SUFFICES ASSUME Dependable PROVE Spec => []ImageStored
  OBVIOUS
<1>1. RecipeInv => ImageStored
  BY DEF RecipeInv
<1> QED BY <1>1, RecipesInvariant, PTL

\* A COMPLETED job stays as it is.
THEOREM CompletedStays == Dependable /\ Spec => CompletedIsFinal
<1> SUFFICES ASSUME Dependable PROVE Spec => CompletedIsFinal
  OBVIOUS
<1>1. TypeOK /\ WorkerOwnsJob /\ RecipeInv /\ [Next]_vars
        => [\A s \in Slots : job[s].status = "completed" => job'[s] = job[s]]_vars
  BY FinalNext DEF Dependable
<1>2. Spec => []WorkerOwnsJob
  BY WorkerKeepsItsJob DEF Dependable
<1> QED BY <1>1, <1>2, TypeCorrect, RecipesInvariant, PTL DEF Spec, CompletedIsFinal

-----------------------------------------------------------------------------
(* The refinement *)

\* What HourlySlot sees of the rows.
Active == [s \in Slots |-> job[s].status = "running"]
Recipe == [s \in Slots |-> IF job[s].status = "completed" THEN job[s].recipe ELSE 0]

LEMMA RefinementInit == Init => Promise!Init
<1> SUFFICES ASSUME Init PROVE Promise!Init
  OBVIOUS
<1>1. \A s \in Slots : job[s].status = "absent"
  BY DEF Init
<1>2. \A s \in Slots : (job[s].status = "running") = FALSE
  BY <1>1
<1>3. [s \in Slots |-> job[s].status = "running"] = [s \in Slots |-> FALSE]
  BY <1>2, Zenon
<1>4. [s \in Slots |-> IF job[s].status = "completed" THEN job[s].recipe ELSE 0]
        = [s \in Slots |-> 0]
  BY <1>1
<1> QED BY <1>3, <1>4 DEF Init, Promise!Init

\* A step that leaves attempts, RUNNING and the recipe of every slot alone is
\* no step of the slot.
LEMMA Stutter ==
  ASSUME UNCHANGED <<attempts, Active, Recipe>>
  PROVE  UNCHANGED Promise!vars
BY DEF Promise!vars, Active, Recipe

\* The transactions of _prepare_job: recovery gives the attempt up, the start
\* begins one.
LEMMA RefinementByPrepare ==
  ASSUME TypeOK, BudgetInv, NEW p \in Procs, PrepareStep(p)
  PROVE  [Promise!Next]_(Promise!vars)
<1>0. PICK s \in Slots : s = slot[p]
  BY OwnSlotFrame
<1> DEFINE row == Loaded(s)
<1>a. s = slot[p] /\ \A t \in Slots \ {s} : job'[t] = job[t]
  BY <1>0, OwnSlotFrame
<1>b. /\ job \in [Slots -> [status : Statuses, retries : Nat, recipe : Nat]]
      /\ attempts \in [Slots -> Nat] /\ MaxRetryCount \in Nat
  BY TimesAssumption DEF TypeOK
<1>c. row \in [status : Statuses, retries : Nat, recipe : Nat]
  BY <1>a, LoadedType
<1>1. CASE UNCHANGED <<job, attempts>>
  BY <1>1, Stutter DEF Active, Recipe
<1>2. CASE CommitLoaded(s) /\ UNCHANGED attempts
  <2>0. job' = [job EXCEPT ![s] = row]
    BY <1>2 DEF CommitLoaded
  <2>1. CASE Stale(s)
    <3>1. job[s].status = "running" /\ row.status = "failed"
      BY <1>a, <1>b, <2>1 DEF Stale, Loaded
    <3>2. Active[s] /\ Active' = [Active EXCEPT ![s] = FALSE] /\ Recipe' = Recipe
      BY <1>a, <1>b, <1>c, <2>0, <3>1 DEF Active, Recipe
    <3>3. Promise!GiveUp(s)
      BY <1>2, <3>2 DEF Promise!GiveUp, Active, Recipe
    <3> QED BY <1>a, <3>3 DEF Promise!Next
  <2>2. CASE ~Stale(s)
    <3>1. \/ row = job[s]
          \/ job[s].status = "absent" /\ row.status = "pending"
      BY <1>a, <1>b, <2>2 DEF Loaded
    <3>2. Active' = Active /\ Recipe' = Recipe
      BY <1>a, <1>b, <1>c, <2>0, <3>1 DEF Active, Recipe
    <3> QED BY <1>2, <3>2, Stutter
  <2> QED BY <2>1, <2>2
<1>3. CASE StartAttempt(p)
  <2>1. /\ job' = [job EXCEPT ![s] = [row EXCEPT !.status = "running"]]
        /\ attempts' = [attempts EXCEPT ![s] = @ + 1]
        /\ row.status \in {"pending", "failed"}
        /\ ~(row.status = "failed" /\ row.retries >= MaxRetryCount)
    BY <1>a, <1>3 DEF StartAttempt, Startable, Exhausted
  <2>2. job[s].status # "completed"
    BY <2>1 DEF Loaded, Stale
  <2>3. attempts[s] < MaxRetryCount \/ attempts[s] = 0
    BY <1>a, <1>b, <1>c, <2>1, LoadedBudget DEF BudgetInv
  <2>4. /\ Active' = [Active EXCEPT ![s] = TRUE]
        /\ Recipe[s] = 0 /\ Recipe' = Recipe
    BY <1>a, <1>b, <1>c, <2>1, <2>2 DEF Active, Recipe
  <2>5. Promise!Begin(s)
    BY <2>1, <2>3, <2>4 DEF Promise!Begin, Active, Recipe
  <2> QED BY <1>a, <2>5 DEF Promise!Next
<1> QED
  BY <1>a, <1>1, <1>2, <1>3 DEF PrepareStep, LookupJob, CreateSlot, DatabaseError, JobRunning,
     JobExhausted, JobCompleted, DispatchJob, dbVars

\* The transactions of the attempt: it succeeds, or the handler gives it up.
LEMMA RefinementByAttempt ==
  ASSUME "afterCommit" \notin Faults, TypeOK, RecipeInv, NEW p \in Procs,
         AttemptStep(p), Owns(p)
  PROVE  [Promise!Next]_(Promise!vars)
<1>a. PICK s \in Slots : s = slot[p]
  BY OwnSlotFrame
<1>b. /\ job \in [Slots -> [status : Statuses, retries : Nat, recipe : Nat]]
      /\ attempts \in [Slots -> Nat] /\ att[p] \in Nat
  BY DEF TypeOK
<1>1. CASE UNCHANGED <<job, attempts>>
  BY <1>1, Stutter DEF Active, Recipe
<1>2. CASE pc[p] = "persist" /\ CommitSuccess(p)
  <2>1. /\ job[s].status = "running" /\ attempts[s] = att[p] /\ UNCHANGED attempts
        /\ job' = [job EXCEPT ![s].status = "completed", ![s].recipe = att[p]]
    BY <1>a, <1>2 DEF CommitSuccess, Owns, Executing
  <2>2. /\ Active[s] /\ Active' = [Active EXCEPT ![s] = FALSE]
        /\ Recipe' = [Recipe EXCEPT ![s] = attempts[s]]
    BY <1>a, <1>b, <2>1 DEF Active, Recipe
  <2>3. Promise!Succeed(s)
    BY <2>1, <2>2 DEF Promise!Succeed, Active, Recipe
  <2> QED BY <1>a, <2>3 DEF Promise!Next
<1>3. CASE MarkFailed(p)
  <2>1. /\ job[s].status = "running" /\ UNCHANGED attempts
        /\ job' = [job EXCEPT ![s] = [status |-> "failed", retries |-> retry[p] + 1,
                                      recipe |-> 0]]
    BY <1>a, <1>3 DEF MarkFailed, RecipeInv, AttemptInv
  <2>2. Active[s] /\ Active' = [Active EXCEPT ![s] = FALSE] /\ Recipe' = Recipe
    BY <1>a, <1>b, <2>1 DEF Active, Recipe
  <2>3. Promise!GiveUp(s)
    BY <2>1, <2>2 DEF Promise!GiveUp, Active, Recipe
  <2> QED BY <1>a, <2>3 DEF Promise!Next
<1> QED
  BY <1>a, <1>1, <1>2, <1>3 DEF AttemptStep, Generate, GenerateError, Upload, UploadError,
     Persist, PersistError, Reload, ReloadError, DeleteObject, DeleteError,
     MarkFailedError, dbVars

LEMMA RefinementNext ==
  ASSUME "afterCommit" \notin Faults, TypeOK, BudgetInv, WorkerOwnsJob, RecipeInv, [Next]_vars
  PROVE  [Promise!Next]_(Promise!vars)
<1>1. CASE UNCHANGED <<job, attempts>>
  BY <1>1, Stutter DEF Active, Recipe
<1>2. ASSUME NEW p \in Procs, PrepareStep(p) \/ AttemptStep(p)
      PROVE  [Promise!Next]_(Promise!vars)
  <2>1. Owns(p)
    BY DEF WorkerOwnsJob, Owns
  <2> QED BY <1>2, <2>1, RefinementByPrepare, RefinementByAttempt
<1>3. ASSUME NEW p \in Procs, StartQueued(p) \/ LockStep(p) \/ Crash(p)
      PROVE UNCHANGED <<job, attempts>>
  BY <1>3, LockFrame DEF StartQueued, Crash, dbVars
<1> QED
  BY <1>1, <1>2, <1>3 DEF Next, Step, StartRun, StartPrepare, RedisForgets,
     PostgresDrops, PooledSessionEnds, Tick, vars, dbVars

\* Callers, locks, crashes and recoveries together make of every slot one
\* sequence of counted attempts that at most one success ends.
THEOREM Refines == Dependable /\ Spec => ImplementsHourlySlot
<1> SUFFICES ASSUME Dependable PROVE Spec => ImplementsHourlySlot
  OBVIOUS
<1>1. TypeOK /\ BudgetInv /\ WorkerOwnsJob /\ RecipeInv /\ [Next]_vars
        => [Promise!Next]_(Promise!vars)
  BY RefinementNext DEF Dependable
<1>2. Spec => []WorkerOwnsJob
  BY WorkerKeepsItsJob DEF Dependable
<1> QED
  BY <1>1, <1>2, RefinementInit, TypeCorrect, BudgetInit, BudgetNext, RecipesInvariant,
     PTL DEF Spec, ImplementsHourlySlot, Promise!Spec
=============================================================================
