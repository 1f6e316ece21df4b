-------------------------- MODULE GenerationService --------------------------
(***************************************************************************)
(* The hourly generation workflow of app/application/services/             *)
(* generation_service.py, run by any number of callers at once: the cron   *)
(* worker (run_for_slot), the admin endpoint run-now                       *)
(* (prepare_background_generation) and the background task that endpoint   *)
(* enqueues.  The callers share the layered lock (Redis, then PostgreSQL), *)
(* the slot and job rows, the recipes and the object storage.              *)
(*                                                                         *)
(* An action is what the code does between two points at which another     *)
(* caller, a crash or the clock can intervene: one lock command, one       *)
(* database transaction, one provider or storage call.                     *)
(*                                                                         *)
(* Time is counted in ticks: ttl is what remains of a Redis lock, age the  *)
(* time since started_at of a RUNNING job (it saturates at StaleAfter).    *)
(*                                                                         *)
(* A definition marked "Mutant" is a plausible bug in the definition that  *)
(* follows it; no specification uses it.                                   *)
(***************************************************************************)
EXTENDS Integers, FiniteSets

CONSTANTS
  Procs,           \* callers: worker processes and request threads
  Slots,           \* UTC hour slots; slot, job and lock key are one to one
  LockTimeout,     \* generation_lock_timeout_seconds, in ticks
  StaleAfter,      \* generation_stale_after_seconds, in ticks
  MaxRetryCount,   \* generation_max_retry_count
  PostgresLock,    \* TRUE: the composite lock; FALSE: the Redis lock alone
  LeaseCoversRun,  \* TRUE: every call ends before its Redis lock expires
  Faults           \* the faults of the environment that may happen

FaultKinds ==
  { "crash",         \* a caller's process dies
    "redis",         \* a Redis command times out, or Redis loses a key
    "postgres",      \* PostgreSQL drops the lock's session, its caller lives
    "database",      \* a query or a commit fails, and nothing changes
    "afterCommit" }  \* a transaction commits, and its reply or the reload fails

NoOne == "no one"    \* the lock is free
Ghost == "ghost"     \* the Redis key holds a token that no live caller knows
None  == "none"      \* no slot, no call

ASSUME ProcsAssumption == {NoOne, Ghost} \cap Procs = {}
ASSUME SlotsAssumption == None \notin Slots
ASSUME TimesAssumption == /\ LockTimeout \in Nat \ {0}
                          /\ StaleAfter \in Nat \ {0}
                          /\ MaxRetryCount \in Nat
ASSUME ModeAssumption  == /\ PostgresLock \in BOOLEAN
                          /\ LeaseCoversRun \in BOOLEAN
                          /\ Faults \subseteq FaultKinds

VARIABLES
  pc, slot, call,  \* where each caller is, in which call, for which slot
  holds,           \* the locks on its exit stack
  enqueue,         \* prepare's was_enqueued
  att, retry,      \* its attempt (also its storage key) and job.retry_count
  redis, ttl, pg,  \* the two locks of each slot
  pooled,          \* slots whose advisory lock a session of the pool has kept
  slotRow, job,    \* the rows of generation_schedule_slots, generation_jobs
  age,             \* ticks since started_at of a RUNNING job, else 0
  attempts,        \* attempts ever started for a slot (history)
  recipes,         \* recipes with their image row; <<s, n>> is of attempt n
  objects,         \* objects in the bucket; <<s, n>> was uploaded by attempt n
  leaked           \* objects a crash or a failed delete left behind (history)

callVars  == <<slot, call, att, retry>>
lockVars  == <<redis, ttl, pg, pooled>>
dbVars    == <<slotRow, job, age, attempts, recipes>>
storeVars == <<objects, leaked>>
vars == <<pc, callVars, holds, enqueue, lockVars, dbVars, storeVars>>

Statuses == {"absent", "pending", "running", "completed", "failed"}

Executing == {"text", "image", "upload", "persist", "reload", "cleanup",
              "markFailed"}
Inside == {"lookup", "slotRow", "jobRow"} \cup Executing
PCs == {"idle", "queued", "redis", "pg", "exit"} \cup Inside

Init ==
  /\ pc = [p \in Procs |-> "idle"]
  /\ slot = [p \in Procs |-> None]
  /\ call = [p \in Procs |-> None]
  /\ holds = [p \in Procs |-> {}]
  /\ enqueue = [p \in Procs |-> FALSE]
  /\ att = [p \in Procs |-> 0]
  /\ retry = [p \in Procs |-> 0]
  /\ redis = [s \in Slots |-> NoOne]
  /\ ttl = [s \in Slots |-> 0]
  /\ pg = [s \in Slots |-> NoOne]
  /\ pooled = {}
  /\ slotRow = [s \in Slots |-> "absent"]
  /\ job = [s \in Slots |-> [status |-> "absent", retries |-> 0, recipe |-> 0]]
  /\ age = [s \in Slots |-> 0]
  /\ attempts = [s \in Slots |-> 0]
  /\ recipes = {}
  /\ objects = {}
  /\ leaked = {}

Key(p) == <<slot[p], att[p]>>

Goto(p, label) == pc' = [pc EXCEPT ![p] = label]

\* The call returns or raises: the caller forgets it.
Finish(p) ==
  /\ pc' = [pc EXCEPT ![p] = "idle"]
  /\ slot' = [slot EXCEPT ![p] = None]
  /\ call' = [call EXCEPT ![p] = None]
  /\ att' = [att EXCEPT ![p] = 0]
  /\ retry' = [retry EXCEPT ![p] = 0]

-----------------------------------------------------------------------------
(* Calls *)

\* run_for_slot, from the worker's command line.
StartRun(p, s) ==
  /\ pc[p] = "idle"
  /\ Goto(p, "redis")
  /\ slot' = [slot EXCEPT ![p] = s]
  /\ call' = [call EXCEPT ![p] = "run"]
  /\ UNCHANGED <<att, retry, holds, enqueue, lockVars, dbVars, storeVars>>

\* prepare_background_generation, from POST run-now.
StartPrepare(p, s) ==
  /\ pc[p] = "idle"
  /\ Goto(p, "redis")
  /\ slot' = [slot EXCEPT ![p] = s]
  /\ call' = [call EXCEPT ![p] = "prepare"]
  /\ UNCHANGED <<att, retry, holds, enqueue, lockVars, dbVars, storeVars>>

\* The background task enqueued by run-now calls run_for_slot.
StartQueued(p) ==
  /\ pc[p] = "queued"
  /\ Goto(p, "redis")
  /\ call' = [call EXCEPT ![p] = "run"]
  /\ UNCHANGED <<slot, att, retry, holds, enqueue, lockVars, dbVars, storeVars>>

-----------------------------------------------------------------------------
(* The composite lock: Redis, then the PostgreSQL advisory lock *)

\* The first step under the lock.
Entry(p) == IF call[p] = "run" THEN "slotRow" ELSE "lookup"

\* Mutant: SET without NX.
AcquireRedisUnchecked(p) ==
  /\ pc[p] = "redis"
  /\ redis' = [redis EXCEPT ![slot[p]] = p]
  /\ ttl' = [ttl EXCEPT ![slot[p]] = LockTimeout]
  /\ holds' = [holds EXCEPT ![p] = {"redis"}]
  /\ Goto(p, IF PostgresLock THEN "pg" ELSE Entry(p))
  /\ UNCHANGED <<callVars, enqueue, pg, pooled, dbVars, storeVars>>

AcquireRedis(p) ==
  /\ pc[p] = "redis"
  /\ redis[slot[p]] = NoOne
  /\ redis' = [redis EXCEPT ![slot[p]] = p]
  /\ ttl' = [ttl EXCEPT ![slot[p]] = LockTimeout]
  /\ holds' = [holds EXCEPT ![p] = {"redis"}]
  /\ Goto(p, IF PostgresLock THEN "pg" ELSE Entry(p))
  /\ UNCHANGED <<callVars, enqueue, pg, pooled, dbVars, storeVars>>

\* Mutant: the try blocks until the key is free.
RedisBusyWaits(p) ==
  /\ pc[p] = "redis"
  /\ redis[slot[p]] # NoOne
  /\ UNCHANGED vars

\* Another caller has the key.  With blocking_timeout_seconds = 0 there is one
\* try: run_for_slot raises IdempotencyConflictError, prepare reports the job
\* it finds (or the conflict) without enqueueing anything.
RedisBusy(p) ==
  /\ pc[p] = "redis"
  /\ redis[slot[p]] # NoOne
  /\ Finish(p)
  /\ UNCHANGED <<holds, enqueue, lockVars, dbVars, storeVars>>

\* The command raises; a SET whose reply was lost leaves a key behind.
RedisAcquireError(p) ==
  /\ "redis" \in Faults
  /\ pc[p] = "redis"
  /\ \/ UNCHANGED <<redis, ttl>>
     \/ /\ redis[slot[p]] = NoOne
        /\ redis' = [redis EXCEPT ![slot[p]] = Ghost]
        /\ ttl' = [ttl EXCEPT ![slot[p]] = LockTimeout]
  /\ Finish(p)
  /\ UNCHANGED <<holds, enqueue, pg, pooled, dbVars, storeVars>>

\* Mutant: the answer of pg_try_advisory_lock is not looked at.
AcquirePostgresUnchecked(p) ==
  /\ pc[p] = "pg"
  /\ pg' = [pg EXCEPT ![slot[p]] = p]
  /\ holds' = [holds EXCEPT ![p] = {"redis", "pg"}]
  /\ Goto(p, Entry(p))
  /\ UNCHANGED <<callVars, enqueue, redis, ttl, pooled, dbVars, storeVars>>

\* pg_try_advisory_lock answers true.  A lock that a session of the pool has
\* kept is free to the caller that is given that very session.
AcquirePostgres(p) ==
  /\ pc[p] = "pg"
  /\ pg[slot[p]] = NoOne
  /\ pg' = [pg EXCEPT ![slot[p]] = p]
  /\ holds' = [holds EXCEPT ![p] = {"redis", "pg"}]
  /\ Goto(p, Entry(p))
  /\ UNCHANGED <<callVars, enqueue, redis, ttl, pooled, dbVars, storeVars>>

\* Mutant: the composite lock yields the Redis lock when PostgreSQL refuses.
PostgresBusyIgnored(p) ==
  /\ pc[p] = "pg"
  /\ pg[slot[p]] # NoOne \/ slot[p] \in pooled
  /\ Goto(p, Entry(p))
  /\ UNCHANGED <<callVars, holds, enqueue, lockVars, dbVars, storeVars>>

\* pg_try_advisory_lock answers false: refused, as in RedisBusy, but the exit
\* stack holds the Redis lock.
PostgresBusy(p) ==
  /\ pc[p] = "pg"
  /\ pg[slot[p]] # NoOne \/ slot[p] \in pooled
  /\ Goto(p, "exit")
  /\ UNCHANGED <<callVars, holds, enqueue, lockVars, dbVars, storeVars>>

\* The pool gives no connection, or the query raises.
PostgresError(p) ==
  /\ "database" \in Faults
  /\ pc[p] = "pg"
  /\ Goto(p, "exit")
  /\ UNCHANGED <<callVars, holds, enqueue, lockVars, dbVars, storeVars>>

\* The exit stack releases the advisory lock first.  On a connection that was
\* lost the unlock raises, and the caller never gets to enqueue.
ExitPostgres(p) ==
  /\ pc[p] = "exit"
  /\ "pg" \in holds[p]
  /\ holds' = [holds EXCEPT ![p] = @ \ {"pg"}]
  /\ IF pg[slot[p]] = p
       THEN /\ pg' = [pg EXCEPT ![slot[p]] = NoOne]
            /\ UNCHANGED enqueue
       ELSE /\ enqueue' = [enqueue EXCEPT ![p] = FALSE]
            /\ UNCHANGED pg
  /\ UNCHANGED <<pc, callVars, redis, ttl, pooled, dbVars, storeVars>>

\* The unlock raises on a live connection, which is closed all the same: its
\* session goes back to the pool with the lock, or ends if the pool is full.
ExitPostgresError(p) ==
  /\ "database" \in Faults
  /\ pc[p] = "exit"
  /\ "pg" \in holds[p]
  /\ pg[slot[p]] = p
  /\ holds' = [holds EXCEPT ![p] = @ \ {"pg"}]
  /\ pg' = [pg EXCEPT ![slot[p]] = NoOne]
  /\ pooled' \in {pooled \cup {slot[p]}, pooled \ {slot[p]}}
  /\ enqueue' = [enqueue EXCEPT ![p] = FALSE]
  /\ UNCHANGED <<pc, callVars, redis, ttl, dbVars, storeVars>>

\* The call is over: run-now enqueues its background task or answers.
Leave(p) ==
  /\ enqueue' = [enqueue EXCEPT ![p] = FALSE]
  /\ holds' = [holds EXCEPT ![p] = {}]
  /\ IF enqueue[p] THEN Goto(p, "queued") /\ UNCHANGED callVars
                   ELSE Finish(p)

\* Redis deletes the key only if it still holds this caller's token; otherwise
\* release raises LockError, which is swallowed.
ExitRedis(p) ==
  /\ pc[p] = "exit"
  /\ holds[p] = {"redis"}
  /\ Leave(p)
  /\ redis' = [redis EXCEPT ![slot[p]] = IF @ = p THEN NoOne ELSE @]
  /\ ttl' = [ttl EXCEPT ![slot[p]] = IF redis[slot[p]] = p THEN 0 ELSE @]
  /\ UNCHANGED <<pg, pooled, dbVars, storeVars>>

\* A connection error is no LockError: it propagates, nothing is enqueued, and
\* the key stays until it expires.
RedisReleaseError(p) ==
  /\ "redis" \in Faults
  /\ pc[p] = "exit"
  /\ holds[p] = {"redis"}
  /\ Finish(p)
  /\ enqueue' = [enqueue EXCEPT ![p] = FALSE]
  /\ holds' = [holds EXCEPT ![p] = {}]
  /\ redis' = [redis EXCEPT ![slot[p]] = IF @ = p THEN Ghost ELSE @]
  /\ UNCHANGED <<ttl, pg, pooled, dbVars, storeVars>>

-----------------------------------------------------------------------------
(* The database transactions that prepare the job *)

\* Where the caller of a transaction that commits goes: on, or out with an
\* exception if the reply to the COMMIT is lost.
Onward(label) ==
  IF "afterCommit" \in Faults THEN {label, "exit"} ELSE {label}

\* Under the lock, run-now first looks the job up: a PENDING or a COMPLETED
\* one is reported as it is.
LookupJob(p) ==
  /\ pc[p] = "lookup"
  /\ Goto(p, IF job[slot[p]].status \in {"pending", "completed"}
               THEN "exit" ELSE "slotRow")
  /\ UNCHANGED <<callVars, holds, enqueue, lockVars, dbVars, storeVars>>

\* _prepare_job, first transaction: get_or_create_slot.
CreateSlot(p) ==
  /\ pc[p] = "slotRow"
  /\ slotRow' = [slotRow EXCEPT ![slot[p]] = IF @ = "absent" THEN "pending" ELSE @]
  /\ \E label \in Onward("jobRow") : Goto(p, label)
  /\ UNCHANGED <<callVars, holds, enqueue, lockVars, job, age, attempts, recipes,
                 storeVars>>

Stale(s) == job[s].status = "running" /\ age[s] >= StaleAfter

\* The job row of s after create_or_get_job and _recover_stale_running_job.
Loaded(s) ==
  CASE job[s].status = "absent" -> [job[s] EXCEPT !.status = "pending"]
    [] Stale(s) -> [job[s] EXCEPT !.status = "failed", !.retries = @ + 1]
    [] OTHER -> job[s]

\* Mutant: recovery updates the job row alone.
CommitLoadedJobOnly(s) ==
  /\ job' = [job EXCEPT ![s] = Loaded(s)]
  /\ age' = [age EXCEPT ![s] = IF Stale(s) THEN 0 ELSE @]
  /\ UNCHANGED slotRow

\* The commit of what was loaded: a new PENDING job, or a recovered one.
CommitLoaded(s) ==
  /\ job' = [job EXCEPT ![s] = Loaded(s)]
  /\ slotRow' = [slotRow EXCEPT ![s] = IF Stale(s) THEN "failed" ELSE @]
  /\ age' = [age EXCEPT ![s] = IF Stale(s) THEN 0 ELSE @]

\* Mutant: > for >=.
ExhaustedLate(row) == row.status = "failed" /\ row.retries > MaxRetryCount

Exhausted(row) == row.status = "failed" /\ row.retries >= MaxRetryCount

\* Mutant: the conflicting call refreshes started_at.
JobRunningTouched(p) ==
  /\ pc[p] = "jobRow"
  /\ Loaded(slot[p]).status = "running"
  /\ age' = [age EXCEPT ![slot[p]] = 0]
  /\ Goto(p, "exit")
  /\ UNCHANGED <<callVars, holds, enqueue, lockVars, slotRow, job, attempts,
                 recipes, storeVars>>

\* A RUNNING job that is not stale: commit, raise IdempotencyConflictError.
JobRunning(p) ==
  /\ pc[p] = "jobRow"
  /\ Loaded(slot[p]).status = "running"
  /\ Goto(p, "exit")
  /\ UNCHANGED <<callVars, holds, enqueue, lockVars, dbVars, storeVars>>

\* A FAILED job without retries left: commit (the recovery too), raise
\* RetryExhaustedError.
JobExhausted(p) ==
  LET s == slot[p] IN
  /\ pc[p] = "jobRow"
  /\ Exhausted(Loaded(s))
  /\ CommitLoaded(s)
  /\ Goto(p, "exit")
  /\ UNCHANGED <<callVars, holds, enqueue, lockVars, attempts, recipes, storeVars>>

\* run_for_slot finds the slot generated already and returns its recipe.
JobCompleted(p) ==
  /\ pc[p] = "jobRow"
  /\ Loaded(slot[p]).status = "completed"
  /\ Goto(p, "exit")
  /\ UNCHANGED <<callVars, holds, enqueue, lockVars, dbVars, storeVars>>

\* Mutant: a COMPLETED job is started again.
StartableAgain(row) == row.status # "running" /\ ~Exhausted(row)

Startable(row) == row.status \in {"pending", "failed"} /\ ~Exhausted(row)

\* run_for_slot marks slot and job RUNNING: an attempt begins.
StartAttempt(p) ==
  LET s == slot[p]
      row == Loaded(s) IN
  /\ pc[p] = "jobRow"
  /\ call[p] = "run"
  /\ Startable(row)
  /\ job' = [job EXCEPT ![s] = [row EXCEPT !.status = "running"]]
  /\ slotRow' = [slotRow EXCEPT ![s] = "running"]
  /\ age' = [age EXCEPT ![s] = 0]
  /\ attempts' = [attempts EXCEPT ![s] = @ + 1]
  /\ att' = [att EXCEPT ![p] = attempts[s] + 1]
  /\ retry' = [retry EXCEPT ![p] = row.retries]
  /\ \E label \in Onward("text") : Goto(p, label)
  /\ UNCHANGED <<slot, call, holds, enqueue, lockVars, recipes, storeVars>>

\* run-now leaves the job PENDING (or FAILED) for the task it will enqueue.
DispatchJob(p) ==
  LET s == slot[p] IN
  /\ pc[p] = "jobRow"
  /\ call[p] = "prepare"
  /\ Startable(Loaded(s))
  /\ CommitLoaded(s)
  /\ \E reply \in {TRUE} \cup {"afterCommit" \notin Faults} :
       enqueue' = [enqueue EXCEPT ![p] = reply]
  /\ Goto(p, "exit")
  /\ UNCHANGED <<callVars, holds, lockVars, attempts, recipes, storeVars>>

\* A query or a commit raises: the session rolls back, the exception leaves
\* through the exit stack.
DatabaseError(p) ==
  /\ "database" \in Faults
  /\ pc[p] \in {"lookup", "slotRow", "jobRow"}
  /\ Goto(p, "exit")
  /\ UNCHANGED <<callVars, holds, enqueue, lockVars, dbVars, storeVars>>

-----------------------------------------------------------------------------
(* One attempt: text, image, upload, persistence, failure handling *)

\* The text and the image provider answer.
Generate(p) ==
  /\ \/ pc[p] = "text" /\ Goto(p, "image")
     \/ pc[p] = "image" /\ Goto(p, "upload")
  /\ UNCHANGED <<callVars, holds, enqueue, lockVars, dbVars, storeVars>>

\* A provider raises while storage_key is still None: nothing to clean up.
GenerateError(p) ==
  /\ pc[p] \in {"text", "image"}
  /\ Goto(p, "markFailed")
  /\ UNCHANGED <<callVars, holds, enqueue, lockVars, dbVars, storeVars>>

Upload(p) ==
  /\ pc[p] = "upload"
  /\ objects' = objects \cup {Key(p)}
  /\ Goto(p, "persist")
  /\ UNCHANGED <<callVars, holds, enqueue, lockVars, dbVars, leaked>>

\* Mutant: storage_key is set after the upload.
UploadErrorForgets(p) ==
  /\ pc[p] = "upload"
  /\ objects' \in {objects, objects \cup {Key(p)}}
  /\ Goto(p, "markFailed")
  /\ UNCHANGED <<callVars, holds, enqueue, lockVars, dbVars, leaked>>

\* The upload raises, whether or not the bucket took the object.  storage_key
\* was set before the call, so the failure handler deletes it.
UploadError(p) ==
  /\ pc[p] = "upload"
  /\ objects' \in {objects, objects \cup {Key(p)}}
  /\ Goto(p, "cleanup")
  /\ UNCHANGED <<callVars, holds, enqueue, lockVars, dbVars, leaked>>

\* The transaction of _persist_success: recipe, image, slot and job.
CommitSuccess(p) ==
  LET s == slot[p] IN
  /\ recipes' = recipes \cup {Key(p)}
  /\ slotRow' = [slotRow EXCEPT ![s] = "completed"]
  /\ job' = [job EXCEPT ![s].status = "completed", ![s].recipe = att[p]]
  /\ age' = [age EXCEPT ![s] = 0]
  /\ UNCHANGED attempts

Persist(p) ==
  /\ pc[p] = "persist"
  /\ CommitSuccess(p)
  /\ Goto(p, "reload")
  /\ UNCHANGED <<callVars, holds, enqueue, lockVars, storeVars>>

\* The transaction rolls back; or it commits and the reply is lost, which
\* _persist_success cannot tell from a rollback.
PersistError(p) ==
  /\ pc[p] = "persist"
  /\ \/ "database" \in Faults /\ UNCHANGED dbVars
     \/ "afterCommit" \in Faults /\ CommitSuccess(p)
  /\ Goto(p, "cleanup")
  /\ UNCHANGED <<callVars, holds, enqueue, lockVars, storeVars>>

\* Mutant: the clean-up runs on success too.
ReloadThenCleanup(p) ==
  /\ pc[p] = "reload"
  /\ Goto(p, "cleanup")
  /\ UNCHANGED <<callVars, holds, enqueue, lockVars, dbVars, storeVars>>

\* _load_job and _load_slot read the rows back for the result.
Reload(p) ==
  /\ pc[p] = "reload"
  /\ Goto(p, "exit")
  /\ UNCHANGED <<callVars, holds, enqueue, lockVars, dbVars, storeVars>>

\* They are inside the try block: their failure is handled as the attempt's.
ReloadError(p) ==
  /\ "afterCommit" \in Faults
  /\ pc[p] = "reload"
  /\ Goto(p, "cleanup")
  /\ UNCHANGED <<callVars, holds, enqueue, lockVars, dbVars, storeVars>>

\* _handle_failure, the compensating delete.
DeleteObject(p) ==
  /\ pc[p] = "cleanup"
  /\ objects' = objects \ {Key(p)}
  /\ Goto(p, "markFailed")
  /\ UNCHANGED <<callVars, holds, enqueue, lockVars, dbVars, leaked>>

\* The object of this attempt, if it is in the bucket and no recipe has it.
Unreferenced(p) == ({Key(p)} \cap objects) \ recipes

\* The delete raises StorageOperationError, whether or not the bucket dropped the
\* object: recorded, and the handler goes on.
DeleteError(p) ==
  /\ pc[p] = "cleanup"
  /\ objects' \in {objects, objects \ {Key(p)}}
  /\ leaked' = leaked \cup Unreferenced(p)
  /\ Goto(p, "markFailed")
  /\ UNCHANGED <<callVars, holds, enqueue, lockVars, dbVars>>

\* Mutant: the retry is not counted.
MarkFailedUncounted(p) ==
  LET s == slot[p] IN
  /\ pc[p] = "markFailed"
  /\ slotRow' = [slotRow EXCEPT ![s] = "failed"]
  /\ job' = [job EXCEPT ![s] = [status |-> "failed", retries |-> retry[p],
                                recipe |-> 0]]
  /\ age' = [age EXCEPT ![s] = 0]
  /\ Goto(p, "exit")
  /\ UNCHANGED <<callVars, holds, enqueue, lockVars, attempts, recipes, storeVars>>

\* _handle_failure, the transaction: slot and job FAILED, one more retry than
\* when the attempt started, the response metadata replaced.
MarkFailed(p) ==
  LET s == slot[p] IN
  /\ pc[p] = "markFailed"
  /\ slotRow' = [slotRow EXCEPT ![s] = "failed"]
  /\ job' = [job EXCEPT ![s] = [status |-> "failed", retries |-> retry[p] + 1,
                                recipe |-> 0]]
  /\ age' = [age EXCEPT ![s] = 0]
  /\ Goto(p, "exit")
  /\ UNCHANGED <<callVars, holds, enqueue, lockVars, attempts, recipes, storeVars>>

\* The handler's own transaction fails: it is logged, the rows stay.
MarkFailedError(p) ==
  /\ "database" \in Faults
  /\ pc[p] = "markFailed"
  /\ Goto(p, "exit")
  /\ UNCHANGED <<callVars, holds, enqueue, lockVars, dbVars, storeVars>>

-----------------------------------------------------------------------------
(* The environment *)

\* The process dies.  PostgreSQL drops its session and the advisory lock with
\* it; Redis keeps the key until it expires.
Crash(p) ==
  /\ "crash" \in Faults
  /\ pc[p] # "idle"
  /\ Finish(p)
  /\ holds' = [holds EXCEPT ![p] = {}]
  /\ enqueue' = [enqueue EXCEPT ![p] = FALSE]
  /\ redis' = [s \in Slots |-> IF redis[s] = p THEN Ghost ELSE redis[s]]
  /\ pg' = [s \in Slots |-> IF pg[s] = p THEN NoOne ELSE pg[s]]
  /\ pooled' = {s \in pooled : pg[s] # p}
  /\ leaked' = leaked \cup Unreferenced(p)
  /\ UNCHANGED <<ttl, dbVars, objects>>

\* Redis restarts without its last writes, or fails over.
RedisForgets(s) ==
  /\ "redis" \in Faults
  /\ redis[s] # NoOne
  /\ redis' = [redis EXCEPT ![s] = NoOne]
  /\ ttl' = [ttl EXCEPT ![s] = 0]
  /\ UNCHANGED <<pc, callVars, holds, enqueue, pg, pooled, dbVars, storeVars>>

\* PostgreSQL drops the session that holds the advisory lock.
PostgresDrops(s) ==
  /\ "postgres" \in Faults
  /\ pg[s] # NoOne
  /\ pg' = [pg EXCEPT ![s] = NoOne]
  /\ pooled' = pooled \ {s}
  /\ UNCHANGED <<pc, callVars, holds, enqueue, redis, ttl, dbVars, storeVars>>

\* A session of the pool ends, with its process or by PostgreSQL's decision,
\* and the lock it had kept is gone.
PooledSessionEnds(s) ==
  /\ s \in pooled
  /\ pg[s] = NoOne
  /\ pooled' = pooled \ {s}
  /\ UNCHANGED <<pc, callVars, holds, enqueue, redis, ttl, pg, dbVars, storeVars>>

\* Time passes: locks run out and RUNNING jobs grow old.
Tick ==
  /\ LeaseCoversRun => \A s \in Slots : redis[s] \in Procs => ttl[s] > 1
  /\ ttl' = [s \in Slots |-> IF ttl[s] = 0 THEN 0 ELSE ttl[s] - 1]
  /\ redis' = [s \in Slots |-> IF ttl[s] <= 1 THEN NoOne ELSE redis[s]]
  /\ age' = [s \in Slots |->
               IF job[s].status = "running" /\ age[s] < StaleAfter
                 THEN age[s] + 1 ELSE age[s]]
  /\ UNCHANGED <<pc, callVars, holds, enqueue, pg, pooled, slotRow, job, attempts,
                 recipes, storeVars>>

-----------------------------------------------------------------------------

LockStep(p) ==
  \/ AcquireRedis(p) \/ RedisBusy(p) \/ RedisAcquireError(p)
  \/ AcquirePostgres(p) \/ PostgresBusy(p) \/ PostgresError(p)
  \/ ExitPostgres(p) \/ ExitPostgresError(p)
  \/ ExitRedis(p) \/ RedisReleaseError(p)

PrepareStep(p) ==
  \/ LookupJob(p) \/ CreateSlot(p) \/ DatabaseError(p)
  \/ JobRunning(p) \/ JobExhausted(p) \/ JobCompleted(p)
  \/ StartAttempt(p) \/ DispatchJob(p)

AttemptStep(p) ==
  \/ Generate(p) \/ GenerateError(p) \/ Upload(p) \/ UploadError(p)
  \/ Persist(p) \/ PersistError(p) \/ Reload(p) \/ ReloadError(p)
  \/ DeleteObject(p) \/ DeleteError(p) \/ MarkFailed(p) \/ MarkFailedError(p)

\* What a caller does by itself once its call has begun.
Step(p) == StartQueued(p) \/ LockStep(p) \/ PrepareStep(p) \/ AttemptStep(p)

Next ==
  \/ \E p \in Procs : Step(p) \/ Crash(p)
  \/ \E p \in Procs, s \in Slots : StartRun(p, s) \/ StartPrepare(p, s)
  \/ \E s \in Slots : RedisForgets(s) \/ PostgresDrops(s) \/ PooledSessionEnds(s)
  \/ Tick

Spec == Init /\ [][Next]_vars

\* Time goes on, and a caller that has begun goes on: no call waits for another.
FairSpec == Spec /\ WF_vars(Tick) /\ \A p \in Procs : WF_vars(Step(p))

-----------------------------------------------------------------------------
(* Properties *)

\* Every variable stays in its domain: statuses are those of the enums, retry
\* counts and attempt numbers are naturals, timers stay within their settings.
TypeOK ==
  /\ pc \in [Procs -> PCs]
  /\ slot \in [Procs -> Slots \cup {None}]
  /\ \A p \in Procs : pc[p] # "idle" => slot[p] \in Slots
  /\ call \in [Procs -> {"run", "prepare", None}]
  /\ holds \in [Procs -> SUBSET {"redis", "pg"}]
  /\ enqueue \in [Procs -> BOOLEAN]
  /\ att \in [Procs -> Nat]
  /\ retry \in [Procs -> Nat]
  /\ redis \in [Slots -> Procs \cup {NoOne, Ghost}]
  /\ ttl \in [Slots -> 0..LockTimeout]
  /\ pg \in [Slots -> Procs \cup {NoOne}]
  /\ pooled \subseteq Slots
  /\ slotRow \in [Slots -> Statuses]
  /\ job \in [Slots -> [status : Statuses, retries : Nat, recipe : Nat]]
  /\ age \in [Slots -> 0..StaleAfter]
  /\ attempts \in [Slots -> Nat]
  /\ recipes \subseteq Slots \X Nat
  /\ objects \subseteq Slots \X Nat
  /\ leaked \subseteq Slots \X Nat

\* What the exclusion of two workers rests on: the advisory lock keeps its
\* session, or no run outlives its Redis lease and Redis forgets nothing.
ReliableLock ==
  \/ PostgresLock /\ "postgres" \notin Faults
  \/ LeaseCoversRun /\ "redis" \notin Faults

\* Two callers are never at work on one slot together, from the first query
\* under the lock to the last write, through expiries, lost keys and crashes.
OneWorkerPerSlot ==
  \A p, q \in Procs :
    pc[p] \in Inside /\ pc[q] \in Inside /\ slot[p] = slot[q] => p = q

\* What a worker read when its attempt began still holds when it writes: the
\* attempt is the slot's last, the retry count is the one _handle_failure adds
\* to, and until its commit the job is RUNNING.  No recovery took it for dead.
WorkerOwnsJob ==
  \A p \in Procs : pc[p] \in Executing =>
    /\ attempts[slot[p]] = att[p]
    /\ job[slot[p]].retries = retry[p]
    /\ job[slot[p]].status \in {"running", "completed"}
    /\ pc[p] \in {"text", "image", "upload", "persist"} =>
         job[slot[p]].status = "running"

\* No slot has two recipes: "Duplicate content for the same hour slot is
\* considered a correctness failure" (ARCHITECTURE.md).  No constraint of the
\* schema says so; the locks, the job's status and the handlers have to.
AtMostOneRecipe ==
  \A k, l \in recipes : k[1] = l[1] => k = l

\* The slot's recipes are exactly what its job says: one, which the response
\* metadata names, once the job is COMPLETED, and none before.
RecipeMatchesJob ==
  \A s \in Slots :
    {k \in recipes : k[1] = s} =
      IF job[s].status = "completed" THEN {<<s, job[s].recipe>>} ELSE {}

\* A stored recipe's image is in the bucket: no failure handler deletes what a
\* committed row refers to.
ImageStored == recipes \subseteq objects

\* Crashes, recoveries and failures together never start more attempts for a
\* slot than generation_max_retry_count allows (the first one is always made).
AttemptBudget ==
  \A s \in Slots : attempts[s] <= MaxRetryCount \/ attempts[s] <= 1

\* What the attempts for the slots have left in the database and in the bucket.
Content == recipes \cup objects

\* Replies lost after a commit cost duplicates, but not without end: a slot never has
\* more recipes and objects than it may have attempts.
ContentBounded ==
  \A s \in Slots :
    LET own == {k \in Content : k[1] = s}
    IN  /\ IsFiniteSet(own)
        /\ Cardinality(own) <= MaxRetryCount \/ Cardinality(own) <= 1

\* Every object is a recipe's image, or that of a worker about to persist or to
\* clean up, or was left by a crash or a delete that failed: no path of the
\* failure handling forgets one.
ObjectsAccounted ==
  objects \subseteq recipes \cup leaked
                   \cup {Key(p) : p \in {q \in Procs : pc[q] \in {"persist", "cleanup"}}}

\* The slot row and the job row, written by separate repositories, tell the
\* same status; a slot without a job is PENDING.
StatusAgreement ==
  \A s \in Slots :
    IF job[s].status = "absent" THEN slotRow[s] \in {"absent", "pending"}
                                ELSE slotRow[s] = job[s].status

\* While a job is PENDING some caller is at work for its slot: the request that
\* prepared it, its background task, or another call that may still start it.
\* run-now "dispatches the heavy generation work in background code on the API
\* instance" (ARCHITECTURE.md), so nothing else is left to start the job.
PendingHasCaller ==
  \A s \in Slots : job[s].status = "pending" => \E p \in Procs : slot[p] = s

\* No step changes a COMPLETED job: not a late failure, not a recovery, not
\* another call for its slot.
CompletedIsFinal ==
  [][\A s \in Slots : job[s].status = "completed" => job'[s] = job[s]]_vars

\* Every call ends, whatever its lock, the rows and the providers answer.
EveryCallReturns == \A p \in Procs : pc[p] # "idle" ~> pc[p] = "idle"

Abandoned(s) ==
  /\ job[s].status = "running"
  /\ \A p \in Procs : pc[p] \in Executing => slot[p] # s

\* A job whose worker is gone comes to a point where the next call recovers it:
\* both locks free and started_at old enough, however many calls were refused
\* meanwhile.  The exception is a session of the pool that kept the advisory
\* lock after an unlock that failed: then nothing says when the lock is free.
AbandonedRecovers ==
  \A s \in Slots :
    Abandoned(s) ~> \/ ~Abandoned(s)
                    \/ redis[s] = NoOne /\ pg[s] = NoOne /\ Stale(s)
                    \/ s \in pooled
=============================================================================
