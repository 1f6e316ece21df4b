# A TLA+ development of the recipe generation server

This directory holds TLA+ specifications of the backend in `src/`, the TLC
configurations that check them on small instances, and theorems about them that
TLAPS checks for every value of the constants. Every definition is translated
from the Python source; `PROJECT.json` maps each one to its lines.

## The system

The backend generates one recipe with one image per UTC hour, stores it, and
serves the published ones. Two programs run the same code against the same
PostgreSQL database, Redis server and S3 bucket: the API (FastAPI, requests on a
thread pool) and the worker (`app/scheduler/cli.py`, started by cron or by hand).

| Component | State it keeps | Operations | Interacts with |
|---|---|---|---|
| Generation workflow (`generation_service.py`, `routes_generations.py`, `cli.py`) | none of its own; each call's local variables | `run_for_slot`, `run_hourly_generation`, `prepare_background_generation`, the background task | all of the below |
| Distributed locks (`infrastructure/locking`) | Redis key with token and timeout; PostgreSQL advisory lock bound to a session | `acquire_lock` / exit, non-blocking | workflow |
| Slot and job rows (`generation_schedule_slot_repository.py`, `generation_job_repository.py`) | `generation_schedule_slots`, `generation_jobs` | get-or-create, status updates | workflow, status endpoint |
| Recipes and images (`recipe_repository.py`) | `recipes`, `recipe_images` | create, publish, unpublish, latest, feed, by id | workflow, admin and public routes |
| Image storage (`s3_storage.py`) | objects of the bucket | upload, delete, read URL, with retries | workflow, public routes |
| OpenAI providers (`providers/openai`) | none | text, image, with retries | workflow |
| Database connections (`session.py`, `bootstrap.py`) | the pool of a process, the sessions behind its connections | connect, close, pre-ping | advisory locks, sessions, readiness probe |
| Admin access (`settings.py`, `security/auth.py`, `rate_limiter.py`, `errors.py`) | configured identities; Redis counters per actor, path and minute | authenticate, compare the role, count, refuse, answer | admin routes |
| Recipe schema and responses (`recipe_schema.py`, `entities.py`, `mappers.py`, `api/schemas/recipe.py`) | none | validate an answer, convert it to a row and to responses | providers, recipes, routes |
| Health (`health_service.py`) | none | readiness probes | admin and public routes |
| Prompts, OpenAPI, logging | configuration, log context, cached documents | text assembly, formatting | everything |

Hard behaviours: several callers of one slot at once (cron overlapping a manual
run, two admins, a background task and its own request), a lock that expires
while its holder works, process deaths between any two of the transactions and
calls of a run, replies lost after a commit, compensation of an upload, recovery
of a job taken for dead by the age of a timestamp, admin requests that
change one row concurrently, runs and requests that share one pool of connections,
and provider answers that are turned into rows after they have been paid. `PROJECT.json` lists each hazard at its line.

What makes each part correct:

- locks: never two workers in one slot; a late release hurts nobody; a dead
  caller's lock goes away;
- workflow: at most one recipe per slot, attempts within the retry budget,
  a COMPLETED job stays, every call ends, an abandoned job can be recovered;
- rows: slot and job agree on the status; recipes and jobs agree;
- storage: a stored recipe's image exists; no object is forgotten;
- publication: a request that nobody overlaps leaves the row as it wanted it; one
  that is overlapped has at least been true for a moment before its answer;
- feed: a reader that pages through it misses nothing that stayed in its place, and
  is given nothing twice, except as the moves of other recipes explain;
- connections: none is lost whichever way a call ends, no lock stays behind on a
  pooled one except by an unlock that fails, and a pool that is used up is freed by
  the timeout at the latest;
- admin access: a minute's limit holds, nobody is refused for requests of another
  minute or without the role, no counter is left behind, and an answer tells what
  was done, for nobody beyond what the settings grant a token;
- external calls: end within the lock's timeout; an image scan never leaves its file;
- content: what the schema allows can be stored, what is stored can be shown, and
  says what the provider said.

## Modules

### GenerationService

`GenerationService.tla` is the core. Its `Procs` are callers: worker processes
and API request threads. A caller's `pc` says between which two effects it is:

| `pc` | in the code |
|---|---|
| `idle` | no call |
| `redis`, `pg` | about to try the Redis lock, the advisory lock (`composite_lock.py`) |
| `lookup` | `prepare_background_generation`, before the first query under the lock |
| `slotRow`, `jobRow` | `_prepare_job`, before its first and its second transaction |
| `text`, `image`, `upload` | `_execute_generation`, before each external call |
| `persist`, `reload` | before `_persist_success`, before `_load_job` / `_load_slot` |
| `cleanup`, `markFailed` | `_handle_failure`, before the delete, before its transaction |
| `exit` | leaving the `with` block: the exit stack releases what `holds` names |
| `queued` | run-now has answered and its background task has not begun |

One action is the code between two such points, with all its effects; a call
that can fail has one action for the answer and one for each failure. A crash is
possible at every point. The other variables: `redis`, `ttl`, `pg` are the lock
state per slot, together with `pooled`, the slots whose advisory lock a session of
a pool has kept after an unlock that failed; `slotRow`, `job`, `age` the rows (`age` stands for `now -
started_at`); `recipes` and `objects` the recipe rows and the bucket, both named
by slot and attempt (the attempt number stands for the UUID of the storage key,
which is fresh for every attempt); `attempts` and `leaked` are history.

Abstractions, and why they lose nothing the properties look at:

- A slot, its job and its lock key are one to one (unique constraints and the
  idempotency key), so one index stands for the three.
- The transactions of one slot are single steps. Two transactions of a slot
  overlap only if two callers are inside the slot's lock, and `WorkersExclude`
  proves, from the locks alone, that this does not happen when the lock is
  reliable (`ReliableLock`). Every claim about the rows of a run rests on it. The
  theorems about rows and objects that do not name it (`RowsAgree`,
  `NoForgottenObject`, `CompletedSlotHasRecipe`) say what each transaction keeps
  by itself; READ COMMITTED interleavings of two are not in them.
- Two adjacent reads without an effect in between are one step, as are the
  publication flags and metadata, which nothing in the workflow branches on.
- `_is_running_job_stale` falls back to `locked_at` and `created_at` when
  `started_at` is NULL, which a RUNNING job never has.
- The Redis token is the caller itself; the token of a caller that died or whose
  command failed is `Ghost`. The advisory lock is the caller's session; a crash
  ends the session.
- An unlock that fails on a live connection leaves the lock with a session that goes
  back to its pool (`ExitPostgresError`). Whoever is given that connection next gets the
  lock, everybody else is refused (`AcquirePostgres` and `PostgresBusy` are both
  possible), until the session ends (`PooledSessionEnds`, the death of its process).
  Nothing in the code says when that is, so nothing fair does in the model. Which
  connection a caller is given is left to `ConnectionPool`.

### HourlySlot and GenerationRefinement

`HourlySlot.tla` is what a client is promised: per slot, counted attempts one
after the other, of which the last may succeed. `GenerationRefinement.tla` maps
the detailed state onto it (`attempts`, whether the job is RUNNING, the recipe
the COMPLETED job names) and states `ImplementsHourlySlot`.

### SlotAndJobRows

`SlotAndJobRows.tla` opens up what `GenerationService` takes as one step: the
statements of `get_or_create_slot` and `create_or_get_job`, in the two transactions
of `_prepare_job`, for calls that reach them together. It needs no lock: it asks
whether the duplicate handling stands by itself. A call's `pc` is its next
statement (`load`, `select`, `insert`, `reselect`, `commit`), `table` the repository
it is in; `rows` are the committed rows, `open` those of open transactions, `mine`
the row a call goes on with. A row is named by the call that inserted it. PostgreSQL
is READ COMMITTED with unique constraints: an insert of a key that an open
transaction has inserted waits, which is the guard of `Insert` and `Duplicate`. A
commit whose reply is lost fails the call and keeps its rows.

`GetOrCreate.tla` is what the two repositories promise: each row is got or created in
one step. `Given`, the row of a transaction that has committed, is what a call has been
given, and `ImplementsGetOrCreate` says that selects, inserts, lost races and rollbacks
together are such steps. This is what makes `CreateSlot` and the job row of
`GenerationService` single actions.

### ConnectionPool

`ConnectionPool.tla` is the pool of one process and all who share it. A run
(`run_for_slot` or `prepare_background_generation`) keeps the connection on which it
asked for the advisory lock until it leaves the `with` block, refused or not, and
takes a second one for each transaction; a request, and the readiness probe, only
has transactions. The lock belongs to the server's session behind the connection,
counts its grants, and outlives `close()`. `at` is where a client is, `lockOn` and
`workOn` the connections it has, `session` what the server knows of each. The pool
itself is SQLAlchemy's: `Available`, `Close` and `TimesOut` are modelled from how the
code uses it and from the defaults it relies on (`pool_size` 5, `max_overflow` 10,
a timeout of 30 s, while FastAPI runs 40 threads). There is no Redis layer here, so
any two runs may ask for one slot; `GenerationService` has both layers and no pool.

### RecipePublication

`RecipePublication.tla` has the publish and unpublish requests of the admin routes,
each with its own session: `Load` is `session.get`, `Commit` the flush and the commit
in between which PostgreSQL holds the row's lock, `Answer` the reply from the
session's object. The UPDATE sets only the columns that differ from the loaded
`copy`, which is what lets two requests merge into a row neither of them wanted.
`alone` and `met` are history. Dates are ticks of a clock that grows with every
reading. Publishing looks at no readiness or moderation state, and neither does the
model.

### RecipeFeed

`RecipeFeed.tla` is the feed query under a reader that asks for page after page while
recipes are published, published again and unpublished. `Before` is the ORDER BY
(`published_at`, then `created_at`, both descending; recipes are numbered as they were
created), `Page` is OFFSET and LIMIT. History says what
the reader has been given and which moves crossed it; the two properties say exactly
what those moves excuse.

### AdminRateLimiter

`AdminRateLimiter.tla` is `enforce` for the requests of one actor to one path: the
minute is read, the counter incremented, and given a timeout by the request that
created it, in separate steps with failures, lost replies and a restart of Redis in
between. A counter is named by its minute; `ttl` runs down with the clock.

### AdminAccess

`AdminAccess.tla` puts the rest of an admin request around that counter: the settings
that are accepted at start (`config`), the first identity with the token, its role
against what the path needs, the limiter for one watched actor and any verdict for
another one, validation of parameters, the handler, and the status that `errors.py`
makes of each outcome. `ran` is history. The limiter's actions are those of
`AdminRateLimiter`, whose `Stamp` is the step of `Enforce`. Answers that a request
owes to its handler alone (404, 409, 422, 500, 502) are one value, except for the 503
of the readiness probe, which a client cannot tell from that of the limiter. That is
why `AnswersTellEffects` promises for a 503 only on write paths that nothing has run.
What a token may do is stated a second time for the properties: `Granted` takes it from
the settings as they are configured (the first identity with the token, or the legacy
token if there is none), not from the list that the code makes of them.

### ExternalCalls

`ExternalCalls.tla` opens up another step of `GenerationService`: the provider and
storage calls of one attempt, each a tenacity loop. `at` is the call, `tries` the
tries made, `net` the requests under way to the bucket, among them those the client
has given up on, which `Stray` lets take effect at any later time. The providers
retry transient errors only, the bucket's client retries every error. `elapsed` adds
up the tries and the waits. What a call answers is reduced to usable or not; the
exponential wait to its bounds. `Persist` commits or rolls back: the commit whose reply
is lost is `PersistError` of `GenerationService`, and finding 1 says what comes of it.

### JpegDimensions

`JpegDimensions.tla` is the loop of `_extract_jpeg_dimensions`, byte by byte.
`JpegAssumption` says what a JPEG is: markers and segments, each of which ends where
the next marker begins, up to a frame header, all of it or cut off anywhere. The MC
module puts such files together, and others of any bytes. Fill bytes before a
marker, which the format allows, are read by the code as a marker of their own; the
scan then finds nothing and the configured size is stored instead. The test files
have none.

### RecipeContent

`RecipeContent.tla` follows one generation's data: the first text that is not empty,
read as JSON and validated by the models, the first image and its size (the PNG
header, the scan of `JpegDimensions`, whose steps are steps here, or the configured
size), the row with what its columns take, and the responses. A payload is a function
from paths to values of a type and a size; the items of a list are alike. `Conforms` is
the JSON schema, `Accepts` the models, `Storable` the columns, `Showable` the
response models: four statements of one format, kept by hand in four files. Parameters
of the generation and provider names, which do not come from an answer, are left out.
The conversions of `Row`, `Model`, `Response` and `Shown` copy every field to its
namesake, which is what the code's constructors do; the property compares the ends. A
constructor that swaps two fields is therefore caught once the swap is carried into the
model, not by running it. A text with a U+0000 or with half of a surrogate pair is valid
JSON and passes the schema and the models; `Storable` refuses both (JSONB and text
columns), and `Sendable` the latter where the image prompt quotes it.

## Runs

Bounds: one slot (slots share nothing but the pool of callers, and the proofs are
for any number), two or three callers, a Redis timeout of 2 ticks, jobs stale
after 2 or 3 ticks, at most 2 or 3 retries. Three callers suffice for a holder,
one refused caller and one that succeeds the holder; a timeout of 2 lets a lease
end in any step of a run; with a retry limit of 2 a slot goes through a first
attempt, a retry and exhaustion. The state space is finite without a constraint:
attempts are bounded by `AttemptBudget`, the clock saturates.

| Run | Instance | Shows |
|---|---|---|
| `layered_lock` | 3 callers, both locks, crashes, Redis and database faults | all safety properties and the refinement of `HourlySlot`; expired leases and lost Redis keys are harmless |
| `liveness` | 2 callers, fairness, crashes, database faults (failed unlocks among them), lost replies, PostgreSQL drops sessions, no run outlives its lease | every call returns; an abandoned job becomes recoverable, unless a pooled session kept its lock; duplicates stay within the retry budget; the Redis lock alone excludes two workers |
| `duplicate_recipe` | 2 callers, only failures after a commit | violation: see Findings |
| `pending_stranded` | 2 callers, no fault, no run outlives its lease | violation: see Findings |
| `slot_and_job_rows` | 3 calls, 2 hours, fairness | the insert races end with one row per hour that all callers hold, and end at all; the refinement of `GetOrCreate` |
| `connection_pool` | 2 runs, 1 request, 2 connections of which 1 is kept, fairness | no connection and no lock is lost; who can stall the pool; everyone ends |
| `recipe_publication` | 3 requests for one recipe, 4 dates | what overlapping requests still promise |
| `publication_lost` | 2 requests, 2 dates | violation: see Findings |
| `recipe_feed` | 4 recipes, pages of 2, 3 dates | what a reader may miss or be given twice |
| `admin_access` | 3 requests, limit 1, 2 minutes of 2 ticks, 3 settings that start and 3 that do not | the limit of a minute, who may be refused, timeouts of counters, what an answer tells |
| `external_calls` | 2 tries of providers, 3 of the bucket, tries of 1 to 3 ticks, a lock of exactly their sum | images, orphans, the length and the end of an attempt |
| `recipe_content` | an answer changed at any one path to any of some 40 values, or with lists emptied; up to 3 texts; several thousand image files: whole, cut at every byte, one byte damaged | conforming answers are stored, with the exceptions named, and shown as they were; the right frame or none; the scan moves on |

The other bounds. Three calls give a winner of an insert race, a loser and one that
comes when both are done, and two hours let a call of another key run in between.
Publication needs three requests so that one is alone on a row two others have
merged. Four recipes and pages of two make a reader cross two page boundaries, and
three dates let a recipe tie with another, precede it and follow it. Two runs and two
connections are the smallest pool that runs can stall; a request that comes on top has
to wait, and one connection beyond the pool's size is closed for good when it comes
back. One transaction of each client and one failed unlock per session keep the
instance small: a second transaction starts where the first did. Two minutes let a
request of the first be counted in the second, and three requests exceed a limit of
one with one of another actor or without the role among them. The settings are those
that differ in what they grant: two tokens of one actor, a shadowed legacy token, the
legacy token alone. In `recipe_content` one field differs from a good answer at a time,
since schema, models and columns judge each field by itself, but for empty lists, which
hide their items; the values are both sides of every bound, with 70 000 in the place of
2147483647, beyond every bound of the schema and every size of a JPEG. With the lock at 23 ticks instead of 24 `external_calls` finds an
attempt that outlives it, so the bound `Longest` is exact; the default settings
satisfy it with a wide margin, which the `ASSUME` of `MCExternalCalls` evaluates.

**Lock modes.** `ReliableLock` is: the advisory lock keeps its session (normal
operation of PostgreSQL), or no run outlives its Redis lease and Redis forgets
nothing. `LeaseCoversRun` states the former half of the latter as a guard of
`Tick`. `ExternalCalls` shows what it takes: a lock timeout that covers the tries and
the waits of the calls, as the default 1800 s does. But nothing in the code enforces
it, and transactions have no timeout, so `layered_lock` lets leases expire anywhere. If both fail together the code promises
nothing, and neither does any property.

**Faults.** `crash`, `redis` (an error, a lost reply, a lost key), `postgres` (a
dropped session of a live caller), `database` (a query or commit fails, nothing
is changed; an unlock fails, and the lock may stay), `afterCommit` (a commit takes effect but its reply is lost, or the
reload after it fails). Provider and storage failures are always possible. The
runs differ in which faults they allow because `afterCommit` is what the
findings are about.

**Fairness.** `FairSpec` assumes weak fairness of the clock and of each caller's
own steps: a thread that has begun goes on, since every lock command is
non-blocking, and every external call has a timeout. Nothing is assumed about
new calls: an abandoned job is only shown to come to a state from which the next
call recovers it. That run has `LeaseCoversRun = TRUE`: with arbitrarily slow
callers an endless alternation of crashing calls that each outlive the lease
could keep the locks taken whenever the job is stale. And it excuses a slot whose
advisory lock a pooled session has kept: that lock has no timeout, so the job can stay
locked out for as long as the process lives.

`SlotAndJobRows` assumes weak fairness of each call's statements: only an insert
waits, and the database wakes it when the other transaction ends. `ExternalCalls`
assumes it of the attempt's thread: every try has a timeout. `ConnectionPool` assumes
it of each client's thread: a statement answers or raises, and waiting for a
connection ends with one or with the timeout. Nothing is assumed of stray requests, nor of requests and readers in the other modules, which have no
liveness property.

**Deadlock** is checked where the system goes on for ever: an idle caller, request or
reader can always begin again. It is off where it ends by design: in
`slot_and_job_rows`, `external_calls` and `recipe_content` every call runs once, and
in `admin_access` the requests are made once and the clock stops.

## Findings

1. `duplicate_recipe`: `_execute_generation` reloads the rows after the commit inside
   its `try` block, and `_persist_success` takes a lost commit reply for a rollback. A
   failure there runs `_handle_failure` on a slot that is done: the committed
   recipe's image is deleted, the COMPLETED job is overwritten with FAILED, and the
   retry stores a second recipe.
2. `pending_stranded`: the background task of run-now is skipped if another
   request holds the lock at that moment, and that request does not enqueue a job
   it finds PENDING: the job stays PENDING until the worker is run for its hour. No
   fault and no expired lease is needed: the run has neither.
3. `publication_lost`: a publish that overlaps an unpublish of a published recipe
   loads it as PUBLISHED, so its UPDATE writes the date only; it answers with a
   published recipe while the row it has just committed is UNPUBLISHED, with a date.

## Proofs

`GenerationServiceProofs.tla` proves, for any callers, slots, times, limits and
faults (the named assumptions of `GenerationService`):

| Theorem | Needs | Inductive invariant |
|---|---|---|
| `TypeCorrect` | - | `TypeOK` itself, with the key of a worker in `Slots \X Nat` |
| `RowsAgree` | - | `RowsInv`: the rows agree, and a caller before `_prepare_job`'s second transaction has a slot row |
| `WorkersExclude` | `ReliableLock` | `LockInv`: who is inside holds the lock of the reliable layer, and that layer names one holder |
| `WorkerKeepsItsJob` | `ReliableLock` | `Owns`: for each caller in an attempt, number and retry count match the rows; disturbed only by another caller inside, which `LockInv` excludes, or by a recovery, which happens inside |
| `AttemptsBounded` | `ReliableLock` | `BudgetInv`: attempts equal the job's retries, plus one while it is RUNNING or COMPLETED, and retries never pass the limit |
| `NoForgottenObject` | - | `ObjectsAccounted` itself, step by step over the keys in flight |
| `ExitHasItsLock` | - | `ExitHolds` with `LockInv`: a caller at its exit still names the Redis lock in `holds`: every path comes there with something to release |
| `CallsAreShort` | - | the variant of `CallsShorten`, at most 29, with `EnqueueAlways`: only a run-now request goes on as a background task |
| `CompletedSlotHasRecipe` | - | `ContentInv`: a COMPLETED job names a stored recipe, and every recipe, object and worker has the number of an attempt that began |
| `DuplicatesBounded` | `ReliableLock` | `ContentInv` and `AttemptBudget`: recipes and objects are named by the numbers of attempts, of which there are no more than the budget; `liveness` checks the same (`ContentBounded`) |
| `RecipesMatchJobs`, `NoDuplicateContent`, `ImagesStored`, `CompletedStays` | `ReliableLock` and no `afterCommit` (`Dependable`) | `RecipeInv` with `AttemptInv`: before its commit an attempt has no recipe, after it the caller only leaves |

`TypeOK` is not enough for any of them: exclusion needs the link between `pc`,
`holds` and the lock variables, and everything about rows needs exclusion. So
the proofs go in that order and each later step lemma assumes the earlier
invariants before and after the step.

The delete of a failed attempt may take effect although it raises; `NoForgottenObject`
counts that object as left behind.

`Refines`, in the same module: under `Dependable` every step maps to a step of
`HourlySlot` or a stutter.

The findings show that `Dependable` cannot be weakened to `ReliableLock` for
`RecipesMatchJobs`, `NoDuplicateContent`, `ImagesStored`, `CompletedStays` and the
refinement. `CompletedSlotHasRecipe` and `DuplicatesBounded` say what is left of them
when replies are lost after a commit, as in finding 1: a slot that says COMPLETED has a
recipe, and the duplicates are no more than its attempts.

The other modules have proofs for every value of their constants too:

| Module | Theorems | Inductive invariant |
|---|---|---|
| `SlotAndJobRowsProofs` | `TypeCorrect`, `CallsShareRows`, `HeldRowsStay`, `RacesResolve`, `Refines`, `NoDeadlock`, `CallsGetNearer` | one row per key among committed and open rows, and for each call what its statement may rely on: from an insert to its commit the row is its own and open, otherwise it is a committed one. `Refines` maps the commits to `GetOrCreate`. `NoDeadlock`: a call waits only for calls at their commit, which wait for nobody. `CallsGetNearer`: at most nine steps each |
| `RecipePublicationProofs` | `TypeCorrect`, `AloneRequestsTakeEffect`, `AnswersWereTrue` | a request that is alone has a copy equal to the row, and the row it wanted after its commit; one whose copy has the wanted status has met it |
| `RecipeFeedProofs` | `FeedIsComplete`, `FeedHasNoRepeats` | unless a move put a recipe further back in the list, every kept recipe was given or has at least `offset` recipes ahead of it; unless a move put one further forward, no kept recipe was given twice and a given one has fewer than `offset` ahead of it. The lemmas say that places in the list have no gaps and how a move changes what is ahead of a recipe |
| `ConnectionPoolProofs` | `TypeCorrect`, `NoConnectionLost`, `NoLockLost`, `OneRunInside`, `StalledOnlyByRuns`, `FewRunsNeverStall`, `ClientsAreShort` | `PoolInv`: who has which connection follows from where each client is, no connection has two users, and the locks of a live session are those of the run inside and of its failed unlocks. A stall needs every connection to be some run's lock, so fewer runs than connections never stall. The variant `StepsLeft` bounds every client's steps |
| `AdminAccessProofs` | `TypeCorrect`, `LimitHolds`, `RefusalsAreJustified`, `TimeoutsAreSet` of the counter; `AccessRefines`, `RefusedByItsOwn`, `AnswersAreTrue`, `AccessLimit` of the whole request | of the counter: the requests of a minute have distinct counts, and its counter, unless Redis lost it, lives on to the end of the minute with all of them. Every step of `AdminAccess` is a step of the counter or leaves it alone, so its theorems carry over; a counted request was entitled when it was stamped, and settings never change; whom the code identifies is whom the settings grant the access (`IdentifiedIsGranted`). `RefusalsAreJustified`, of the counter alone, is a step to `RefusedByItsOwn`, whose property the run checks |
| `ExternalCallsProofs` | `TypeCorrect`, `RecipeKeepsImage`, `NoUnexplainedOrphan`, `AttemptsFitTheLease`, `AttemptRunsOut` | no delete is under way before the attempt has failed; the time is within that of the calls before and the tries that are over. The variant `Remaining` counts the steps that are left |
| `RecipeContentProofs` | `TypeCorrect`, `ScanAdvances`, `FrameFound` of the scan; `ContentRefines`, `ContentAdvances`, `ContentFindsFrame`, `ConformingStored`, `FieldsShown`, `SizeShown`, `ShownTrue` of the attempt | of the scan `TypeOK`: a read outside the file would have no known value, so that the size could not be shown to be a number; and `OnTrack`: in a JPEG the cursor is at a marker at the head of the loop and two bytes behind one within it, never inside a segment. Of the attempt: at each stage, the recipe is what the models take from the text that was found, which `Accepts` has admitted; what conforms is accepted path by path |

`AttemptsFitTheLease` rests on `LeaseAssumption` (the lock covers the calls) and on
`TryTime`, the longest a try takes: the client's timeouts bound the wait for each
part of an answer, so a server that trickles its answer could exceed it. The proofs
about answers rest on `PngAssumption` (a sound PNG has the header the code reads, and
no size beyond the column) and `MaxIntegerAssumption` (an Integer column takes the
numbers of the schema and the 16-bit sizes of a JPEG), those about access on
`TokensAssumption` (a weak or missing token is no token) and `CasesAssumption` (settings
list identities as records). What the scan finds rests on
`JpegAssumption`, the structure of a JPEG; TLC evaluates it on every file of
`recipe_content`.

Only model-checked: the liveness properties (`EveryCallReturns`, `AbandonedRecovers`,
`EveryCallEnds`, `AttemptEnds`, `EveryClientEnds`), as fairness and ENABLED are outside
what the prover handles. Their other half is proved: what a call, an attempt or a client
still has to do is a number that each of its steps makes smaller and nobody else's step
makes larger (`CallsAreShort`, `CallsGetNearer`, `AttemptRunsOut`, `ClientsAreShort`),
and an insert waits for nothing but a commit (`NoDeadlock`). What is left to TLC is that
a next step is always possible and, being fair, taken. `AbandonedRecovers` needs the
clock as well and is left to TLC altogether.

## Not modelled

- Prompts, OpenAPI documents, log records, and the metadata kept beside recipes and
  jobs: texts that no control flow reads. The parsing of settings other than the
  admin identities; migrations, whose schema is read from the models instead.
- The probes of Redis and the bucket, whose results are only put together; the job
  and health responses, which copy fields; the queries by identifier, which are single
  SELECTs that change nothing.
- Both lock layers lost at once (an expired lease and a dropped PostgreSQL session):
  nothing in the code promises exclusion then. `ReliableLock` names what the promise
  rests on, and no claim about what several callers do together goes beyond it.
- The pool in the workflow: `GenerationService` takes a transaction that finds no
  connection for one that fails (`database`), and `ConnectionPool` says when that can
  happen to everybody at once. Likewise the late uploads of `ExternalCalls` and the
  statements of `SlotAndJobRows` are not put back into `GenerationService`: each of
  those modules opens up one of its steps, whose product would be out of TLC's reach.
- publish looks at no readiness or moderation state, although the route's description
  speaks of a recipe that is ready: the code has no such state to compare with.

A FAILED slot is only retried if somebody calls for it again, and cron calls for
the current hour only: that is the code's design, and no property asks for more.

