----------------------------- MODULE ExternalCalls -----------------------------
(***************************************************************************)
(* The calls one attempt of _execute_generation makes: the text and the    *)
(* image provider, the upload and, if the attempt fails after it, the      *)
(* compensating delete.  Each call is a tenacity Retrying loop around a    *)
(* client whose own retries are off.                                       *)
(*                                                                         *)
(* A try ends with an answer, or the client gives up on it.  A request it  *)
(* has given up on may still be under way to the bucket, and take effect   *)
(* when the attempt is long past it.                                       *)
(*                                                                         *)
(* Time is what the calls take.  A try takes at most TryTime: the          *)
(* configured timeouts, of a server that does not answer piecemeal.        *)
(* "Mutant" marks a plausible bug in the definition that follows.          *)
(***************************************************************************)
EXTENDS Integers

CONSTANTS
  OpenaiTries,   \* openai_max_retry_attempts
  S3Tries,       \* s3_max_retry_attempts
  TryTime,       \* the longest a try of each call takes
  MaxWait,       \* max of wait_exponential, for each call
  LockTimeout    \* generation_lock_timeout_seconds

ProviderCalls == {"text", "image"}
StorageCalls  == {"put", "delete"}
Calls == ProviderCalls \cup StorageCalls

\* Settings have no lower bound: a limit below one still lets one try happen.
Tries(c) ==
  LET limit == IF c \in ProviderCalls THEN OpenaiTries ELSE S3Tries
  IN  IF limit < 1 THEN 1 ELSE limit

\* The longest a call takes: no wait follows the last try.
Longest(c) == Tries(c) * TryTime[c] + (Tries(c) - 1) * MaxWait[c]

ASSUME TriesAssumption == OpenaiTries \in Int /\ S3Tries \in Int
ASSUME TimesAssumption ==
  /\ TryTime \in [Calls -> Nat]
  /\ MaxWait \in [Calls -> Nat \ {0}]

\* The lock outlives the calls of an attempt.  Nothing in the code checks it; the
\* default settings satisfy it (MCExternalCalls).
LeaseCoversCalls ==
  /\ LockTimeout \in Nat
  /\ Longest("text") + Longest("image") + Longest("put") + Longest("delete")
       <= LockTimeout

ASSUME LeaseAssumption == LeaseCoversCalls

VARIABLES
  at,        \* the call, "persist", or how the attempt ended
  waiting,   \* a try is under way
  tries,     \* tries of this call so far
  net,       \* requests under way to the bucket
  stored,    \* the bucket has the attempt's object
  cleanup,   \* storage_cleanup of the failure metadata
  elapsed,   \* time of the calls so far, up to LockTimeout + 1 (history)
  late       \* an upload was under way when the delete was answered (history)

storage == <<net, stored>>
vars == <<at, waiting, tries, storage, cleanup, elapsed, late>>

Init ==
  /\ at = "text" /\ waiting = FALSE /\ tries = 0
  /\ net = {} /\ stored = FALSE
  /\ cleanup = "none" /\ elapsed = 0 /\ late = FALSE

Ended == at \in {"recipe", "failed"}

\* Time goes on by d.
Spend(d) ==
  elapsed' = IF elapsed + d <= LockTimeout THEN elapsed + d ELSE LockTimeout + 1

\* The attempt goes on with the call, or the end, c.
Enter(c) == at' = c /\ waiting' = FALSE /\ tries' = 0

Request == <<at, tries>>
Uploads == {r \in net : r[1] = "put"}

Send ==
  /\ at \in Calls
  /\ ~waiting
  /\ waiting' = TRUE
  /\ tries' = tries + 1
  /\ net' = IF at \in StorageCalls THEN net \cup {<<at, tries + 1>>} ELSE net
  /\ UNCHANGED <<at, stored, cleanup, elapsed, late>>

\* The bucket carries out r.
Apply(r) ==
  /\ stored' = (r[1] = "put")
  /\ net' = net \ {r}

\* A usable answer: the next step of _execute_generation.
ProviderAnswers ==
  /\ waiting
  /\ at \in ProviderCalls
  /\ \E d \in 0..TryTime[at] : Spend(d)
  /\ Enter(IF at = "text" THEN "image" ELSE "put")
  /\ UNCHANGED <<storage, cleanup, late>>

\* A status that is not transient, a response without text or image, or a text
\* that is no recipe: raised at once, with storage_key still None.
ProviderRefuses ==
  /\ waiting
  /\ at \in ProviderCalls
  /\ \E d \in 0..TryTime[at] : Spend(d)
  /\ Enter("failed")
  /\ UNCHANGED <<storage, cleanup, late>>

BucketAnswers ==
  /\ waiting
  /\ at \in StorageCalls
  /\ Request \in net
  /\ Apply(Request)
  /\ \E d \in 0..TryTime[at] : Spend(d)
  /\ IF at = "put"
       THEN Enter("persist") /\ UNCHANGED <<cleanup, late>>
       ELSE /\ Enter("failed")
            /\ cleanup' = "deleted_orphaned_object"
            /\ late' = (Uploads # {})

\* Mutant: one try more than the limit.
ExhaustedLate == tries > Tries(at)

\* stop_after_attempt.
Exhausted == tries >= Tries(at)

\* A transient error of OpenAI, any error of the bucket.  If the client has only
\* lost patience or the connection, the request may still be under way.
TryFails ==
  /\ waiting
  /\ net' \in {net, net \ {Request}}

\* wait_exponential: between one second and MaxWait.
Retry ==
  /\ TryFails
  /\ ~Exhausted
  /\ \E d \in 0..TryTime[at], w \in 1..MaxWait[at] : Spend(d + w)
  /\ waiting' = FALSE
  /\ UNCHANGED <<at, tries, stored, cleanup, late>>

\* Mutants: the upload's error is swallowed; only an upload that was answered is
\* deleted; the delete is tried until it succeeds.
AfterLastSwallowed == IF at = "put" THEN "persist" ELSE "failed"
AfterLastForgotten == "failed"
AfterLastForever   == IF at \in StorageCalls THEN "delete" ELSE "failed"

\* Where the error of the last try leads: storage_key is set before the upload, so
\* _handle_failure deletes what the upload may have left.
AfterLast == IF at = "put" THEN "delete" ELSE "failed"

\* The last error is raised; of a delete it is only noted.
Raise ==
  /\ TryFails
  /\ Exhausted
  /\ \E d \in 0..TryTime[at] : Spend(d)
  /\ Enter(AfterLast)
  /\ cleanup' = IF at = "delete" THEN "delete_failed" ELSE cleanup
  /\ UNCHANGED <<stored, late>>

\* _persist_success commits the recipe, or its transaction is rolled back.  The commit
\* whose reply is lost is left to GenerationService.
Persist ==
  /\ at = "persist"
  /\ Enter("recipe") \/ Enter("delete")
  /\ UNCHANGED <<storage, cleanup, elapsed, late>>

\* A request the client does not wait for any more takes effect, or is dropped.
Stray(r) ==
  /\ r \in net
  /\ ~waiting \/ r # Request
  /\ \/ Apply(r)
     \/ net' = net \ {r} /\ UNCHANGED stored
  /\ UNCHANGED <<at, waiting, tries, cleanup, elapsed, late>>

Client ==
  \/ Send \/ ProviderAnswers \/ ProviderRefuses \/ BucketAnswers
  \/ Retry \/ Raise \/ Persist

Next == Client \/ \E r \in net : Stray(r)

Spec == Init /\ [][Next]_vars

\* The thread goes on: every try has a timeout.
FairSpec == Spec /\ WF_vars(Client)

-----------------------------------------------------------------------------
(* Properties *)

TypeOK ==
  /\ at \in Calls \cup {"persist", "recipe", "failed"}
  /\ waiting \in BOOLEAN
  /\ waiting => at \in Calls
  /\ tries \in Nat
  /\ net \subseteq StorageCalls \X Nat
  /\ stored \in BOOLEAN
  /\ cleanup \in {"none", "deleted_orphaned_object", "delete_failed"}
  /\ elapsed \in 0..(LockTimeout + 1)
  /\ late \in BOOLEAN

\* From the answer to its upload on, the image of a recipe is in the bucket,
\* whatever becomes of the tries the client has given up on.
ImageStays == at \in {"persist", "recipe"} => stored

\* A failed attempt leaves an object only if the delete failed, which the failure
\* metadata say, or if an upload that was given up on came in after the delete,
\* which they do not.
OrphansExplained ==
  at = "failed" /\ stored => cleanup = "delete_failed" \/ late

\* With a lock timeout that covers the timeouts and the waits of all tries no
\* attempt outlives its lease, however its tries go.
WithinLease == elapsed <= LockTimeout

\* An attempt ends, with providers and a bucket that never answer too.
AttemptEnds == <>Ended
=============================================================================
