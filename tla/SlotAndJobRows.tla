---------------------------- MODULE SlotAndJobRows ----------------------------
(***************************************************************************)
(* get_or_create_slot and create_or_get_job when calls for one hour are in *)
(* them together: the "repository-level duplicate handling for race        *)
(* conditions" that is left when the locks have let two callers through.   *)
(*                                                                         *)
(* _prepare_job gets the slot in one transaction and the job in a second   *)
(* one.  Both repositories select, insert if there was nothing, and on a   *)
(* violated unique constraint roll back and select again.  PostgreSQL runs *)
(* them READ COMMITTED: a query sees what is committed when it begins, and *)
(* an insert waits for an open transaction that inserted the same key.     *)
(*                                                                         *)
(* A row is named by the call that inserted it.  "Mutant" marks a          *)
(* plausible bug in the definition that follows.                           *)
(***************************************************************************)
EXTENDS Naturals

CONSTANTS
  Calls,   \* calls of _prepare_job, each of which runs once
  Hours    \* hour slots

None == "none"

ASSUME CallsAssumption == None \notin Calls

VARIABLES
  hour,        \* the hour a call is for
  pc,          \* the step of the repository it is at
  table,       \* the table it is at: slots first, then jobs
  rows,        \* the committed rows of a table
  open,        \* the rows that open transactions have inserted
  mine,        \* the row a call holds of a table, None if none yet
  unresolved   \* a call raised DatabaseOperationError over a missing row

vars == <<hour, pc, table, rows, open, mine, unresolved>>

Tables == {"slots", "jobs"}
Steps == {"load", "select", "insert", "reselect", "commit", "done", "failed"}

Init ==
  /\ hour \in [Calls -> Hours]
  /\ pc = [c \in Calls |-> "select"]
  /\ table = [c \in Calls |-> "slots"]
  /\ rows = [t \in Tables |-> {}]
  /\ open = [t \in Tables |-> {}]
  /\ mine = [t \in Tables |-> [c \in Calls |-> None]]
  /\ unresolved = FALSE

\* The rows of c's table with c's key: slot time and type, or idempotency key.
Committed(c) == {d \in rows[table[c]] : hour[d] = hour[c]}
Inserted(c)  == {d \in open[table[c]] : hour[d] = hour[c]}

Goto(c, step) == pc' = [pc EXCEPT ![c] = step]
Hold(c, d) == mine' = [mine EXCEPT ![table[c]][c] = d]

\* The second transaction loads the slot that the first one committed.
LoadSlot(c) ==
  /\ pc[c] = "load"
  /\ IF mine["slots"][c] \in rows["slots"]
       THEN Goto(c, "select") /\ UNCHANGED unresolved
       ELSE Goto(c, "failed") /\ unresolved' = TRUE
  /\ UNCHANGED <<hour, table, rows, open, mine>>

Select(c) ==
  /\ pc[c] = "select"
  /\ IF Committed(c) = {}
       THEN Goto(c, "insert") /\ UNCHANGED mine
       ELSE \E d \in Committed(c) : Goto(c, "commit") /\ Hold(c, d)
  /\ UNCHANGED <<hour, table, rows, open, unresolved>>

\* Mutant: no unique constraint.
InsertUnconstrained(c) ==
  /\ pc[c] = "insert"
  /\ open' = [open EXCEPT ![table[c]] = @ \cup {c}]
  /\ Hold(c, c)
  /\ Goto(c, "commit")
  /\ UNCHANGED <<hour, table, rows, unresolved>>

\* flush sends the INSERT; it waits while another open transaction has the key.
Insert(c) ==
  /\ pc[c] = "insert"
  /\ Committed(c) = {}
  /\ Inserted(c) = {}
  /\ open' = [open EXCEPT ![table[c]] = @ \cup {c}]
  /\ Hold(c, c)
  /\ Goto(c, "commit")
  /\ UNCHANGED <<hour, table, rows, unresolved>>

\* Mutant: the session is rolled back, but the new object is returned.
DuplicateReturned(c) ==
  /\ pc[c] = "insert"
  /\ Committed(c) # {}
  /\ Hold(c, c)
  /\ Goto(c, "commit")
  /\ UNCHANGED <<hour, table, rows, open, unresolved>>

\* The key is taken: IntegrityError, rollback.
Duplicate(c) ==
  /\ pc[c] = "insert"
  /\ Committed(c) # {}
  /\ Goto(c, "reselect")
  /\ UNCHANGED <<hour, table, rows, open, mine, unresolved>>

\* Mutant: the query still has the snapshot of the first one.
ReselectOldSnapshot(c) ==
  /\ pc[c] = "reselect"
  /\ Goto(c, "failed")
  /\ unresolved' = TRUE
  /\ UNCHANGED <<hour, table, rows, open, mine>>

\* The same query again, in a new transaction.
Reselect(c) ==
  /\ pc[c] = "reselect"
  /\ IF Committed(c) = {}
       THEN Goto(c, "failed") /\ unresolved' = TRUE /\ UNCHANGED mine
       ELSE \E d \in Committed(c) :
              Goto(c, "commit") /\ Hold(c, d) /\ UNCHANGED unresolved
  /\ UNCHANGED <<hour, table, rows, open>>

\* Mutant: the session is closed without a commit.
CommitForgotten(c) ==
  /\ pc[c] = "commit"
  /\ open' = [open EXCEPT ![table[c]] = @ \ {c}]
  /\ table' = [table EXCEPT ![c] = "jobs"]
  /\ Goto(c, IF table[c] = "slots" THEN "load" ELSE "done")
  /\ UNCHANGED <<hour, rows, mine, unresolved>>

\* What c's transaction has inserted becomes visible.  If the reply to the
\* commit is lost, the call fails all the same.
Commit(c) ==
  /\ pc[c] = "commit"
  /\ rows' = [rows EXCEPT ![table[c]] = @ \cup ({c} \cap open[table[c]])]
  /\ open' = [open EXCEPT ![table[c]] = @ \ {c}]
  /\ \/ /\ table' = [table EXCEPT ![c] = "jobs"]
        /\ Goto(c, IF table[c] = "slots" THEN "load" ELSE "done")
     \/ Goto(c, "failed") /\ UNCHANGED table
  /\ UNCHANGED <<hour, mine, unresolved>>

\* Mutant: the session is not closed.
FailOpen(c) ==
  /\ pc[c] \notin {"done", "failed"}
  /\ Goto(c, "failed")
  /\ UNCHANGED <<hour, table, rows, open, mine, unresolved>>

\* Any other error, or the death of the process: the transaction is rolled back.
Fail(c) ==
  /\ pc[c] \notin {"done", "failed"}
  /\ open' = [open EXCEPT ![table[c]] = @ \ {c}]
  /\ Goto(c, "failed")
  /\ UNCHANGED <<hour, table, rows, mine, unresolved>>

Step(c) ==
  LoadSlot(c) \/ Select(c) \/ Insert(c) \/ Duplicate(c) \/ Reselect(c) \/ Commit(c)

Next == \E c \in Calls : Step(c) \/ Fail(c)

Spec == Init /\ [][Next]_vars

\* A call goes on: only an insert waits, and the database wakes it up.
FairSpec == Spec /\ \A c \in Calls : WF_vars(Step(c))

-----------------------------------------------------------------------------
(* Properties *)

TypeOK ==
  /\ hour \in [Calls -> Hours]
  /\ pc \in [Calls -> Steps]
  /\ table \in [Calls -> Tables]
  /\ rows \in [Tables -> SUBSET Calls]
  /\ open \in [Tables -> SUBSET Calls]
  /\ mine \in [Tables -> [Calls -> Calls \cup {None}]]
  /\ unresolved \in BOOLEAN

\* c has committed its transaction on table t.
Past(c, t) ==
  \/ pc[c] = "done"
  \/ t = "slots" /\ table[c] = "jobs"

\* The calls for one hour go on with one and the same row, in each table,
\* whoever won the race for it.
SameRow ==
  \A t \in Tables, c, d \in Calls :
    Past(c, t) /\ Past(d, t) /\ hour[c] = hour[d] => mine[t][c] = mine[t][d]

\* No call goes on with a row that a rollback has taken back: the rollback
\* inside a repository loses nothing that its caller relies on.
HeldRowsAreStored ==
  \A t \in Tables, c \in Calls : Past(c, t) => mine[t][c] \in rows[t]

\* "Failed to resolve ... after duplicate insert race" and "... disappeared" are
\* never raised.
NeverUnresolved == ~unresolved

\* What a call has been given of each table: nothing before its commit.
Given ==
  [t \in Tables |-> [c \in Calls |-> IF Past(c, t) THEN mine[t][c] ELSE None]]

Promise == INSTANCE GetOrCreate WITH got <- Given

\* Selects, inserts, races and rollbacks together get or create a row in one step, the
\* commit: what _prepare_job is taken for in GenerationService.
ImplementsGetOrCreate == Promise!Spec

\* No call waits for ever for another one's insert.
EveryCallEnds == \A c \in Calls : <>(pc[c] \in {"done", "failed"})
=============================================================================
