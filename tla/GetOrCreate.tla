------------------------------ MODULE GetOrCreate ------------------------------
(***************************************************************************)
(* What get_or_create_slot and create_or_get_job promise of an hour's two  *)
(* rows: each is got or created in one step, whatever calls are in them    *)
(* together.  GenerationService takes them so.                             *)
(***************************************************************************)
CONSTANTS
  Calls,   \* calls of _prepare_job
  Hours    \* hour slots

None == "none"
Tables == {"slots", "jobs"}

VARIABLES
  hour,   \* the hour a call is for
  rows,   \* the rows of a table, named by the call that created them
  got     \* the row a call was given of a table, None if none yet

vars == <<hour, rows, got>>

Init ==
  /\ hour \in [Calls -> Hours]
  /\ rows = [t \in Tables |-> {}]
  /\ got = [t \in Tables |-> [c \in Calls |-> None]]

\* The row of c's hour, if there is one.
Present(t, c) == {d \in rows[t] : hour[d] = hour[c]}

\* A call gets its slot first, then its job.
Turn(t, c) == got[t][c] = None /\ (t = "jobs" => got["slots"][c] # None)

Get(t, c) ==
  /\ Turn(t, c)
  /\ \E d \in Present(t, c) : got' = [got EXCEPT ![t][c] = d]
  /\ UNCHANGED <<hour, rows>>

\* The row is created, and given to the call unless the reply to its commit is lost.
Create(t, c) ==
  /\ Turn(t, c)
  /\ Present(t, c) = {}
  /\ rows' = [rows EXCEPT ![t] = @ \cup {c}]
  /\ got' \in {got, [got EXCEPT ![t][c] = c]}
  /\ UNCHANGED hour

Next == \E t \in Tables, c \in Calls : Get(t, c) \/ Create(t, c)

Spec == Init /\ [][Next]_vars
=============================================================================
