------------------------- MODULE SlotAndJobRowsProofs --------------------------
(***************************************************************************)
(* Theorems about SlotAndJobRows, for any number of calls and hours.       *)
(***************************************************************************)
EXTENDS SlotAndJobRows, TLAPS

LEMMA TypeInit == Init => TypeOK
<1> SUFFICES ASSUME Init PROVE TypeOK
  OBVIOUS
<1>1. mine \in [Tables -> [Calls -> Calls \cup {None}]]
  BY DEF Init
<1>2. rows \in [Tables -> SUBSET Calls] /\ open \in [Tables -> SUBSET Calls]
  BY DEF Init
<1> QED BY <1>1, <1>2 DEF Init, TypeOK, Tables, Steps

LEMMA TypeNext == TypeOK /\ [Next]_vars => TypeOK'
<1> SUFFICES ASSUME TypeOK, [Next]_vars PROVE TypeOK'
  OBVIOUS
<1> USE DEF TypeOK, Tables, Steps, Goto, Hold, Committed
<1>1. ASSUME NEW c \in Calls, LoadSlot(c) PROVE TypeOK'
  BY <1>1 DEF LoadSlot
<1>2. ASSUME NEW c \in Calls, Select(c) PROVE TypeOK'
  BY <1>2 DEF Select
<1>3. ASSUME NEW c \in Calls, Insert(c) PROVE TypeOK'
  BY <1>3 DEF Insert
<1>4. ASSUME NEW c \in Calls, Duplicate(c) PROVE TypeOK'
  BY <1>4 DEF Duplicate
<1>5. ASSUME NEW c \in Calls, Reselect(c) PROVE TypeOK'
  <2>1. CASE Committed(c) = {}
    BY <1>5, <2>1 DEF Reselect
  <2>2. ASSUME NEW d \in Committed(c), Goto(c, "commit"), Hold(c, d), UNCHANGED unresolved
        PROVE  TypeOK'
    BY <1>5, <2>2 DEF Reselect
  <2> QED BY <1>5, <2>1, <2>2 DEF Reselect
<1>6. ASSUME NEW c \in Calls, Commit(c) PROVE TypeOK'
  BY <1>6 DEF Commit
<1>7. ASSUME NEW c \in Calls, Fail(c) PROVE TypeOK'
  BY <1>7 DEF Fail
<1>8. CASE UNCHANGED vars
  BY <1>8 DEF vars
<1> QED
  BY <1>1, <1>2, <1>3, <1>4, <1>5, <1>6, <1>7, <1>8 DEF Next, Step

\* Tables hold rows that calls inserted, and calls hold such rows.
THEOREM TypeCorrect == Spec => []TypeOK
BY TypeInit, TypeNext, PTL DEF Spec

-----------------------------------------------------------------------------
(* The inductive invariant *)

\* The unique constraint, over committed and uncommitted rows.
UniqueKeys ==
  \A t \in Tables : \A c, d \in rows[t] \cup open[t] : hour[c] = hour[d] => c = d

\* Where a call stands: its uncommitted row is of the transaction that is about
\* to commit; if it lost the race the winner's row is there to be found; what it
\* is about to commit is the row of its key, stored or its own; and what it has
\* committed is the stored row of its key.
Standing(c) ==
  /\ \A t \in Tables :
       c \in open[t] => pc[c] = "commit" /\ table[c] = t /\ c \notin rows[t]
  /\ pc[c] = "reselect" => Committed(c) # {}
  /\ pc[c] = "commit" =>
       \E d \in Calls :
         /\ d = mine[table[c]][c] /\ hour[d] = hour[c]
         /\ d \in rows[table[c]] \/ (d = c /\ c \in open[table[c]])
  /\ \A t \in Tables :
       Past(c, t) => mine[t][c] \in rows[t] /\ hour[mine[t][c]] = hour[c]
  /\ pc[c] = "load" => table[c] = "jobs"

IInv ==
  /\ UniqueKeys
  /\ \A c \in Calls : Standing(c)
  /\ NeverUnresolved

LEMMA IInvInit == Init => IInv
BY DEF Init, IInv, UniqueKeys, Standing, NeverUnresolved, Past, Tables

\* Rows only grow, and a call changes nothing of another one.
LEMMA StepBounds ==
  ASSUME TypeOK, NEW c \in Calls, Step(c) \/ Fail(c)
  PROVE  /\ hour' = hour
         /\ \A t \in Tables : rows[t] \subseteq rows'[t]
         /\ \A t \in Tables : rows'[t] \cup open'[t] \subseteq rows[t] \cup open[t] \cup {c}
         /\ \A d \in Calls \ {c} :
              /\ pc'[d] = pc[d] /\ table'[d] = table[d]
              /\ \A t \in Tables : mine'[t][d] = mine[t][d]
              /\ \A t \in Tables : d \in open'[t] <=> d \in open[t]
              /\ \A t \in Tables : d \in rows'[t] <=> d \in rows[t]
<1> USE DEF TypeOK, Tables, Goto, Hold
<1>1. CASE LoadSlot(c) BY <1>1 DEF LoadSlot
<1>2. CASE Select(c) BY <1>2 DEF Select, Committed
<1>3. CASE Insert(c) BY <1>3 DEF Insert
<1>4. CASE Duplicate(c) BY <1>4 DEF Duplicate
<1>5. CASE Reselect(c) BY <1>5 DEF Reselect, Committed
<1>6. CASE Commit(c) BY <1>6 DEF Commit
<1>7. CASE Fail(c) BY <1>7 DEF Fail
<1> QED BY <1>1, <1>2, <1>3, <1>4, <1>5, <1>6, <1>7 DEF Step

\* So the others stand where they stood, and only the caller is left.
LEMMA OthersKeep ==
  ASSUME TypeOK, TypeOK', IInv, NEW c \in Calls, Step(c) \/ Fail(c),
         NEW d \in Calls \ {c}
  PROVE  Standing(d)'
<1> USE StepBounds
<1>0. table[d] \in Tables /\ Standing(d)
  BY DEF TypeOK, IInv
<1>1. \A t \in Tables :
        d \in open'[t] => pc'[d] = "commit" /\ table'[d] = t /\ d \notin rows'[t]
  BY <1>0 DEF Standing
<1>2. pc'[d] = "reselect" => Committed(d)' # {}
  BY <1>0 DEF Standing, Committed
<1>3. pc'[d] = "commit" =>
        \E e \in Calls :
          /\ e = mine'[table'[d]][d] /\ hour'[e] = hour'[d]
          /\ e \in rows'[table'[d]] \/ (e = d /\ d \in open'[table'[d]])
  BY <1>0 DEF Standing
<1>4. \A t \in Tables : Past(d, t)' =>
        mine'[t][d] \in rows'[t] /\ hour'[mine'[t][d]] = hour'[d]
  BY <1>0 DEF Standing, Past
<1>5. pc'[d] = "load" => table'[d] = "jobs"
  BY <1>0 DEF Standing
<1> QED BY <1>1, <1>2, <1>3, <1>4, <1>5 DEF Standing

\* Uniqueness needs the caller's insert alone: every other step moves rows from
\* open to committed, or drops them.
LEMMA UniqueNext ==
  ASSUME TypeOK, IInv, NEW c \in Calls, Step(c) \/ Fail(c)
  PROVE  UniqueKeys'
<1> USE DEF TypeOK, Tables, Goto, Hold
<1>1. CASE Insert(c)
  <2>1. \A d \in rows[table[c]] \cup open[table[c]] : hour[d] # hour[c]
    BY <1>1 DEF Insert, Committed, Inserted
  <2> QED BY <1>1, <2>1 DEF Insert, IInv, UniqueKeys
<1>2. CASE ~Insert(c)
  <2>1. \A t \in Tables : rows'[t] \cup open'[t] \subseteq rows[t] \cup open[t]
    BY <1>2 DEF Step, LoadSlot, Select, Duplicate, Reselect, Commit, Fail
  <2> QED BY <2>1, StepBounds DEF IInv, UniqueKeys
<1> QED BY <1>1, <1>2

\* A call that selects a row holds it when it commits.
LEMMA SelectedStands ==
  ASSUME TypeOK, IInv, NEW c \in Calls, NEW d \in Committed(c),
         Goto(c, "commit"), Hold(c, d), pc[c] \in {"select", "reselect"},
         UNCHANGED <<hour, table, rows, open, unresolved>>
  PROVE  Standing(c)'
<1>1. d \in Calls /\ d \in rows[table[c]] /\ hour[d] = hour[c] /\ table[c] \in Tables
  BY DEF Committed, TypeOK
<1>2. pc'[c] = "commit" /\ mine'[table[c]][c] = d
  BY <1>1 DEF Goto, Hold, TypeOK
<1>3. \A t \in Tables : c \notin open'[t]
  BY DEF IInv, Standing
<1>4. \A t \in Tables : Past(c, t)' =>
        mine'[t][c] \in rows'[t] /\ hour'[mine'[t][c]] = hour'[c]
  <2> SUFFICES ASSUME NEW t \in Tables, Past(c, t)'
               PROVE  mine'[t][c] \in rows'[t] /\ hour'[mine'[t][c]] = hour'[c]
    OBVIOUS
  <2>1. t # table[c] /\ Past(c, t)
    BY <1>2 DEF Past, Tables
  <2>2. mine'[t][c] = mine[t][c]
    BY <2>1 DEF Hold, TypeOK
  <2> QED BY <2>1, <2>2 DEF IInv, Standing
<1>5. \E e \in Calls :
        /\ e = mine'[table'[c]][c] /\ hour'[e] = hour'[c]
        /\ e \in rows'[table'[c]] \/ (e = c /\ c \in open'[table'[c]])
  <2>1. table' = table /\ rows' = rows /\ hour' = hour
    OBVIOUS
  <2>2. d = mine'[table'[c]][c] /\ hour'[d] = hour'[c] /\ d \in rows'[table'[c]]
    BY <1>1, <1>2, <2>1
  <2> QED BY <1>1, <2>2
<1> QED BY <1>2, <1>3, <1>4, <1>5 DEF Standing

\* Where the step leaves the caller.
LEMMA CallerKeeps ==
  ASSUME TypeOK, TypeOK', IInv, NEW c \in Calls, Step(c) \/ Fail(c)
  PROVE  Standing(c)' /\ NeverUnresolved'
<1> USE DEF Tables, NeverUnresolved
<1>0. ~unresolved /\ Standing(c)
  BY DEF IInv
<1>1. CASE LoadSlot(c)
  <2>1. mine["slots"][c] \in rows["slots"] /\ table[c] = "jobs"
    BY <1>0, <1>1 DEF LoadSlot, Standing, Past
  <2> QED BY <1>0, <1>1, <2>1 DEF LoadSlot, Goto, TypeOK, Standing, Past
<1>2. CASE Select(c)
  <2>1. CASE Committed(c) = {}
    BY <1>0, <1>2, <2>1 DEF Select, Goto, TypeOK, Standing, Past
  <2>2. CASE \E d \in Committed(c) : Goto(c, "commit") /\ Hold(c, d)
    BY <1>0, <1>2, <2>2, SelectedStands DEF Select
  <2> QED BY <1>2, <2>1, <2>2 DEF Select
<1>3. CASE Insert(c)
  <2>1. c \notin rows[table[c]] /\ table[c] \in Tables
    BY <1>3 DEF Insert, Committed, TypeOK
  <2> QED BY <1>0, <1>3, <2>1 DEF Insert, Goto, Hold, TypeOK, Standing, Past
<1>4. CASE Duplicate(c)
  BY <1>0, <1>4 DEF Duplicate, Committed, Goto, TypeOK, Standing, Past
<1>5. CASE Reselect(c)
  <2>1. \E d \in Committed(c) : Goto(c, "commit") /\ Hold(c, d) /\ UNCHANGED unresolved
    BY <1>0, <1>5 DEF Reselect, Standing
  <2> QED BY <1>0, <1>5, <2>1, SelectedStands DEF Reselect
<1>6. CASE Commit(c)
  BY <1>0, <1>6 DEF Commit, Goto, TypeOK, Standing, Past
<1>7. CASE Fail(c)
  BY <1>0, <1>7 DEF Fail, Goto, TypeOK, Standing, Past
<1> QED BY <1>1, <1>2, <1>3, <1>4, <1>5, <1>6, <1>7 DEF Step

LEMMA IInvNext == TypeOK /\ TypeOK' /\ IInv /\ [Next]_vars => IInv'
<1> SUFFICES ASSUME TypeOK, TypeOK', IInv, [Next]_vars PROVE IInv'
  OBVIOUS
<1>1. ASSUME NEW c \in Calls, Step(c) \/ Fail(c) PROVE IInv'
  BY <1>1, UniqueNext, CallerKeeps, OthersKeep DEF IInv
<1>2. CASE UNCHANGED vars
  BY <1>2 DEF vars, IInv, UniqueKeys, Standing, NeverUnresolved, Past, Committed
<1> QED BY <1>1, <1>2 DEF Next

\* The invariant holds in every reachable state.
THEOREM Invariant == Spec => []IInv
<1>1. Spec => []TypeOK
  BY TypeCorrect
<1> QED BY <1>1, IInvInit, IInvNext, PTL DEF Spec

-----------------------------------------------------------------------------
(* The properties *)

\* The calls for one hour go on with one and the same slot and job.
THEOREM CallsShareRows == Spec => []SameRow
<1>1. TypeOK /\ IInv => SameRow
  BY DEF IInv, Standing, UniqueKeys, SameRow, TypeOK
<1> QED BY <1>1, TypeCorrect, Invariant, PTL

\* No call goes on with a row that was rolled back.
THEOREM HeldRowsStay == Spec => []HeldRowsAreStored
<1>1. IInv => HeldRowsAreStored
  BY DEF IInv, Standing, HeldRowsAreStored
<1> QED BY <1>1, Invariant, PTL

\* A call that lost the race for a row always finds the winner's.
THEOREM RacesResolve == Spec => []NeverUnresolved
<1>1. IInv => NeverUnresolved
  BY DEF IInv
<1> QED BY <1>1, Invariant, PTL

-----------------------------------------------------------------------------
(* The refinement *)

LEMMA RefinementInit == Init => Promise!Init
<1> SUFFICES ASSUME Init PROVE Promise!Init
  OBVIOUS
<1>1. \A t \in Tables, c \in Calls : ~Past(c, t)
  BY DEF Init, Past
<1>2. Given = [t \in Tables |-> [c \in Calls |-> None]]
  BY <1>1 DEF Given
<1>3. Promise!None = None /\ Promise!Tables = Tables
  BY DEF Promise!None, None, Promise!Tables, Tables
<1> QED BY <1>2, <1>3 DEF Init, Promise!Init

\* Before its commit a call has been given nothing, and no other step gives anything.
LEMMA OnlyCommitsGive ==
  ASSUME TypeOK, NEW c \in Calls, Step(c) \/ Fail(c), ~Commit(c)
  PROVE  UNCHANGED <<hour, rows, Given>>
<1>1. UNCHANGED <<hour, rows, table>>
  BY DEF Step, LoadSlot, Select, Insert, Duplicate, Reselect, Fail
<1>2. \A d \in Calls : pc'[d] = "done" <=> pc[d] = "done"
  BY DEF TypeOK, Step, LoadSlot, Select, Insert, Duplicate, Reselect, Fail, Goto
<1>3. pc[c] # "done"
  BY DEF Step, LoadSlot, Select, Insert, Duplicate, Reselect, Fail
<1>4. \A t \in Tables, d \in Calls : Past(d, t)' <=> Past(d, t)
  BY <1>1, <1>2 DEF Past
<1>5. \A t \in Tables, d \in Calls : Past(d, t) => mine'[t][d] = mine[t][d]
  <2> SUFFICES ASSUME NEW t \in Tables, NEW d \in Calls, mine'[t][d] # mine[t][d]
               PROVE  ~Past(d, t)
    OBVIOUS
  <2>1. d = c /\ t = table[c]
    BY DEF TypeOK, Step, LoadSlot, Select, Insert, Duplicate, Reselect, Fail, Hold
  <2> QED BY <1>3, <2>1 DEF Past, TypeOK, Tables
<1>6. Given' = Given
  BY <1>4, <1>5 DEF Given
<1> QED BY <1>1, <1>6

\* A commit creates the row that the call has inserted, or gives it one that is there.
LEMMA CommitGives ==
  ASSUME TypeOK, IInv, NEW c \in Calls, Commit(c)
  PROVE  [Promise!Next]_(Promise!vars)
<1> DEFINE t == table[c]
<1>a. /\ t \in Tables /\ pc[c] = "commit" /\ Standing(c) /\ hour' = hour /\ mine' = mine
      /\ rows' = [rows EXCEPT ![t] = @ \cup ({c} \cap open[t])]
  BY DEF Commit, IInv, TypeOK
<1>b. Promise!None = None /\ Promise!Tables = Tables
  BY DEF Promise!None, None, Promise!Tables, Tables
<1>c. Promise!Present(t, c) = Committed(c)
  BY DEF Promise!Present, Committed
<1>d. mine[t][c] \in Calls /\ mine[t][c] # None
  BY <1>a, CallsAssumption DEF Standing
<1>e. \A u \in Tables, d \in Calls : Given[u][d] = IF Past(d, u) THEN mine[u][d] ELSE None
  BY DEF Given
<1>f. Promise!Turn(t, c)
  <2>1. ~Past(c, t)
    BY <1>a DEF Past, Tables
  <2>2. t = "jobs" => Past(c, "slots") /\ mine["slots"][c] \in rows["slots"]
    BY <1>a DEF Past, Standing, Tables
  <2>3. t = "jobs" => Given["slots"][c] # None
    BY <1>e, <2>2, CallsAssumption DEF Tables, TypeOK
  <2> QED BY <1>a, <1>b, <1>e, <2>1, <2>3 DEF Promise!Turn
<1>g. \/ Given' = Given
      \/ Given' = [Given EXCEPT ![t][c] = mine[t][c]]
  <2>0. \A d \in Calls \ {c} : table'[d] = table[d] /\ pc'[d] = pc[d]
    BY StepBounds DEF Step
  <2>1. CASE pc'[c] = "failed" /\ table' = table
    <3>1. \A u \in Tables, d \in Calls : Past(d, u)' <=> Past(d, u)
      BY <1>a, <2>0, <2>1 DEF Past
    <3> QED BY <1>a, <3>1 DEF Given
  <2>2. CASE table'[c] = "jobs" /\ pc'[c] = (IF t = "slots" THEN "load" ELSE "done")
    <3>1. \A u \in Tables, d \in Calls :
            Past(d, u)' <=> Past(d, u) \/ (d = c /\ u = t)
      BY <1>a, <2>0, <2>2 DEF Past, Tables
    <3>2. Given' = [Given EXCEPT ![t][c] = mine[t][c]]
      BY <1>a, <3>1 DEF Given
    <3> QED BY <3>2
  <2> QED BY <2>1, <2>2 DEF Commit, Goto, TypeOK
<1>1. CASE c \in open[t]
  <2>1. Committed(c) = {}
    BY <1>a, <1>1 DEF Committed, Standing, IInv, UniqueKeys, TypeOK
  <2>2. mine[t][c] = c
    BY <1>a, <1>1, <2>1 DEF Standing, Committed
  <2>3. rows' = [rows EXCEPT ![t] = @ \cup {c}]
    BY <1>a, <1>1
  <2>4. Promise!Create(t, c)
    BY <1>a, <1>c, <1>f, <1>g, <2>1, <2>2, <2>3 DEF Promise!Create
  <2> QED BY <1>a, <1>b, <2>4 DEF Promise!Next
<1>2. CASE c \notin open[t]
  <2>1. rows' = rows
    BY <1>a, <1>2 DEF TypeOK
  <2>2. mine[t][c] \in Promise!Present(t, c)
    BY <1>a, <1>2, <1>c DEF Standing, Committed
  <2>3. CASE Given' = Given
    BY <1>a, <2>1, <2>3 DEF Promise!vars, Given
  <2>4. CASE Given' = [Given EXCEPT ![t][c] = mine[t][c]]
    <3>1. Promise!Get(t, c)
      BY <1>a, <1>f, <2>1, <2>2, <2>4 DEF Promise!Get
    <3> QED BY <1>a, <1>b, <3>1 DEF Promise!Next
  <2> QED BY <1>g, <2>3, <2>4
<1> QED BY <1>1, <1>2

LEMMA RefinementNext == TypeOK /\ IInv /\ [Next]_vars => [Promise!Next]_(Promise!vars)
<1> SUFFICES ASSUME TypeOK, IInv, [Next]_vars PROVE [Promise!Next]_(Promise!vars)
  OBVIOUS
<1>1. ASSUME UNCHANGED <<hour, rows, Given>> PROVE UNCHANGED Promise!vars
  BY <1>1 DEF Promise!vars, Given
<1>2. ASSUME NEW c \in Calls, Step(c) \/ Fail(c) PROVE [Promise!Next]_(Promise!vars)
  BY <1>1, <1>2, OnlyCommitsGive, CommitGives
<1>3. CASE UNCHANGED vars
  BY <1>1, <1>3 DEF vars, Given, Past
<1> QED BY <1>2, <1>3 DEF Next

\* The repositories get or create a row in one step, whatever calls are in them
\* together: a row is created once, by a commit, and every call is given that one.
THEOREM Refines == Spec => ImplementsGetOrCreate
BY RefinementInit, RefinementNext, TypeCorrect, Invariant, PTL
   DEF Spec, ImplementsGetOrCreate, Promise!Spec

-----------------------------------------------------------------------------
(* Why every call ends *)

\* c's insert waits for a transaction that has inserted the same key.
Waits(c) == pc[c] = "insert" /\ Committed(c) = {} /\ Inserted(c) # {}

\* Who waits, waits for a call that only has to commit, so nobody waits for a call
\* that waits.
WaitsForACommit ==
  \A c \in Calls : Waits(c) =>
    \A d \in Inserted(c) : pc[d] = "commit" /\ table[d] = table[c] /\ ~Waits(d)

\* No insert is part of a deadlock: what it waits for is one commit away.
THEOREM NoDeadlock == Spec => []WaitsForACommit
<1>1. TypeOK /\ IInv => WaitsForACommit
  BY DEF IInv, Standing, WaitsForACommit, Waits, Inserted, TypeOK
<1> QED BY <1>1, TypeCorrect, Invariant, PTL

\* The steps a call has left at most, in the table it is at and in both.
LeftHere(c) ==
  CASE pc[c] = "load"     -> 5
    [] pc[c] = "select"   -> 4
    [] pc[c] = "insert"   -> 3
    [] pc[c] = "reselect" -> 2
    [] pc[c] = "commit"   -> 1
    [] OTHER              -> 0

Left(c) == LeftHere(c) + (IF LeftHere(c) > 0 /\ table[c] = "slots" THEN 5 ELSE 0)

\* A step takes its caller nearer to its end and no other call further from its own.
Nearer ==
  \E c \in Calls :
    /\ Left(c)' < Left(c)
    /\ \A d \in Calls \ {c} : Left(d)' = Left(d)

LEMMA NearerNext ==
  ASSUME TypeOK, IInv, NEW c \in Calls, Step(c) \/ Fail(c)
  PROVE  Left(c)' < Left(c) /\ \A d \in Calls \ {c} : Left(d)' = Left(d)
<1> USE DEF TypeOK, Tables, Steps, Goto, Left, LeftHere
<1>1. \A d \in Calls \ {c} : Left(d)' = Left(d)
  BY StepBounds
<1>2. CASE LoadSlot(c) BY <1>2 DEF LoadSlot
<1>3. CASE Select(c) BY <1>3 DEF Select
<1>4. CASE Insert(c) BY <1>4 DEF Insert
<1>5. CASE Duplicate(c) BY <1>5 DEF Duplicate
<1>6. CASE Reselect(c) BY <1>6 DEF Reselect
<1>7. CASE Commit(c) BY <1>7 DEF Commit
<1>8. CASE Fail(c) BY <1>8 DEF Fail
<1> QED BY <1>1, <1>2, <1>3, <1>4, <1>5, <1>6, <1>7, <1>8 DEF Step

\* Races, rollbacks and second selects send no call round in a circle: it takes at
\* most nine steps, whatever the others do.
THEOREM CallsGetNearer == Spec => [][Nearer]_vars
<1>1. TypeOK /\ IInv /\ [Next]_vars => [Nearer]_vars
  BY NearerNext DEF Next, Nearer
<1> QED BY <1>1, TypeCorrect, Invariant, PTL DEF Spec
=============================================================================
