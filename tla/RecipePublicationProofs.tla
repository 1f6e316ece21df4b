----------------------- MODULE RecipePublicationProofs ------------------------
(***************************************************************************)
(* Theorems about RecipePublication, for any requests, recipes and number  *)
(* of clock readings.                                                      *)
(***************************************************************************)
EXTENDS RecipePublication, TLAPS

LEMMA RowTypes ==
  /\ Absent \in Rows /\ Draft \in Rows /\ Unpublished \in Rows
  /\ \A d \in 0..MaxClock : Published(d) \in Rows
BY MaxClockAssumption DEF Rows, Statuses, Absent, Draft, Unpublished, Published, None

\* Merging the columns of two rows gives a row.
LEMMA UpdatedType ==
  ASSUME TypeOK, NEW p \in Requests
  PROVE  Updated(p) \in Rows
<1>1. row[recipe[p]] \in Rows /\ wanted[p] \in Rows /\ copy[p] \in Rows
  BY DEF TypeOK
<1> QED BY <1>1 DEF Updated, Rows

LEMMA WriteType ==
  ASSUME TypeOK, NEW p \in Requests, Write(p)
  PROVE  row' \in [Recipes -> Rows] /\ met' \in [Requests -> BOOLEAN]
BY UpdatedType DEF Write, Notice, TypeOK

LEMMA EndType ==
  ASSUME TypeOK, NEW p \in Requests, End(p)
  PROVE  /\ clock' \in 0..MaxClock
         /\ pc' \in [Requests -> {"idle", "load", "write", "answer"}]
         /\ wanted' \in [Requests -> Rows]
         /\ recipe' \in [Requests -> Recipes]
         /\ copy' \in [Requests -> Rows]
         /\ alone' \in [Requests -> BOOLEAN]
BY RowTypes DEF End, TypeOK

LEMMA TypeInit == Init => TypeOK
BY RowTypes, MaxClockAssumption DEF Init, TypeOK, None

LEMMA TypeNext == TypeOK /\ [Next]_vars => TypeOK'
<1> SUFFICES ASSUME TypeOK, [Next]_vars PROVE TypeOK'
  OBVIOUS
<1> USE RowTypes, MaxClockAssumption
<1>1. ASSUME NEW r \in Recipes, Create(r) PROVE TypeOK'
  <2>1. clock' \in 0..MaxClock /\ row' \in [Recipes -> Rows]
    BY <1>1 DEF Create, TypeOK
  <2> QED BY <1>1, <2>1 DEF Create, Notice, TypeOK, requestVars
<1>2. ASSUME NEW p \in Requests, NEW r \in Recipes, ArrivePublish(p, r) PROVE TypeOK'
  <2>1. clock' \in 0..MaxClock
    BY <1>2 DEF ArrivePublish, TypeOK
  <2>2. wanted' \in [Requests -> Rows]
    BY <1>2, <2>1 DEF ArrivePublish, TypeOK
  <2> QED BY <1>2, <2>1, <2>2 DEF ArrivePublish, Arrive, TypeOK
<1>3. ASSUME NEW p \in Requests, NEW r \in Recipes, ArriveUnpublish(p, r) PROVE TypeOK'
  BY <1>3 DEF ArriveUnpublish, Arrive, TypeOK
<1>4. ASSUME NEW p \in Requests, Load(p) PROVE TypeOK'
  BY <1>4 DEF Load, TypeOK
<1>5. ASSUME NEW p \in Requests, NotFound(p) PROVE TypeOK'
  BY <1>5, EndType DEF NotFound, TypeOK
<1>6. ASSUME NEW p \in Requests, Commit(p) PROVE TypeOK'
  BY <1>6, WriteType DEF Commit, TypeOK, requestVars
<1>7. ASSUME NEW p \in Requests, CommitError(p) PROVE TypeOK'
  BY <1>7, EndType, WriteType DEF CommitError, TypeOK
<1>8. ASSUME NEW p \in Requests, Answer(p) PROVE TypeOK'
  BY <1>8, EndType DEF Answer, TypeOK
<1>9. CASE UNCHANGED vars
  BY <1>9 DEF vars, TypeOK, requestVars
<1> QED
  BY <1>1, <1>2, <1>3, <1>4, <1>5, <1>6, <1>7, <1>8, <1>9 DEF Next

\* Rows and the sessions' copies of them keep their columns' domains.
THEOREM TypeCorrect == Spec => []TypeOK
BY TypeInit, TypeNext, PTL DEF Spec

-----------------------------------------------------------------------------
(* Requests that overlap no other one *)

\* While a request is alone, no other one for its recipe is under way; what it
\* read is still there when it writes, and what it wrote when it answers.
AloneInv ==
  /\ \A p \in Requests : wanted[p].status # "absent"
  /\ \A p \in Requests :
       alone[p] =>
         /\ pc[p] # "idle"
         /\ \A q \in Requests \ {p} : pc[q] # "idle" => recipe[q] # recipe[p]
         /\ pc[p] = "write" => copy[p] = row[recipe[p]] /\ row[recipe[p]] # Absent
         /\ pc[p] = "answer" => row[recipe[p]] = wanted[p]

\* An UPDATE against the row that was read gives the wanted row.
LEMMA UpdatedFresh ==
  ASSUME TypeOK, NEW p \in Requests, copy[p] = row[recipe[p]]
  PROVE  Updated(p) = wanted[p]
<1>1. wanted[p] \in Rows /\ copy[p] \in Rows
  BY DEF TypeOK
<1> QED BY <1>1 DEF Updated, Rows

LEMMA AloneInit == Init => AloneInv
BY DEF Init, AloneInv, Unpublished

\* A step that moves one request on without touching the table.
LEMMA AloneByRequest ==
  ASSUME TypeOK, AloneInv, NEW p \in Requests, UNCHANGED row,
         Load(p) \/ End(p)
  PROVE  AloneInv'
BY DEF AloneInv, Load, End, TypeOK, Unpublished

LEMMA AloneNext == TypeOK /\ TypeOK' /\ AloneInv /\ [Next]_vars => AloneInv'
<1> SUFFICES ASSUME TypeOK, TypeOK', AloneInv, [Next]_vars PROVE AloneInv'
  OBVIOUS
<1>1. ASSUME NEW r \in Recipes, Create(r) PROVE AloneInv'
  <2>1. \A s \in Recipes : row[s] # Absent => row'[s] = row[s]
    BY <1>1 DEF Create, TypeOK
  <2>2. \A p \in Requests : wanted[p] # Absent
    BY DEF AloneInv, Absent
  <2> QED BY <1>1, <2>1, <2>2 DEF Create, AloneInv, TypeOK, requestVars
<1>2. ASSUME NEW p \in Requests, NEW r \in Recipes, ArrivePublish(p, r) \/ ArriveUnpublish(p, r)
      PROVE AloneInv'
  <2>1. Arrive(p, r) /\ wanted'[p].status # "absent"
        /\ \A q \in Requests \ {p} : wanted'[q] = wanted[q]
    BY <1>2 DEF ArrivePublish, ArriveUnpublish, TypeOK, Published, Unpublished
  <2>2. /\ \A q \in Requests \ {p} : pc'[q] = pc[q] /\ recipe'[q] = recipe[q]
        /\ pc'[p] = "load" /\ recipe'[p] = r /\ row' = row /\ copy' = copy
    BY <2>1 DEF Arrive, TypeOK
  <2>3. \A q \in Requests : alone'[q] =>
          IF q = p THEN Active(r) = {} ELSE alone[q] /\ q \notin Active(r)
    BY <2>1 DEF Arrive
  <2> QED BY <2>1, <2>2, <2>3 DEF Active, AloneInv
<1>3. ASSUME NEW p \in Requests, Write(p), pc[p] = "write",
             \/ /\ pc' = [pc EXCEPT ![p] = "answer"]
                /\ UNCHANGED <<requestVars, alone>>
             \/ End(p)
      PROVE  AloneInv'
  <2>1. \A s \in Recipes \ {recipe[p]} : row'[s] = row[s]
    BY <1>3 DEF Write, TypeOK
  <2>2. alone[p] => row'[recipe[p]] = wanted[p]
    BY <1>3, UpdatedFresh DEF Write, AloneInv, TypeOK
  <2>3. \A q \in Requests \ {p} : alone[q] => recipe[q] # recipe[p]
    BY <1>3 DEF AloneInv
  <2> QED BY <1>3, <2>1, <2>2, <2>3 DEF AloneInv, End, TypeOK, Unpublished, requestVars
<1>4. ASSUME NEW p \in Requests, Load(p) \/ NotFound(p) \/ Answer(p) PROVE AloneInv'
  BY <1>4, AloneByRequest DEF Load, NotFound, Answer
<1>5. ASSUME NEW p \in Requests, Commit(p) PROVE AloneInv'
  BY <1>5, <1>3 DEF Commit
<1>6. ASSUME NEW p \in Requests, CommitError(p) PROVE AloneInv'
  BY <1>6, <1>3, AloneByRequest DEF CommitError
<1>7. CASE UNCHANGED vars
  BY <1>7 DEF vars, requestVars, AloneInv
<1> QED
  BY <1>1, <1>2, <1>4, <1>5, <1>6, <1>7 DEF Next

\* A request that no other one overlaps leaves the row as it wanted it.
THEOREM AloneRequestsTakeEffect == Spec => []AloneTakesEffect
<1>1. AloneInv => AloneTakesEffect
  BY DEF AloneInv, AloneTakesEffect
<1>2. Spec => []TypeOK
  BY TypeCorrect
<1> QED BY <1>1, <1>2, AloneInit, AloneNext, PTL DEF Spec

-----------------------------------------------------------------------------
(* Answers that were true *)

\* A request has met its status if the row shows it, or if the row it read did:
\* then its UPDATE leaves the status out.
MetInv ==
  \A p \in Requests : pc[p] # "idle" =>
    /\ row[recipe[p]].status = wanted[p].status => met[p]
    /\ pc[p] = "write" /\ copy[p].status = wanted[p].status => met[p]
    /\ pc[p] = "answer" => met[p]

LEMMA MetInit == Init => MetInv
BY DEF Init, MetInv

\* A change of a row reaches every request for it; the others keep theirs.
LEMMA MetByNotice ==
  ASSUME TypeOK, MetInv, NEW r \in Recipes, Notice(r),
         \A s \in Recipes \ {r} : row'[s] = row[s]
  PROVE  \A q \in Requests : pc[q] # "idle" =>
           /\ met[q] => met'[q]
           /\ row'[recipe[q]].status = wanted[q].status => met'[q]
BY DEF Notice, MetInv, TypeOK

LEMMA MetNext == TypeOK /\ MetInv /\ [Next]_vars => MetInv'
<1> SUFFICES ASSUME TypeOK, MetInv, [Next]_vars PROVE MetInv'
  OBVIOUS
<1>1. ASSUME NEW r \in Recipes, Create(r) PROVE MetInv'
  <2>1. \A s \in Recipes \ {r} : row'[s] = row[s]
    BY <1>1 DEF Create, TypeOK
  <2> QED BY <1>1, <2>1, MetByNotice DEF Create, MetInv, requestVars
<1>2. ASSUME NEW p \in Requests, NEW r \in Recipes, ArrivePublish(p, r) \/ ArriveUnpublish(p, r)
      PROVE MetInv'
  <2>a. Arrive(p, r) /\ row' = row
    BY <1>2 DEF ArrivePublish, ArriveUnpublish, Arrive
  <2>b. /\ met' = [met EXCEPT ![p] = row[r].status = wanted'[p].status]
        /\ \A q \in Requests \ {p} : wanted'[q] = wanted[q]
    <3>1. CASE ArrivePublish(p, r)
      <4>1. wanted'[p].status = "published"
        BY <3>1 DEF ArrivePublish, Published, TypeOK
      <4> QED BY <3>1, <4>1 DEF ArrivePublish, TypeOK
    <3>2. CASE ArriveUnpublish(p, r)
      <4>1. wanted'[p].status = "unpublished"
        BY <3>2 DEF ArriveUnpublish, Unpublished, TypeOK
      <4> QED BY <3>2, <4>1 DEF ArriveUnpublish, TypeOK
    <3> QED BY <1>2, <3>1, <3>2
  <2>c. /\ met'[p] <=> row[r].status = wanted'[p].status
        /\ \A q \in Requests \ {p} : met'[q] = met[q]
    BY <2>b, Zenon DEF TypeOK
  <2>1. /\ Arrive(p, r)
        /\ met'[p] <=> row'[r].status = wanted'[p].status
        /\ \A q \in Requests \ {p} : wanted'[q] = wanted[q] /\ met'[q] = met[q]
    BY <2>a, <2>b, <2>c
  <2>2. \A q \in Requests \ {p} : pc'[q] = pc[q] /\ recipe'[q] = recipe[q]
    BY <2>1 DEF Arrive, TypeOK
  <2>3. pc'[p] = "load" /\ recipe'[p] = r /\ row' = row /\ copy' = copy
    BY <2>1 DEF Arrive, TypeOK
  <2> QED BY <2>1, <2>2, <2>3 DEF MetInv
<1>3. ASSUME NEW p \in Requests, Write(p), pc[p] = "write"
      PROVE  /\ met'[p]
             /\ \A q \in Requests : pc[q] # "idle" =>
                  /\ met[q] => met'[q]
                  /\ row'[recipe[q]].status = wanted[q].status => met'[q]
  <2>1. \A s \in Recipes \ {recipe[p]} : row'[s] = row[s]
    BY <1>3 DEF Write, TypeOK
  <2>2. \A q \in Requests : pc[q] # "idle" =>
          /\ met[q] => met'[q]
          /\ row'[recipe[q]].status = wanted[q].status => met'[q]
    BY <1>3, <2>1, MetByNotice DEF Write, TypeOK
  <2>3. wanted[p].status # copy[p].status => row'[recipe[p]].status = wanted[p].status
    BY <1>3 DEF Write, Updated, TypeOK
  <2> QED BY <1>3, <2>2, <2>3 DEF MetInv
<1>4. ASSUME NEW p \in Requests, Load(p) PROVE MetInv'
  BY <1>4 DEF Load, MetInv, TypeOK
<1>5. ASSUME NEW p \in Requests, NotFound(p) \/ Answer(p) PROVE MetInv'
  BY <1>5 DEF NotFound, Answer, End, MetInv, TypeOK
<1>6. ASSUME NEW p \in Requests, Commit(p) PROVE MetInv'
  BY <1>6, <1>3 DEF Commit, MetInv, TypeOK, requestVars
<1>7. ASSUME NEW p \in Requests, CommitError(p) PROVE MetInv'
  <2>1. CASE Write(p)
    BY <1>7, <2>1, <1>3 DEF CommitError, End, MetInv, TypeOK
  <2>2. CASE UNCHANGED <<row, met>>
    BY <1>7, <2>2 DEF CommitError, End, MetInv, TypeOK
  <2> QED BY <1>7, <2>1, <2>2 DEF CommitError
<1>8. CASE UNCHANGED vars
  BY <1>8 DEF vars, requestVars, MetInv
<1> QED
  BY <1>1, <1>2, <1>4, <1>5, <1>6, <1>7, <1>8 DEF Next

\* What a request answers was true at some time between its arrival and its
\* answer, however many others wrote the row meanwhile.
THEOREM AnswersWereTrue == Spec => []AnswerWasTrue
<1>1. MetInv => AnswerWasTrue
  BY DEF MetInv, AnswerWasTrue
<1>2. Spec => []TypeOK
  BY TypeCorrect
<1> QED BY <1>1, <1>2, MetInit, MetNext, PTL DEF Spec
=============================================================================
