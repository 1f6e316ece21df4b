-------------------------- MODULE RecipePublication ---------------------------
(***************************************************************************)
(* POST /admin/recipes/{id}/publish and .../unpublish, by requests that    *)
(* run at once: recipe_publication_service.py over recipe_repository.py.   *)
(*                                                                         *)
(* A request reads the row into its own session, assigns two columns and   *)
(* commits.  SQLAlchemy's UPDATE sets the columns whose value differs from *)
(* the one that was read, and no others; PostgreSQL applies it to the row  *)
(* as it is then (READ COMMITTED, no version column).                      *)
(*                                                                         *)
(* Dates are readings of a clock that moves on with each of them; None is  *)
(* NULL.  "Mutant" marks a plausible bug in the definition that follows.   *)
(***************************************************************************)
EXTENDS Integers

CONSTANTS
  Requests,   \* request threads of the API instances
  Recipes,
  MaxClock    \* bound: readings of the clock

ASSUME MaxClockAssumption == MaxClock \in Nat \ {0}

None == 0

VARIABLES
  row,         \* the recipes table
  clock,       \* the last date given
  pc,          \* where a request is
  wanted,      \* the columns it wants the row to have
  recipe,      \* the recipe it is for
  copy,        \* the row as its session read it
  alone,       \* no other request for its recipe overlaps it (history)
  met          \* the row had the wanted status at some time of it (history)

requestVars == <<wanted, recipe, copy>>
vars == <<row, clock, pc, requestVars, alone, met>>

Statuses == {"absent", "draft", "published", "unpublished"}
Rows == [status : Statuses, date : 0..MaxClock]

Absent      == [status |-> "absent", date |-> None]
Draft       == [status |-> "draft", date |-> None]
Published(d) == [status |-> "published", date |-> d]
Unpublished == [status |-> "unpublished", date |-> None]

Init ==
  /\ row = [r \in Recipes |-> Absent]
  /\ clock = None
  /\ pc = [p \in Requests |-> "idle"]
  /\ wanted = [p \in Requests |-> Unpublished]
  /\ recipe \in [Requests -> Recipes]
  /\ copy = [p \in Requests |-> Absent]
  /\ alone = [p \in Requests |-> FALSE]
  /\ met = [p \in Requests |-> FALSE]

\* The requests for r that are under way.
Active(r) == {p \in Requests : pc[p] # "idle" /\ recipe[p] = r}

\* History: the requests for r that are under way notice its status.
Notice(r) ==
  met' = [p \in Requests |->
            /\ pc[p] # "idle"
            /\ met[p] \/ (recipe[p] = r /\ row'[r].status = wanted[p].status)]

\* _persist_success stores a generated recipe, as a draft or, with
\* auto_publish_generated_recipes, published at a date read before the run.
Create(r) ==
  /\ row[r] = Absent
  /\ \/ row' = [row EXCEPT ![r] = Draft] /\ UNCHANGED clock
     \/ /\ clock < MaxClock
        /\ clock' = clock + 1
        /\ row' = [row EXCEPT ![r] = Published(clock + 1)]
  /\ Notice(r)
  /\ UNCHANGED <<pc, requestVars, alone>>

\* A request arrives.  History: it and the others for r are no more alone.
Arrive(p, r) ==
  /\ pc[p] = "idle"
  /\ pc' = [pc EXCEPT ![p] = "load"]
  /\ recipe' = [recipe EXCEPT ![p] = r]
  /\ alone' = [q \in Requests |-> IF q = p THEN Active(r) = {}
                                  ELSE alone[q] /\ q \notin Active(r)]
  /\ UNCHANGED <<row, copy>>

\* publish_recipe: the date is read before the row is.
ArrivePublish(p, r) ==
  /\ Arrive(p, r)
  /\ clock < MaxClock
  /\ clock' = clock + 1
  /\ wanted' = [wanted EXCEPT ![p] = Published(clock + 1)]
  /\ met' = [met EXCEPT ![p] = row[r].status = "published"]

ArriveUnpublish(p, r) ==
  /\ Arrive(p, r)
  /\ UNCHANGED clock
  /\ wanted' = [wanted EXCEPT ![p] = Unpublished]
  /\ met' = [met EXCEPT ![p] = row[r].status = "unpublished"]

\* session.get.
Load(p) ==
  /\ pc[p] = "load"
  /\ row[recipe[p]] # Absent
  /\ copy' = [copy EXCEPT ![p] = row[recipe[p]]]
  /\ pc' = [pc EXCEPT ![p] = "write"]
  /\ UNCHANGED <<row, clock, wanted, recipe, alone, met>>

\* The request ends, and its session with it.
End(p) ==
  /\ pc' = [pc EXCEPT ![p] = "idle"]
  /\ wanted' = [wanted EXCEPT ![p] = Unpublished]
  /\ copy' = [copy EXCEPT ![p] = Absent]
  /\ alone' = [alone EXCEPT ![p] = FALSE]
  /\ UNCHANGED <<clock, recipe>>

\* No such row: NotFoundError, rollback.
NotFound(p) ==
  /\ pc[p] = "load"
  /\ row[recipe[p]] = Absent
  /\ End(p)
  /\ UNCHANGED <<row, met>>

\* Mutant: the date is left as it was.
UpdatedStatusOnly(p) == [row[recipe[p]] EXCEPT !.status = wanted[p].status]

\* The UPDATE: only the columns that differ from what was read.
Updated(p) ==
  LET now == row[recipe[p]] IN
  [c \in {"status", "date"} |->
     IF wanted[p][c] = copy[p][c] THEN now[c] ELSE wanted[p][c]]

Write(p) ==
  /\ row' = [row EXCEPT ![recipe[p]] = Updated(p)]
  /\ Notice(recipe[p])

\* Mutant: flush without commit.
CommitForgotten(p) ==
  /\ pc[p] = "write"
  /\ pc' = [pc EXCEPT ![p] = "answer"]
  /\ UNCHANGED <<row, clock, requestVars, alone, met>>

\* flush and commit: PostgreSQL holds the row's lock between the two.
Commit(p) ==
  /\ pc[p] = "write"
  /\ Write(p)
  /\ pc' = [pc EXCEPT ![p] = "answer"]
  /\ UNCHANGED <<clock, requestVars, alone>>

\* flush or commit raises and the session rolls back, or the reply to the
\* commit is lost: the request fails either way.
CommitError(p) ==
  /\ pc[p] = "write"
  /\ \/ Write(p)
     \/ UNCHANGED <<row, met>>
  /\ End(p)

\* get_by_id after the commit finds the object in its session, which nothing
\* has expired: the answer shows the wanted columns.
Answer(p) ==
  /\ pc[p] = "answer"
  /\ End(p)
  /\ UNCHANGED <<row, met>>

Next ==
  \/ \E r \in Recipes : Create(r)
  \/ \E p \in Requests, r \in Recipes : ArrivePublish(p, r) \/ ArriveUnpublish(p, r)
  \/ \E p \in Requests :
       Load(p) \/ NotFound(p) \/ Commit(p) \/ CommitError(p) \/ Answer(p)

Spec == Init /\ [][Next]_vars

-----------------------------------------------------------------------------
(* Properties *)

\* Rows have a publication status and a date or NULL.
TypeOK ==
  /\ row \in [Recipes -> Rows]
  /\ clock \in 0..MaxClock
  /\ pc \in [Requests -> {"idle", "load", "write", "answer"}]
  /\ wanted \in [Requests -> Rows]
  /\ recipe \in [Requests -> Recipes]
  /\ copy \in [Requests -> Rows]
  /\ alone \in [Requests -> BOOLEAN]
  /\ met \in [Requests -> BOOLEAN]

\* A request that no other one overlaps leaves the row, status and date, as it
\* wanted it, whatever the requests before it did to that row.
AloneTakesEffect ==
  \A p \in Requests : pc[p] = "answer" /\ alone[p] => row[recipe[p]] = wanted[p]

\* However requests overlap, one that is answered has been true: between its
\* arrival and its answer the row had the status it reports, so every history of
\* the status is one of requests that took effect one at a time.
AnswerWasTrue ==
  \A p \in Requests : pc[p] = "answer" => met[p]

\* The row that publish commits is PUBLISHED: the endpoint's answer is
\* "Опубликованный рецепт." (the published recipe, routes_recipes.py).
PublishPublishes ==
  [][\A p \in Requests :
       pc[p] = "write" /\ pc'[p] = "answer" /\ wanted[p].status = "published"
         => row'[recipe[p]].status = "published"]_vars
=============================================================================
