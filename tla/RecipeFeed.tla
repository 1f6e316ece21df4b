------------------------------ MODULE RecipeFeed ------------------------------
(***************************************************************************)
(* GET /recipes/feed: a client reads the list of published recipes page    *)
(* by page, with limit and offset, while recipes are published and         *)
(* unpublished between its requests.                                       *)
(*                                                                         *)
(* list_published_feed is one SELECT, so a page is cut from one state of   *)
(* the table.  Of a row only published_at matters here: a publication date *)
(* (any order of dates can be committed, since a date is read long before  *)
(* the row is written), NULL, or Hidden for a row that is not there, a     *)
(* draft or unpublished.  Recipes are numbered in the order of created_at. *)
(*                                                                         *)
(* The response has no total: a client stops at the first page that is not *)
(* full.  "Mutant" marks a plausible bug in the definition that follows.   *)
(***************************************************************************)
EXTENDS Integers, FiniteSets

CONSTANTS
  Recipes,   \* numbers in the order of created_at
  Limit,     \* page size of the client
  MaxDate    \* bound: publication dates

ASSUME RecipesAssumption == Recipes \subseteq Nat /\ IsFiniteSet(Recipes)
ASSUME LimitAssumption == Limit \in 1..100
ASSUME MaxDateAssumption == MaxDate \in Nat

Hidden == -1
Null   == 0

VARIABLES
  date,       \* published_at of a PUBLISHED row, Hidden for the other ones
  reader,     \* "idle", "reading" or "done"
  offset,     \* where its next page begins
  seen,       \* the recipes it was given
  repeated,   \* those it was given more than once
  kept,       \* published since its first page, and untouched (history)
  pulled,     \* a recipe has left its place to the rear since then (history)
  pushed      \* a recipe has come in, or moved to the front, since then (history)

readerVars == <<reader, offset, seen, repeated>>
vars == <<date, readerVars, kept, pulled, pushed>>

Init ==
  /\ date = [r \in Recipes |-> Hidden]
  /\ reader = "idle"
  /\ offset = 0
  /\ seen = {}
  /\ repeated = {}
  /\ kept = {}
  /\ pulled = FALSE
  /\ pushed = FALSE

Listed == {r \in Recipes : date[r] # Hidden}

\* Mutant: ascending order.
BeforeAscending(s, r) == date[s] < date[r] \/ (date[s] = date[r] /\ s > r)

\* ORDER BY published_at DESC NULLS LAST, created_at DESC.
Before(s, r) == date[s] > date[r] \/ (date[s] = date[r] /\ s > r)

\* The number of rows in front of r.
Ahead(r) == Cardinality({s \in Listed : Before(s, r)})

\* Mutant: one row too many.
PageOverlong == {r \in Listed : Ahead(r) \in offset..(offset + Limit)}

\* LIMIT and OFFSET.
Page == {r \in Listed : Ahead(r) \in offset..(offset + Limit - 1)}

\* A row's date changes.  History: what that does to the reader's list.
Redate(r, d) ==
  /\ date' = [date EXCEPT ![r] = d]
  /\ kept' = IF d = date[r] THEN kept ELSE kept \ {r}
  /\ pulled' = (pulled \/ d < date[r])
  /\ pushed' = (pushed \/ d > date[r])
  /\ UNCHANGED readerVars

\* publish_recipe, also of a published recipe, or a recipe stored by
\* _persist_success with auto_publish_generated_recipes.
Publish(r) == \E d \in 1..MaxDate : Redate(r, d)

\* unpublish_recipe; when it overlaps a publish of a row whose status it need
\* not change, the row stays PUBLISHED and loses its date (RecipePublication).
Unpublish(r) ==
  /\ date[r] # Hidden
  /\ Redate(r, Hidden) \/ Redate(r, Null)

\* The client begins.
Start ==
  /\ reader # "reading"
  /\ reader' = "reading"
  /\ offset' = 0
  /\ seen' = {}
  /\ repeated' = {}
  /\ kept' = Listed
  /\ pulled' = FALSE
  /\ pushed' = FALSE
  /\ UNCHANGED date

\* One page.
Read ==
  /\ reader = "reading"
  /\ seen' = seen \cup Page
  /\ repeated' = repeated \cup (Page \cap seen)
  /\ offset' = offset + Limit
  /\ reader' = IF Cardinality(Page) < Limit THEN "done" ELSE "reading"
  /\ UNCHANGED <<date, kept, pulled, pushed>>

Next ==
  \/ \E r \in Recipes : Publish(r) \/ Unpublish(r)
  \/ Start
  \/ Read

Spec == Init /\ [][Next]_vars

-----------------------------------------------------------------------------
(* Properties *)

TypeOK ==
  /\ date \in [Recipes -> Hidden..MaxDate]
  /\ reader \in {"idle", "reading", "done"}
  /\ offset \in Nat
  /\ seen \subseteq Recipes
  /\ repeated \subseteq Recipes
  /\ kept \subseteq Listed
  /\ pulled \in BOOLEAN
  /\ pushed \in BOOLEAN

\* A reader that stops at the first page that is not full has been given every
\* recipe that was there from its first page on, whatever was published in the
\* meantime and wherever it came in, unless a recipe was unpublished or moved to
\* the rear: only those make the rest of the list move up past the offset.
FeedComplete == reader = "done" /\ ~pulled => kept \subseteq seen

\* It is given none of them twice unless a recipe came in or moved to the front.
FeedWithoutRepeats == ~pushed => repeated \cap kept = {}
=============================================================================
