--------------------------- MODULE RecipeFeedProofs ---------------------------
(***************************************************************************)
(* Theorems about RecipeFeed, for any finite set of recipes, page size and *)
(* dates.                                                                  *)
(***************************************************************************)
EXTENDS RecipeFeed, FiniteSetTheorems, WellFoundedInduction, TLAPS

\* The rows in front of r.
Front(r) == {s \in Listed : Before(s, r)}

LEMMA FrontFinite ==
  ASSUME NEW r \in Recipes
  PROVE  IsFiniteSet(Front(r)) /\ Ahead(r) \in Nat /\ Ahead(r) = Cardinality(Front(r))
<1>1. IsFiniteSet(Front(r))
  BY RecipesAssumption, FS_Subset DEF Front, Listed
<1>2. Ahead(r) = Cardinality(Front(r))
  BY DEF Ahead, Front
<1> QED BY <1>1, <1>2, FS_CardinalityType

LEMMA DatesAreNumbers ==
  ASSUME date \in [Recipes -> Hidden..MaxDate], NEW r \in Recipes
  PROVE  date[r] \in Int /\ r \in Nat /\ date[r] >= -1
BY RecipesAssumption, MaxDateAssumption DEF Hidden

\* A row in front of another one has fewer rows ahead.
LEMMA AheadMonotone ==
  ASSUME date \in [Recipes -> Hidden..MaxDate],
         NEW r \in Recipes, NEW s \in Listed, Before(s, r)
  PROVE  Ahead(s) < Ahead(r)
<1>0. s \in Recipes /\ s \notin Front(s)
  BY DatesAreNumbers DEF Listed, Front, Before
<1>1. Front(s) \cup {s} \subseteq Front(r)
  BY <1>0, DatesAreNumbers DEF Front, Before, Listed
<1>2. Cardinality(Front(s) \cup {s}) = Ahead(s) + 1
  BY <1>0, FrontFinite, FS_AddElement
<1>3. Cardinality(Front(s) \cup {s}) <= Ahead(r)
  BY <1>1, FrontFinite, FS_Subset
<1> QED BY <1>0, <1>2, <1>3, FrontFinite

\* The order is total: no two rows have the same number of rows ahead.
LEMMA AheadInjective ==
  ASSUME date \in [Recipes -> Hidden..MaxDate],
         NEW r \in Listed, NEW s \in Listed, Ahead(r) = Ahead(s)
  PROVE  r = s
<1>1. r \in Recipes /\ s \in Recipes
  BY DEF Listed
<1>2. Before(r, s) \/ Before(s, r) \/ r = s
  BY <1>1, DatesAreNumbers DEF Before
<1> QED BY <1>1, <1>2, AheadMonotone, FrontFinite

LEMMA LeastNatural ==
  ASSUME NEW S \in SUBSET Nat, S # {}
  PROVE  \E m \in S : \A n \in S : m <= n
<1>1. \E m \in S : \A n \in S : ~(<<n, m>> \in OpToRel(<, Nat))
  BY NatLessThanWellFounded, WFMin
<1>2. \A m, n \in Nat : n < m => <<n, m>> \in OpToRel(<, Nat)
  BY DEF OpToRel
<1>3. PICK m \in S : \A n \in S : ~(<<n, m>> \in OpToRel(<, Nat))
  BY <1>1
<1>4. \A n \in S : ~(n < m)
  BY <1>2, <1>3
<1> QED BY <1>4

\* The numbers of rows ahead have no gaps: with r at some place of the list,
\* every place in front of it is taken.
LEMMA PlacesTaken ==
  ASSUME date \in [Recipes -> Hidden..MaxDate],
         NEW r \in Listed, NEW k \in Nat, k <= Ahead(r)
  PROVE  \E s \in Listed : Ahead(s) = k
<1> DEFINE T == {s \in Listed : Ahead(s) >= k}
           Places == {Ahead(s) : s \in T}
<1>0. Listed \subseteq Recipes
  BY DEF Listed
<1>1. PICK p \in Places : \A q \in Places : p <= q
  <2>1. Places \in SUBSET Nat
    BY <1>0, FrontFinite
  <2>2. Places # {}
    OBVIOUS
  <2> QED BY <2>1, <2>2, LeastNatural
<1>2. PICK m \in T : Ahead(m) = p
  OBVIOUS
<1>3. \A s \in Front(m) : Ahead(s) \in 0..(k - 1)
  <2> TAKE s \in Front(m)
  <2>1. s \in Listed /\ Before(s, m)
    BY DEF Front
  <2>2. Ahead(s) < Ahead(m) /\ Ahead(s) \in Nat /\ Ahead(m) \in Nat
    BY <1>0, <2>1, AheadMonotone, FrontFinite
  <2>3. s \notin T
    BY <1>1, <1>2, <2>2
  <2> QED BY <2>1, <2>2, <2>3
<1>4. Cardinality(Front(m)) <= Cardinality(0..(k - 1))
  <2> DEFINE f == [s \in Front(m) |-> Ahead(s)]
  <2>1. Front(m) \subseteq Listed
    BY DEF Front
  <2>2. f \in Injection(Front(m), 0..(k - 1))
    BY <1>3, <2>1, AheadInjective DEF Injection, IsInjective
  <2> QED BY <2>2, FS_Injection, FS_Interval
<1>5. Cardinality(0..(k - 1)) = k
  BY FS_Interval
<1> QED BY <1>0, <1>2, <1>4, <1>5, FrontFinite

\* A page that does not reach the end of the list is full.
LEMMA FullPage ==
  ASSUME TypeOK, NEW r \in Listed, Ahead(r) >= offset + Limit
  PROVE  Cardinality(Page) >= Limit
<1> DEFINE Places == offset..(offset + Limit - 1)
           f == [s \in Page |-> Ahead(s)]
<1>1. offset \in Nat /\ Limit \in Nat \ {0} /\ Listed \subseteq Recipes
  BY LimitAssumption DEF TypeOK, Listed
<1>2. \A k \in Places : \E s \in Page : f[s] = k
  <2> TAKE k \in Places
  <2>1. k \in Nat /\ k <= Ahead(r)
    BY <1>1, FrontFinite
  <2>2. PICK s \in Listed : Ahead(s) = k
    BY <2>1, PlacesTaken DEF TypeOK
  <2>3. s \in Page
    BY <2>2 DEF Page
  <2> QED BY <2>2, <2>3
<1>3. f \in Surjection(Page, Places)
  <2>1. f \in [Page -> Places]
    BY DEF Page
  <2> QED BY <1>2, <2>1 DEF Surjection
<1>4. IsFiniteSet(Page)
  BY RecipesAssumption, <1>1, FS_Subset DEF Page
<1>5. Cardinality(Places) = Limit
  BY <1>1, FS_Interval
<1> QED BY <1>3, <1>4, <1>5, FS_Surjection

\* If dates only grow, a row that is not touched keeps what is ahead of it.
LEMMA AheadGrows ==
  ASSUME date \in [Recipes -> Hidden..MaxDate], date' \in [Recipes -> Hidden..MaxDate],
         NEW r \in Listed, date'[r] = date[r],
         \A s \in Recipes : date'[s] >= date[s]
  PROVE  Ahead(r)' >= Ahead(r)
<1>1. r \in Recipes
  BY DEF Listed
<1>2. \A s \in Front(r) : s \in Front(r)'
  <2> TAKE s \in Front(r)
  <2>1. s \in Recipes /\ date[s] \in Int /\ date[r] \in Int /\ date'[s] \in Int
        /\ date[s] >= -1 /\ s \in Nat /\ r \in Nat
    BY <1>1, DatesAreNumbers DEF Front, Listed, Hidden
  <2> QED BY <2>1 DEF Front, Listed, Before, Hidden
<1>3. Front(r) \subseteq Front(r)'
  BY <1>2
<1>4. Ahead(r) = Cardinality(Front(r)) /\ IsFiniteSet(Front(r))
  BY <1>1, FrontFinite
<1>5. Ahead(r)' = Cardinality(Front(r)') /\ IsFiniteSet(Front(r)')
  <2>1. IsFiniteSet(Front(r)')
    BY RecipesAssumption, FS_Subset DEF Front, Listed
  <2> QED BY <2>1 DEF Ahead, Front
<1> QED BY <1>3, <1>4, <1>5, FS_Subset

\* If dates only fall, nothing comes in front of it.
LEMMA AheadShrinks ==
  ASSUME date \in [Recipes -> Hidden..MaxDate], date' \in [Recipes -> Hidden..MaxDate],
         NEW r \in Listed, date'[r] = date[r],
         \A s \in Recipes : date'[s] <= date[s]
  PROVE  Ahead(r)' <= Ahead(r)
<1>1. r \in Recipes
  BY DEF Listed
<1>2. \A s \in Front(r)' : s \in Front(r)
  <2> TAKE s \in Front(r)'
  <2>1. s \in Recipes /\ date[s] \in Int /\ date[r] \in Int /\ date'[s] \in Int
        /\ date'[s] >= -1 /\ s \in Nat /\ r \in Nat /\ date'[s] # -1
    BY <1>1, DatesAreNumbers DEF Front, Listed, Hidden
  <2> QED BY <2>1 DEF Front, Listed, Before, Hidden
<1>3. Front(r)' \subseteq Front(r)
  BY <1>2
<1>4. Ahead(r) = Cardinality(Front(r)) /\ IsFiniteSet(Front(r))
  BY <1>1, FrontFinite
<1>5. Ahead(r)' = Cardinality(Front(r)')
  BY DEF Ahead, Front
<1> QED BY <1>3, <1>4, <1>5, FS_Subset

-----------------------------------------------------------------------------
(* Types *)

LEMMA TypeInit == Init => TypeOK
<1> SUFFICES ASSUME Init PROVE TypeOK
  OBVIOUS
<1>1. date \in [Recipes -> Hidden..MaxDate]
  BY MaxDateAssumption DEF Init, Hidden
<1>2. /\ reader = "idle" /\ offset = 0 /\ seen = {} /\ repeated = {} /\ kept = {}
      /\ pulled = FALSE /\ pushed = FALSE
  BY DEF Init
<1> QED BY <1>1, <1>2 DEF TypeOK

\* The writers, as one kind of step.
LEMMA WritersRedate ==
  ASSUME NEW r \in Recipes, Publish(r) \/ Unpublish(r)
  PROVE  \E d \in Hidden..MaxDate : Redate(r, d)
BY MaxDateAssumption DEF Publish, Unpublish, Hidden, Null

LEMMA TypeNext == TypeOK /\ [Next]_vars => TypeOK'
<1> SUFFICES ASSUME TypeOK, [Next]_vars PROVE TypeOK'
  OBVIOUS
<1>1. ASSUME NEW r \in Recipes, NEW d \in Hidden..MaxDate, Redate(r, d) PROVE TypeOK'
  <2>1. date' \in [Recipes -> Hidden..MaxDate] /\ \A s \in Recipes \ {r} : date'[s] = date[s]
    BY <1>1 DEF Redate, TypeOK
  <2>2. kept' \subseteq Listed'
    <3>1. CASE d = date[r]
      <4>1. date' = date
        BY <1>1, <3>1 DEF Redate, TypeOK
      <4> QED BY <1>1, <3>1, <4>1 DEF Redate, TypeOK, Listed
    <3>2. CASE d # date[r]
      BY <1>1, <2>1, <3>2 DEF Redate, TypeOK, Listed
    <3> QED BY <3>1, <3>2
  <2>3. pulled' \in BOOLEAN /\ pushed' \in BOOLEAN
    BY <1>1 DEF Redate
  <2> QED BY <1>1, <2>1, <2>2, <2>3 DEF Redate, TypeOK, readerVars
<1>2. CASE Start
  BY <1>2 DEF Start, TypeOK, Listed
<1>3. CASE Read
  <2>1. offset' \in Nat
    BY <1>3, LimitAssumption DEF Read, TypeOK
  <2> QED BY <1>3, <2>1 DEF Read, TypeOK, Page, Listed
<1>4. CASE UNCHANGED vars
  BY <1>4 DEF vars, readerVars, TypeOK, Listed
<1> QED
  BY <1>1, <1>2, <1>3, <1>4, WritersRedate DEF Next

\* Dates, pages and histories keep their domains.
THEOREM TypeCorrect == Spec => []TypeOK
BY TypeInit, TypeNext, PTL DEF Spec

-----------------------------------------------------------------------------
(* Completeness *)

\* Unless something moved to the rear, what the reader has not been given yet
\* lies at its offset or behind it.
CompleteInv ==
  ~pulled => \A r \in kept :
    r \in seen \/ (reader # "done" /\ Ahead(r) >= offset)

LEMMA CompleteNext == TypeOK /\ TypeOK' /\ CompleteInv /\ [Next]_vars => CompleteInv'
<1> SUFFICES ASSUME TypeOK, TypeOK', CompleteInv, [Next]_vars, ~pulled', NEW r \in kept'
             PROVE  (r \in seen \/ (reader # "done" /\ Ahead(r) >= offset))'
  BY DEF CompleteInv
<1>1. ASSUME NEW s \in Recipes, NEW d \in Hidden..MaxDate, Redate(s, d)
      PROVE  (r \in seen \/ (reader # "done" /\ Ahead(r) >= offset))'
  <2>1. ~pulled /\ d >= date[s] /\ r \in kept /\ date'[r] = date[r]
    <3>1. ~pulled /\ ~(d < date[s])
      BY <1>1 DEF Redate
    <3>2. d \in Int /\ date[s] \in Int
      BY MaxDateAssumption, DatesAreNumbers DEF TypeOK, Hidden
    <3>3. r \in kept /\ (r = s => d = date[s])
      BY <1>1 DEF Redate
    <3>4. date'[r] = date[r]
      BY <1>1, <3>3 DEF Redate, TypeOK, Listed
    <3> QED BY <3>1, <3>2, <3>3, <3>4
  <2>2. \A q \in Recipes : date'[q] >= date[q]
    <3> TAKE q \in Recipes
    <3>1. date[q] \in Int
      BY DatesAreNumbers DEF TypeOK
    <3> QED BY <1>1, <2>1, <3>1 DEF Redate, TypeOK
  <2>3. Ahead(r)' >= Ahead(r) /\ Ahead(r) \in Nat /\ Ahead(r)' \in Nat
    <3>1. r \in Listed /\ r \in Recipes
      BY <2>1 DEF TypeOK, Listed
    <3>2. Ahead(r)' >= Ahead(r)
      BY <2>1, <2>2, <3>1, AheadGrows DEF TypeOK
    <3>3. IsFiniteSet({q \in Listed : Before(q, r)}')
      BY RecipesAssumption, FS_Subset DEF Listed
    <3> QED BY <3>1, <3>2, <3>3, FrontFinite, FS_CardinalityType DEF Ahead
  <2> QED BY <1>1, <2>1, <2>3 DEF CompleteInv, Redate, readerVars, TypeOK
<1>2. CASE Start
  <2>1. Ahead(r)' = Ahead(r) /\ r \in Recipes
    BY <1>2 DEF Start, Ahead, Listed, Before
  <2> QED BY <1>2, <2>1, FrontFinite DEF Start
<1>3. CASE Read
  <2>1. r \in kept /\ r \in Listed /\ r \in Recipes /\ ~pulled
    BY <1>3 DEF Read, TypeOK, Listed
  <2>2. Ahead(r)' = Ahead(r)
    BY <1>3 DEF Read, Ahead, Listed, Before
  <2>3. CASE r \in seen
    BY <1>3, <2>3 DEF Read
  <2>4. CASE r \notin seen
    <3>1. Ahead(r) >= offset /\ Ahead(r) \in Nat /\ offset \in Nat /\ Limit \in Nat
      BY <2>1, <2>4, FrontFinite, LimitAssumption DEF CompleteInv, TypeOK
    <3>2. CASE Ahead(r) >= offset + Limit
      <4>1. Cardinality(Page) >= Limit
        BY <2>1, <3>2, FullPage
      <4>2. Cardinality(Page) \in Nat
        BY RecipesAssumption, FS_Subset, FS_CardinalityType DEF Page, Listed
      <4>3. reader' # "done"
        BY <1>3, <3>1, <4>1, <4>2 DEF Read
      <4> QED BY <1>3, <2>2, <3>2, <4>3 DEF Read
    <3>3. CASE ~(Ahead(r) >= offset + Limit)
      <4>1. r \in Page
        BY <2>1, <3>1, <3>3 DEF Page
      <4> QED BY <1>3, <4>1 DEF Read
    <3> QED BY <3>2, <3>3
  <2> QED BY <2>3, <2>4
<1>4. CASE UNCHANGED vars
  <2>1. Ahead(r)' = Ahead(r)
    BY <1>4 DEF vars, readerVars, Ahead, Listed, Before
  <2> QED BY <1>4, <2>1 DEF vars, readerVars, CompleteInv
<1> QED
  BY <1>1, <1>2, <1>3, <1>4, WritersRedate DEF Next

\* A reader that comes to a page that is not full has been given every recipe
\* that stayed in its place, unless something moved to the rear.
THEOREM FeedIsComplete == Spec => []FeedComplete
<1>1. Init => CompleteInv
  BY DEF Init, CompleteInv
<1>2. CompleteInv => FeedComplete
  BY DEF CompleteInv, FeedComplete
<1> QED BY <1>1, <1>2, CompleteNext, TypeCorrect, PTL DEF Spec

-----------------------------------------------------------------------------
(* Repeats *)

\* Unless something moved to the front, what the reader has been given lies in
\* front of its offset.
RepeatInv ==
  ~pushed => \A r \in kept : r \notin repeated /\ (r \in seen => Ahead(r) < offset)

LEMMA RepeatNext == TypeOK /\ TypeOK' /\ RepeatInv /\ [Next]_vars => RepeatInv'
<1> SUFFICES ASSUME TypeOK, TypeOK', RepeatInv, [Next]_vars, ~pushed', NEW r \in kept'
             PROVE  (r \notin repeated /\ (r \in seen => Ahead(r) < offset))'
  BY DEF RepeatInv
<1>1. ASSUME NEW s \in Recipes, NEW d \in Hidden..MaxDate, Redate(s, d)
      PROVE  (r \notin repeated /\ (r \in seen => Ahead(r) < offset))'
  <2>1. ~pushed /\ d <= date[s] /\ r \in kept /\ date'[r] = date[r]
    <3>1. ~pushed /\ ~(d > date[s])
      BY <1>1 DEF Redate
    <3>2. d \in Int /\ date[s] \in Int
      BY MaxDateAssumption, DatesAreNumbers DEF TypeOK, Hidden
    <3>3. r \in kept /\ (r = s => d = date[s])
      BY <1>1 DEF Redate
    <3>4. date'[r] = date[r]
      BY <1>1, <3>3 DEF Redate, TypeOK, Listed
    <3> QED BY <3>1, <3>2, <3>3, <3>4
  <2>2. \A q \in Recipes : date'[q] <= date[q]
    <3> TAKE q \in Recipes
    <3>1. date[q] \in Int
      BY DatesAreNumbers DEF TypeOK
    <3> QED BY <1>1, <2>1, <3>1 DEF Redate, TypeOK
  <2>3. Ahead(r)' <= Ahead(r) /\ Ahead(r) \in Nat /\ Ahead(r)' \in Nat
    <3>1. r \in Listed /\ r \in Recipes
      BY <2>1 DEF TypeOK, Listed
    <3>2. Ahead(r)' <= Ahead(r)
      BY <2>1, <2>2, <3>1, AheadShrinks DEF TypeOK
    <3>3. IsFiniteSet({q \in Listed : Before(q, r)}')
      BY RecipesAssumption, FS_Subset DEF Listed
    <3> QED BY <3>1, <3>2, <3>3, FrontFinite, FS_CardinalityType DEF Ahead
  <2> QED BY <1>1, <2>1, <2>3 DEF RepeatInv, Redate, readerVars, TypeOK
<1>2. CASE Start
  BY <1>2 DEF Start
<1>3. CASE Read
  <2>1. r \in kept /\ r \in Recipes /\ ~pushed
    BY <1>3 DEF Read, TypeOK, Listed
  <2>2. Ahead(r)' = Ahead(r) /\ Ahead(r) \in Nat /\ offset \in Nat /\ Limit \in Nat \ {0}
    <3>1. Ahead(r)' = Ahead(r)
      BY <1>3 DEF Read, Ahead, Listed, Before
    <3> QED BY <2>1, <3>1, FrontFinite, LimitAssumption DEF TypeOK
  <2>3. r \notin repeated /\ (r \in seen => Ahead(r) < offset)
    BY <2>1 DEF RepeatInv
  <2>4. r \in Page => offset <= Ahead(r) /\ Ahead(r) < offset + Limit
    BY <2>2 DEF Page
  <2> QED BY <1>3, <2>2, <2>3, <2>4 DEF Read
<1>4. CASE UNCHANGED vars
  <2>1. Ahead(r)' = Ahead(r)
    BY <1>4 DEF vars, readerVars, Ahead, Listed, Before
  <2> QED BY <1>4, <2>1 DEF vars, readerVars, RepeatInv
<1> QED
  BY <1>1, <1>2, <1>3, <1>4, WritersRedate DEF Next

\* No recipe that stayed in its place is given twice, unless something came in
\* or moved to the front.
THEOREM FeedHasNoRepeats == Spec => []FeedWithoutRepeats
<1>1. Init => RepeatInv
  BY DEF Init, RepeatInv
<1>2. RepeatInv => FeedWithoutRepeats
  BY DEF RepeatInv, FeedWithoutRepeats
<1> QED BY <1>1, <1>2, RepeatNext, TypeCorrect, PTL DEF Spec
=============================================================================
