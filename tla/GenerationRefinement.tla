------------------------ MODULE GenerationRefinement -------------------------
(***************************************************************************)
(* GenerationService implements HourlySlot: the locks, the rows, the       *)
(* failure handlers and the recovery together make every slot look like    *)
(* one sequence of attempts.                                               *)
(***************************************************************************)
EXTENDS GenerationService

\* A slot's attempt is under way while its job is RUNNING; its recipe is the one
\* the response metadata of the COMPLETED job names.
Promise == INSTANCE HourlySlot WITH
  tries  <- attempts,
  active <- [s \in Slots |-> job[s].status = "running"],
  recipe <- [s \in Slots |-> IF job[s].status = "completed" THEN job[s].recipe ELSE 0]

\* Whatever the callers, crashes, expiries and failures do, the rows of a slot
\* change only as HourlySlot lets them.
ImplementsHourlySlot == Promise!Spec
=============================================================================
