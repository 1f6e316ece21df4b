----------------------------- MODULE HourlySlot ------------------------------
(***************************************************************************)
(* What the generation service promises of an hour slot, whatever the      *)
(* number of its callers: attempts are made one after the other and are    *)
(* counted, the last one may succeed, and a success ends them.             *)
(***************************************************************************)
EXTENDS Integers

CONSTANTS
  Slots,          \* UTC hour slots
  MaxRetryCount   \* generation_max_retry_count

VARIABLES
  tries,   \* attempts begun for a slot
  active,  \* the last of them is neither a success nor given up
  recipe   \* the attempt whose recipe the slot has, 0 if none

vars == <<tries, active, recipe>>

Init ==
  /\ tries = [s \in Slots |-> 0]
  /\ active = [s \in Slots |-> FALSE]
  /\ recipe = [s \in Slots |-> 0]

\* An attempt begins; if one was under way, it is given up.
Begin(s) ==
  /\ recipe[s] = 0
  /\ tries[s] < MaxRetryCount \/ tries[s] = 0
  /\ tries' = [tries EXCEPT ![s] = @ + 1]
  /\ active' = [active EXCEPT ![s] = TRUE]
  /\ UNCHANGED recipe

\* The recipe of the attempt under way becomes the slot's.
Succeed(s) ==
  /\ active[s]
  /\ recipe' = [recipe EXCEPT ![s] = tries[s]]
  /\ active' = [active EXCEPT ![s] = FALSE]
  /\ UNCHANGED tries

\* The attempt under way fails, or is recovered from a dead worker.
GiveUp(s) ==
  /\ active[s]
  /\ active' = [active EXCEPT ![s] = FALSE]
  /\ UNCHANGED <<tries, recipe>>

Next == \E s \in Slots : Begin(s) \/ Succeed(s) \/ GiveUp(s)

Spec == Init /\ [][Next]_vars
=============================================================================
