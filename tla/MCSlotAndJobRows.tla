--------------------------- MODULE MCSlotAndJobRows ---------------------------
(* A small instance of SlotAndJobRows for TLC. *)
EXTENDS SlotAndJobRows, TLC

CONSTANTS c1, c2, c3, hour1, hour2

ThreeCalls == {c1, c2, c3}
TwoHours   == {hour1, hour2}
=============================================================================
