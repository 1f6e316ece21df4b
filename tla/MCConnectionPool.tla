---------------------------- MODULE MCConnectionPool ----------------------------
(* A small instance of ConnectionPool for TLC: as many runs as connections, so *)
(* that they can stall, one of them beyond the pool's size.                     *)
EXTENDS ConnectionPool

CONSTANTS r1, r2, q1, x1, x2, hour1, hour2

TwoRuns    == {r1, r2}
OneRequest == {q1}
TwoConns   == {x1, x2}
TwoSlots   == {hour1, hour2}
=============================================================================
