------------------------------ MODULE MCBackoff ------------------------------
(* Small instances of Backoff: two processes, periods of 2 and 4 units of    *)
(* time that ResetAfter cuts short, and durations so narrow that the fourth  *)
(* period overflows.                                                         *)
EXTENDS Backoff

CONSTANTS p1, p2
=============================================================================
