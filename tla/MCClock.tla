------------------------------- MODULE MCClock -------------------------------
(* Clock for TLC: 6 ticks per millisecond, rates 5, 6 and 7 (the limit is a *)
(* sixth of the nominal rate, as in the code).                             *)
EXTENDS Clock

MCAll == {-3, -2, -1, 0, 1, 2, 3}
MCSlower == {-3, -2, -1, 0}
=============================================================================
