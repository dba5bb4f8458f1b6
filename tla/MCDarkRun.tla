------------------------------- MODULE MCDarkRun -------------------------------
(* Instance of DarkRun for TLC: one object of the first bucket is too large.  *)
EXTENDS DarkRun

CONSTANTS b1, b2

TwoBuckets == {b1, b2}
OneLarge   == {<<b1, 1>>}
=============================================================================
