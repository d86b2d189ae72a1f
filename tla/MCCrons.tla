------------------------------- MODULE MCCrons -------------------------------
(* Instances of Crons for TLC.                                                  *)
EXTENDS Crons

CONSTANTS s1, w1, fast, slow, off

OneServer == {s1}
OneWorker == {w1}
TwoCrons == {fast, slow}
FastAndOff == {fast, off}
OnlyFast == {fast}
SlowFirst == <<slow, fast>>
InactiveLast == <<fast, off>>
Periods == [c \in Crons |-> IF c = slow THEN 3 ELSE 1]
==============================================================================
