---------------------------- MODULE MCSubscriber ----------------------------
(* Instances of Subscriber for TLC. Copies and invocations are interchangeable  *)
(* in every safety property, processes where all or none of them listen to      *)
(* unhandled rejections; the liveness run uses no symmetry.                     *)
EXTENDS Subscriber, TLC

CONSTANTS p1, p2, m1, m2, k1, k2, c1, c2, c3, c4, t1, t2, t3

None == {}
OneProc == {p1}
TwoProcs == {p1, p2}
OneMsg == {m1}
TwoCrons == {k1, k2}
InactiveCron == {k2}
GoodAndBad == {m1, m2}
BadMsg == {m2}
TwoCopies == {c1, c2}
FourCopies == {c1, c2, c3, c4}
TwoTasks == {t1, t2}
ThreeTasks == {t1, t2, t3}

Symmetry == Permutations(Procs) \union Permutations(Copies) \union Permutations(Tasks)
OneListensSymmetry == Permutations(Copies) \union Permutations(Tasks)
=============================================================================
