------------------------------- MODULE MCSetup -------------------------------
(* The instance of Setup for TLC: a service had two queues; its next version    *)
(* has one of them, with other options; or it has no subscribers any more.      *)
EXTENDS Setup

CONSTANTS p1, p2, qa, qb, m1, m2, o1, o2

TwoProcs == {p1, p2}
TwoQueues == {qa, qb}
TwoMsgs == {m1, m2}
OneSpare == {m2}
TwoOptions == {o1, o2}
OldDeployment == <<[queue |-> qa, opts |-> o1], [queue |-> qb, opts |-> o1]>>
NewDeployment == <<[queue |-> qa, opts |-> o2]>>
ThreeDeployments == {OldDeployment, NewDeployment, <<>>}
==============================================================================
