----------------------------- MODULE AtLeastOnce -----------------------------
(* What the consumer side promises of each message, whatever it goes through:   *)
(* once accepted it is owed until a run of it succeeds or its retries end in    *)
(* the dead letters, which one of them does in the end. It may run more often.  *)

CONSTANT Msgs

VARIABLE stage

Stages == {"none", "owed", "settled"}

TypeOK == stage \in [Msgs -> Stages]

Init == stage = [m \in Msgs |-> "none"]

Accept(m) ==
    /\ stage[m] = "none"
    /\ stage' = [stage EXCEPT ![m] = "owed"]

Settle(m) ==
    /\ stage[m] = "owed"
    /\ stage' = [stage EXCEPT ![m] = "settled"]

Next == \E m \in Msgs : Accept(m) \/ Settle(m)

(* Nothing that is owed is forgotten, and nothing settled is owed again ...     *)
Safety == Init /\ [][Next]_stage

(* ... and what is owed gets settled.                                           *)
Spec == Safety /\ \A m \in Msgs : WF_stage(Settle(m))
==============================================================================
