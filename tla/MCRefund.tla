------------------------------ MODULE MCRefund ------------------------------
(* Refund on small instances: two concurrent admin requests, the cron, two  *)
(* or three Razorpay refunds, a payment of two units so that a refund may   *)
(* be partial (1) or full (2).                                              *)
EXTENDS Refund, TLC

CalmEnv == [slow |-> FALSE, race |-> FALSE, maxLate |-> 0, late |-> 0]

OnlyCalm      == {CalmEnv}
OnlySlow      == {[CalmEnv EXCEPT !.slow = TRUE]}
OnlyRacing    == {[CalmEnv EXCEPT !.race = TRUE]}
HostileOrCalm == {CalmEnv, [slow |-> TRUE, race |-> TRUE, maxLate |-> 1,
                            late |-> 0]}

Symmetry == Permutations(Admins) \cup Permutations(Refunds)
=============================================================================
