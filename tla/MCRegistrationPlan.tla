-------------------------- MODULE MCRegistrationPlan --------------------------
(* Instances of RegistrationPlan for TLC. *)
EXTENDS RegistrationPlan, TLC

(* The review ends after the registration, or before it. *)
MCDeadlines == {<<1, 2>>, <<2, 1>>, <<2, 3>>}
=============================================================================
