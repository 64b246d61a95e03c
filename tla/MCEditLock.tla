------------------------------ MODULE MCEditLock ------------------------------
(* Instances of EditLock for TLC. *)
EXTENDS EditLock, TLC

CONSTANTS c1, c2, u1, u2

(* A tab per user. *)
MCApart == (c1 :> u1) @@ (c2 :> u2)
=============================================================================
