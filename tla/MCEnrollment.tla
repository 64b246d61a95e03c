----------------------------- MODULE MCEnrollment -----------------------------
(* Instances of Enrollment for TLC. *)
EXTENDS Enrollment, TLC

CONSTANTS pa, pb, sa, sb

(* One plan has two places, the other any number. *)
MCMaxNumber == (pa :> 2) @@ (pb :> 0)

(* A student who waits in pa and is approved in pb; another who has not       *)
(* registered.                                                                *)
MCFirstRows ==
  {[r \in Plan \X Student |->
      IF r = <<pa, sa>> THEN "02" ELSE IF r = <<pb, sa>> THEN "04" ELSE "none"]}
=============================================================================
