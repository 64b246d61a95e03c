---------------------------- MODULE MCExamSitting ----------------------------
(* Instances of ExamSitting for TLC. *)
EXTENDS ExamSitting

(* One extension that fits before the next session and two that together do   *)
(* not; a status that no part of the system knows.                            *)
MCExtensions == {1, 2}
MCMarks == {"other"}
=============================================================================
