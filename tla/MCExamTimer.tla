----------------------------- MODULE MCExamTimer -----------------------------
(* Instances of ExamTimer for TLC. *)
EXTENDS ExamTimer

MCExamOf == [s \in Session |-> CHOOSE e \in Exam : TRUE]
=============================================================================
