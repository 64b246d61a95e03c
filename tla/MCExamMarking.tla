---------------------------- MODULE MCExamMarking ----------------------------
(* Instances of ExamMarking for TLC. *)
EXTENDS ExamMarking, TLC

CONSTANTS s1, s2, r1, r2

(* Each student submits once. *)
MCBy == [r \in Request |-> IF r = r1 THEN s1 ELSE s2]

Mixed == {"objective", "subjective"}

MCPapers == {Mixed, {"subjective"}}
=============================================================================
