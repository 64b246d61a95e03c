--------------------------- MODULE MCExamLifecycle ---------------------------
(* Instances of ExamLifecycle for TLC. *)
EXTENDS ExamLifecycle, TLC

CONSTANTS a1, a2, b1

(* a1 first, a2 and b1 later, all with the same end. *)
MCStarts == [s \in Session |-> IF s = a1 THEN 0 ELSE 1]
MCEnds   == [s \in Session |-> 2]

Symmetry == Permutations(Caller) \cup Permutations(Worker)
=============================================================================
