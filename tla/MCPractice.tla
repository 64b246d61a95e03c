------------------------------ MODULE MCPractice ------------------------------
(* Instances of Practice for TLC. *)
EXTENDS Practice, TLC

Symmetry == Permutations(Window) \cup Permutations(Teacher)
            \cup Permutations(Attempt) \cup Permutations(Wrong)
=============================================================================
