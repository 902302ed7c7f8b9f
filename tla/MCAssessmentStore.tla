-------------------------- MODULE MCAssessmentStore --------------------------
(* The finite instances of AssessmentStore that TLC checks. *)
EXTENDS AssessmentStore, TLC

\* Keys, inputs and request slots are interchangeable.
Symmetry == Permutations(Key) \cup Permutations(Input) \cup Permutations(Request)
==============================================================================
