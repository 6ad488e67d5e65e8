---------------------------- MODULE MCSubmission ----------------------------
(* Instances of Submission for TLC. *)
EXTENDS SubmissionInvariant, TLC

Symmetry == Permutations(Msgs) \cup Permutations(Ids)
=============================================================================
