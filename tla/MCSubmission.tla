----------------------------- MODULE MCSubmission -----------------------------
(* Instances of Submission for TLC.                                        *)
EXTENDS Submission, TLC

Symmetry == Permutations(Requests) \union Permutations(Queues)
=============================================================================
