----------------------------- MODULE MCWebJobForm -----------------------------
(* Instances of WebJobForm for TLC.                                        *)
EXTENDS WebJobForm, TLC

Symmetry == Permutations(Requests)
=============================================================================
