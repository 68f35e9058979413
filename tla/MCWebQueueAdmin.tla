---------------------------- MODULE MCWebQueueAdmin ----------------------------
(* Instances of WebQueueAdmin for TLC.                                     *)
EXTENDS WebQueueAdmin, TLC

Symmetry == Permutations(Admins) \union Permutations(Calls)
=============================================================================
