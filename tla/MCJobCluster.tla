---------------------------- MODULE MCJobCluster ----------------------------
(* Instances of JobCluster for TLC.                                        *)
EXTENDS JobClusterContract, JobClusterInv, TLC

\* Every job may be tried twice.
TwoAttempts == [j \in Jobs |-> 2]

Symmetry ==
    Permutations(Submitted) \union Permutations(Jobs \ Submitted)
        \union Permutations(Workers) \union Permutations(Slots)
=============================================================================
