------------------------- MODULE JobClusterContract -------------------------
(***************************************************************************)
(* JobCluster implements JobContract as long as no live process is taken   *)
(* for dead: queued and scheduled jobs wait, claimed and running ones are  *)
(* executing, and retry_count is the number of tries.  A replay submits    *)
(* another job.                                                            *)
(***************************************************************************)
EXTENDS JobCluster

phaseOf ==
    [j \in Jobs |->
        CASE job[j].status = "absent" -> "unsubmitted"
          [] job[j].status \in {"queued", "scheduled"} -> "waiting"
          [] job[j].status \in Held -> "executing"
          [] OTHER -> job[j].status]

triesOf == [j \in Jobs |-> job[j].retry_count]

Contract == INSTANCE JobContract WITH phase <- phaseOf, tries <- triesOf

\* The life of every job in the cluster is one the contract allows.
ImplementsContract == Contract!ContractSpec
=============================================================================
