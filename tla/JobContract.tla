---------------------------- MODULE JobContract ----------------------------
(***************************************************************************)
(* What the scheduler promises to whoever submits a job, with no workers,  *)
(* no threads and no reaper in sight (models/job.py, JobStatus):           *)
(*                                                                         *)
(*   - once submitted, a job waits, is executed, and comes back to wait or *)
(*     ends;                                                               *)
(*   - a completed or dead job has ended for good, replayed or not;        *)
(*   - tries counts up by one each time an execution fails or is lost;     *)
(*   - a job is given up only after max_retries tries, and at least one.   *)
(*                                                                         *)
(* One step may move several jobs: a batch is claimed, recovered or        *)
(* promoted in one transaction.                                            *)
(***************************************************************************)
EXTENDS Integers

CONSTANTS Jobs, MaxRetries

VARIABLES
    phase,   \* unsubmitted, waiting, executing, completed or dead
    tries    \* executions that failed or were lost

contractVars == <<phase, tries>>

Phases == {"unsubmitted", "waiting", "executing", "completed", "dead"}

ContractInit ==
    /\ phase \in [Jobs -> {"unsubmitted", "waiting"}]
    /\ tries = [j \in Jobs |-> 0]

\* The job goes from one phase to another; by says how tries changes.
Moves(j, from, to, by) ==
    /\ phase[j] = from
    /\ phase'[j] = to
    /\ tries'[j] = tries[j] + by

Submit(j) == Moves(j, "unsubmitted", "waiting", 0)

Take(j) == Moves(j, "waiting", "executing", 0)

Fail(j) == Moves(j, "executing", "executing", 1)

GiveBack(j) == Moves(j, "executing", "waiting", 0)

Lose(j) == Moves(j, "executing", "waiting", 1)

Finish(j) == Moves(j, "executing", "completed", 0)

GiveUp(j) ==
    /\ tries[j] > 0
    /\ tries[j] >= MaxRetries[j]
    /\ Moves(j, "executing", "dead", 0)

Stay(j) == phase'[j] = phase[j] /\ tries'[j] = tries[j]

JobStep(j) ==
    \/ Submit(j)
    \/ Take(j)
    \/ Fail(j)
    \/ GiveBack(j)
    \/ Lose(j)
    \/ Finish(j)
    \/ GiveUp(j)

ContractNext ==
    /\ phase' \in [Jobs -> Phases]
    /\ tries' \in [Jobs -> Nat]
    /\ \A j \in Jobs : JobStep(j) \/ Stay(j)

ContractSpec == ContractInit /\ [][ContractNext]_contractVars
=============================================================================
