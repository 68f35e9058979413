--------------------------- MODULE JobClusterInv ---------------------------
(***************************************************************************)
(* The inductive invariants of the proofs about JobCluster.  SafeInv is    *)
(* behind OneThreadPerJob, RetryAccounting and DeadLetterExact, none of    *)
(* which is inductive: that a claim gives no job out twice rests on what   *)
(* the reaper may requeue, which rests on whom it may find stale.          *)
(* ChaosInv and PaidInv hold under every disturbance; AttemptInv and       *)
(* StrandInv strengthen SafeInv for the bound on attempts and for stranded *)
(* jobs.                                                                   *)
(***************************************************************************)
EXTENDS JobCluster

Busy(w, s) == thread[w][s].pc # "idle"

\* Threads belong to living processes.
BusyIsAlive == \A w \in Workers, s \in Slots : Busy(w, s) => process[w] \in Alive

\* The job of a thread is claimed or running, on the thread's worker unless the
\* row of that worker was pruned.
BusyHolds ==
    \A w \in Workers, s \in Slots : Busy(w, s) =>
        /\ job[thread[w][s].job].status \in Held
        /\ job[thread[w][s].job].worker \in {w, NoWorker}

\* No two threads hold the same job.
BusyApart ==
    \A w1, w2 \in Workers, s1, s2 \in Slots :
        (Busy(w1, s1) /\ Busy(w2, s2) /\ thread[w1][s1].job = thread[w2][s2].job)
            => w1 = w2 /\ s1 = s2

\* Only crashed processes are stale, and the reaper's list holds no others.
StaleIsCrashed ==
    /\ \A w \in Workers : Stale(w) => process[w] = "crashed"
    /\ \A w \in reaper.found : process[w] = "crashed"

\* What the reaper is about to requeue is held by no thread.
ReaperApart ==
    reaper.pc = "recover" =>
        \A j \in reaper.jobs :
            /\ job[j].status \in Held
            /\ \A w \in Workers, s \in Slots : Busy(w, s) => thread[w][s].job # j

\* The values that the sessions cached are still those of the rows.
CachesFresh ==
    /\ \A w \in Workers, s \in Slots :
         thread[w][s].pc \in {"loaded", "running", "failed"}
           => thread[w][s].retry_count = job[thread[w][s].job].retry_count
    /\ reaper.pc = "recover" =>
         \A j \in reaper.jobs : reaper.retry_count[j] = job[j].retry_count

\* Inductive whenever neither stalls nor long drains occur.
SafeInv ==
    /\ TypeOK
    /\ BusyIsAlive
    /\ BusyHolds
    /\ BusyApart
    /\ StaleIsCrashed
    /\ ReaperApart
    /\ CachesFresh
    /\ RetryAccounting
    /\ DeadLetterExact
-----------------------------------------------------------------------------
(* What is inductive under every disturbance.                              *)

Counted(count, j) == count <= execution[j].failed + recovered[j]

\* What a session cached is never more than what was counted by now, and a thread
\* that is about to retry or give up has counted a failure.
CachesCounted ==
    /\ \A w \in Workers, s \in Slots :
         thread[w][s].pc \in {"loaded", "running", "failed"}
           => Counted(thread[w][s].retry_count, thread[w][s].job)
    /\ \A w \in Workers, s \in Slots :
         thread[w][s].pc = "failed" => execution[thread[w][s].job].failed > 0
    /\ reaper.pc = "recover" =>
         \A j \in reaper.jobs : Counted(reaper.retry_count[j], j)

ChaosInv == TypeOK /\ CachesCounted /\ RetryNeverOvercounted /\ FinalIsEarned

\* The threads that have a job in hand and are not running it: a start or a retry
\* is still to come.
Unstarted == {"dispatched", "loaded", "failed"}
Starting(j) == {h \in Hands(j) : thread[h[1]][h[2]].pc \in Unstarted}

Waits(j) == IF job[j].status \in {"absent", "queued", "scheduled"} THEN 1 ELSE 0
Buried(j) == IF GivenUp(j) THEN 1 ELSE 0

\* A job is in one place, not there yet, waiting, in hand or ended; a recovery adds
\* a place.
PlacesPaid(j) ==
    Cardinality(Hands(j)) + Waits(j) + execution[j].completed + Buried(j)
        <= 1 + recovered[j]

\* A start uses up a place from which the job can be started; a failure or a
\* recovery gives one back.
StartsPaid(j) ==
    Cardinality(Starting(j)) + Waits(j) + execution[j].started
        <= 1 + execution[j].failed + recovered[j]

JobPaid(j) == IsFiniteSet(Hands(j)) /\ PlacesPaid(j) /\ StartsPaid(j)

PaidInv == TypeOK /\ \A j \in Jobs : JobPaid(j)

\* Unless rows of dead workers are pruned, a claimed job names its worker.
ClaimsAreOwned ==
    \A j \in Jobs : job[j].status = "claimed" => job[j].worker # NoWorker

\* A process that has not registered has no row that could be dead.
NewIsAbsent == \A w \in Workers : process[w] = "new" => row[w].status = "absent"

-----------------------------------------------------------------------------
(* What bounds the attempts, as long as no live process is taken for dead. *)

\* Where a thread is says what status its job has.
PcIsStatus ==
    \A w \in Workers, s \in Slots :
        LET t == thread[w][s] IN
        /\ t.pc \in {"dispatched", "loaded"} => job[t.job].status = "claimed"
        /\ t.pc = "loaded" => t.status = "claimed"
        /\ t.pc \in {"running", "failed"} => job[t.job].status = "running"
        /\ t.pc = "failed" => t.retry_count > 0

\* Every start but the one under way or the one that succeeded has failed or was
\* recovered.
StartsCounted ==
    /\ \A j \in Jobs :
         execution[j].started <= execution[j].failed + recovered[j]
             + (IF job[j].status \in {"running", "completed"} THEN 1 ELSE 0)
    /\ \A w \in Workers, s \in Slots :
         thread[w][s].pc = "failed" =>
             LET j == thread[w][s].job IN
             execution[j].started <= execution[j].failed + recovered[j]

Limit(j) == IF MaxRetries[j] = 0 THEN 1 ELSE MaxRetries[j]

\* A job that is still to be started has a start left.
StartLeft ==
    \A j \in Jobs : job[j].status \in {"absent", "queued", "scheduled", "claimed"} =>
        execution[j].started < recovered[j] + Limit(j)

AttemptInv == SafeInv /\ PcIsStatus /\ StartsCounted /\ StartLeft /\ AttemptsBounded

-----------------------------------------------------------------------------
(* What keeps jobs from being stranded by crashes, shutdowns and prunes.   *)

\* The job of a thread is assigned to its worker.
BusyOwned ==
    \A w \in Workers, s \in Slots : Busy(w, s) => job[thread[w][s].job].worker = w

\* A living worker has a row, which is active unless it was decommissioned.
LiveIsActive ==
    \A w \in Workers : process[w] \in Alive =>
        \/ row[w].status = "active"
        \/ row[w].status = "dead" /\ "decommission" \in Faults

CrashKnown == \A w \in Workers : process[w] = "crashed" => "crash" \in Faults

\* The worker in the reaper's hand is one it found, and none of them was marked yet.
FoundIsActive ==
    /\ \A w \in reaper.found : row[w].status = "active"
    /\ reaper.pc \in {"recover", "mark"} => reaper.worker \in reaper.found

\* What the reaper read is still all there is to recover; afterwards nothing is.
OrphansKnown ==
    /\ reaper.pc = "recover" => reaper.jobs = Orphans(reaper.worker)
    /\ reaper.pc = "mark" => Orphans(reaper.worker) = {}

StrandInv ==
    /\ SafeInv
    /\ BusyOwned
    /\ LiveIsActive
    /\ CrashKnown
    /\ FoundIsActive
    /\ OrphansKnown
    /\ NoStrandedJob
=============================================================================
