----------------------------- MODULE JobCluster -----------------------------
(***************************************************************************)
(* The life of a submitted job on a cluster of worker processes:           *)
(*                                                                         *)
(*   workers/main_worker.py          the worker loop (claim, heartbeat,    *)
(*                                   drain, deregister)                    *)
(*   services/executor_service.py    one thread per claimed job            *)
(*   services/retry_service.py       retry or dead letter                  *)
(*   services/reaper_service.py      recovery of the jobs of dead workers  *)
(*   services/scheduler_service.py   promotion of delayed jobs             *)
(*   services/dlq_service.py         dead letters and their replay         *)
(*   api/v1/endpoints/workers.py     decommission and prune                *)
(*                                                                         *)
(* One action is one database transaction, so the processes interleave     *)
(* exactly where the code releases its rows.  What an ORM session read     *)
(* before a commit stays in the session (expire_on_commit is off), so each *)
(* thread and the reaper carry the values they cached and write them back  *)
(* without looking at the row again.                                       *)
(*                                                                         *)
(* Time is abstract: a delayed job becomes due, a payload ends and the     *)
(* heartbeat of a process that stopped beating expires at any moment.      *)
(***************************************************************************)
EXTENDS Integers, FiniteSets, Functions

CONSTANTS
    Jobs,         \* rows of the jobs table, now or later
    Submitted,    \* those there at the start; the others are for replays
    Workers,      \* identities of worker processes; a restart takes a fresh one
    Slots,        \* places of active_futures, the concurrency of a worker
    MaxRetries,   \* the max_retries column of each job
    Faults,       \* the kinds of disturbance the environment may inject
    FaultBudget,  \* how many of them
    NoWorker,     \* NULL in jobs.worker_id
    NoJob         \* the job of an idle slot

FaultKinds ==
    {"crash",         \* a worker process is killed
     "stall",         \* a live worker loop misses its heartbeats
     "long_drain",    \* a draining worker outlives the stale threshold
     "shutdown",      \* SIGTERM
     "decommission",  \* DELETE /workers/{id}
     "prune",         \* DELETE /workers/dead
     "replay",        \* POST /dlq/{id}/retry
     "db_error",      \* a statement of a worker or of one of its threads fails
     "reaper_crash"}  \* the reaper dies or its cycle raises

ASSUME ClusterAssumption ==
    /\ Submitted \subseteq Jobs
    /\ MaxRetries \in [Jobs -> Nat]
    /\ Faults \subseteq FaultKinds
    /\ FaultBudget \in Nat
    /\ NoWorker \notin Workers
    /\ NoJob \notin Jobs

VARIABLES
    job,         \* jobs: status, worker_id, retry_count
    dlq,         \* jobs with a row in dead_letter_entries
    clones,      \* history: how many rows replays inserted for each job; no
                 \* column tells a clone from any other job
    execution,   \* job_executions: rows inserted for each job, and how many
                 \* of them were closed as completed or as failed
    recovered,   \* job_logs: "Job recovered by Reaper" rows of each job
    row,         \* workers: status and whether last_heartbeat_at is recent
    process,     \* where each worker process is in its loop
    thread,      \* the executor thread in each slot of each worker
    reaper,      \* the reaper process
    faultsLeft   \* disturbances still to come

vars == <<job, dlq, clones, execution, recovered, row, process, thread, reaper,
          faultsLeft>>

\* An absent job has no row yet.
JobStatus == {"absent", "queued", "scheduled", "claimed", "running", "completed", "dead"}
Held == {"claimed", "running"}
Final == {"completed", "dead"}

Idle == [pc |-> "idle", job |-> NoJob, retry_count |-> 0, status |-> "queued"]
Resting == [pc |-> "idle", found |-> {}, worker |-> NoWorker,
            jobs |-> {}, retry_count |-> [j \in Jobs |-> 0]]

Alive == {"poll", "beat", "beating", "draining"}
Exists(w) == row[w].status # "absent"
Live(w, s) == process[w] \in Alive /\ thread[w][s].pc # "idle"

Init ==
    /\ job = [j \in Jobs |->
                 [status |-> IF j \in Submitted THEN "queued" ELSE "absent",
                  worker |-> NoWorker, retry_count |-> 0]]
    /\ dlq = {}
    /\ clones = [j \in Jobs |-> 0]
    /\ execution = [j \in Jobs |-> [started |-> 0, completed |-> 0, failed |-> 0]]
    /\ recovered = [j \in Jobs |-> 0]
    /\ row = [w \in Workers |-> [status |-> "absent", fresh |-> FALSE]]
    /\ process = [w \in Workers |-> "new"]
    /\ thread = [w \in Workers |-> [s \in Slots |-> Idle]]
    /\ reaper = Resting
    /\ faultsLeft = FaultBudget

\* One disturbance of the given kind happens now.
Fault(kind) ==
    /\ kind \in Faults
    /\ faultsLeft > 0
    /\ faultsLeft' = faultsLeft - 1

-----------------------------------------------------------------------------
(* The worker loop                                                         *)

Register(w) ==
    /\ process[w] = "new"
    /\ row' = [row EXCEPT ![w] = [status |-> "active", fresh |-> TRUE]]
    /\ process' = [process EXCEPT ![w] = "poll"]
    /\ UNCHANGED <<job, dlq, clones, execution, recovered, thread, reaper,
                   faultsLeft>>

\* Mutant: the claim statement takes over jobs that are claimed already.
ClaimableHeld == {j \in Jobs : job[j].status \in {"queued", "claimed"}}

\* The rows the claim statement selects; SKIP LOCKED may hide some of them.
Claimable == {j \in Jobs : job[j].status = "queued"}
FreeSlots(w) == {s \in Slots : thread[w][s].pc = "idle"}

ClaimedRows(w, batch) ==
    [j \in Jobs |-> IF j \in batch
                    THEN [job[j] EXCEPT !.status = "claimed", !.worker = w]
                    ELSE job[j]]

\* claim_jobs commits and every claimed job goes to a thread of the pool.  The
\* foreign key of worker_id refuses the claim of a pruned worker: the loop
\* swallows the error, skips the heartbeat and polls again.
Claim(w) ==
    /\ process[w] = "poll"
    /\ Exists(w)
    /\ \E used \in (SUBSET FreeSlots(w)) \ {{}} :
         \E task \in Injection(used, Claimable) :
           /\ job' = ClaimedRows(w, Range(task))
           /\ thread' = [thread EXCEPT ![w] = [s \in Slots |->
                 IF s \in used
                 THEN [Idle EXCEPT !.pc = "dispatched", !.job = task[s]]
                 ELSE thread[w][s]]]
    /\ process' = [process EXCEPT ![w] = "beat"]
    /\ UNCHANGED <<dlq, clones, execution, recovered, row, reaper, faultsLeft>>

\* The claim commits, the query that reads the jobs back raises: they are
\* claimed and no thread will ever run them.
ClaimThenError(w) ==
    /\ Fault("db_error")
    /\ process[w] = "poll"
    /\ Exists(w)
    /\ \E batch \in (SUBSET Claimable) \ {{}} :
         /\ Cardinality(batch) <= Cardinality(FreeSlots(w))
         /\ job' = ClaimedRows(w, batch)
    /\ UNCHANGED <<dlq, clones, execution, recovered, row, process, thread,
                   reaper>>

\* Nothing to claim or no slot left.
PollNothing(w) ==
    /\ process[w] = "poll"
    /\ Claimable = {} \/ FreeSlots(w) = {}
    /\ process' = [process EXCEPT ![w] = "beat"]
    /\ UNCHANGED <<job, dlq, clones, execution, recovered, row, thread, reaper,
                   faultsLeft>>

NotDue(w) ==
    /\ process[w] = "beat"
    /\ process' = [process EXCEPT ![w] = "poll"]
    /\ UNCHANGED <<job, dlq, clones, execution, recovered, row, thread, reaper,
                   faultsLeft>>

\* update_heartbeat reads its row: a dead or missing row ends the loop.
ReadHeartbeat(w) ==
    /\ process[w] = "beat"
    /\ process' = [process EXCEPT
         ![w] = IF row[w].status = "active" THEN "beating" ELSE "draining"]
    /\ UNCHANGED <<job, dlq, clones, execution, recovered, row, thread, reaper,
                   faultsLeft>>

\* Mutant: the UPDATE of the heartbeat includes status = active.
WriteHeartbeatRevives(w) ==
    /\ process[w] = "beating"
    /\ row' = [row EXCEPT ![w] = IF Exists(w)
                                 THEN [status |-> "active", fresh |-> TRUE]
                                 ELSE row[w]]
    /\ process' = [process EXCEPT ![w] = "poll"]
    /\ UNCHANGED <<job, dlq, clones, execution, recovered, thread, reaper,
                   faultsLeft>>

\* ... and writes the time back.  status was read as active, so the ORM leaves
\* that column out of the UPDATE; the row may have gone in between.
WriteHeartbeat(w) ==
    /\ process[w] = "beating"
    /\ row' = [row EXCEPT ![w].fresh = Exists(w)]
    /\ process' = [process EXCEPT ![w] = "poll"]
    /\ UNCHANGED <<job, dlq, clones, execution, recovered, thread, reaper,
                   faultsLeft>>

\* Mutant: shutdown(wait=False), the process exits over its running threads.
DeregisterAtOnce(w) ==
    /\ process[w] = "draining"
    /\ row' = [row EXCEPT ![w] = IF Exists(w)
                                 THEN [status |-> "dead", fresh |-> TRUE]
                                 ELSE row[w]]
    /\ process' = [process EXCEPT ![w] = "exited"]
    /\ UNCHANGED <<job, dlq, clones, execution, recovered, thread, reaper,
                   faultsLeft>>

\* The pool is drained: deregister_worker and exit.
Deregister(w) ==
    /\ process[w] = "draining"
    /\ FreeSlots(w) = Slots
    /\ row' = [row EXCEPT ![w] = IF Exists(w)
                                 THEN [status |-> "dead", fresh |-> TRUE]
                                 ELSE row[w]]
    /\ process' = [process EXCEPT ![w] = "exited"]
    /\ UNCHANGED <<job, dlq, clones, execution, recovered, thread, reaper,
                   faultsLeft>>

-----------------------------------------------------------------------------
(* The executor thread in slot s of worker w: run_job                      *)

SetThread(w, s, value) == thread' = [thread EXCEPT ![w][s] = value]

\* The session reads the job and keeps what it read.  Nothing checks that the
\* job is still claimed, or by whom.
LoadJob(w, s) ==
    LET t == thread[w][s] IN
    /\ process[w] \in Alive
    /\ t.pc = "dispatched"
    /\ SetThread(w, s, [pc |-> "loaded", job |-> t.job,
                        retry_count |-> job[t.job].retry_count,
                        status |-> job[t.job].status])
    /\ UNCHANGED <<job, dlq, clones, execution, recovered, row, process,
                   reaper, faultsLeft>>

\* status = running is written unless the session already read it as running;
\* the execution row references the worker's row.
StartRun(w, s) ==
    LET t == thread[w][s] IN
    /\ process[w] \in Alive
    /\ t.pc = "loaded"
    /\ Exists(w)
    /\ job' = [job EXCEPT ![t.job].status =
                 IF t.status = "running" THEN @ ELSE "running"]
    /\ execution' = [execution EXCEPT ![t.job].started = @ + 1]
    /\ SetThread(w, s, [t EXCEPT !.pc = "running"])
    /\ UNCHANGED <<dlq, clones, recovered, row, process, reaper, faultsLeft>>

\* The worker's row was pruned: the insert fails and the thread gives up.
StartRefused(w, s) ==
    /\ process[w] \in Alive
    /\ thread[w][s].pc = "loaded"
    /\ ~Exists(w)
    /\ SetThread(w, s, Idle)
    /\ UNCHANGED <<job, dlq, clones, execution, recovered, row, process,
                   reaper, faultsLeft>>

\* The payload returned: the job and its execution are completed.
CompleteRun(w, s) ==
    LET t == thread[w][s] IN
    /\ process[w] \in Alive
    /\ t.pc = "running"
    /\ job' = [job EXCEPT ![t.job].status = "completed"]
    /\ execution' = [execution EXCEPT ![t.job].completed = @ + 1]
    /\ SetThread(w, s, Idle)
    /\ UNCHANGED <<dlq, clones, recovered, row, process, reaper, faultsLeft>>

\* Mutant: both the executor and the retry service count the failure.
FailRunCountedTwice(w, s) ==
    LET t == thread[w][s] IN
    /\ process[w] \in Alive
    /\ t.pc = "running"
    /\ job' = [job EXCEPT ![t.job].retry_count = t.retry_count + 2]
    /\ execution' = [execution EXCEPT ![t.job].failed = @ + 1]
    /\ SetThread(w, s, [t EXCEPT !.pc = "failed", !.retry_count = @ + 2])
    /\ UNCHANGED <<dlq, clones, recovered, row, process, reaper, faultsLeft>>

\* Mutant: the execution row stays open.
FailRunUnclosed(w, s) ==
    LET t == thread[w][s] IN
    /\ process[w] \in Alive
    /\ t.pc = "running"
    /\ job' = [job EXCEPT ![t.job].retry_count = t.retry_count + 1]
    /\ SetThread(w, s, [t EXCEPT !.pc = "failed", !.retry_count = @ + 1])
    /\ UNCHANGED <<dlq, clones, execution, recovered, row, process, reaper,
                   faultsLeft>>

\* The payload raised or overran its timeout.  retry_count is computed from the
\* cached value; the status follows in a second transaction.
FailRun(w, s) ==
    LET t == thread[w][s] IN
    /\ process[w] \in Alive
    /\ t.pc = "running"
    /\ job' = [job EXCEPT ![t.job].retry_count = t.retry_count + 1]
    /\ execution' = [execution EXCEPT ![t.job].failed = @ + 1]
    /\ SetThread(w, s, [t EXCEPT !.pc = "failed", !.retry_count = @ + 1])
    /\ UNCHANGED <<dlq, clones, recovered, row, process, reaper, faultsLeft>>

\* Mutants: one attempt too many, one too few.
AttemptsLeftTooMany(t) == t.retry_count <= MaxRetries[t.job]
AttemptsLeftTooFew(t) == t.retry_count + 1 < MaxRetries[t.job]

\* calculate_retry_delay returns a delay, and not None.
AttemptsLeft(t) == t.retry_count < MaxRetries[t.job]

\* schedule_retry with attempts left: the job waits for its next scheduled_at.
ScheduleRetry(w, s) ==
    LET t == thread[w][s] IN
    /\ process[w] \in Alive
    /\ t.pc = "failed"
    /\ AttemptsLeft(t)
    /\ job' = [job EXCEPT ![t.job].status = "scheduled"]
    /\ SetThread(w, s, Idle)
    /\ UNCHANGED <<dlq, clones, execution, recovered, row, process, reaper,
                   faultsLeft>>

\* schedule_retry with none left: move_to_dlq upserts the entry and the status.
MoveToDlq(w, s) ==
    LET t == thread[w][s] IN
    /\ process[w] \in Alive
    /\ t.pc = "failed"
    /\ ~AttemptsLeft(t)
    /\ job' = [job EXCEPT ![t.job].status = "dead"]
    /\ dlq' = dlq \union {t.job}
    /\ SetThread(w, s, Idle)
    /\ UNCHANGED <<clones, execution, recovered, row, process, reaper,
                   faultsLeft>>

\* A statement of the thread fails: run_job rolls back and swallows the error.
ExecutorError(w, s) ==
    /\ Fault("db_error")
    /\ Live(w, s)
    /\ SetThread(w, s, Idle)
    /\ UNCHANGED <<job, dlq, clones, execution, recovered, row, process,
                   reaper>>

-----------------------------------------------------------------------------
(* The scheduler's promotion of due jobs                                   *)

PromoteDueJobs ==
    /\ \E due \in (SUBSET {j \in Jobs : job[j].status = "scheduled"}) \ {{}} :
         job' = [j \in Jobs |-> IF j \in due
                                THEN [job[j] EXCEPT !.status = "queued"]
                                ELSE job[j]]
    /\ UNCHANGED <<dlq, clones, execution, recovered, row, process, thread,
                   reaper, faultsLeft>>

-----------------------------------------------------------------------------
(* The reaper cycle                                                        *)

\* Mutant: find_dead_workers forgets the heartbeat cutoff.
StaleNoCutoff(w) == row[w].status = "active"

\* find_dead_workers: active, and the last heartbeat is older than the threshold.
Stale(w) == row[w].status = "active" /\ ~row[w].fresh

FindDeadWorkers ==
    /\ reaper.pc = "idle"
    /\ reaper' = [reaper EXCEPT
         !.found = {w \in Workers : Stale(w)},
         !.pc = IF \E w \in Workers : Stale(w) THEN "next" ELSE "idle"]
    /\ UNCHANGED <<job, dlq, clones, execution, recovered, row, process,
                   thread, faultsLeft>>

\* Mutants: only running jobs are recovered; every job of the worker is.
OrphansRunningOnly(w) == {j \in Jobs : job[j].worker = w /\ job[j].status = "running"}
OrphansAnyStatus(w) == {j \in Jobs : job[j].worker = w}

Orphans(w) == {j \in Jobs : job[j].worker = w /\ job[j].status \in Held}

\* recover_jobs_for_worker selects the jobs without a lock ...
ReadOrphans(w) ==
    /\ reaper.pc = "next"
    /\ w \in reaper.found
    /\ reaper' = [reaper EXCEPT
         !.pc = IF Orphans(w) = {} THEN "mark" ELSE "recover",
         !.worker = w,
         !.jobs = Orphans(w),
         !.retry_count = [j \in Jobs |-> IF j \in Orphans(w)
                                         THEN job[j].retry_count ELSE 0]]
    /\ UNCHANGED <<job, dlq, clones, execution, recovered, row, process,
                   thread, faultsLeft>>

\* Mutant: the recovery is not counted.
RecoverOrphansUncounted ==
    /\ reaper.pc = "recover"
    /\ job' = [j \in Jobs |->
         IF j \in reaper.jobs
         THEN [job[j] EXCEPT !.status = "queued", !.worker = NoWorker]
         ELSE job[j]]
    /\ recovered' = [j \in Jobs |-> IF j \in reaper.jobs THEN recovered[j] + 1
                                                         ELSE recovered[j]]
    /\ reaper' = [Resting EXCEPT !.pc = "mark", !.found = reaper.found,
                                 !.worker = reaper.worker]
    /\ UNCHANGED <<dlq, clones, execution, row, process, thread, faultsLeft>>

\* ... and requeues them from the values it read.
RecoverOrphans ==
    /\ reaper.pc = "recover"
    /\ job' = [j \in Jobs |->
         IF j \in reaper.jobs
         THEN [status |-> "queued", worker |-> NoWorker,
               retry_count |-> reaper.retry_count[j] + 1]
         ELSE job[j]]
    /\ recovered' = [j \in Jobs |-> IF j \in reaper.jobs THEN recovered[j] + 1
                                                         ELSE recovered[j]]
    /\ reaper' = [Resting EXCEPT !.pc = "mark", !.found = reaper.found,
                                 !.worker = reaper.worker]
    /\ UNCHANGED <<dlq, clones, execution, row, process, thread, faultsLeft>>

MarkWorkerAsDead ==
    LET w == reaper.worker
        rest == reaper.found \ {w}
    IN
    /\ reaper.pc = "mark"
    /\ row' = [row EXCEPT ![w].status = IF Exists(w) THEN "dead" ELSE @]
    /\ reaper' = [Resting EXCEPT !.pc = IF rest = {} THEN "idle" ELSE "next",
                                 !.found = rest]
    /\ UNCHANGED <<job, dlq, clones, execution, recovered, process, thread,
                   faultsLeft>>

\* The cycle ends early; the next one starts from the database.
ReaperCrash ==
    /\ Fault("reaper_crash")
    /\ reaper.pc # "idle"
    /\ reaper' = Resting
    /\ UNCHANGED <<job, dlq, clones, execution, recovered, row, process,
                   thread>>

-----------------------------------------------------------------------------
(* The environment: crashes, signals, time and the administrator           *)

Crash(w) ==
    /\ Fault("crash")
    /\ process[w] \in Alive
    /\ process' = [process EXCEPT ![w] = "crashed"]
    /\ thread' = [thread EXCEPT ![w] = [s \in Slots |-> Idle]]
    /\ UNCHANGED <<job, dlq, clones, execution, recovered, row, reaper>>

\* The loop tests is_shutting_down() before each iteration.
Shutdown(w) ==
    /\ Fault("shutdown")
    /\ process[w] = "poll"
    /\ process' = [process EXCEPT ![w] = "draining"]
    /\ UNCHANGED <<job, dlq, clones, execution, recovered, row, thread,
                   reaper>>

Expire(w) == row' = [row EXCEPT ![w].fresh = FALSE]

\* The heartbeat of a process that is gone expires.
HeartbeatExpires(w) ==
    /\ process[w] = "crashed"
    /\ row[w].status = "active"
    /\ row[w].fresh
    /\ Expire(w)
    /\ UNCHANGED <<job, dlq, clones, execution, recovered, process, thread,
                   reaper, faultsLeft>>

\* The loop is blocked for longer than the threshold.
Stall(w) ==
    /\ Fault("stall")
    /\ process[w] \in {"poll", "beat", "beating"}
    /\ row[w].fresh
    /\ Expire(w)
    /\ UNCHANGED <<job, dlq, clones, execution, recovered, process, thread,
                   reaper>>

\* A draining process sends no heartbeats, however long its payloads take.
LongDrain(w) ==
    /\ Fault("long_drain")
    /\ process[w] = "draining"
    /\ row[w].fresh
    /\ Expire(w)
    /\ UNCHANGED <<job, dlq, clones, execution, recovered, process, thread,
                   reaper>>

\* delete_worker marks the row and leaves the jobs alone.
Decommission(w) ==
    /\ Fault("decommission")
    /\ row[w].status = "active"
    /\ row' = [row EXCEPT ![w].status = "dead"]
    /\ UNCHANGED <<job, dlq, clones, execution, recovered, process, thread,
                   reaper>>

\* prune_dead_workers deletes every dead row; the foreign key of jobs.worker_id
\* is ON DELETE SET NULL.
PruneDeadWorkers ==
    LET gone == {w \in Workers : row[w].status = "dead"} IN
    /\ Fault("prune")
    /\ gone # {}
    /\ row' = [w \in Workers |-> IF w \in gone
                                 THEN [status |-> "absent", fresh |-> FALSE]
                                 ELSE row[w]]
    /\ job' = [j \in Jobs |-> IF job[j].worker \in gone
                              THEN [job[j] EXCEPT !.worker = NoWorker]
                              ELSE job[j]]
    /\ UNCHANGED <<dlq, clones, execution, recovered, process, thread, reaper>>

-----------------------------------------------------------------------------
(* The replay of a dead letter                                             *)

\* Mutant: the job itself is queued again, and its entry stays.
RetryDeadJobInPlace(j) ==
    /\ Fault("replay")
    /\ j \in dlq
    /\ job' = [job EXCEPT ![j].status = "queued"]
    /\ UNCHANGED <<dlq, clones, execution, recovered, row, process, thread,
                   reaper>>

\* retry_dead_job inserts a clone, queued and never tried (as Init has every row
\* that is absent), and deletes the entry.  The job itself is not looked at and
\* keeps its status.  The entry is read without a lock: a second request that
\* read it before the first one deleted it deletes nothing and inserts another
\* clone.
RetryDeadJob(j) ==
    /\ Fault("replay")
    /\ \E clone \in Jobs :
         /\ job[clone].status = "absent"
         /\ MaxRetries[clone] = MaxRetries[j]
         /\ job' = [job EXCEPT ![clone].status = "queued"]
    /\ \/ j \in dlq /\ dlq' = dlq \ {j}
       \/ clones[j] > 0 /\ dlq' = dlq
    /\ clones' = [clones EXCEPT ![j] = @ + 1]
    /\ UNCHANGED <<execution, recovered, row, process, thread, reaper>>

-----------------------------------------------------------------------------

Loop(w) ==
    \/ Register(w)
    \/ Claim(w)
    \/ ClaimThenError(w)
    \/ PollNothing(w)
    \/ NotDue(w)
    \/ ReadHeartbeat(w)
    \/ WriteHeartbeat(w)
    \/ Deregister(w)

RunJob(w, s) ==
    \/ LoadJob(w, s)
    \/ StartRun(w, s)
    \/ StartRefused(w, s)
    \/ CompleteRun(w, s)
    \/ FailRun(w, s)
    \/ ScheduleRetry(w, s)
    \/ MoveToDlq(w, s)
    \/ ExecutorError(w, s)

ReaperCycle ==
    \/ FindDeadWorkers
    \/ \E w \in Workers : ReadOrphans(w)
    \/ RecoverOrphans
    \/ MarkWorkerAsDead
    \/ ReaperCrash

Disturb(w) ==
    \/ Crash(w)
    \/ Shutdown(w)
    \/ HeartbeatExpires(w)
    \/ Stall(w)
    \/ LongDrain(w)
    \/ Decommission(w)

Next ==
    \/ \E w \in Workers : Loop(w) \/ Disturb(w)
    \/ \E w \in Workers, s \in Slots : RunJob(w, s)
    \/ PromoteDueJobs
    \/ ReaperCycle
    \/ PruneDeadWorkers
    \/ \E j \in Jobs : RetryDeadJob(j)

Spec == Init /\ [][Next]_vars

-----------------------------------------------------------------------------
(* Fairness.  The loops of the worker and the reaper never block for good,  *)
(* a payload ends, and the operating system runs every thread.  A heartbeat *)
(* is due every few seconds, so the loop finds it due again and again.      *)

LoopBody(w) ==
    Claim(w) \/ PollNothing(w) \/ NotDue(w) \/ ReadHeartbeat(w)
             \/ WriteHeartbeat(w) \/ Deregister(w)

ThreadBody(w, s) ==
    LoadJob(w, s) \/ StartRun(w, s) \/ StartRefused(w, s) \/ CompleteRun(w, s)
                  \/ FailRun(w, s) \/ ScheduleRetry(w, s) \/ MoveToDlq(w, s)

ReaperBody ==
    FindDeadWorkers \/ (\E w \in Workers : ReadOrphans(w))
                    \/ RecoverOrphans \/ MarkWorkerAsDead

Fairness ==
    /\ \A w \in Workers : /\ WF_vars(Register(w))
                          /\ WF_vars(LoopBody(w))
                          /\ SF_vars(ReadHeartbeat(w))
                          /\ WF_vars(HeartbeatExpires(w))
                          /\ \A s \in Slots : WF_vars(ThreadBody(w, s))
    /\ WF_vars(PromoteDueJobs)
    /\ WF_vars(ReaperBody)

FairSpec == Spec /\ Fairness

-----------------------------------------------------------------------------
(* Properties                                                              *)

JobRow == [status : JobStatus, worker : Workers \union {NoWorker}, retry_count : Nat]
ExecutionRows == [started : Nat, completed : Nat, failed : Nat]
WorkerRow == [status : {"absent", "active", "dead"}, fresh : BOOLEAN]
ThreadState ==
    [pc : {"idle", "dispatched", "loaded", "running", "failed"},
     job : Jobs \union {NoJob}, retry_count : Nat, status : JobStatus]
ReaperState ==
    [pc : {"idle", "next", "recover", "mark"}, found : SUBSET Workers,
     worker : Workers \union {NoWorker}, jobs : SUBSET Jobs,
     retry_count : [Jobs -> Nat]]

\* Every variable keeps its type, and a busy thread has a job.
TypeOK ==
    /\ job \in [Jobs -> JobRow]
    /\ dlq \subseteq Jobs
    /\ clones \in [Jobs -> Nat]
    /\ execution \in [Jobs -> ExecutionRows]
    /\ recovered \in [Jobs -> Nat]
    /\ row \in [Workers -> WorkerRow]
    /\ process \in [Workers -> Alive \union {"new", "exited", "crashed"}]
    /\ thread \in [Workers -> [Slots -> ThreadState]]
    /\ \A w \in Workers, s \in Slots :
         thread[w][s].pc # "idle" => thread[w][s].job \in Jobs
    /\ reaper \in ReaperState
    /\ faultsLeft \in Nat

(* What holds while no live process is taken for dead, whatever crashes.    *)

\* At any time at most one thread of the whole cluster has a given job in
\* hand: the claim, the reaper and the retries never give it out twice.
OneThreadPerJob ==
    \A w1, w2 \in Workers, s1, s2 \in Slots :
        (Live(w1, s1) /\ Live(w2, s2) /\ thread[w1][s1].job = thread[w2][s2].job)
            => w1 = w2 /\ s1 = s2

InHand(j) == \E w \in Workers, s \in Slots : Live(w, s) /\ thread[w][s].job = j

\* A claimed or running job is in the hands of a thread, or of the reaper, or
\* assigned to a crashed worker that the reaper is still going to find.
NoStrandedJob ==
    \A j \in Jobs : job[j].status \in Held =>
        \/ InHand(j)
        \/ reaper.pc = "recover" /\ j \in reaper.jobs
        \/ \E w \in Workers : /\ job[j].worker = w
                              /\ row[w].status = "active"
                              /\ process[w] = "crashed"

\* retry_count is the number of failed executions plus the number of
\* recoveries by the reaper: no increment is lost and none is made twice, in
\* particular when a worker dies between FailRun and ScheduleRetry.
RetryAccounting ==
    \A j \in Jobs : job[j].retry_count = execution[j].failed + recovered[j]

\* A job is started at most max(1, max_retries) times, plus once for every
\* recovery by the reaper, which requeues without looking at max_retries.
AttemptsBounded ==
    \A j \in Jobs :
        execution[j].started <= recovered[j] + (IF MaxRetries[j] = 0 THEN 1 ELSE MaxRetries[j])

\* The job has its dead letter entry, or a replay took the entry and left a
\* clone of the job for it.
GivenUp(j) == j \in dlq \/ clones[j] > 0

\* The jobs that were given up are the dead ones, all of them and nothing else:
\* none is dead without an entry or a clone that takes over, and neither the
\* queue nor a replay ever touches a job that may still run.
DeadLetterExact == \A j \in Jobs : job[j].status = "dead" <=> GivenUp(j)

\* Every job that was submitted or cloned ends completed or dead, whatever
\* crashes, as long as one worker survives.
EveryJobEnds == \A j \in Jobs : <>[](job[j].status \in Final \union {"absent"})

(* What holds under every disturbance.                                      *)

\* No heartbeat revives a worker that was declared dead or decommissioned, not
\* even one that read its row just before.
DeadWorkersStayDead ==
    [][\A w \in Workers : row[w].status = "dead" => row'[w].status # "active"]_vars

\* Stale sessions may lose increments of retry_count, they never invent one.
RetryNeverOvercounted ==
    \A j \in Jobs : job[j].retry_count <= execution[j].failed + recovered[j]

\* A job is only completed by an execution that completed; it is only dead after
\* a failure, with its attempts used up, and with an entry or a clone.
FinalIsEarned ==
    \A j \in Jobs :
        /\ job[j].status = "completed" => execution[j].completed > 0
        /\ job[j].status = "dead" =>
              /\ GivenUp(j)
              /\ execution[j].failed > 0
              /\ execution[j].failed + recovered[j] >= MaxRetries[j]

\* The threads that have a job in hand.
Hands(j) ==
    {h \in Workers \X Slots : thread[h[1]][h[2]].pc # "idle" /\ thread[h[1]][h[2]].job = j}

\* The executions of a job may overlap, and a job may be completed while another
\* thread still runs it or dead letters it, but every hand and every outcome
\* beyond the first is paid for by a recovery by the reaper.
OverlapsArePaid ==
    \A j \in Jobs :
        Cardinality(Hands(j)) + execution[j].completed + (IF GivenUp(j) THEN 1 ELSE 0)
            <= 1 + recovered[j]

\* So is every start beyond the first that no failed execution explains, even
\* though retry_count may have lost the failure.
StartsArePaid ==
    \A j \in Jobs : execution[j].started <= 1 + execution[j].failed + recovered[j]

(* What the documentation says and the code does not do.                    *)

\* ARCHITECTURE.md: no two workers process the same job at the same time.
NeverProcessedTwiceAtOnce ==
    \A w1, w2 \in Workers, s1, s2 \in Slots :
        (/\ Live(w1, s1) /\ thread[w1][s1].pc = "running"
         /\ Live(w2, s2) /\ thread[w2][s2].pc = "running"
         /\ thread[w1][s1].job = thread[w2][s2].job) => w1 = w2
=============================================================================
