---------------------- MODULE JobClusterFaults_proofs ----------------------
(***************************************************************************)
(* Proofs about JobCluster: what holds under every disturbance (ChaosInv,  *)
(* PaidInv), what bounds the attempts (AttemptInv), what strands no job    *)
(* (StrandInv), and that the cluster implements JobContract.               *)
(***************************************************************************)
EXTENDS JobCluster_proofs, JobClusterContract, FiniteSetTheorems

USE DEF GivenUp

-----------------------------------------------------------------------------
(* What the steps do, field by field                                       *)

\* A step of a thread touches its own slot and the row of its own job, and no
\* counter goes down.
LEMMA RunJobFrame ==
  ASSUME TypeOK, NEW w \in Workers, NEW s \in Slots, RunJob(w, s)
  PROVE  /\ process[w] \in Alive
         /\ thread[w][s].pc # "idle" /\ thread[w][s].job \in Jobs
         /\ \A x \in Workers, y \in Slots :
              (x # w \/ y # s) => thread'[x][y] = thread[x][y]
         /\ \A k \in Jobs : k # thread[w][s].job =>
              job'[k] = job[k] /\ execution'[k] = execution[k]
         /\ dlq \subseteq dlq'
         /\ UNCHANGED <<clones, recovered, row, process, reaper>>
<1>. DEFINE t == thread[w][s]
<1>1. process[w] \in Alive /\ t.pc # "idle"
  BY DEF RunJob, LoadJob, StartRun, StartRefused, CompleteRun, FailRun,
         ScheduleRetry, MoveToDlq, ExecutorError, Live
<1>2. t.job \in Jobs
  BY <1>1 DEF TypeOK
<1>3. \E v : SetThread(w, s, v)
  BY DEF RunJob, LoadJob, StartRun, StartRefused, CompleteRun, FailRun,
         ScheduleRetry, MoveToDlq, ExecutorError
<1>4. \A x \in Workers, y \in Slots :
        (x # w \/ y # s) => thread'[x][y] = thread[x][y]
  BY <1>3, SetThreadValue DEF TypeOK
<1>5. \A k \in Jobs : k # t.job => job'[k] = job[k]
  BY <1>2 DEF TypeOK, RunJob, LoadJob, StartRun, StartRefused, CompleteRun, FailRun,
         ScheduleRetry, MoveToDlq, ExecutorError
<1>6. \A k \in Jobs : k # t.job => execution'[k] = execution[k]
  BY <1>2 DEF TypeOK, RunJob, LoadJob, StartRun, StartRefused, CompleteRun, FailRun,
         ScheduleRetry, MoveToDlq, ExecutorError
<1>7. /\ dlq \subseteq dlq'
      /\ UNCHANGED <<clones, recovered, row, process, reaper>>
  BY DEF RunJob, LoadJob, StartRun, StartRefused, CompleteRun, FailRun,
         ScheduleRetry, MoveToDlq, ExecutorError
<1>. QED
  BY <1>1, <1>2, <1>4, <1>5, <1>6, <1>7

\* What becomes of the thread, its job and its executions, action by action.
Loads(t, u, r, q, e, f) ==
    /\ t.pc = "dispatched" /\ u.pc = "loaded" /\ u.job = t.job
    /\ u.retry_count = r.retry_count /\ u.status = r.status
    /\ q = r /\ f = e

Starts(t, u, r, q, e, f) ==
    /\ t.pc = "loaded" /\ u.pc = "running" /\ u.job = t.job
    /\ u.retry_count = t.retry_count
    /\ q.status = IF t.status = "running" THEN r.status ELSE "running"
    /\ q.retry_count = r.retry_count /\ q.worker = r.worker
    /\ f.started = e.started + 1 /\ f.completed = e.completed /\ f.failed = e.failed

GivesUp(t, u, r, q, e, f) == u.pc = "idle" /\ q = r /\ f = e

Completes(t, u, r, q, e, f) ==
    /\ t.pc = "running" /\ u.pc = "idle"
    /\ q.status = "completed" /\ q.retry_count = r.retry_count /\ q.worker = r.worker
    /\ f.started = e.started /\ f.completed = e.completed + 1 /\ f.failed = e.failed

FailsOnce(t, u, r, q, e, f) ==
    /\ t.pc = "running" /\ u.pc = "failed" /\ u.job = t.job
    /\ u.retry_count = t.retry_count + 1
    /\ q.status = r.status /\ q.retry_count = t.retry_count + 1 /\ q.worker = r.worker
    /\ f.started = e.started /\ f.completed = e.completed /\ f.failed = e.failed + 1

Retries(t, u, r, q, e, f) ==
    /\ t.pc = "failed" /\ u.pc = "idle" /\ t.retry_count < MaxRetries[t.job]
    /\ q.status = "scheduled" /\ q.retry_count = r.retry_count /\ q.worker = r.worker
    /\ f = e

Buries(t, u, r, q, e, f) ==
    /\ t.pc = "failed" /\ u.pc = "idle" /\ t.retry_count >= MaxRetries[t.job]
    /\ q.status = "dead" /\ q.retry_count = r.retry_count /\ q.worker = r.worker
    /\ f = e

LEMMA RunJobEffect ==
  ASSUME TypeOK, NEW w \in Workers, NEW s \in Slots, RunJob(w, s)
  PROVE  LET t == thread[w][s]  u == thread'[w][s]
             r == job[t.job]  q == job'[t.job]
             e == execution[t.job]  f == execution'[t.job]
         IN  \/ Loads(t, u, r, q, e, f)
             \/ Starts(t, u, r, q, e, f) /\ Exists(w)
             \/ GivesUp(t, u, r, q, e, f)
                  /\ ((~Exists(w) /\ t.pc = "loaded") \/ "db_error" \in Faults)
             \/ Completes(t, u, r, q, e, f)
             \/ FailsOnce(t, u, r, q, e, f)
             \/ Retries(t, u, r, q, e, f)
             \/ Buries(t, u, r, q, e, f) /\ t.job \in dlq'
<1>. DEFINE t == thread[w][s]  u == thread'[w][s]
            r == job[t.job]  q == job'[t.job]
            e == execution[t.job]  f == execution'[t.job]
<1>1. /\ t \in ThreadState /\ t.job \in Jobs
      /\ r \in JobRow /\ e \in ExecutionRows /\ MaxRetries[t.job] \in Nat
  BY RunJobFrame, ClusterAssumption DEF TypeOK
<1>2. \A v : SetThread(w, s, v) => u = v
  BY SetThreadValue DEF TypeOK
<1>3. CASE LoadJob(w, s)
  BY <1>1, <1>2, <1>3 DEF LoadJob, Loads
<1>4. CASE StartRun(w, s)
  <2>1. u = [t EXCEPT !.pc = "running"]
    BY <1>2, <1>4 DEF StartRun
  <2>2. /\ u.pc = "running" /\ u.job = t.job /\ u.retry_count = t.retry_count
    BY <1>1, <2>1 DEF ThreadState
  <2>3. /\ q.status = IF t.status = "running" THEN r.status ELSE "running"
        /\ q.retry_count = r.retry_count /\ q.worker = r.worker
    BY <1>1, <1>4 DEF StartRun, TypeOK, JobRow
  <2>4. f.started = e.started + 1 /\ f.completed = e.completed /\ f.failed = e.failed
    BY <1>1, <1>4 DEF StartRun, TypeOK, ExecutionRows
  <2>. QED
    BY <1>4, <2>2, <2>3, <2>4 DEF StartRun, Starts
<1>5. CASE StartRefused(w, s) \/ ExecutorError(w, s)
  BY <1>2, <1>5, IdleType DEF StartRefused, ExecutorError, Fault, GivesUp
<1>6. CASE CompleteRun(w, s)
  <2>1. u.pc = "idle"
    BY <1>2, <1>6, IdleType DEF CompleteRun
  <2>2. q.status = "completed" /\ q.retry_count = r.retry_count /\ q.worker = r.worker
    BY <1>1, <1>6 DEF CompleteRun, TypeOK, JobRow
  <2>3. f.started = e.started /\ f.completed = e.completed + 1 /\ f.failed = e.failed
    BY <1>1, <1>6 DEF CompleteRun, TypeOK, ExecutionRows
  <2>. QED
    BY <1>6, <2>1, <2>2, <2>3 DEF CompleteRun, Completes
<1>7. CASE FailRun(w, s)
  <2>1. u = [t EXCEPT !.pc = "failed", !.retry_count = @ + 1]
    BY <1>2, <1>7 DEF FailRun
  <2>2. u.pc = "failed" /\ u.job = t.job /\ u.retry_count = t.retry_count + 1
    BY <1>1, <2>1 DEF ThreadState
  <2>3. /\ q.status = r.status /\ q.retry_count = t.retry_count + 1
        /\ q.worker = r.worker
    BY <1>1, <1>7 DEF FailRun, TypeOK, JobRow
  <2>4. f.started = e.started /\ f.completed = e.completed /\ f.failed = e.failed + 1
    BY <1>1, <1>7 DEF FailRun, TypeOK, ExecutionRows
  <2>. QED
    BY <1>7, <2>2, <2>3, <2>4 DEF FailRun, FailsOnce
<1>8. CASE ScheduleRetry(w, s)
  <2>1. u.pc = "idle"
    BY <1>2, <1>8, IdleType DEF ScheduleRetry
  <2>2. q.status = "scheduled" /\ q.retry_count = r.retry_count /\ q.worker = r.worker
    BY <1>1, <1>8 DEF ScheduleRetry, TypeOK, JobRow
  <2>. QED
    BY <1>8, <2>1, <2>2 DEF ScheduleRetry, AttemptsLeft, Retries
<1>9. CASE MoveToDlq(w, s)
  <2>1. u.pc = "idle"
    BY <1>2, <1>9, IdleType DEF MoveToDlq
  <2>2. q.status = "dead" /\ q.retry_count = r.retry_count /\ q.worker = r.worker
    BY <1>1, <1>9 DEF MoveToDlq, TypeOK, JobRow
  <2>3. t.retry_count >= MaxRetries[t.job]
    BY <1>1, <1>9 DEF MoveToDlq, AttemptsLeft, ThreadState
  <2>. QED
    BY <1>9, <2>1, <2>2, <2>3 DEF MoveToDlq, Buries
<1>. QED
  BY <1>3, <1>4, <1>5, <1>6, <1>7, <1>8, <1>9 DEF RunJob

\* The worker loop only claims: queued jobs become its own, and so does a slot.
LEMMA LoopEffect ==
  ASSUME TypeOK, NEW w \in Workers, Loop(w)
  PROVE  /\ UNCHANGED <<dlq, clones, execution, recovered, reaper>>
         /\ \A k \in Jobs : job'[k] # job[k] =>
              /\ process[w] = "poll" /\ job[k].status = "queued"
              /\ job'[k].status = "claimed" /\ job'[k].worker = w
              /\ job'[k].retry_count = job[k].retry_count
              /\ \/ \E y \in Slots : thread'[w][y].pc # "idle" /\ thread'[w][y].job = k
                 \/ "db_error" \in Faults
         /\ \A x \in Workers, y \in Slots : thread'[x][y] # thread[x][y] =>
              /\ x = w /\ thread[x][y].pc = "idle" /\ thread'[x][y].pc = "dispatched"
              /\ process[w] = "poll" /\ process'[w] = "beat"
              /\ LET k == thread'[x][y].job IN
                 /\ k \in Jobs /\ job[k].status = "queued"
                 /\ job'[k].status = "claimed" /\ job'[k].worker = w
<1>1. CASE Claim(w)
  <2>1. PICK used \in (SUBSET FreeSlots(w)) \ {{}} :
          \E task \in Injection(used, Claimable) :
            /\ job' = ClaimedRows(w, Range(task))
            /\ thread' = [thread EXCEPT ![w] = [s \in Slots |->
                  IF s \in used
                  THEN [Idle EXCEPT !.pc = "dispatched", !.job = task[s]]
                  ELSE thread[w][s]]]
    BY <1>1 DEF Claim
  <2>2. PICK task \in Injection(used, Claimable) :
          /\ job' = ClaimedRows(w, Range(task))
          /\ thread' = [thread EXCEPT ![w] = [s \in Slots |->
                IF s \in used
                THEN [Idle EXCEPT !.pc = "dispatched", !.job = task[s]]
                ELSE thread[w][s]]]
    BY <2>1
  <2>3. DOMAIN task = used /\ \A s \in used : task[s] \in Claimable
    BY DEF Injection
  <2>4. Range(task) = {task[s] : s \in used}
    BY <2>3 DEF Range
  <2>5. used \subseteq Slots /\ \A s \in used : thread[w][s].pc = "idle"
    BY DEF FreeSlots
  <2>6. \A k \in Jobs :
          IF k \in Range(task)
          THEN /\ job'[k].status = "claimed" /\ job'[k].worker = w
               /\ job'[k].retry_count = job[k].retry_count
          ELSE job'[k] = job[k]
    BY <2>2 DEF ClaimedRows, TypeOK, JobRow
  <2>7. \A k \in Range(task) : k \in Jobs /\ job[k].status = "queued"
    BY <2>3, <2>4 DEF Claimable
  <2>8. \A s \in used : thread'[w][s].pc = "dispatched" /\ thread'[w][s].job = task[s]
    BY <2>2, <2>5 DEF TypeOK, Idle
  <2>9. \A x \in Workers, y \in Slots :
          ~(x = w /\ y \in used) => thread'[x][y] = thread[x][y]
    BY <2>2 DEF TypeOK
  <2>10. \A k \in Range(task) :
           \E y \in Slots : thread'[w][y].pc # "idle" /\ thread'[w][y].job = k
    BY <2>4, <2>5, <2>8
  <2>11. \A s \in used : task[s] \in Range(task)
    BY <2>4
  <2>12. process[w] = "poll" /\ process'[w] = "beat"
    BY <1>1 DEF Claim, TypeOK
  <2>13. UNCHANGED <<dlq, clones, execution, recovered, reaper>>
    BY <1>1 DEF Claim
  <2>14. \A k \in Jobs : job'[k] # job[k] => k \in Range(task)
    BY <2>6
  <2>15. \A x \in Workers, y \in Slots :
           thread'[x][y] # thread[x][y] => x = w /\ y \in used
    BY <2>9
  <2>. QED
    BY <2>5, <2>6, <2>7, <2>8, <2>10, <2>11, <2>12, <2>13, <2>14, <2>15
<1>2. CASE ClaimThenError(w)
  <2>1. PICK batch \in (SUBSET Claimable) \ {{}} : job' = ClaimedRows(w, batch)
    BY <1>2 DEF ClaimThenError
  <2>2. \A k \in batch : k \in Jobs /\ job[k].status = "queued"
    BY DEF Claimable
  <2>3. \A k \in Jobs :
          IF k \in batch
          THEN /\ job'[k].status = "claimed" /\ job'[k].worker = w
               /\ job'[k].retry_count = job[k].retry_count
          ELSE job'[k] = job[k]
    BY <2>1 DEF ClaimedRows, TypeOK, JobRow
  <2>. QED
    BY <1>2, <2>2, <2>3 DEF ClaimThenError, Fault
<1>3. CASE \/ Register(w) \/ PollNothing(w) \/ NotDue(w)
           \/ ReadHeartbeat(w) \/ WriteHeartbeat(w) \/ Deregister(w)
  BY <1>3 DEF Register, PollNothing, NotDue, ReadHeartbeat, WriteHeartbeat, Deregister
<1>. QED
  BY <1>1, <1>2, <1>3 DEF Loop

\* Promotion requeues scheduled jobs.
LEMMA PromotionEffect ==
  ASSUME TypeOK, PromoteDueJobs
  PROVE  /\ UNCHANGED <<dlq, clones, execution, recovered, row, process, thread, reaper>>
         /\ \A k \in Jobs : job'[k] # job[k] =>
              /\ job[k].status = "scheduled" /\ job'[k].status = "queued"
              /\ job'[k].retry_count = job[k].retry_count
              /\ job'[k].worker = job[k].worker
<1>1. PICK due \in SUBSET {j \in Jobs : job[j].status = "scheduled"} :
        job' = [j \in Jobs |-> IF j \in due
                               THEN [job[j] EXCEPT !.status = "queued"]
                               ELSE job[j]]
  BY DEF PromoteDueJobs
<1>2. \A k \in Jobs :
        IF k \in due THEN /\ job'[k].status = "queued"
                          /\ job'[k].retry_count = job[k].retry_count
                          /\ job'[k].worker = job[k].worker
                     ELSE job'[k] = job[k]
  BY <1>1 DEF TypeOK, JobRow
<1>. QED
  BY <1>2 DEF PromoteDueJobs

\* The reaper changes jobs in one step only, from what it read.
LEMMA RecoveryEffect ==
  ASSUME TypeOK, RecoverOrphans
  PROVE  /\ UNCHANGED <<dlq, clones, execution, row, process, thread>>
         /\ reaper.pc = "recover" /\ reaper'.pc = "mark"
         /\ reaper'.found = reaper.found /\ reaper'.worker = reaper.worker
         /\ \A k \in Jobs :
              IF k \in reaper.jobs
              THEN /\ job'[k].status = "queued" /\ job'[k].worker = NoWorker
                   /\ job'[k].retry_count = reaper.retry_count[k] + 1
                   /\ recovered'[k] = recovered[k] + 1
              ELSE job'[k] = job[k] /\ recovered'[k] = recovered[k]
  BY DEF RecoverOrphans, Resting

LEMMA ReadOrphansEffect ==
  ASSUME TypeOK, NEW w \in Workers, ReadOrphans(w)
  PROVE  /\ UNCHANGED <<job, dlq, clones, execution, recovered, row, process, thread>>
         /\ w \in reaper.found /\ reaper'.found = reaper.found
         /\ reaper'.worker = w /\ reaper'.jobs = Orphans(w)
         /\ reaper'.pc = IF Orphans(w) = {} THEN "mark" ELSE "recover"
         /\ \A j \in Orphans(w) : reaper'.retry_count[j] = job[j].retry_count
<1>1. UNCHANGED <<job, dlq, clones, execution, recovered, row, process, thread>>
      /\ w \in reaper.found
  BY DEF ReadOrphans
<1>2. DEFINE counts == [j \in Jobs |-> IF j \in Orphans(w) THEN job[j].retry_count ELSE 0]
             next == IF Orphans(w) = {} THEN "mark" ELSE "recover"
             orphans == Orphans(w)
<1>3. reaper' = [reaper EXCEPT !.pc = next, !.worker = w, !.jobs = orphans,
                               !.retry_count = counts]
  BY DEF ReadOrphans
<1>4. \A j \in orphans : counts[j] = job[j].retry_count
  BY DEF Orphans
<1>. HIDE DEF counts, next, orphans
<1>5. /\ reaper'.found = reaper.found /\ reaper'.worker = w /\ reaper'.jobs = orphans
      /\ reaper'.pc = next /\ reaper'.retry_count = counts
  BY <1>3 DEF TypeOK, ReaperState
<1>. QED
  BY <1>1, <1>4, <1>5 DEF next, orphans

\* The steps that leave jobs, threads and counters alone.
Quiet ==
    /\ UNCHANGED <<job, dlq, clones, execution, recovered, thread>>
    /\ reaper' = reaper \/ reaper'.pc \in {"idle", "next"}

LEMMA ReaperQuiet ==
  ASSUME TypeOK, FindDeadWorkers \/ MarkWorkerAsDead \/ ReaperCrash
  PROVE  Quiet
<1>1. CASE FindDeadWorkers
  <2>. DEFINE stale == {w \in Workers : Stale(w)}
              next == IF \E w \in Workers : Stale(w) THEN "next" ELSE "idle"
  <2>1. reaper' = [reaper EXCEPT !.found = stale, !.pc = next] /\ next \in {"idle", "next"}
    BY <1>1 DEF FindDeadWorkers
  <2>2. reaper'.pc = next
    <3>. HIDE DEF stale, next
    <3>. QED
      BY <2>1 DEF TypeOK, ReaperState
  <2>. QED
    BY <1>1, <2>1, <2>2 DEF FindDeadWorkers, Quiet
<1>2. CASE MarkWorkerAsDead
  BY <1>2 DEF MarkWorkerAsDead, Resting, Quiet
<1>3. CASE ReaperCrash
  BY <1>3 DEF ReaperCrash, Resting, Quiet
<1>. QED
  BY <1>1, <1>2, <1>3

LEMMA DisturbQuiet ==
  ASSUME NEW w \in Workers, Disturb(w), ~Crash(w)
  PROVE  Quiet /\ reaper' = reaper
  BY DEF Disturb, Shutdown, HeartbeatExpires, Stall, LongDrain, Decommission, Quiet

LEMMA CrashEffect ==
  ASSUME TypeOK, NEW w \in Workers, Crash(w)
  PROVE  /\ UNCHANGED <<job, dlq, clones, execution, recovered, row, reaper>>
         /\ process[w] \in Alive /\ process' = [process EXCEPT ![w] = "crashed"]
         /\ \A y \in Slots : thread'[w][y].pc = "idle"
         /\ \A x \in Workers, y \in Slots : x # w => thread'[x][y] = thread[x][y]
<1>1. thread' = [thread EXCEPT ![w] = [s \in Slots |-> Idle]]
  BY DEF Crash
<1>2. \A y \in Slots : thread'[w][y].pc = "idle"
  BY <1>1, IdleType DEF TypeOK
<1>3. \A x \in Workers, y \in Slots : x # w => thread'[x][y] = thread[x][y]
  BY <1>1 DEF TypeOK
<1>. QED
  BY <1>2, <1>3 DEF Crash

LEMMA PruneEffect ==
  ASSUME TypeOK, PruneDeadWorkers
  PROVE  /\ UNCHANGED <<dlq, clones, execution, recovered, process, thread, reaper>>
         /\ "prune" \in Faults
         /\ \A k \in Jobs :
              /\ job'[k].status = job[k].status
              /\ job'[k].retry_count = job[k].retry_count
              /\ job'[k].worker = IF \E x \in Workers : job[k].worker = x /\ row[x].status = "dead"
                                  THEN NoWorker ELSE job[k].worker
         /\ \A x \in Workers : row'[x] = IF row[x].status = "dead"
                                         THEN [status |-> "absent", fresh |-> FALSE]
                                         ELSE row[x]
<1>. DEFINE gone == {w \in Workers : row[w].status = "dead"}
<1>1. /\ UNCHANGED <<dlq, clones, execution, recovered, process, thread, reaper>>
      /\ "prune" \in Faults
      /\ row' = [w \in Workers |-> IF w \in gone
                                   THEN [status |-> "absent", fresh |-> FALSE]
                                   ELSE row[w]]
      /\ job' = [j \in Jobs |-> IF job[j].worker \in gone
                                THEN [job[j] EXCEPT !.worker = NoWorker]
                                ELSE job[j]]
  BY DEF PruneDeadWorkers, Fault
<1>2. \A k \in Jobs :
        /\ job'[k].status = job[k].status /\ job'[k].retry_count = job[k].retry_count
        /\ job'[k].worker = IF job[k].worker \in gone THEN NoWorker ELSE job[k].worker
  BY <1>1 DEF TypeOK, JobRow
<1>. QED
  BY <1>1, <1>2

-----------------------------------------------------------------------------
(* Under every disturbance                                                 *)

\* No counter goes down, and whoever was given up stays so.
Grows ==
    /\ \A j \in Jobs : GivenUp(j) => GivenUp(j)'
    /\ \A j \in Jobs :
         /\ execution[j].failed <= execution'[j].failed
         /\ execution[j].completed <= execution'[j].completed
         /\ recovered[j] <= recovered'[j]

EarnedBy(status, j) ==
    /\ status = "completed" => execution[j].completed > 0
    /\ status = "dead" =>
         /\ GivenUp(j)
         /\ execution[j].failed > 0
         /\ execution[j].failed + recovered[j] >= MaxRetries[j]

ThreadCounted(t) ==
    /\ t.pc \in {"loaded", "running", "failed"} => Counted(t.retry_count, t.job)
    /\ t.pc = "failed" => execution[t.job].failed > 0

\* What a step leaves alone stays counted; what it writes has to be.
LEMMA ChaosStep ==
  ASSUME ChaosInv, TypeOK', Grows,
         \A j \in Jobs : \/ job'[j].retry_count = job[j].retry_count
                         \/ Counted(job[j].retry_count, j)',
         \A j \in Jobs : job'[j].status = job[j].status \/ EarnedBy(job[j].status, j)',
         \A x \in Workers, y \in Slots : \/ thread'[x][y] = thread[x][y]
                                         \/ ThreadCounted(thread[x][y])',
         reaper'.pc = "recover" =>
            \/ reaper' = reaper
            \/ \A j \in reaper'.jobs : Counted(reaper.retry_count[j], j)'
  PROVE  ChaosInv'
<1>1. \A j \in Jobs :
        /\ execution[j].failed \in Nat /\ execution'[j].failed \in Nat
        /\ execution[j].completed \in Nat /\ execution'[j].completed \in Nat
        /\ recovered[j] \in Nat /\ recovered'[j] \in Nat
        /\ job[j].retry_count \in Nat /\ MaxRetries[j] \in Nat
  BY ClusterAssumption DEF ChaosInv, TypeOK, ExecutionRows, JobRow
<1>2. ASSUME NEW j \in Jobs, NEW n \in Nat, Counted(n, j)
      PROVE  n <= execution'[j].failed + recovered'[j]
  BY <1>1, <1>2 DEF Grows, Counted
<1>3. \A j \in Jobs : Counted(job[j].retry_count, j)'
  BY <1>1, <1>2 DEF ChaosInv, RetryNeverOvercounted, Counted
<1>4. \A j \in Jobs : EarnedBy(job[j].status, j)'
  <2>. SUFFICES ASSUME NEW j \in Jobs, job'[j].status = job[j].status
                PROVE  EarnedBy(job[j].status, j)'
    OBVIOUS
  <2>1. EarnedBy(job[j].status, j)
    BY DEF ChaosInv, FinalIsEarned, EarnedBy
  <2>2. \/ execution[j].completed > 0 => execution'[j].completed > 0
    BY <1>1 DEF Grows
  <2>3. execution[j].failed > 0 => execution'[j].failed > 0
    BY <1>1 DEF Grows
  <2>4. execution[j].failed + recovered[j] >= MaxRetries[j]
          => execution'[j].failed + recovered'[j] >= MaxRetries[j]
    BY <1>1 DEF Grows
  <2>. QED
    BY <2>1, <2>2, <2>3, <2>4 DEF EarnedBy, Grows
<1>5. \A x \in Workers, y \in Slots : ThreadCounted(thread[x][y])'
  <2>. SUFFICES ASSUME NEW x \in Workers, NEW y \in Slots,
                       thread'[x][y] = thread[x][y]
                PROVE  ThreadCounted(thread[x][y])'
    OBVIOUS
  <2>. DEFINE t == thread[x][y]
  <2>1. CASE t.pc \notin {"loaded", "running", "failed"}
    BY <2>1 DEF ThreadCounted
  <2>2. CASE t.pc \in {"loaded", "running", "failed"}
    <3>1. t.job \in Jobs /\ t.retry_count \in Nat
      BY <2>2 DEF ChaosInv, TypeOK, ThreadState
    <3>2. Counted(t.retry_count, t.job) /\ (t.pc = "failed" => execution[t.job].failed > 0)
      BY <2>2 DEF ChaosInv, CachesCounted
    <3>3. t.retry_count <= execution'[t.job].failed + recovered'[t.job]
      BY <1>2, <3>1, <3>2
    <3>4. execution[t.job].failed > 0 => execution'[t.job].failed > 0
      BY <1>1, <3>1 DEF Grows
    <3>. QED
      BY <3>2, <3>3, <3>4 DEF ThreadCounted, Counted
  <2>. QED
    BY <2>1, <2>2
<1>6. reaper'.pc = "recover" => \A j \in reaper'.jobs : Counted(reaper.retry_count[j], j)'
  <2>. SUFFICES ASSUME reaper'.pc = "recover", reaper' = reaper, NEW j \in reaper.jobs
                PROVE  Counted(reaper.retry_count[j], j)'
    OBVIOUS
  <2>1. j \in Jobs /\ reaper.retry_count[j] \in Nat
    BY DEF ChaosInv, TypeOK, ReaperState
  <2>2. Counted(reaper.retry_count[j], j)
    BY DEF ChaosInv, CachesCounted
  <2>. QED
    BY <1>2, <2>1, <2>2 DEF Counted
<1>. QED
  BY <1>3, <1>4, <1>5, <1>6
  DEF ChaosInv, CachesCounted, RetryNeverOvercounted, FinalIsEarned, Counted,
      EarnedBy, ThreadCounted

\* A step that leaves the jobs and the counters alone.
LEMMA QuietGrows ==
  ASSUME TypeOK, UNCHANGED <<dlq, clones, execution, recovered>>
  PROVE  Grows
  BY DEF Grows, TypeOK, ExecutionRows

LEMMA QuietChaos ==
  ASSUME ChaosInv, TypeOK', Quiet
  PROVE  ChaosInv'
  BY QuietGrows, ChaosStep DEF Quiet, ChaosInv

LEMMA RunJobChaos ==
  ASSUME ChaosInv, TypeOK', NEW w \in Workers, NEW s \in Slots, RunJob(w, s)
  PROVE  ChaosInv'
<1>. DEFINE t == thread[w][s]  u == thread'[w][s]
            r == job[t.job]  q == job'[t.job]
            e == execution[t.job]  f == execution'[t.job]
<1>0. TypeOK
  BY DEF ChaosInv
<1>1. /\ t.pc # "idle" /\ t.job \in Jobs
      /\ \A x \in Workers, y \in Slots : (x # w \/ y # s) => thread'[x][y] = thread[x][y]
      /\ \A k \in Jobs : k # t.job => job'[k] = job[k] /\ execution'[k] = execution[k]
      /\ dlq \subseteq dlq' /\ clones' = clones
      /\ recovered' = recovered /\ reaper' = reaper
  BY <1>0, RunJobFrame
<1>2. /\ t.retry_count \in Nat /\ r.retry_count \in Nat /\ MaxRetries[t.job] \in Nat
      /\ \A k \in Jobs : execution[k] \in ExecutionRows /\ recovered[k] \in Nat
  BY <1>0, <1>1, ClusterAssumption DEF TypeOK, ThreadState, JobRow
<1>3. ThreadCounted(t) /\ Counted(r.retry_count, t.job)
  BY <1>1 DEF ChaosInv, CachesCounted, ThreadCounted, RetryNeverOvercounted, Counted
<1>. DEFINE rec == recovered[t.job]
<1>4. /\ e.failed <= f.failed /\ e.completed <= f.completed
      /\ q.retry_count = r.retry_count \/ q.retry_count <= f.failed + rec
      /\ \/ q.status = r.status
         \/ /\ q.status = "completed" => f.completed > 0
            /\ q.status = "dead" => /\ t.job \in dlq' /\ f.failed > 0
                                   /\ f.failed + rec >= MaxRetries[t.job]
      /\ u.pc \in {"loaded", "running", "failed"} =>
            u.job = t.job /\ u.retry_count <= f.failed + rec
      /\ u.pc = "failed" => f.failed > 0
  <2>0. /\ e.failed \in Nat /\ e.completed \in Nat /\ rec \in Nat
        /\ t.retry_count \in Nat /\ MaxRetries[t.job] \in Nat
        /\ r.retry_count <= e.failed + rec
        /\ t.pc \in {"loaded", "running", "failed"} => t.retry_count <= e.failed + rec
        /\ t.pc = "failed" => e.failed > 0
    BY <1>1, <1>2, <1>3 DEF ThreadCounted, Counted, ExecutionRows
  <2>. HIDE DEF t, u, r, q, e, f, rec
  <2>1. CASE Loads(t, u, r, q, e, f)
    BY <2>0, <2>1 DEF Loads
  <2>2. CASE Starts(t, u, r, q, e, f)
    BY <2>0, <2>2 DEF Starts
  <2>3. CASE GivesUp(t, u, r, q, e, f)
    BY <2>0, <2>3 DEF GivesUp
  <2>4. CASE Completes(t, u, r, q, e, f)
    BY <2>0, <2>4 DEF Completes
  <2>5. CASE FailsOnce(t, u, r, q, e, f)
    BY <2>0, <2>5 DEF FailsOnce
  <2>6. CASE Retries(t, u, r, q, e, f)
    BY <2>0, <2>6 DEF Retries
  <2>7. CASE Buries(t, u, r, q, e, f) /\ t.job \in dlq'
    BY <2>0, <2>7 DEF Buries
  <2>8. \/ Loads(t, u, r, q, e, f) \/ Starts(t, u, r, q, e, f)
        \/ GivesUp(t, u, r, q, e, f) \/ Completes(t, u, r, q, e, f)
        \/ FailsOnce(t, u, r, q, e, f) \/ Retries(t, u, r, q, e, f)
        \/ Buries(t, u, r, q, e, f) /\ t.job \in dlq'
    BY <1>0, RunJobEffect DEF t, u, r, q, e, f
  <2>. QED
    BY <2>1, <2>2, <2>3, <2>4, <2>5, <2>6, <2>7, <2>8
<1>5. Grows
  BY <1>1, <1>2, <1>4 DEF Grows, ExecutionRows
<1>6. \A k \in Jobs : \/ job'[k].retry_count = job[k].retry_count
                     \/ Counted(job[k].retry_count, k)'
  BY <1>1, <1>4 DEF Counted
<1>7. \A k \in Jobs : job'[k].status = job[k].status \/ EarnedBy(job[k].status, k)'
  BY <1>1, <1>4 DEF EarnedBy
<1>8. \A x \in Workers, y \in Slots : \/ thread'[x][y] = thread[x][y]
                                     \/ ThreadCounted(thread[x][y])'
  BY <1>1, <1>4 DEF ThreadCounted, Counted
<1>. QED
  BY <1>1, <1>5, <1>6, <1>7, <1>8, ChaosStep

LEMMA LoopChaos ==
  ASSUME ChaosInv, TypeOK', NEW w \in Workers, Loop(w)
  PROVE  ChaosInv'
<1>0. TypeOK
  BY DEF ChaosInv
<1>1. /\ UNCHANGED <<dlq, clones, execution, recovered, reaper>>
      /\ \A k \in Jobs : job'[k] # job[k] =>
           job'[k].status = "claimed" /\ job'[k].retry_count = job[k].retry_count
      /\ \A x \in Workers, y \in Slots :
           thread'[x][y] # thread[x][y] => thread'[x][y].pc = "dispatched"
  BY <1>0, LoopEffect
<1>2. Grows
  BY <1>0, <1>1, QuietGrows
<1>. QED
  BY <1>1, <1>2, ChaosStep DEF EarnedBy, ThreadCounted

LEMMA ServiceChaos ==
  ASSUME ChaosInv, TypeOK', PromoteDueJobs \/ ReaperCycle
  PROVE  ChaosInv'
<1>0. TypeOK
  BY DEF ChaosInv
<1>1. CASE PromoteDueJobs
  <2>1. /\ UNCHANGED <<dlq, clones, execution, recovered, thread, reaper>>
        /\ \A k \in Jobs : job'[k] # job[k] =>
             job'[k].status = "queued" /\ job'[k].retry_count = job[k].retry_count
    BY <1>0, <1>1, PromotionEffect
  <2>2. Grows
    BY <1>0, <2>1, QuietGrows
  <2>. QED
    BY <2>1, <2>2, ChaosStep DEF EarnedBy
<1>2. CASE FindDeadWorkers \/ MarkWorkerAsDead \/ ReaperCrash
  BY <1>0, <1>2, ReaperQuiet, QuietChaos
<1>3. ASSUME NEW w \in Workers, ReadOrphans(w) PROVE ChaosInv'
  <2>1. /\ UNCHANGED <<job, dlq, clones, execution, recovered, thread>>
        /\ reaper'.jobs = Orphans(w)
        /\ \A j \in Orphans(w) : reaper'.retry_count[j] = job[j].retry_count
    BY <1>0, <1>3, ReadOrphansEffect
  <2>2. \A j \in reaper'.jobs : Counted(reaper.retry_count[j], j)'
    BY <2>1 DEF Orphans, ChaosInv, RetryNeverOvercounted, Counted
  <2>3. Grows
    BY <1>0, <2>1, QuietGrows
  <2>. QED
    BY <2>1, <2>2, <2>3, ChaosStep
<1>4. CASE RecoverOrphans
  <2>1. /\ UNCHANGED <<dlq, clones, execution, thread>>
        /\ reaper.pc = "recover" /\ reaper'.pc = "mark"
        /\ \A k \in Jobs :
             IF k \in reaper.jobs
             THEN /\ job'[k].status = "queued"
                  /\ job'[k].retry_count = reaper.retry_count[k] + 1
                  /\ recovered'[k] = recovered[k] + 1
             ELSE job'[k] = job[k] /\ recovered'[k] = recovered[k]
    BY <1>0, <1>4, RecoveryEffect
  <2>2. \A k \in Jobs : /\ recovered[k] \in Nat /\ reaper.retry_count[k] \in Nat
                        /\ execution[k] \in ExecutionRows
    BY <1>0 DEF TypeOK, ReaperState
  <2>3. \A k \in reaper.jobs :
          reaper.retry_count[k] <= execution[k].failed + recovered[k]
    BY <2>1 DEF ChaosInv, CachesCounted, Counted
  <2>4. Grows
    BY <2>1, <2>2 DEF Grows, ExecutionRows
  <2>5. \A k \in Jobs : \/ job'[k].retry_count = job[k].retry_count
                        \/ Counted(job[k].retry_count, k)'
    BY <2>1, <2>2, <2>3 DEF Counted, ExecutionRows
  <2>6. \A k \in Jobs : job'[k].status = job[k].status \/ EarnedBy(job[k].status, k)'
    BY <2>1 DEF EarnedBy
  <2>. QED
    BY <2>1, <2>4, <2>5, <2>6, ChaosStep
<1>. QED
  BY <1>1, <1>2, <1>3, <1>4 DEF ReaperCycle

LEMMA EnvironmentChaos ==
  ASSUME ChaosInv, TypeOK', PruneDeadWorkers \/ (\E w \in Workers : Disturb(w))
  PROVE  ChaosInv'
<1>0. TypeOK
  BY DEF ChaosInv
<1>1. CASE PruneDeadWorkers
  <2>1. /\ UNCHANGED <<dlq, clones, execution, recovered, thread, reaper>>
        /\ \A k \in Jobs : /\ job'[k].status = job[k].status
                           /\ job'[k].retry_count = job[k].retry_count
    BY <1>0, <1>1, PruneEffect
  <2>2. Grows
    BY <1>0, <2>1, QuietGrows
  <2>. QED
    BY <2>1, <2>2, ChaosStep
<1>2. ASSUME NEW w \in Workers, Crash(w) PROVE ChaosInv'
  <2>1. /\ UNCHANGED <<job, dlq, clones, execution, recovered, reaper>>
        /\ \A y \in Slots : thread'[w][y].pc = "idle"
        /\ \A x \in Workers, y \in Slots : x # w => thread'[x][y] = thread[x][y]
    BY <1>0, <1>2, CrashEffect
  <2>2. Grows
    BY <1>0, <2>1, QuietGrows
  <2>3. \A x \in Workers, y \in Slots : \/ thread'[x][y] = thread[x][y]
                                        \/ ThreadCounted(thread[x][y])'
    BY <2>1 DEF ThreadCounted
  <2>. QED
    BY <2>1, <2>2, <2>3, ChaosStep
<1>3. ASSUME NEW w \in Workers, Disturb(w), ~Crash(w) PROVE ChaosInv'
  BY <1>3, DisturbQuiet, QuietChaos
<1>. QED
  BY <1>1, <1>2, <1>3

\* What a replay does to each row.
LEMMA ReplayRow ==
  ASSUME TypeOK, NEW d \in Jobs, RetryDeadJob(d), NEW k \in Jobs
  PROVE  \/ job'[k] = job[k]
         \/ /\ job[k].status = "absent" /\ job'[k].status = "queued"
            /\ job'[k].retry_count = job[k].retry_count
<1>1. PICK clone \in Jobs :
        /\ job[clone].status = "absent"
        /\ job'[clone] = [job[clone] EXCEPT !.status = "queued"]
        /\ \A i \in Jobs : i # clone => job'[i] = job[i]
  BY ReplayEffect
<1>2. CASE k # clone
  BY <1>1, <1>2
<1>3. CASE k = clone
  <2>1. job[clone] \in JobRow
    BY DEF TypeOK
  <2>. QED
    BY <1>1, <1>3, <2>1 DEF JobRow
<1>. QED
  BY <1>2, <1>3

LEMMA ReplayChaos ==
  ASSUME ChaosInv, TypeOK', NEW j \in Jobs, RetryDeadJob(j)
  PROVE  ChaosInv'
<1>0. TypeOK
  BY DEF ChaosInv
<1>1. /\ UNCHANGED <<execution, recovered, thread, reaper>>
      /\ \A k \in Jobs : GivenUp(k)' <=> GivenUp(k)
  BY <1>0, ReplayEffect
<1>3. \A k \in Jobs : /\ job'[k].retry_count = job[k].retry_count
                      /\ job'[k].status \in {job[k].status, "queued"}
  BY <1>0, ReplayRow
<1>4. Grows
  BY <1>0, <1>1 DEF Grows, TypeOK, ExecutionRows
<1>5. \A k \in Jobs : job'[k].status = job[k].status \/ EarnedBy(job[k].status, k)'
  BY <1>3 DEF EarnedBy
<1>. QED
  BY <1>1, <1>3, <1>4, <1>5, ChaosStep

LEMMA InitChaos == Init => ChaosInv
<1>. SUFFICES ASSUME Init PROVE ChaosInv
  OBVIOUS
<1>1. \A w \in Workers, s \in Slots : thread[w][s].pc = "idle"
  BY IdleType DEF Init
<1>2. RetryNeverOvercounted /\ FinalIsEarned
  BY DEF Init, RetryNeverOvercounted, FinalIsEarned
<1>3. CachesCounted
  BY <1>1 DEF Init, Resting, CachesCounted
<1>. QED
  BY <1>2, <1>3, InitTypeOK DEF ChaosInv

LEMMA NextChaos == ChaosInv /\ [Next]_vars => ChaosInv'
<1>. SUFFICES ASSUME ChaosInv, [Next]_vars PROVE ChaosInv'
  OBVIOUS
<1>1. TypeOK'
  BY NextTypeOK DEF ChaosInv
<1>2. CASE UNCHANGED vars
  BY <1>1, <1>2, QuietChaos DEF vars, Quiet
<1>. QED
  BY <1>1, <1>2, LoopChaos, RunJobChaos, ServiceChaos, EnvironmentChaos, ReplayChaos
     DEF Next

\* Stale sessions may lose increments of retry_count; they never invent one.
THEOREM NeverOvercounted == Spec => []RetryNeverOvercounted
<1>1. ChaosInv => RetryNeverOvercounted
  BY DEF ChaosInv
<1>. QED
  BY <1>1, InitChaos, NextChaos, PTL DEF Spec

\* Whatever happens to the workers, a job is only completed by an execution that
\* completed and only dead with its attempts used up, and with its entry unless a
\* replay cloned it.
THEOREM FinalsAreEarned == Spec => []FinalIsEarned
<1>1. ChaosInv => FinalIsEarned
  BY DEF ChaosInv
<1>. QED
  BY <1>1, InitChaos, NextChaos, PTL DEF Spec

\* What a step may do to the row of a worker.
LEMMA RowEffect ==
  ASSUME TypeOK, NewIsAbsent, Next, NEW x \in Workers
  PROVE  /\ row[x].status = "dead" => row'[x].status # "active"
         /\ process'[x] = "new" =>
              /\ process[x] = "new"
              /\ row[x].status = "absent" => row'[x].status = "absent"
<1>1. ASSUME NEW w \in Workers, Loop(w)
      PROVE  /\ row[x].status = "dead" => row'[x].status # "active"
             /\ process'[x] = "new" => process[x] = "new" /\ row'[x] = row[x]
  <2>1. CASE Register(w)
    BY <2>1 DEF Register, TypeOK, NewIsAbsent
  <2>2. CASE WriteHeartbeat(w)
    <3>1. row'[x].status = row[x].status
      BY <2>2 DEF WriteHeartbeat, TypeOK, WorkerRow
    <3>2. process'[x] = "new" => process[x] = "new" /\ row'[x] = row[x]
      BY <2>2 DEF WriteHeartbeat, TypeOK
    <3>. QED
      BY <3>1, <3>2
  <2>3. CASE Deregister(w)
    BY <2>3 DEF Deregister, TypeOK, Exists
  <2>4. CASE \/ Claim(w) \/ ClaimThenError(w) \/ PollNothing(w) \/ NotDue(w)
             \/ ReadHeartbeat(w)
    BY <2>4 DEF Claim, ClaimThenError, PollNothing, NotDue, ReadHeartbeat, TypeOK
  <2>. QED
    BY <1>1, <2>1, <2>2, <2>3, <2>4 DEF Loop
<1>2. ASSUME NEW w \in Workers, NEW s \in Slots, RunJob(w, s)
      PROVE  row' = row /\ process' = process
  BY <1>2, RunJobFrame
<1>3. CASE PromoteDueJobs
  BY <1>3 DEF PromoteDueJobs
<1>4. CASE ReaperCycle
  <2>1. CASE MarkWorkerAsDead
    <3>1. process' = process
      BY <2>1 DEF MarkWorkerAsDead
    <3>2. row' = [row EXCEPT ![reaper.worker].status =
                    IF Exists(reaper.worker) THEN "dead" ELSE @]
      BY <2>1 DEF MarkWorkerAsDead
    <3>3. row'[x].status \in {row[x].status, "dead"}
          /\ (row[x].status = "absent" => row'[x].status = "absent")
      BY <3>2 DEF TypeOK, WorkerRow, Exists
    <3>. QED
      BY <3>1, <3>3
  <2>2. CASE ~MarkWorkerAsDead
    BY <1>4, <2>2 DEF ReaperCycle, FindDeadWorkers, ReadOrphans, RecoverOrphans,
       ReaperCrash
  <2>. QED
    BY <2>1, <2>2
<1>5. CASE PruneDeadWorkers
  BY <1>5, PruneEffect
<1>6. ASSUME NEW w \in Workers, Disturb(w)
      PROVE  /\ row[x].status = "dead" => row'[x].status # "active"
             /\ process'[x] = "new" => process[x] = "new"
             /\ row[x].status = "absent" => row'[x].status = "absent"
  <2>1. CASE Crash(w) \/ Shutdown(w)
    BY <2>1 DEF Crash, Shutdown, TypeOK
  <2>2. CASE HeartbeatExpires(w) \/ Stall(w) \/ LongDrain(w)
    BY <2>2 DEF HeartbeatExpires, Stall, LongDrain, Expire, TypeOK, WorkerRow
  <2>3. CASE Decommission(w)
    BY <2>3 DEF Decommission, TypeOK, WorkerRow
  <2>. QED
    BY <1>6, <2>1, <2>2, <2>3 DEF Disturb
<1>7. ASSUME NEW j \in Jobs, RetryDeadJob(j) PROVE row' = row /\ process' = process
  BY <1>7, ReplayEffect
<1>. QED
  BY <1>1, <1>2, <1>3, <1>4, <1>5, <1>6, <1>7 DEF Next

LEMMA NextNewIsAbsent == TypeOK /\ NewIsAbsent /\ [Next]_vars => NewIsAbsent'
<1>. SUFFICES ASSUME TypeOK, NewIsAbsent, [Next]_vars PROVE NewIsAbsent'
  OBVIOUS
<1>1. CASE UNCHANGED vars
  BY <1>1 DEF vars, NewIsAbsent
<1>2. CASE Next
  BY <1>2, RowEffect DEF NewIsAbsent
<1>. QED
  BY <1>1, <1>2

\* No heartbeat, and nothing else, makes a dead worker active again.
THEOREM DeadStayDead == Spec => DeadWorkersStayDead
<1>1. Init => NewIsAbsent
  BY DEF Init, NewIsAbsent
<1>2. TypeOK /\ NewIsAbsent /\ [Next]_vars
        => [\A w \in Workers : row[w].status = "dead" => row'[w].status # "active"]_vars
  BY RowEffect
<1>. QED
  BY <1>1, <1>2, InitTypeOK, NextTypeOK, NextNewIsAbsent, PTL DEF Spec, DeadWorkersStayDead

\* A claim names a worker, and nothing but a prune takes the name away.
LEMMA NextOwned ==
  ASSUME "prune" \notin Faults
  PROVE  TypeOK /\ ClaimsAreOwned /\ [Next]_vars => ClaimsAreOwned'
<1>. SUFFICES ASSUME TypeOK, ClaimsAreOwned, [Next]_vars, NEW j \in Jobs,
                     job'[j] # job[j], job'[j].status = "claimed"
              PROVE  job'[j].worker # NoWorker
  BY DEF ClaimsAreOwned
<1>1. ASSUME NEW w \in Workers, Loop(w) PROVE job'[j].worker = w
  BY <1>1, LoopEffect
<1>2. ASSUME NEW w \in Workers, NEW s \in Slots, RunJob(w, s)
      PROVE  job[j].status = "claimed" /\ job'[j].worker = job[j].worker
  <2>. DEFINE t == thread[w][s]  u == thread'[w][s]
              e == execution[t.job]  f == execution'[t.job]
  <2>1. t.job = j
    BY <1>2, RunJobFrame
  <2>2. \/ Loads(t, u, job[j], job'[j], e, f) \/ Starts(t, u, job[j], job'[j], e, f)
        \/ GivesUp(t, u, job[j], job'[j], e, f) \/ Completes(t, u, job[j], job'[j], e, f)
        \/ FailsOnce(t, u, job[j], job'[j], e, f) \/ Retries(t, u, job[j], job'[j], e, f)
        \/ Buries(t, u, job[j], job'[j], e, f)
    BY <1>2, <2>1, RunJobEffect
  <2>. HIDE DEF t, u, e, f
  <2>. QED
    BY <2>2 DEF Loads, Starts, GivesUp, Completes, FailsOnce, Retries, Buries
<1>3. ~PromoteDueJobs
  BY PromotionEffect
<1>4. ~RecoverOrphans
  BY RecoveryEffect
<1>5. CASE ReaperCycle
  <2>1. ASSUME NEW w \in Workers, ReadOrphans(w) PROVE FALSE
    BY <2>1, ReadOrphansEffect
  <2>. QED
    BY <1>4, <1>5, <2>1, ReaperQuiet DEF ReaperCycle, Quiet
<1>6. ~PruneDeadWorkers
  BY PruneEffect
<1>7. ASSUME NEW w \in Workers, Disturb(w) PROVE FALSE
  BY <1>7, DisturbQuiet, CrashEffect DEF Quiet
<1>8. ~UNCHANGED vars
  BY DEF vars
<1>9. ASSUME NEW d \in Jobs, RetryDeadJob(d) PROVE FALSE
  BY <1>9, ReplayEffect DEF TypeOK, JobRow
<1>. QED
  BY <1>1, <1>2, <1>3, <1>5, <1>6, <1>7, <1>8, <1>9, ClusterAssumption
     DEF Next, ClaimsAreOwned

\* Unless rows of dead workers are pruned, a claimed job names its worker.
THEOREM ClaimsOwned == ASSUME "prune" \notin Faults PROVE Spec => []ClaimsAreOwned
<1>1. Init => ClaimsAreOwned
  BY DEF Init, ClaimsAreOwned
<1>. QED
  BY <1>1, InitTypeOK, NextTypeOK, NextOwned, PTL DEF Spec

-----------------------------------------------------------------------------
(* What overlapping executions cost, under every disturbance               *)

\* What the parts of a job's account are, before and after a step.
LEMMA AccountType ==
  ASSUME NEW j \in Jobs
  PROVE  /\ TypeOK => /\ execution[j] \in ExecutionRows /\ recovered[j] \in Nat
                      /\ execution[j].started \in Nat /\ execution[j].completed \in Nat
                      /\ execution[j].failed \in Nat
         /\ TypeOK' => /\ execution'[j] \in ExecutionRows /\ recovered'[j] \in Nat
                       /\ execution'[j].started \in Nat
                       /\ execution'[j].completed \in Nat /\ execution'[j].failed \in Nat
         /\ Waits(j) \in {0, 1} /\ Waits(j)' \in {0, 1}
         /\ Buried(j) \in {0, 1} /\ Buried(j)' \in {0, 1}
  BY DEF TypeOK, ExecutionRows, Waits, Buried

\* Every start comes from a hand, so those are finite whenever the hands are.
LEMMA StartingFinite ==
  ASSUME NEW j \in Jobs
  PROVE  /\ Starting(j) \subseteq Hands(j) /\ Starting(j)' \subseteq Hands(j)'
         /\ IsFiniteSet(Hands(j)) =>
              /\ IsFiniteSet(Starting(j))
              /\ Cardinality(Hands(j)) \in Nat /\ Cardinality(Starting(j)) \in Nat
<1>1. Starting(j) \subseteq Hands(j) /\ Starting(j)' \subseteq Hands(j)'
  BY DEF Starting
<1>2. IsFiniteSet(Hands(j)) => IsFiniteSet(Starting(j))
  BY <1>1, FS_Subset
<1>. QED
  BY <1>1, <1>2, FS_CardinalityType

\* A step that gives a job to no thread and makes it wait only at the price of a
\* recovery.
LEMMA RestPaid ==
  ASSUME TypeOK, TypeOK', NEW j \in Jobs, JobPaid(j),
         Hands(j)' \subseteq Hands(j), Starting(j)' \subseteq Starting(j),
         execution'[j] = execution[j], GivenUp(j)' <=> GivenUp(j),
         recovered[j] <= recovered'[j],
         Waits(j)' + recovered[j] <= Waits(j) + recovered'[j]
  PROVE  JobPaid(j)'
<1>1. /\ IsFiniteSet(Hands(j)) /\ IsFiniteSet(Starting(j))
      /\ Cardinality(Hands(j)) \in Nat /\ Cardinality(Starting(j)) \in Nat
  BY StartingFinite DEF JobPaid
<1>2. /\ IsFiniteSet(Hands(j)') /\ Cardinality(Hands(j)') <= Cardinality(Hands(j))
      /\ Cardinality(Hands(j)') \in Nat
  BY <1>1, FS_Subset, FS_CardinalityType
<1>3. /\ Cardinality(Starting(j)') <= Cardinality(Starting(j))
      /\ Cardinality(Starting(j)') \in Nat
  BY <1>1, FS_Subset, FS_CardinalityType
<1>4. Buried(j)' = Buried(j)
  BY DEF Buried
<1>. DEFINE ch == Cardinality(Hands(j))  cs == Cardinality(Starting(j))
            dh == Cardinality(Hands(j)')  ds == Cardinality(Starting(j)')
            wa == Waits(j)  wb == Waits(j)'  bu == Buried(j)
            st == execution[j].started  co == execution[j].completed
            fa == execution[j].failed  ra == recovered[j]  rb == recovered'[j]
<1>5. /\ ch + wa + co + bu <= 1 + ra /\ cs + wa + st <= 1 + fa + ra
      /\ dh <= ch /\ ds <= cs /\ wb + ra <= wa + rb
      /\ ch \in Nat /\ cs \in Nat /\ dh \in Nat /\ ds \in Nat /\ wa \in Nat /\ wb \in Nat
      /\ bu \in Nat /\ st \in Nat /\ co \in Nat /\ fa \in Nat /\ ra \in Nat /\ rb \in Nat
  BY <1>1, <1>2, <1>3, AccountType DEF JobPaid, PlacesPaid, StartsPaid
<1>. HIDE DEF ch, cs, dh, ds, wa, wb, bu, st, co, fa, ra, rb
<1>6. dh + wb + co + bu <= 1 + rb /\ ds + wb + st <= 1 + fa + rb
  BY <1>5
<1>. USE DEF ch, cs, dh, ds, wa, wb, bu, st, co, fa, ra, rb
<1>7. execution'[j].started = st /\ execution'[j].completed = co /\ execution'[j].failed = fa
  OBVIOUS
<1>. QED
  BY <1>2, <1>4, <1>6, <1>7 DEF JobPaid, PlacesPaid, StartsPaid

\* A step that changes no thread leaves all hands as they are.
LEMMA SameHands ==
  ASSUME UNCHANGED thread, NEW j \in Jobs
  PROVE  Hands(j)' = Hands(j) /\ Starting(j)' = Starting(j)
  BY DEF Hands, Starting

\* A step that leaves the jobs, the threads and the counters alone.
LEMMA QuietPaid ==
  ASSUME TypeOK', PaidInv, UNCHANGED <<job, dlq, clones, execution, recovered, thread>>
  PROVE  PaidInv'
<1>. SUFFICES ASSUME NEW j \in Jobs PROVE JobPaid(j)'
  BY DEF PaidInv
<1>1. Waits(j)' = Waits(j)
  BY DEF Waits
<1>2. recovered[j] \in Nat /\ Waits(j) \in {0, 1}
  BY AccountType DEF PaidInv
<1>. QED
  BY <1>1, <1>2, SameHands, RestPaid DEF PaidInv

\* A thread that is not idle afterwards keeps its job, and only MoveToDlq adds to
\* the dead letter queue.
LEMMA RunJobHands ==
  ASSUME TypeOK, NEW w \in Workers, NEW s \in Slots, RunJob(w, s),
         NEW j \in Jobs, thread[w][s].job = j
  PROVE  LET t == thread[w][s]  u == thread'[w][s]  h == <<w, s>> IN
         /\ h \in Hands(j)
         /\ h \in Starting(j) <=> t.pc \in Unstarted
         /\ Hands(j)' = IF u.pc = "idle" THEN Hands(j) \ {h} ELSE Hands(j)
         /\ Starting(j)' = IF u.pc \in Unstarted THEN Starting(j) \union {h}
                                                     ELSE Starting(j) \ {h}
         /\ \A k \in Jobs : k # j =>
              Hands(k)' = Hands(k) /\ Starting(k)' = Starting(k)
<1>. DEFINE t == thread[w][s]  u == thread'[w][s]  h == <<w, s>>
<1>1. /\ t.pc # "idle" /\ t.job = j
      /\ \A x \in Workers, y \in Slots :
           (x # w \/ y # s) => thread'[x][y] = thread[x][y]
  BY RunJobFrame
<1>2. u.pc = "idle" \/ u.job = j
  <2>. DEFINE r == job[t.job]  q == job'[t.job]
              e == execution[t.job]  f == execution'[t.job]
  <2>1. \/ Loads(t, u, r, q, e, f) \/ Starts(t, u, r, q, e, f)
        \/ GivesUp(t, u, r, q, e, f) \/ Completes(t, u, r, q, e, f)
        \/ FailsOnce(t, u, r, q, e, f) \/ Retries(t, u, r, q, e, f)
        \/ Buries(t, u, r, q, e, f)
    BY RunJobEffect
  <2>2. t.job = j
    OBVIOUS
  <2>. HIDE DEF t, u, r, q, e, f
  <2>. QED
    BY <2>1, <2>2 DEF Loads, Starts, GivesUp, Completes, FailsOnce, Retries, Buries
<1>3. h \in Workers \X Slots /\ h[1] = w /\ h[2] = s
  OBVIOUS
<1>4. \A g \in Workers \X Slots : /\ g[1] \in Workers /\ g[2] \in Slots
                                  /\ g = h <=> (g[1] = w /\ g[2] = s)
  OBVIOUS
<1>5. \A g \in Workers \X Slots : g # h => thread'[g[1]][g[2]] = thread[g[1]][g[2]]
  BY <1>1, <1>4
<1>6. thread[h[1]][h[2]] = t /\ thread'[h[1]][h[2]] = u
  BY <1>3
<1>. DEFINE At(g) == thread[g[1]][g[2]]  To(g) == thread'[g[1]][g[2]]
<1>7. \A k : /\ Hands(k) = {g \in Workers \X Slots : At(g).pc # "idle" /\ At(g).job = k}
             /\ Hands(k)' = {g \in Workers \X Slots : To(g).pc # "idle" /\ To(g).job = k}
             /\ Starting(k) = {g \in Hands(k) : At(g).pc \in Unstarted}
             /\ Starting(k)' = {g \in Hands(k)' : To(g).pc \in Unstarted}
  BY DEF Hands, Starting
<1>8. /\ \A g \in Workers \X Slots : g # h => To(g) = At(g)
      /\ At(h) = t /\ To(h) = u
  BY <1>5, <1>6
<1>9. "idle" \notin Unstarted
  BY DEF Unstarted
<1>. HIDE DEF t, u, h, At, To
<1>10. h \in Hands(j) /\ (h \in Starting(j) <=> t.pc \in Unstarted)
  BY <1>1, <1>3, <1>7, <1>8
<1>11. Hands(j)' = IF u.pc = "idle" THEN Hands(j) \ {h} ELSE Hands(j)
  BY <1>1, <1>2, <1>3, <1>7, <1>8
<1>12. Starting(j)' = IF u.pc \in Unstarted THEN Starting(j) \union {h}
                                                ELSE Starting(j) \ {h}
  BY <1>1, <1>2, <1>3, <1>7, <1>8, <1>9
<1>13. ASSUME NEW k \in Jobs, k # j
       PROVE  Hands(k)' = Hands(k) /\ Starting(k)' = Starting(k)
  <2>1. h \notin Hands(k) /\ h \notin Hands(k)'
    BY <1>1, <1>2, <1>7, <1>8, <1>13
  <2>2. Hands(k)' = Hands(k)
    BY <1>7, <1>8, <2>1
  <2>. QED
    BY <1>7, <1>8, <2>1, <2>2
<1>. QED
  BY <1>10, <1>11, <1>12, <1>13 DEF t, u, h

LEMMA RunJobBuries ==
  ASSUME TypeOK, NEW w \in Workers, NEW s \in Slots, RunJob(w, s)
  PROVE  /\ \A k \in Jobs : k # thread[w][s].job => (k \in dlq' <=> k \in dlq)
         /\ dlq' # dlq => /\ thread[w][s].pc = "failed" /\ thread'[w][s].pc = "idle"
                          /\ job'[thread[w][s].job].status = "dead"
<1>1. CASE MoveToDlq(w, s)
  <2>1. thread'[w][s] = Idle
    BY <1>1, SetThreadValue DEF MoveToDlq, TypeOK
  <2>2. thread[w][s].job \in Jobs
    BY RunJobFrame
  <2>. QED
    BY <1>1, <2>1, <2>2, IdleType DEF MoveToDlq, TypeOK, JobRow
<1>2. CASE ~MoveToDlq(w, s)
  BY <1>2 DEF RunJob, LoadJob, StartRun, StartRefused, CompleteRun, FailRun,
     ScheduleRetry, ExecutorError
<1>. QED
  BY <1>1, <1>2

\* A thread turns its hand into a start, a retry or an outcome, or opens it.
LEMMA RunJobPaid ==
  ASSUME PaidInv, TypeOK', NEW w \in Workers, NEW s \in Slots, RunJob(w, s)
  PROVE  PaidInv'
<1>0. TypeOK
  BY DEF PaidInv
<1>1. PICK j \in Jobs : thread[w][s].job = j
  BY <1>0, RunJobFrame
<1>. DEFINE t == thread[w][s]  u == thread'[w][s]  h == <<w, s>>
            r == job[j]  q == job'[j]  e == execution[j]  f == execution'[j]
<1>2. ASSUME NEW k \in Jobs, k # j PROVE JobPaid(k)'
  <2>1. /\ job'[k] = job[k] /\ execution'[k] = execution[k] /\ recovered' = recovered
        /\ GivenUp(k)' <=> GivenUp(k)
        /\ Hands(k)' = Hands(k) /\ Starting(k)' = Starting(k)
    <3>1. job'[k] = job[k] /\ execution'[k] = execution[k] /\ recovered' = recovered
      BY <1>0, <1>1, <1>2, RunJobFrame
    <3>2. GivenUp(k)' <=> GivenUp(k)
      BY <1>0, <1>1, <1>2, RunJobBuries, RunJobFrame
    <3>3. Hands(k)' = Hands(k) /\ Starting(k)' = Starting(k)
      BY <1>0, <1>1, <1>2, RunJobHands
    <3>. QED
      BY <3>1, <3>2, <3>3
  <2>2. Waits(k)' = Waits(k) /\ recovered[k] \in Nat /\ Waits(k) \in {0, 1}
    BY <1>0, <2>1, AccountType DEF Waits
  <2>. QED
    BY <1>0, <2>1, <2>2, RestPaid DEF PaidInv
<1>3. JobPaid(j)'
  <2>1. /\ h \in Hands(j) /\ (h \in Starting(j) <=> t.pc \in Unstarted)
        /\ Hands(j)' = IF u.pc = "idle" THEN Hands(j) \ {h} ELSE Hands(j)
        /\ Starting(j)' = IF u.pc \in Unstarted THEN Starting(j) \union {h}
                                                ELSE Starting(j) \ {h}
    BY <1>0, <1>1, RunJobHands
  <2>2. /\ IsFiniteSet(Hands(j)) /\ IsFiniteSet(Starting(j))
        /\ Cardinality(Hands(j)) \in Nat /\ Cardinality(Starting(j)) \in Nat
    BY StartingFinite DEF PaidInv, JobPaid
  <2>3. /\ IsFiniteSet(Hands(j)')
        /\ Cardinality(Hands(j)') = Cardinality(Hands(j)) - (IF u.pc = "idle" THEN 1 ELSE 0)
    BY <2>1, <2>2, FS_RemoveElement
  <2>4. Cardinality(Starting(j)')
          = Cardinality(Starting(j)) - (IF t.pc \in Unstarted THEN 1 ELSE 0)
                                     + (IF u.pc \in Unstarted THEN 1 ELSE 0)
    <3>1. /\ Cardinality(Starting(j) \union {h})
               = IF h \in Starting(j) THEN Cardinality(Starting(j))
                                      ELSE Cardinality(Starting(j)) + 1
          /\ Cardinality(Starting(j) \ {h})
               = IF h \in Starting(j) THEN Cardinality(Starting(j)) - 1
                                      ELSE Cardinality(Starting(j))
      BY <2>2, FS_AddElement, FS_RemoveElement
    <3>2. CASE u.pc \in Unstarted
      BY <2>1, <2>2, <3>1, <3>2
    <3>3. CASE u.pc \notin Unstarted
      BY <2>1, <2>2, <3>1, <3>3
    <3>. QED
      BY <3>2, <3>3
  <2>5. \/ Buried(j)' = Buried(j)
        \/ Buried(j)' <= Buried(j) + 1 /\ dlq' # dlq
    <3>1. clones' = clones
      BY <1>0, RunJobFrame
    <3>. QED
      BY <3>1 DEF Buried
  <2>. DEFINE ch == Cardinality(Hands(j))  cs == Cardinality(Starting(j))
              dh == Cardinality(Hands(j)')  ds == Cardinality(Starting(j)')
              wa == Waits(j)  wb == Waits(j)'  ba == Buried(j)  bb == Buried(j)'
              ra == recovered[j]
  <2>6. /\ ch + wa + e.completed + ba <= 1 + ra /\ cs + wa + e.started <= 1 + e.failed + ra
        /\ ch \in Nat /\ cs \in Nat /\ wa \in Nat /\ ba \in Nat /\ bb \in Nat /\ ra \in Nat
        /\ e.started \in Nat /\ e.completed \in Nat /\ e.failed \in Nat
    BY <1>0, <2>2, AccountType DEF PaidInv, JobPaid, PlacesPaid, StartsPaid
  <2>7. /\ dh = ch - (IF u.pc = "idle" THEN 1 ELSE 0)
        /\ ds = cs - (IF t.pc \in Unstarted THEN 1 ELSE 0)
                   + (IF u.pc \in Unstarted THEN 1 ELSE 0)
        /\ wa = (IF r.status \in {"absent", "queued", "scheduled"} THEN 1 ELSE 0)
        /\ wb = (IF q.status \in {"absent", "queued", "scheduled"} THEN 1 ELSE 0)
        /\ \/ bb = ba
           \/ bb <= ba + 1 /\ t.pc = "failed" /\ u.pc = "idle" /\ q.status = "dead"
    BY <1>0, <1>1, <2>3, <2>4, <2>5, <2>6, RunJobBuries DEF Waits
  <2>8. \/ Loads(t, u, r, q, e, f) \/ Starts(t, u, r, q, e, f)
        \/ GivesUp(t, u, r, q, e, f) \/ Completes(t, u, r, q, e, f)
        \/ FailsOnce(t, u, r, q, e, f) \/ Retries(t, u, r, q, e, f)
        \/ Buries(t, u, r, q, e, f)
    BY <1>0, <1>1, RunJobEffect
  <2>9. t.pc # "idle"
    BY <1>0, RunJobFrame
  <2>. HIDE DEF t, u, r, q, e, f, ch, cs, dh, ds, wa, wb, ba, bb, ra
  <2>10. dh + wb + f.completed + bb <= 1 + ra /\ ds + wb + f.started <= 1 + f.failed + ra
    <3>1. CASE Loads(t, u, r, q, e, f)
      BY <2>6, <2>7, <3>1 DEF Loads, Unstarted
    <3>2. CASE Starts(t, u, r, q, e, f)
      BY <2>6, <2>7, <3>2 DEF Starts, Unstarted
    <3>3. CASE GivesUp(t, u, r, q, e, f)
      BY <2>6, <2>7, <3>3 DEF GivesUp, Unstarted
    <3>4. CASE Completes(t, u, r, q, e, f)
      BY <2>6, <2>7, <3>4 DEF Completes, Unstarted
    <3>5. CASE FailsOnce(t, u, r, q, e, f)
      BY <2>6, <2>7, <3>5 DEF FailsOnce, Unstarted
    <3>6. CASE Retries(t, u, r, q, e, f)
      BY <2>6, <2>7, <3>6 DEF Retries, Unstarted
    <3>7. CASE Buries(t, u, r, q, e, f)
      BY <2>6, <2>7, <3>7 DEF Buries, Unstarted
    <3>. QED
      BY <2>8, <3>1, <3>2, <3>3, <3>4, <3>5, <3>6, <3>7
  <2>. USE DEF e, f, ch, cs, dh, ds, wa, wb, ba, bb, ra
  <2>11. recovered' = recovered
    BY <1>0, RunJobFrame
  <2>12. PlacesPaid(j)' /\ StartsPaid(j)'
    BY <2>10, <2>11 DEF PlacesPaid, StartsPaid
  <2>. QED
    BY <2>3, <2>12 DEF JobPaid
<1>. QED
  BY <1>2, <1>3 DEF PaidInv

\* Every claimed job goes to one thread that had none.
LEMMA ClaimHands ==
  ASSUME TypeOK, NEW w \in Workers, Claim(w), NEW j \in Jobs
  PROVE  \/ UNCHANGED <<job[j], Hands(j), Starting(j)>>
         \/ \E h \in Workers \X Slots :
              /\ h \notin Hands(j)
              /\ Hands(j)' = Hands(j) \union {h} /\ Starting(j)' = Starting(j) \union {h}
              /\ job[j].status = "queued" /\ job'[j].status = "claimed"
<1>1. PICK used \in (SUBSET FreeSlots(w)) \ {{}} :
        \E task \in Injection(used, Claimable) :
          /\ job' = ClaimedRows(w, Range(task))
          /\ thread' = [thread EXCEPT ![w] = [s \in Slots |->
                IF s \in used
                THEN [Idle EXCEPT !.pc = "dispatched", !.job = task[s]]
                ELSE thread[w][s]]]
  BY DEF Claim
<1>2. PICK task \in Injection(used, Claimable) :
        /\ job' = ClaimedRows(w, Range(task))
        /\ thread' = [thread EXCEPT ![w] = [s \in Slots |->
              IF s \in used
              THEN [Idle EXCEPT !.pc = "dispatched", !.job = task[s]]
              ELSE thread[w][s]]]
  BY <1>1
<1>3. /\ Range(task) = {task[s] : s \in used}
      /\ \A s \in used : task[s] \in Claimable
      /\ \A r, s \in used : task[r] = task[s] => r = s
  BY DEF Injection, IsInjective, Range
<1>4. used \subseteq Slots /\ \A s \in used : thread[w][s].pc = "idle"
  BY DEF FreeSlots
<1>5. /\ \A s \in used : thread'[w][s].pc = "dispatched" /\ thread'[w][s].job = task[s]
      /\ \A x \in Workers, y \in Slots :
           ~(x = w /\ y \in used) => thread'[x][y] = thread[x][y]
  BY <1>2, <1>4 DEF TypeOK, Idle
<1>. DEFINE At(g) == thread[g[1]][g[2]]  To(g) == thread'[g[1]][g[2]]
            New(g) == g[1] = w /\ g[2] \in used
<1>6. /\ Hands(j) = {g \in Workers \X Slots : At(g).pc # "idle" /\ At(g).job = j}
      /\ Hands(j)' = {g \in Workers \X Slots : To(g).pc # "idle" /\ To(g).job = j}
      /\ Starting(j) = {g \in Hands(j) : At(g).pc \in Unstarted}
      /\ Starting(j)' = {g \in Hands(j)' : To(g).pc \in Unstarted}
  BY DEF Hands, Starting
<1>7. \A g \in Workers \X Slots :
        IF New(g) THEN /\ At(g).pc = "idle" /\ To(g).pc = "dispatched"
                       /\ To(g).job = task[g[2]]
                  ELSE To(g) = At(g)
  BY <1>4, <1>5
<1>8. "dispatched" \in Unstarted
  BY DEF Unstarted
<1>9. CASE j \in Range(task)
  <2>1. PICK s \in used : task[s] = j
    BY <1>3, <1>9
  <2>. DEFINE h == <<w, s>>
  <2>2. h \in Workers \X Slots /\ New(h) /\ h[2] = s
    BY <1>4
  <2>3. \A g \in Workers \X Slots : New(g) /\ task[g[2]] = j => g = h
    BY <1>3, <2>1
  <2>4. job[j].status = "queued" /\ job'[j].status = "claimed"
    <3>1. j \in Claimable
      BY <1>3, <2>1
    <3>2. job'[j] = [job[j] EXCEPT !.status = "claimed", !.worker = w]
      BY <1>2, <1>9 DEF ClaimedRows
    <3>. QED
      BY <3>1, <3>2 DEF TypeOK, JobRow, Claimable
  <2>. HIDE DEF At, To, New, h
  <2>5. h \notin Hands(j)
    BY <1>6, <1>7, <2>2
  <2>6. Hands(j)' = Hands(j) \union {h}
    BY <1>6, <1>7, <2>1, <2>2, <2>3
  <2>7. Starting(j)' = Starting(j) \union {h}
    BY <1>6, <1>7, <1>8, <2>2, <2>5, <2>6
  <2>. QED
    BY <2>2, <2>4, <2>5, <2>6, <2>7
<1>10. CASE j \notin Range(task)
  <2>1. job'[j] = job[j]
    BY <1>2, <1>10 DEF ClaimedRows
  <2>2. \A g \in Workers \X Slots : New(g) => task[g[2]] # j
    BY <1>3, <1>10
  <2>. HIDE DEF At, To, New
  <2>3. Hands(j)' = Hands(j)
    BY <1>6, <1>7, <2>2
  <2>4. Starting(j)' = Starting(j)
    BY <1>6, <1>7, <2>2, <2>3
  <2>. QED
    BY <2>1, <2>3, <2>4
<1>. QED
  BY <1>9, <1>10

\* A claim turns a waiting job into one in hand.
LEMMA ClaimPaid ==
  ASSUME PaidInv, TypeOK', NEW w \in Workers, Claim(w)
  PROVE  PaidInv'
<1>0. TypeOK /\ UNCHANGED <<dlq, clones, execution, recovered>>
  BY DEF PaidInv, Claim
<1>. SUFFICES ASSUME NEW j \in Jobs PROVE JobPaid(j)'
  BY DEF PaidInv
<1>1. CASE UNCHANGED <<job[j], Hands(j), Starting(j)>>
  <2>1. Waits(j)' = Waits(j) /\ recovered[j] \in Nat /\ Waits(j) \in {0, 1}
    BY <1>0, <1>1, AccountType DEF Waits
  <2>. QED
    BY <1>0, <1>1, <2>1, RestPaid DEF PaidInv
<1>2. ASSUME NEW h \in Workers \X Slots, h \notin Hands(j),
             Hands(j)' = Hands(j) \union {h}, Starting(j)' = Starting(j) \union {h},
             job[j].status = "queued", job'[j].status = "claimed"
      PROVE  JobPaid(j)'
  <2>1. /\ IsFiniteSet(Hands(j)) /\ IsFiniteSet(Starting(j))
        /\ Cardinality(Hands(j)) \in Nat /\ Cardinality(Starting(j)) \in Nat
        /\ h \notin Starting(j)
    BY <1>2, StartingFinite DEF PaidInv, JobPaid
  <2>2. /\ IsFiniteSet(Hands(j)')
        /\ Cardinality(Hands(j)') = Cardinality(Hands(j)) + 1
        /\ Cardinality(Starting(j)') = Cardinality(Starting(j)) + 1
    <3>1. /\ IsFiniteSet(Hands(j) \union {h})
          /\ Cardinality(Hands(j) \union {h}) = Cardinality(Hands(j)) + 1
          /\ Cardinality(Starting(j) \union {h}) = Cardinality(Starting(j)) + 1
      BY <1>2, <2>1, FS_AddElement
    <3>. QED
      BY <1>2, <3>1
  <2>3. Waits(j) = 1 /\ Waits(j)' = 0 /\ Buried(j)' = Buried(j)
    BY <1>0, <1>2 DEF Waits, Buried
  <2>4. PlacesPaid(j) /\ StartsPaid(j)
    BY DEF PaidInv, JobPaid
  <2>5. PlacesPaid(j)'
    BY <1>0, <2>1, <2>2, <2>3, <2>4, AccountType DEF PlacesPaid
  <2>6. StartsPaid(j)'
    BY <1>0, <2>1, <2>2, <2>3, <2>4, AccountType DEF StartsPaid
  <2>. QED
    BY <2>2, <2>5, <2>6 DEF JobPaid
<1>. QED
  BY <1>0, <1>1, <1>2, ClaimHands

LEMMA LoopPaid ==
  ASSUME PaidInv, TypeOK', NEW w \in Workers, Loop(w)
  PROVE  PaidInv'
<1>0. TypeOK
  BY DEF PaidInv
<1>1. CASE Claim(w)
  BY <1>1, ClaimPaid
<1>2. CASE ClaimThenError(w)
  <2>. SUFFICES ASSUME NEW j \in Jobs PROVE JobPaid(j)'
    BY DEF PaidInv
  <2>1. UNCHANGED <<dlq, clones, execution, recovered, thread>>
    BY <1>2 DEF ClaimThenError
  <2>2. job'[j] = job[j] \/ job'[j].status = "claimed"
    BY <1>0, <1>2, LoopEffect DEF Loop
  <2>3. Waits(j)' = Waits(j) \/ Waits(j)' = 0
    BY <2>2 DEF Waits
  <2>. QED
    BY <1>0, <2>1, <2>3, SameHands, AccountType, RestPaid DEF PaidInv
<1>3. CASE \/ Register(w) \/ PollNothing(w) \/ NotDue(w)
           \/ ReadHeartbeat(w) \/ WriteHeartbeat(w) \/ Deregister(w)
  BY <1>3, QuietPaid
  DEF Register, PollNothing, NotDue, ReadHeartbeat, WriteHeartbeat, Deregister
<1>. QED
  BY <1>1, <1>2, <1>3 DEF Loop

\* Only the reaper makes a job wait that has a place already, and it counts that.
LEMMA ServicePaid ==
  ASSUME PaidInv, TypeOK', PromoteDueJobs \/ ReaperCycle
  PROVE  PaidInv'
<1>0. TypeOK
  BY DEF PaidInv
<1>1. CASE PromoteDueJobs
  <2>. SUFFICES ASSUME NEW j \in Jobs PROVE JobPaid(j)'
    BY DEF PaidInv
  <2>1. /\ UNCHANGED <<dlq, clones, execution, recovered, thread>>
        /\ job'[j] # job[j] => job[j].status = "scheduled"
    BY <1>0, <1>1, PromotionEffect
  <2>2. Waits(j)' = Waits(j) \/ Waits(j) = 1
    BY <2>1 DEF Waits
  <2>. QED
    BY <1>0, <2>1, <2>2, SameHands, AccountType, RestPaid DEF PaidInv
<1>2. CASE FindDeadWorkers \/ MarkWorkerAsDead \/ ReaperCrash
  BY <1>0, <1>2, ReaperQuiet, QuietPaid DEF Quiet
<1>3. ASSUME NEW w \in Workers, ReadOrphans(w) PROVE PaidInv'
  BY <1>0, <1>3, ReadOrphansEffect, QuietPaid
<1>4. CASE RecoverOrphans
  <2>. SUFFICES ASSUME NEW j \in Jobs PROVE JobPaid(j)'
    BY DEF PaidInv
  <2>1. /\ UNCHANGED <<dlq, clones, execution, thread>>
        /\ IF j \in reaper.jobs THEN recovered'[j] = recovered[j] + 1
                                ELSE job'[j] = job[j] /\ recovered'[j] = recovered[j]
    BY <1>0, <1>4, RecoveryEffect
  <2>2. Waits(j)' = Waits(j) \/ recovered'[j] = recovered[j] + 1
    BY <2>1 DEF Waits
  <2>3. /\ recovered[j] \in Nat /\ Waits(j) \in {0, 1} /\ Waits(j)' \in {0, 1}
        /\ recovered'[j] \in {recovered[j], recovered[j] + 1}
    BY <1>0, <2>1, AccountType
  <2>4. /\ recovered[j] <= recovered'[j]
        /\ Waits(j)' + recovered[j] <= Waits(j) + recovered'[j]
    BY <2>2, <2>3
  <2>5. Hands(j)' \subseteq Hands(j) /\ Starting(j)' \subseteq Starting(j)
    BY <2>1, SameHands
  <2>. QED
    BY <1>0, <2>1, <2>4, <2>5, RestPaid DEF PaidInv
<1>. QED
  BY <1>1, <1>2, <1>3, <1>4 DEF ReaperCycle

LEMMA EnvironmentPaid ==
  ASSUME PaidInv, TypeOK', PruneDeadWorkers \/ (\E w \in Workers : Disturb(w))
  PROVE  PaidInv'
<1>0. TypeOK
  BY DEF PaidInv
<1>1. CASE PruneDeadWorkers
  <2>. SUFFICES ASSUME NEW j \in Jobs PROVE JobPaid(j)'
    BY DEF PaidInv
  <2>1. UNCHANGED <<dlq, clones, execution, recovered, thread>> /\ job'[j].status = job[j].status
    BY <1>0, <1>1, PruneEffect
  <2>2. Waits(j)' = Waits(j)
    BY <2>1 DEF Waits
  <2>. QED
    BY <1>0, <2>1, <2>2, SameHands, AccountType, RestPaid DEF PaidInv
<1>2. ASSUME NEW w \in Workers, Crash(w) PROVE PaidInv'
  <2>. SUFFICES ASSUME NEW j \in Jobs PROVE JobPaid(j)'
    BY DEF PaidInv
  <2>1. /\ UNCHANGED <<job, dlq, clones, execution, recovered>>
        /\ \A x \in Workers, y \in Slots :
             thread'[x][y].pc = "idle" \/ thread'[x][y] = thread[x][y]
    BY <1>0, <1>2, CrashEffect
  <2>2. Hands(j)' \subseteq Hands(j)
    BY <2>1 DEF Hands
  <2>3. Starting(j)' \subseteq Starting(j)
    BY <2>1, <2>2 DEF Hands, Starting
  <2>4. Waits(j)' = Waits(j)
    BY <2>1 DEF Waits
  <2>. QED
    BY <1>0, <2>1, <2>2, <2>3, <2>4, AccountType, RestPaid DEF PaidInv
<1>3. ASSUME NEW w \in Workers, Disturb(w), ~Crash(w) PROVE PaidInv'
  BY <1>3, DisturbQuiet, QuietPaid DEF Quiet
<1>. QED
  BY <1>1, <1>2, <1>3

\* A clone had a place before it was there, and an entry that goes leaves a clone.
LEMMA ReplayPaid ==
  ASSUME PaidInv, TypeOK', NEW d \in Jobs, RetryDeadJob(d)
  PROVE  PaidInv'
<1>0. TypeOK
  BY DEF PaidInv
<1>. SUFFICES ASSUME NEW j \in Jobs PROVE JobPaid(j)'
  BY DEF PaidInv
<1>1. /\ UNCHANGED <<execution, recovered, thread>>
      /\ GivenUp(j)' <=> GivenUp(j)
      /\ \/ job'[j].status = job[j].status
         \/ job[j].status = "absent" /\ job'[j].status = "queued"
  BY <1>0, ReplayEffect, ReplayRow
<1>2. Waits(j)' = Waits(j)
  BY <1>1 DEF Waits
<1>. QED
  BY <1>0, <1>1, <1>2, SameHands, AccountType, RestPaid DEF PaidInv

LEMMA InitPaid == Init => PaidInv
<1>. SUFFICES ASSUME Init PROVE PaidInv
  OBVIOUS
<1>. SUFFICES ASSUME NEW j \in Jobs PROVE JobPaid(j)
  BY InitTypeOK DEF PaidInv
<1>1. Hands(j) = {} /\ Starting(j) = {}
  <2>1. \A w \in Workers, s \in Slots : thread[w][s].pc = "idle"
    BY IdleType DEF Init
  <2>. QED
    BY <2>1 DEF Hands, Starting
<1>2. IsFiniteSet(Hands(j)) /\ Cardinality(Hands(j)) = 0 /\ Cardinality(Starting(j)) = 0
  BY <1>1, FS_EmptySet
<1>3. /\ Waits(j) = 1 /\ Buried(j) = 0 /\ recovered[j] = 0
      /\ execution[j].started = 0 /\ execution[j].completed = 0 /\ execution[j].failed = 0
  BY DEF Init, Waits, Buried
<1>. QED
  BY <1>2, <1>3 DEF JobPaid, PlacesPaid, StartsPaid

LEMMA NextPaid == PaidInv /\ [Next]_vars => PaidInv'
<1>. SUFFICES ASSUME PaidInv, [Next]_vars PROVE PaidInv'
  OBVIOUS
<1>1. TypeOK'
  BY NextTypeOK DEF PaidInv
<1>2. CASE UNCHANGED vars
  BY <1>1, <1>2, QuietPaid DEF vars
<1>. QED
  BY <1>1, <1>2, LoopPaid, RunJobPaid, ServicePaid, EnvironmentPaid, ReplayPaid DEF Next

\* However many live workers are taken for dead: two threads can only have the same
\* job in hand, or a job in hand that has ended, if the reaper recovered it.
THEOREM OverlapsPaid == Spec => []OverlapsArePaid
<1>1. PaidInv => OverlapsArePaid
  <2>. SUFFICES ASSUME PaidInv, NEW j \in Jobs
                PROVE  Cardinality(Hands(j)) + execution[j].completed + Buried(j)
                         <= 1 + recovered[j]
    BY DEF OverlapsArePaid, Buried
  <2>1. Cardinality(Hands(j)) \in Nat /\ PlacesPaid(j)
    BY StartingFinite DEF PaidInv, JobPaid
  <2>. QED
    BY <2>1, AccountType DEF PaidInv, PlacesPaid
<1>. QED
  BY <1>1, InitPaid, NextPaid, PTL DEF Spec

\* A job is never started again but after a failed execution or a recovery.
THEOREM StartsPaidFor == Spec => []StartsArePaid
<1>1. PaidInv => StartsArePaid
  <2>. SUFFICES ASSUME PaidInv, NEW j \in Jobs
                PROVE  execution[j].started <= 1 + execution[j].failed + recovered[j]
    BY DEF StartsArePaid
  <2>1. Cardinality(Starting(j)) \in Nat /\ StartsPaid(j)
    BY StartingFinite DEF PaidInv, JobPaid
  <2>. QED
    BY <2>1, AccountType DEF PaidInv, StartsPaid
<1>. QED
  BY <1>1, InitPaid, NextPaid, PTL DEF Spec

-----------------------------------------------------------------------------
(* How often a job is started                                              *)

JobAttempts(j) ==
    /\ execution[j].started <= execution[j].failed + recovered[j]
          + (IF job[j].status \in {"running", "completed"} THEN 1 ELSE 0)
    /\ job[j].status \in {"absent", "queued", "scheduled", "claimed"} =>
          execution[j].started < recovered[j] + Limit(j)
    /\ execution[j].started <= recovered[j] + Limit(j)

ThreadAttempts(t) ==
    /\ t.pc \in {"dispatched", "loaded"} => job[t.job].status = "claimed"
    /\ t.pc = "loaded" => t.status = "claimed"
    /\ t.pc \in {"running", "failed"} => job[t.job].status = "running"
    /\ t.pc = "failed" =>
         /\ t.retry_count > 0
         /\ execution[t.job].started <= execution[t.job].failed + recovered[t.job]

SameCounts(j) ==
    /\ job'[j].status = job[j].status
    /\ execution'[j] = execution[j]
    /\ recovered'[j] = recovered[j]

\* The invariant, job by job and thread by thread.
LEMMA AttemptInvParts ==
  ASSUME AttemptInv
  PROVE  /\ \A j \in Jobs : JobAttempts(j)
         /\ \A w \in Workers, s \in Slots : ThreadAttempts(thread[w][s])
<1>1. \A w \in Workers, s \in Slots : ThreadAttempts(thread[w][s])
  BY DEF AttemptInv, PcIsStatus, StartsCounted, ThreadAttempts
<1>2. \A j \in Jobs : JobAttempts(j)
  BY DEF AttemptInv, StartsCounted, StartLeft, AttemptsBounded, JobAttempts, Limit
<1>. QED
  BY <1>1, <1>2

LEMMA AttemptStep ==
  ASSUME AttemptInv, SafeInv',
         \A j \in Jobs : SameCounts(j) \/ JobAttempts(j)',
         \A x \in Workers, y \in Slots :
            \/ /\ thread'[x][y] = thread[x][y]
               /\ Busy(x, y) => SameCounts(thread[x][y].job)
            \/ ThreadAttempts(thread[x][y])'
  PROVE  AttemptInv'
<1>1. \A j \in Jobs : JobAttempts(j)'
  BY AttemptInvParts DEF SameCounts, JobAttempts, Limit
<1>2. \A x \in Workers, y \in Slots : ThreadAttempts(thread[x][y])'
  BY AttemptInvParts DEF SameCounts, ThreadAttempts, Busy
<1>3. PcIsStatus'
  BY <1>2 DEF PcIsStatus, ThreadAttempts
<1>4. StartsCounted'
  BY <1>1, <1>2 DEF StartsCounted, JobAttempts, ThreadAttempts
<1>5. StartLeft' /\ AttemptsBounded'
  BY <1>1 DEF StartLeft, AttemptsBounded, JobAttempts, Limit
<1>. QED
  BY <1>3, <1>4, <1>5 DEF AttemptInv

LEMMA LimitType == \A j \in Jobs : Limit(j) \in Nat /\ MaxRetries[j] <= Limit(j) /\ 1 <= Limit(j)
  BY ClusterAssumption DEF Limit

LEMMA RunJobAttempts ==
  ASSUME AttemptInv, SafeInv', NEW w \in Workers, NEW s \in Slots, RunJob(w, s)
  PROVE  AttemptInv'
<1>. DEFINE t == thread[w][s]  u == thread'[w][s]
            r == job[t.job]  q == job'[t.job]
            e == execution[t.job]  f == execution'[t.job]
            rec == recovered[t.job]
<1>0. TypeOK /\ SafeInv
  BY DEF AttemptInv, SafeInv
<1>1. /\ t.pc # "idle" /\ t.job \in Jobs
      /\ \A x \in Workers, y \in Slots : (x # w \/ y # s) => thread'[x][y] = thread[x][y]
      /\ \A k \in Jobs : k # t.job => job'[k] = job[k] /\ execution'[k] = execution[k]
      /\ recovered' = recovered
  BY <1>0, RunJobFrame
<1>2. /\ t.retry_count \in Nat /\ MaxRetries[t.job] \in Nat /\ Limit(t.job) \in Nat
      /\ e.started \in Nat /\ e.failed \in Nat /\ rec \in Nat
      /\ MaxRetries[t.job] <= Limit(t.job)
  BY <1>0, <1>1, ClusterAssumption, LimitType DEF TypeOK, ThreadState, ExecutionRows
<1>3. JobAttempts(t.job) /\ ThreadAttempts(t)
  BY <1>1, AttemptInvParts
<1>4. t.pc = "failed" => t.retry_count = e.failed + rec
  BY <1>0, <1>1 DEF SafeInv, CachesFresh, RetryAccounting
<1>5. /\ f.started <= f.failed + rec
           + (IF q.status \in {"running", "completed"} THEN 1 ELSE 0)
      /\ q.status \in {"absent", "queued", "scheduled", "claimed"} =>
           f.started < rec + Limit(t.job)
      /\ f.started <= rec + Limit(t.job)
      /\ u.pc # "idle" => u.job = t.job
      /\ u.pc \in {"dispatched", "loaded"} => q.status = "claimed"
      /\ u.pc = "loaded" => u.status = "claimed"
      /\ u.pc \in {"running", "failed"} => q.status = "running"
      /\ u.pc = "failed" => u.retry_count > 0 /\ f.started <= f.failed + rec
  <2>0. /\ e.started <= e.failed + rec
             + (IF r.status \in {"running", "completed"} THEN 1 ELSE 0)
        /\ r.status \in {"absent", "queued", "scheduled", "claimed"} =>
             e.started < rec + Limit(t.job)
        /\ e.started <= rec + Limit(t.job)
        /\ t.pc \in {"dispatched", "loaded"} => r.status = "claimed"
        /\ t.pc = "loaded" => t.status = "claimed"
        /\ t.pc \in {"running", "failed"} => r.status = "running"
        /\ t.pc = "failed" => t.retry_count > 0 /\ e.started <= e.failed + rec
    BY <1>3 DEF JobAttempts, ThreadAttempts
  <2>8. \/ Loads(t, u, r, q, e, f) \/ Starts(t, u, r, q, e, f)
        \/ GivesUp(t, u, r, q, e, f) \/ Completes(t, u, r, q, e, f)
        \/ FailsOnce(t, u, r, q, e, f) \/ Retries(t, u, r, q, e, f)
        \/ Buries(t, u, r, q, e, f)
    BY <1>0, RunJobEffect
  <2>. HIDE DEF t, u, r, q, e, f, rec
  <2>1. CASE Loads(t, u, r, q, e, f)
    BY <1>2, <2>0, <2>1 DEF Loads
  <2>2. CASE Starts(t, u, r, q, e, f)
    BY <1>2, <2>0, <2>2 DEF Starts
  <2>3. CASE GivesUp(t, u, r, q, e, f)
    BY <1>2, <2>0, <2>3 DEF GivesUp
  <2>4. CASE Completes(t, u, r, q, e, f)
    BY <1>2, <2>0, <2>4 DEF Completes
  <2>5. CASE FailsOnce(t, u, r, q, e, f)
    BY <1>2, <2>0, <2>5 DEF FailsOnce
  <2>6. CASE Retries(t, u, r, q, e, f)
    BY <1>2, <1>4, <2>0, <2>6 DEF Retries
  <2>7. CASE Buries(t, u, r, q, e, f)
    BY <1>2, <2>0, <2>7 DEF Buries
  <2>. QED
    BY <2>1, <2>2, <2>3, <2>4, <2>5, <2>6, <2>7, <2>8
<1>6. \A j \in Jobs : j = t.job => JobAttempts(j)'
  BY <1>1, <1>5 DEF JobAttempts, Limit
<1>7. ThreadAttempts(thread[w][s])'
  BY <1>1, <1>5 DEF ThreadAttempts
<1>8. \A j \in Jobs : SameCounts(j) \/ JobAttempts(j)'
  BY <1>1, <1>6 DEF SameCounts
<1>9. ASSUME NEW x \in Workers, NEW y \in Slots, x # w \/ y # s
      PROVE  /\ thread'[x][y] = thread[x][y]
             /\ Busy(x, y) => SameCounts(thread[x][y].job)
  <2>1. Busy(w, s)
    BY <1>1 DEF Busy
  <2>2. Busy(x, y) => thread[x][y].job # t.job /\ thread[x][y].job \in Jobs
    BY <1>0, <1>9, <2>1, BusyDistinct DEF SafeInv, TypeOK, Busy
  <2>. QED
    BY <1>1, <1>9, <2>2 DEF SameCounts
<1>. QED
  BY <1>7, <1>8, <1>9, AttemptStep

LEMMA BusyHasJob ==
  ASSUME SafeInv, NEW w \in Workers, NEW s \in Slots, Busy(w, s)
  PROVE  /\ thread[w][s].job \in Jobs
         /\ job[thread[w][s].job].status \notin {"absent", "queued", "scheduled"}
  BY DEF SafeInv, TypeOK, BusyHolds, Busy, Held

LEMMA LoopAttempts ==
  ASSUME AttemptInv, SafeInv', NEW w \in Workers, Loop(w)
  PROVE  AttemptInv'
<1>0. TypeOK /\ SafeInv
  BY DEF AttemptInv, SafeInv
<1>1. /\ UNCHANGED <<dlq, clones, execution, recovered, reaper>>
      /\ \A k \in Jobs : job'[k] # job[k] =>
           job[k].status = "queued" /\ job'[k].status = "claimed"
      /\ \A x \in Workers, y \in Slots : thread'[x][y] # thread[x][y] =>
           /\ thread'[x][y].pc = "dispatched"
           /\ job'[thread'[x][y].job].status = "claimed"
  BY <1>0, LoopEffect
<1>2. \A j \in Jobs : SameCounts(j) \/ JobAttempts(j)'
  BY <1>1, AttemptInvParts DEF SameCounts, JobAttempts, Limit
<1>3. \A x \in Workers, y \in Slots : Busy(x, y) => SameCounts(thread[x][y].job)
  BY <1>0, <1>1, BusyHasJob DEF SameCounts
<1>4. \A x \in Workers, y \in Slots :
        thread'[x][y] # thread[x][y] => ThreadAttempts(thread[x][y])'
  BY <1>1 DEF ThreadAttempts
<1>. QED
  BY <1>2, <1>3, <1>4, AttemptStep

\* A step that leaves the jobs and the counters alone.
LEMMA QuietAttempts ==
  ASSUME AttemptInv, SafeInv', Quiet
  PROVE  AttemptInv'
  BY AttemptStep DEF Quiet, SameCounts

LEMMA ServiceAttempts ==
  ASSUME AttemptInv, SafeInv', PromoteDueJobs \/ ReaperCycle
  PROVE  AttemptInv'
<1>0. TypeOK /\ SafeInv
  BY DEF AttemptInv, SafeInv
<1>1. CASE PromoteDueJobs
  <2>1. /\ UNCHANGED <<dlq, clones, execution, recovered, thread, reaper>>
        /\ \A k \in Jobs : job'[k] # job[k] =>
             job[k].status = "scheduled" /\ job'[k].status = "queued"
    BY <1>0, <1>1, PromotionEffect
  <2>2. \A j \in Jobs : SameCounts(j) \/ JobAttempts(j)'
    BY <2>1, AttemptInvParts DEF SameCounts, JobAttempts, Limit
  <2>3. \A x \in Workers, y \in Slots : Busy(x, y) => SameCounts(thread[x][y].job)
    BY <1>0, <2>1, BusyHasJob DEF SameCounts
  <2>. QED
    BY <2>1, <2>2, <2>3, AttemptStep
<1>2. CASE FindDeadWorkers \/ MarkWorkerAsDead \/ ReaperCrash
  BY <1>0, <1>2, ReaperQuiet, QuietAttempts
<1>3. ASSUME NEW w \in Workers, ReadOrphans(w) PROVE AttemptInv'
  BY <1>0, <1>3, ReadOrphansEffect, AttemptStep DEF SameCounts
<1>4. CASE RecoverOrphans
  <2>1. /\ UNCHANGED <<dlq, clones, execution, thread>>
        /\ reaper.pc = "recover"
        /\ \A k \in Jobs :
             IF k \in reaper.jobs
             THEN job'[k].status = "queued" /\ recovered'[k] = recovered[k] + 1
             ELSE job'[k] = job[k] /\ recovered'[k] = recovered[k]
    BY <1>0, <1>4, RecoveryEffect
  <2>2. ASSUME NEW j \in Jobs PROVE SameCounts(j) \/ JobAttempts(j)'
    <3>1. CASE j \notin reaper.jobs
      BY <2>1, <3>1 DEF SameCounts
    <3>2. CASE j \in reaper.jobs
      <4>1. /\ execution[j].started \in Nat /\ execution[j].failed \in Nat
            /\ recovered[j] \in Nat /\ Limit(j) \in Nat
        BY <1>0, LimitType DEF TypeOK, ExecutionRows
      <4>2. /\ execution[j].started <= execution[j].failed + recovered[j] + 1
            /\ execution[j].started <= recovered[j] + Limit(j)
        BY <4>1, AttemptInvParts DEF JobAttempts
      <4>3. /\ job'[j].status = "queued" /\ recovered'[j] = recovered[j] + 1
            /\ execution' = execution
        BY <2>1, <3>2
      <4>. QED
        BY <4>1, <4>2, <4>3 DEF JobAttempts, Limit
    <3>. QED
      BY <3>1, <3>2
  <2>3. \A x \in Workers, y \in Slots : Busy(x, y) => SameCounts(thread[x][y].job)
    BY <1>0, <2>1 DEF SafeInv, TypeOK, ReaperApart, Busy, SameCounts
  <2>. QED
    BY <2>1, <2>2, <2>3, AttemptStep
<1>. QED
  BY <1>1, <1>2, <1>3, <1>4 DEF ReaperCycle

LEMMA EnvironmentAttempts ==
  ASSUME AttemptInv, SafeInv', PruneDeadWorkers \/ (\E w \in Workers : Disturb(w))
  PROVE  AttemptInv'
<1>0. TypeOK
  BY DEF AttemptInv, SafeInv
<1>1. CASE PruneDeadWorkers
  <2>1. /\ UNCHANGED <<dlq, clones, execution, recovered, thread, reaper>>
        /\ \A k \in Jobs : job'[k].status = job[k].status
    BY <1>0, <1>1, PruneEffect
  <2>2. \A x \in Workers, y \in Slots : Busy(x, y) => thread[x][y].job \in Jobs
    BY <1>0 DEF TypeOK, Busy
  <2>. QED
    BY <2>1, <2>2, AttemptStep DEF SameCounts
<1>2. ASSUME NEW w \in Workers, Crash(w) PROVE AttemptInv'
  <2>1. /\ UNCHANGED <<job, execution, recovered>>
        /\ \A y \in Slots : thread'[w][y].pc = "idle"
        /\ \A x \in Workers, y \in Slots : x # w => thread'[x][y] = thread[x][y]
    BY <1>0, <1>2, CrashEffect
  <2>2. \A x \in Workers, y \in Slots :
           thread'[x][y] = thread[x][y] \/ ThreadAttempts(thread[x][y])'
    BY <2>1 DEF ThreadAttempts
  <2>. QED
    BY <2>1, <2>2, AttemptStep DEF SameCounts
<1>3. ASSUME NEW w \in Workers, Disturb(w), ~Crash(w) PROVE AttemptInv'
  BY <1>3, DisturbQuiet, QuietAttempts
<1>. QED
  BY <1>1, <1>2, <1>3

LEMMA ReplayAttempts ==
  ASSUME AttemptInv, SafeInv', NEW d \in Jobs, RetryDeadJob(d)
  PROVE  AttemptInv'
<1>0. TypeOK /\ SafeInv
  BY DEF AttemptInv, SafeInv
<1>1. /\ UNCHANGED <<execution, recovered, thread>>
      /\ \A k \in Jobs : \/ job'[k] = job[k]
                         \/ job[k].status = "absent" /\ job'[k].status = "queued"
  BY <1>0, ReplayEffect, ReplayRow
<1>2. \A j \in Jobs : SameCounts(j) \/ JobAttempts(j)'
  BY <1>1, AttemptInvParts DEF SameCounts, JobAttempts, Limit
<1>3. \A x \in Workers, y \in Slots : Busy(x, y) => SameCounts(thread[x][y].job)
  BY <1>0, <1>1, BusyHasJob DEF SameCounts
<1>. QED
  BY <1>1, <1>2, <1>3, AttemptStep

LEMMA InitAttempts == Init => AttemptInv
<1>. SUFFICES ASSUME Init PROVE AttemptInv
  OBVIOUS
<1>1. \A w \in Workers, s \in Slots : thread[w][s].pc = "idle"
  BY IdleType DEF Init
<1>2. PcIsStatus /\ StartsCounted
  BY <1>1 DEF Init, PcIsStatus, StartsCounted
<1>3. StartLeft /\ AttemptsBounded
  BY LimitType DEF Init, StartLeft, AttemptsBounded, Limit
<1>. QED
  BY <1>2, <1>3, InitSafe DEF AttemptInv

LEMMA NextAttempts ==
  ASSUME NoFalseDeath
  PROVE  AttemptInv /\ [Next]_vars => AttemptInv'
<1>. SUFFICES ASSUME AttemptInv, [Next]_vars PROVE AttemptInv'
  OBVIOUS
<1>1. SafeInv'
  BY NextSafe DEF AttemptInv
<1>2. CASE UNCHANGED vars
  BY <1>1, <1>2, QuietAttempts DEF vars, Quiet
<1>. QED
  BY <1>1, <1>2, LoopAttempts, RunJobAttempts, ServiceAttempts, EnvironmentAttempts,
     ReplayAttempts DEF Next

\* A job is started max(1, max_retries) times at most, not counting the starts
\* that a recovery by the reaper made up for.
THEOREM StartsBounded == ASSUME NoFalseDeath PROVE Spec => []AttemptsBounded
<1>1. AttemptInv => AttemptsBounded
  BY DEF AttemptInv
<1>. QED
  BY <1>1, InitAttempts, NextAttempts, PTL DEF Spec

-----------------------------------------------------------------------------
(* No job is stranded                                                      *)

\* No live process is taken for dead, no statement fails, and administrators who
\* decommission workers do it where none crashes and no row is pruned.
NothingDropped ==
    /\ NoFalseDeath
    /\ "db_error" \notin Faults
    /\ "decommission" \notin Faults \/ {"crash", "prune"} \intersect Faults = {}

Abandoned(j) ==
    \E w \in Workers : /\ job[j].worker = w
                       /\ row[w].status = "active"
                       /\ process[w] = "crashed"

\* The worker in the reaper's hand has crashed and its row is active.
LEMMA ReaperHolds ==
  ASSUME StrandInv, reaper.pc \in {"recover", "mark"}
  PROVE  /\ reaper.worker \in Workers /\ reaper.worker \in reaper.found
         /\ process[reaper.worker] = "crashed"
         /\ row[reaper.worker].status = "active"
  BY DEF StrandInv, SafeInv, FoundIsActive, StaleIsCrashed, TypeOK, ReaperState

\* Every claimed or running job is assigned to a worker whose row is active.
LEMMA HeldIsOwned ==
  ASSUME StrandInv, "decommission" \notin Faults, NEW j \in Jobs, job[j].status \in Held
  PROVE  \E w \in Workers : job[j].worker = w /\ row[w].status = "active"
<1>1. CASE InHand(j)
  BY <1>1 DEF InHand, Live, StrandInv, BusyOwned, LiveIsActive, Busy
<1>2. CASE reaper.pc = "recover" /\ j \in reaper.jobs
  <2>1. j \in Orphans(reaper.worker)
    BY <1>2 DEF StrandInv, OrphansKnown
  <2>. QED
    BY <1>2, <2>1, ReaperHolds DEF Orphans
<1>3. CASE Abandoned(j)
  BY <1>3 DEF Abandoned
<1>. QED
  BY <1>1, <1>2, <1>3 DEF StrandInv, NoStrandedJob, Abandoned

\* Workers and their rows may change, as long as the crashed ones are not hidden
\* from the reaper.
LEMMA StrandRows ==
  ASSUME StrandInv, SafeInv', UNCHANGED <<job, thread, reaper>>, LiveIsActive',
         \A w \in reaper.found : row'[w].status = "active",
         \A w \in Workers : process'[w] = "crashed" => process[w] = "crashed",
         \A w \in Workers : process[w] = "crashed" /\ row[w].status = "active"
            => process'[w] = "crashed" /\ row'[w].status = "active"
  PROVE  StrandInv'
<1>1. BusyOwned'
  BY DEF StrandInv, BusyOwned, Busy
<1>2. FoundIsActive'
  BY DEF StrandInv, FoundIsActive
<1>3. OrphansKnown'
  BY DEF StrandInv, OrphansKnown, Orphans
<1>4. ASSUME NEW j \in Jobs, InHand(j) PROVE InHand(j)'
  <2>1. PICK w \in Workers, s \in Slots : Live(w, s) /\ thread[w][s].job = j
    BY <1>4 DEF InHand
  <2>2. process'[w] \in Alive
    BY <2>1 DEF SafeInv, BusyIsAlive, Busy, Live
  <2>. QED
    BY <2>1, <2>2 DEF InHand, Live
<1>5. NoStrandedJob'
  BY <1>4 DEF StrandInv, NoStrandedJob
<1>6. CrashKnown'
  BY DEF StrandInv, CrashKnown
<1>. QED
  BY <1>1, <1>2, <1>3, <1>5, <1>6 DEF StrandInv

\* Jobs and threads may change, as long as the reaper has not read them and what
\* is claimed or running has a thread.
LEMMA StrandJobs ==
  ASSUME StrandInv, SafeInv', UNCHANGED <<row, reaper>>, BusyOwned',
         \A w \in Workers : process'[w] \in Alive => process[w] \in Alive,
         \A w \in Workers : process[w] = "crashed" <=> process'[w] = "crashed",
         reaper.pc \in {"recover", "mark"} =>
            Orphans(reaper.worker)' = Orphans(reaper.worker),
         \A j \in Jobs : job'[j].status \in Held =>
            \/ InHand(j)'
            \/ job'[j] = job[j] /\ ~InHand(j)
  PROVE  StrandInv'
<1>1. LiveIsActive' /\ CrashKnown' /\ FoundIsActive'
  BY DEF StrandInv, LiveIsActive, CrashKnown, FoundIsActive
<1>2. OrphansKnown'
  <2>1. reaper' = reaper
    OBVIOUS
  <2>2. reaper.pc = "recover" => reaper.jobs = Orphans(reaper.worker)'
    BY DEF StrandInv, OrphansKnown
  <2>3. reaper.pc = "mark" => Orphans(reaper.worker)' = {}
    BY DEF StrandInv, OrphansKnown
  <2>. QED
    BY <2>1, <2>2, <2>3 DEF OrphansKnown
<1>3. NoStrandedJob'
  BY DEF StrandInv, NoStrandedJob
<1>. QED
  BY <1>1, <1>2, <1>3 DEF StrandInv

LEMMA LoopStrand ==
  ASSUME NothingDropped, StrandInv, SafeInv', NEW w \in Workers, Loop(w)
  PROVE  StrandInv'
<1>0. TypeOK /\ SafeInv
  BY DEF StrandInv, SafeInv
<1>1. /\ process[w] # "crashed" /\ process'[w] # "crashed"
      /\ process[w] # "new" => process[w] \in Alive
      /\ \A x \in Workers : x # w => process'[x] = process[x]
  BY <1>0 DEF Loop, Register, Claim, ClaimThenError, PollNothing, NotDue,
     ReadHeartbeat, WriteHeartbeat, Deregister, TypeOK, Alive
<1>2. w \notin reaper.found
  BY <1>0, <1>1 DEF SafeInv, StaleIsCrashed
<1>3. CASE Claim(w)
  <2>1. /\ UNCHANGED <<row, reaper>>
        /\ process[w] = "poll" /\ process' = [process EXCEPT ![w] = "beat"]
    BY <1>3 DEF Claim
  <2>2. /\ \A k \in Jobs : job'[k] # job[k] =>
             /\ job[k].status = "queued" /\ job'[k].worker = w
             /\ \E y \in Slots : thread'[w][y].pc # "idle" /\ thread'[w][y].job = k
        /\ \A x \in Workers, y \in Slots : thread'[x][y] # thread[x][y] =>
             /\ x = w /\ thread[x][y].pc = "idle"
             /\ job'[thread'[x][y].job].worker = w
    BY <1>0, LoopEffect DEF NothingDropped
  <2>3. BusyOwned'
    <3>. SUFFICES ASSUME NEW x \in Workers, NEW y \in Slots, thread'[x][y].pc # "idle",
                         thread'[x][y] = thread[x][y]
                  PROVE  job'[thread[x][y].job].worker = x
      BY <2>2 DEF BusyOwned, Busy
    <3>1. Busy(x, y)
      BY DEF Busy
    <3>. QED
      BY <1>0, <2>2, <3>1, BusyHasJob DEF StrandInv, BusyOwned
  <2>4. ASSUME reaper.pc \in {"recover", "mark"}
        PROVE  Orphans(reaper.worker)' = Orphans(reaper.worker)
    <3>1. reaper.worker # w
      BY <1>1, <2>4, ReaperHolds
    <3>2. \A k \in Jobs :
            (job'[k].worker = reaper.worker /\ job'[k].status \in Held)
              <=> (job[k].worker = reaper.worker /\ job[k].status \in Held)
      BY <2>2, <3>1 DEF Held
    <3>. QED
      BY <2>1, <3>2 DEF Orphans
  <2>5. \A x \in Workers : process'[x] \in Alive <=> process[x] \in Alive
    BY <1>0, <2>1 DEF TypeOK, Alive
  <2>6. ASSUME NEW j \in Jobs, job'[j] # job[j] PROVE InHand(j)'
    <3>1. PICK y \in Slots : thread'[w][y].pc # "idle" /\ thread'[w][y].job = j
      BY <2>2, <2>6
    <3>. QED
      BY <2>1, <2>5, <3>1 DEF InHand, Live, Alive
  <2>7. ASSUME NEW j \in Jobs, InHand(j) PROVE InHand(j)'
    <3>1. PICK x \in Workers, y \in Slots : Live(x, y) /\ thread[x][y].job = j
      BY <2>7 DEF InHand
    <3>2. thread'[x][y] = thread[x][y] /\ process'[x] \in Alive
      BY <2>2, <2>5, <3>1 DEF Live
    <3>. QED
      BY <3>1, <3>2 DEF InHand, Live
  <2>. QED
    BY <1>1, <2>1, <2>3, <2>4, <2>5, <2>6, <2>7, StrandJobs
<1>4. CASE ClaimThenError(w)
  BY <1>4 DEF ClaimThenError, Fault, NothingDropped
<1>5. CASE Register(w)
  BY <1>0, <1>1, <1>5, StrandRows DEF Register, TypeOK, StrandInv, LiveIsActive, FoundIsActive
<1>6. CASE PollNothing(w) \/ NotDue(w) \/ ReadHeartbeat(w)
  <2>1. UNCHANGED <<job, thread, reaper, row>>
    BY <1>6 DEF PollNothing, NotDue, ReadHeartbeat
  <2>2. process[w] \in Alive
    BY <1>6 DEF PollNothing, NotDue, ReadHeartbeat, Alive
  <2>. QED
    BY <1>1, <2>1, <2>2, StrandRows DEF StrandInv, LiveIsActive, FoundIsActive
<1>7. CASE WriteHeartbeat(w)
  <2>1. UNCHANGED <<job, thread, reaper>> /\ process[w] \in Alive
    BY <1>7 DEF WriteHeartbeat, Alive
  <2>2. \A x \in Workers : row'[x].status = row[x].status
    BY <1>0, <1>7 DEF WriteHeartbeat, TypeOK, WorkerRow
  <2>3. reaper.found \subseteq Workers
    BY <1>0 DEF TypeOK, ReaperState
  <2>. QED
    BY <1>1, <2>1, <2>2, <2>3, StrandRows DEF StrandInv, LiveIsActive, FoundIsActive
<1>8. CASE Deregister(w)
  <2>1. /\ UNCHANGED <<job, thread, reaper>>
        /\ process'[w] = "exited"
        /\ \A x \in Workers : x # w => row'[x] = row[x]
    BY <1>0, <1>8 DEF Deregister, TypeOK
  <2>2. reaper.found \subseteq Workers
    BY <1>0 DEF TypeOK, ReaperState
  <2>3. LiveIsActive'
    BY <1>1, <2>1 DEF StrandInv, LiveIsActive, Alive
  <2>. QED
    BY <1>1, <1>2, <2>1, <2>2, <2>3, StrandRows DEF StrandInv, FoundIsActive
<1>. QED
  BY <1>3, <1>4, <1>5, <1>6, <1>7, <1>8 DEF Loop

LEMMA RunJobStrand ==
  ASSUME NothingDropped, StrandInv, SafeInv', NEW w \in Workers, NEW s \in Slots,
         RunJob(w, s)
  PROVE  StrandInv'
<1>. DEFINE t == thread[w][s]  u == thread'[w][s]
            r == job[t.job]  q == job'[t.job]
            e == execution[t.job]  f == execution'[t.job]
<1>0. TypeOK /\ SafeInv
  BY DEF StrandInv, SafeInv
<1>1. /\ process[w] \in Alive
      /\ t.pc # "idle" /\ t.job \in Jobs
      /\ \A x \in Workers, y \in Slots : (x # w \/ y # s) => thread'[x][y] = thread[x][y]
      /\ \A k \in Jobs : k # t.job => job'[k] = job[k]
      /\ UNCHANGED <<row, process, reaper>>
  BY <1>0, RunJobFrame
<1>2. r.worker = w /\ Exists(w)
  BY <1>1 DEF StrandInv, BusyOwned, LiveIsActive, Busy, Exists
<1>3. /\ q.worker = r.worker
      /\ u.pc # "idle" => u.job = t.job
      /\ q.status \in Held => u.pc # "idle"
  <2>1. \/ Loads(t, u, r, q, e, f) \/ Starts(t, u, r, q, e, f)
        \/ Completes(t, u, r, q, e, f) \/ FailsOnce(t, u, r, q, e, f)
        \/ Retries(t, u, r, q, e, f) \/ Buries(t, u, r, q, e, f)
    BY <1>0, <1>2, RunJobEffect DEF NothingDropped
  <2>. HIDE DEF t, u, r, q, e, f
  <2>. QED
    BY <2>1 DEF Loads, Starts, Completes, FailsOnce, Retries, Buries, Held
<1>4. ASSUME NEW x \in Workers, NEW y \in Slots, x # w \/ y # s, Busy(x, y)
      PROVE  thread[x][y].job # t.job /\ thread[x][y].job \in Jobs
  <2>1. Busy(w, s)
    BY <1>1 DEF Busy
  <2>. QED
    BY <1>0, <1>4, <2>1, BusyDistinct, BusyHasJob DEF SafeInv
<1>5. BusyOwned'
  <2>. SUFFICES ASSUME NEW x \in Workers, NEW y \in Slots, thread'[x][y].pc # "idle"
                PROVE  job'[thread'[x][y].job].worker = x
    BY DEF BusyOwned, Busy
  <2>1. CASE x = w /\ y = s
    BY <1>2, <1>3, <2>1
  <2>2. CASE x # w \/ y # s
    <3>1. thread'[x][y] = thread[x][y] /\ Busy(x, y)
      BY <1>1, <2>2 DEF Busy
    <3>. QED
      BY <1>1, <1>4, <2>2, <3>1 DEF StrandInv, BusyOwned
  <2>. QED
    BY <2>1, <2>2
<1>6. ASSUME reaper.pc \in {"recover", "mark"}
      PROVE  Orphans(reaper.worker)' = Orphans(reaper.worker)
  <2>1. reaper.worker # w
    BY <1>1, <1>6, ReaperHolds DEF Alive
  <2>2. \A k \in Jobs : job'[k] # job[k] =>
          job[k].worker # reaper.worker /\ job'[k].worker # reaper.worker
    BY <1>1, <1>2, <1>3, <2>1
  <2>3. \A k \in Jobs :
          (job'[k].worker = reaper.worker /\ job'[k].status \in Held)
            <=> (job[k].worker = reaper.worker /\ job[k].status \in Held)
    BY <2>2
  <2>. QED
    BY <1>1, <2>3 DEF Orphans
<1>7. ASSUME NEW j \in Jobs, job'[j].status \in Held
      PROVE  InHand(j)' \/ (job'[j] = job[j] /\ ~InHand(j))
  <2>1. CASE j = t.job
    <3>1. process'[w] \in Alive /\ thread'[w][s].pc # "idle" /\ thread'[w][s].job = j
      BY <1>1, <1>3, <1>7, <2>1
    <3>2. Live(w, s)'
      BY <3>1 DEF Live
    <3>. QED
      BY <3>1, <3>2 DEF InHand
  <2>2. CASE j # t.job
    <3>1. ASSUME InHand(j) PROVE InHand(j)'
      <4>1. PICK x \in Workers, y \in Slots : Live(x, y) /\ thread[x][y].job = j
        BY <3>1 DEF InHand
      <4>2. x # w \/ y # s
        BY <2>2, <4>1
      <4>3. thread'[x][y] = thread[x][y] /\ process'[x] = process[x]
        BY <1>1, <4>2
      <4>. QED
        BY <4>1, <4>3 DEF InHand, Live
    <3>. QED
      BY <1>1, <2>2, <3>1
  <2>. QED
    BY <2>1, <2>2
<1>. HIDE DEF t, u, r, q, e, f
<1>. QED
  BY <1>1, <1>5, <1>6, <1>7, StrandJobs

\* When neither jobs nor threads nor workers change, only the reaper does.
LEMMA StrandReaper ==
  ASSUME StrandInv, SafeInv', UNCHANGED <<job, thread, process, row>>,
         FoundIsActive', OrphansKnown',
         \A j \in Jobs : reaper.pc = "recover" /\ j \in reaper.jobs /\ job[j].status \in Held
            => Abandoned(j)
  PROVE  StrandInv'
<1>1. BusyOwned' /\ LiveIsActive' /\ CrashKnown'
  BY DEF StrandInv, BusyOwned, LiveIsActive, CrashKnown, Busy
<1>2. \A j \in Jobs : (InHand(j) => InHand(j)') /\ (Abandoned(j) => Abandoned(j)')
  BY DEF InHand, Live, Abandoned
<1>3. \A j \in Jobs : job[j].status \in Held => InHand(j) \/ Abandoned(j)
  BY DEF StrandInv, NoStrandedJob, Abandoned
<1>4. NoStrandedJob'
  BY <1>2, <1>3 DEF NoStrandedJob, Abandoned
<1>. QED
  BY <1>1, <1>4 DEF StrandInv

LEMMA RecoverAbandoned ==
  ASSUME StrandInv, reaper.pc = "recover", NEW j \in reaper.jobs
  PROVE  Abandoned(j)
<1>1. j \in Orphans(reaper.worker)
  BY DEF StrandInv, OrphansKnown
<1>. QED
  BY <1>1, ReaperHolds DEF Orphans, Abandoned

LEMMA ServiceStrand ==
  ASSUME StrandInv, SafeInv', PromoteDueJobs \/ ReaperCycle
  PROVE  StrandInv'
<1>0. TypeOK /\ SafeInv
  BY DEF StrandInv, SafeInv
<1>1. CASE PromoteDueJobs
  <2>1. /\ UNCHANGED <<row, process, thread, reaper>>
        /\ \A k \in Jobs : job'[k] # job[k] =>
             job[k].status = "scheduled" /\ job'[k].status = "queued"
    BY <1>0, <1>1, PromotionEffect
  <2>2. BusyOwned'
    BY <1>0, <2>1, BusyHasJob DEF StrandInv, BusyOwned, Busy
  <2>3. \A k \in Jobs : job'[k] # job[k] =>
          job[k].status \notin Held /\ job'[k].status \notin Held
    BY <2>1 DEF Held
  <2>4. \A w : Orphans(w)' = Orphans(w)
    BY <2>3 DEF Orphans
  <2>5. Orphans(reaper.worker)' = Orphans(reaper.worker)
    BY <2>1, <2>3 DEF Orphans
  <2>6. \A j \in Jobs : InHand(j) => InHand(j)'
    BY <2>1 DEF InHand, Live
  <2>. QED
    BY <2>1, <2>2, <2>3, <2>5, <2>6, StrandJobs
<1>2. CASE FindDeadWorkers
  <2>. DEFINE stale == {w \in Workers : Stale(w)}
              next == IF \E w \in Workers : Stale(w) THEN "next" ELSE "idle"
  <2>1. /\ UNCHANGED <<job, thread, process, row>> /\ reaper.pc = "idle"
        /\ reaper' = [reaper EXCEPT !.found = stale, !.pc = next]
        /\ next \in {"idle", "next"}
        /\ \A w \in stale : row[w].status = "active"
    BY <1>2 DEF FindDeadWorkers, Stale
  <2>. HIDE DEF stale, next
  <2>2. reaper'.found = stale /\ reaper'.pc = next
    BY <1>0, <2>1 DEF TypeOK, ReaperState
  <2>3. FoundIsActive' /\ OrphansKnown'
    BY <2>1, <2>2 DEF FoundIsActive, OrphansKnown
  <2>. QED
    BY <2>1, <2>3, StrandReaper
<1>3. ASSUME NEW w \in Workers, ReadOrphans(w) PROVE StrandInv'
  <2>1. /\ UNCHANGED <<job, row, process, thread>>
        /\ w \in reaper.found /\ reaper'.found = reaper.found
        /\ reaper'.worker = w /\ reaper'.jobs = Orphans(w)
        /\ reaper'.pc = IF Orphans(w) = {} THEN "mark" ELSE "recover"
    BY <1>0, <1>3, ReadOrphansEffect
  <2>2. reaper.pc = "next"
    BY <1>3 DEF ReadOrphans
  <2>3. FoundIsActive'
    BY <2>1 DEF StrandInv, FoundIsActive
  <2>4. OrphansKnown'
    BY <2>1 DEF OrphansKnown, Orphans
  <2>. QED
    BY <2>1, <2>2, <2>3, <2>4, StrandReaper
<1>4. CASE RecoverOrphans
  <2>1. /\ UNCHANGED <<row, process, thread>>
        /\ reaper.pc = "recover" /\ reaper'.pc = "mark"
        /\ reaper'.found = reaper.found /\ reaper'.worker = reaper.worker
        /\ \A k \in Jobs :
             IF k \in reaper.jobs
             THEN job'[k].status = "queued" /\ job'[k].worker = NoWorker
             ELSE job'[k] = job[k]
    BY <1>0, <1>4, RecoveryEffect
  <2>2. FoundIsActive' /\ LiveIsActive' /\ CrashKnown'
    BY <2>1 DEF StrandInv, FoundIsActive, LiveIsActive, CrashKnown
  <2>3. \A x \in Workers, y \in Slots : Busy(x, y) =>
           thread[x][y].job \in Jobs /\ thread[x][y].job \notin reaper.jobs
    BY <1>0, <2>1, BusyHasJob DEF SafeInv, ReaperApart, Busy
  <2>4. BusyOwned'
    BY <2>1, <2>3 DEF StrandInv, BusyOwned, Busy
  <2>5. \A k \in Jobs : job'[k].status \in Held => k \notin reaper.jobs /\ job'[k] = job[k]
    BY <2>1 DEF Held
  <2>6. reaper.jobs = Orphans(reaper.worker)
    BY <2>1 DEF StrandInv, OrphansKnown
  <2>7. OrphansKnown'
    BY <2>1, <2>5, <2>6 DEF OrphansKnown, Orphans
  <2>8. NoStrandedJob'
    <3>. SUFFICES ASSUME NEW j \in Jobs, job'[j].status \in Held
                  PROVE  InHand(j)' \/ Abandoned(j)'
      BY DEF NoStrandedJob, Abandoned
    <3>1. InHand(j) \/ Abandoned(j)
      BY <2>5 DEF StrandInv, NoStrandedJob, Abandoned
    <3>. QED
      BY <2>1, <2>5, <3>1 DEF InHand, Live, Abandoned
  <2>. QED
    BY <2>2, <2>4, <2>7, <2>8 DEF StrandInv
<1>5. CASE MarkWorkerAsDead
  <2>. DEFINE m == reaper.worker
  <2>1. /\ UNCHANGED <<job, process, thread>>
        /\ reaper.pc = "mark" /\ reaper'.pc \in {"idle", "next"}
        /\ reaper'.found = reaper.found \ {m}
        /\ row' = [row EXCEPT ![m].status = IF Exists(m) THEN "dead" ELSE @]
    BY <1>5 DEF MarkWorkerAsDead, Resting
  <2>2. /\ m \in Workers /\ process[m] = "crashed" /\ Orphans(m) = {}
        /\ reaper.found \subseteq Workers
    BY <1>0, <2>1, ReaperHolds DEF StrandInv, OrphansKnown, TypeOK, ReaperState
  <2>3. \A x \in Workers : x # m => row'[x] = row[x]
    BY <1>0, <2>1 DEF TypeOK
  <2>4. LiveIsActive' /\ CrashKnown'
    BY <2>1, <2>2, <2>3 DEF StrandInv, LiveIsActive, CrashKnown, Alive
  <2>5. FoundIsActive' /\ OrphansKnown'
    BY <2>1, <2>2, <2>3 DEF StrandInv, FoundIsActive, OrphansKnown
  <2>6. BusyOwned'
    BY <2>1 DEF StrandInv, BusyOwned, Busy
  <2>7. NoStrandedJob'
    <3>. SUFFICES ASSUME NEW j \in Jobs, job[j].status \in Held
                  PROVE  InHand(j)' \/ Abandoned(j)'
      BY <2>1 DEF NoStrandedJob, Abandoned
    <3>1. InHand(j) \/ Abandoned(j)
      BY <2>1 DEF StrandInv, NoStrandedJob, Abandoned
    <3>2. job[j].worker # m
      BY <2>2 DEF Orphans
    <3>3. InHand(j) => InHand(j)'
      BY <2>1 DEF InHand, Live
    <3>4. Abandoned(j) => Abandoned(j)'
      BY <2>1, <2>3, <3>2 DEF Abandoned
    <3>. QED
      BY <3>1, <3>3, <3>4
  <2>. QED
    BY <2>4, <2>5, <2>6, <2>7 DEF StrandInv
<1>6. CASE ReaperCrash
  <2>1. UNCHANGED <<job, thread, process, row>> /\ reaper'.pc = "idle" /\ reaper'.found = {}
    BY <1>6 DEF ReaperCrash, Resting
  <2>2. FoundIsActive' /\ OrphansKnown'
    BY <2>1 DEF FoundIsActive, OrphansKnown
  <2>. QED
    BY <2>1, <2>2, StrandReaper, RecoverAbandoned
<1>. QED
  BY <1>1, <1>2, <1>3, <1>4, <1>5, <1>6 DEF ReaperCycle

LEMMA EnvironmentStrand ==
  ASSUME NothingDropped, StrandInv, SafeInv',
         PruneDeadWorkers \/ (\E w \in Workers : Disturb(w))
  PROVE  StrandInv'
<1>0. TypeOK /\ SafeInv
  BY DEF StrandInv, SafeInv
<1>1. CASE PruneDeadWorkers
  <2>1. /\ UNCHANGED <<process, thread, reaper>>
        /\ \A k \in Jobs :
             /\ job'[k].status = job[k].status
             /\ job'[k].worker = IF \E x \in Workers : job[k].worker = x /\ row[x].status = "dead"
                                 THEN NoWorker ELSE job[k].worker
        /\ \A x \in Workers : row[x].status # "dead" => row'[x] = row[x]
    BY <1>0, <1>1, PruneEffect
  <2>0. "decommission" \notin Faults
    BY <1>0, <1>1, PruneEffect DEF NothingDropped
  <2>2. \A k \in Jobs : job[k].status \in Held => job'[k].worker = job[k].worker
    BY <2>0, <2>1, HeldIsOwned
  <2>3. LiveIsActive' /\ CrashKnown'
    BY <2>0, <2>1 DEF StrandInv, LiveIsActive, CrashKnown
  <2>4. BusyOwned'
    <3>1. \A x \in Workers, y \in Slots : Busy(x, y) =>
             thread[x][y].job \in Jobs /\ job[thread[x][y].job].status \in Held
      BY <1>0 DEF SafeInv, BusyHolds, TypeOK, Busy
    <3>. QED
      BY <2>1, <2>2, <3>1 DEF StrandInv, BusyOwned, Busy
  <2>5. FoundIsActive'
    <3>1. reaper.found \subseteq Workers
      BY <1>0 DEF TypeOK, ReaperState
    <3>. QED
      BY <2>1, <3>1 DEF StrandInv, FoundIsActive
  <2>6. OrphansKnown'
    <3>1. Orphans(reaper.worker)' = Orphans(reaper.worker)
      BY <2>1, <2>2 DEF Orphans
    <3>. QED
      BY <2>1, <3>1 DEF StrandInv, OrphansKnown
  <2>7. NoStrandedJob'
    <3>. SUFFICES ASSUME NEW j \in Jobs, job[j].status \in Held
                  PROVE  InHand(j)' \/ (reaper'.pc = "recover" /\ j \in reaper'.jobs)
                         \/ Abandoned(j)'
      BY <2>1 DEF NoStrandedJob, Abandoned
    <3>1. InHand(j) \/ (reaper.pc = "recover" /\ j \in reaper.jobs) \/ Abandoned(j)
      BY DEF StrandInv, NoStrandedJob, Abandoned
    <3>2. InHand(j) => InHand(j)'
      BY <2>1 DEF InHand, Live
    <3>3. Abandoned(j) => Abandoned(j)'
      BY <2>1, <2>2 DEF Abandoned
    <3>. QED
      BY <2>1, <3>1, <3>2, <3>3
  <2>. QED
    BY <2>3, <2>4, <2>5, <2>6, <2>7 DEF StrandInv
<1>2. ASSUME NEW w \in Workers, Crash(w) PROVE StrandInv'
  <2>1. /\ UNCHANGED <<job, row, reaper>>
        /\ process[w] \in Alive /\ process'[w] = "crashed"
        /\ \A x \in Workers : x # w => process'[x] = process[x]
        /\ \A y \in Slots : thread'[w][y].pc = "idle"
        /\ \A x \in Workers, y \in Slots : x # w => thread'[x][y] = thread[x][y]
    BY <1>0, <1>2, CrashEffect DEF TypeOK
  <2>0. "crash" \in Faults /\ "decommission" \notin Faults
    BY <1>2 DEF Crash, Fault, NothingDropped
  <2>2. LiveIsActive' /\ CrashKnown' /\ FoundIsActive'
    BY <2>0, <2>1 DEF StrandInv, LiveIsActive, CrashKnown, FoundIsActive, Alive
  <2>3. BusyOwned'
    BY <2>1 DEF StrandInv, BusyOwned, Busy
  <2>4. OrphansKnown'
    BY <2>1 DEF StrandInv, OrphansKnown, Orphans
  <2>5. NoStrandedJob'
    <3>. SUFFICES ASSUME NEW j \in Jobs, job[j].status \in Held
                  PROVE  InHand(j)' \/ (reaper'.pc = "recover" /\ j \in reaper'.jobs)
                         \/ Abandoned(j)'
      BY <2>1 DEF NoStrandedJob, Abandoned
    <3>1. InHand(j) \/ (reaper.pc = "recover" /\ j \in reaper.jobs) \/ Abandoned(j)
      BY DEF StrandInv, NoStrandedJob, Abandoned
    <3>2. Abandoned(j) => Abandoned(j)'
      BY <2>1 DEF Abandoned
    <3>3. ASSUME InHand(j) PROVE InHand(j)' \/ Abandoned(j)'
      <4>1. PICK x \in Workers, y \in Slots : Live(x, y) /\ thread[x][y].job = j
        BY <3>3 DEF InHand
      <4>2. CASE x = w
        <5>1. job[j].worker = w /\ row[w].status = "active"
          BY <2>0, <4>1, <4>2 DEF Live, Busy, StrandInv, BusyOwned, LiveIsActive
        <5>. QED
          BY <2>1, <5>1 DEF Abandoned
      <4>3. CASE x # w
        <5>1. thread'[x][y] = thread[x][y] /\ process'[x] = process[x]
          BY <2>1, <4>3
        <5>. QED
          BY <4>1, <5>1 DEF InHand, Live
      <4>. QED
        BY <4>2, <4>3
    <3>. QED
      BY <2>1, <3>1, <3>2, <3>3
  <2>. QED
    BY <2>2, <2>3, <2>4, <2>5 DEF StrandInv
<1>3. ASSUME NEW w \in Workers, Shutdown(w) PROVE StrandInv'
  <2>1. /\ UNCHANGED <<job, thread, reaper, row>>
        /\ process[w] = "poll" /\ process'[w] = "draining"
        /\ \A x \in Workers : x # w => process'[x] = process[x]
    BY <1>0, <1>3 DEF Shutdown, TypeOK
  <2>. QED
    BY <2>1, StrandRows DEF StrandInv, LiveIsActive, FoundIsActive, Alive
<1>4. ASSUME NEW w \in Workers, HeartbeatExpires(w) PROVE StrandInv'
  <2>1. UNCHANGED <<job, thread, reaper, process>>
    BY <1>4 DEF HeartbeatExpires
  <2>2. \A x \in Workers : row'[x].status = row[x].status
    BY <1>0, <1>4 DEF HeartbeatExpires, Expire, TypeOK, WorkerRow
  <2>3. reaper.found \subseteq Workers
    BY <1>0 DEF TypeOK, ReaperState
  <2>. QED
    BY <2>1, <2>2, <2>3, StrandRows DEF StrandInv, LiveIsActive, FoundIsActive
<1>5. ASSUME NEW w \in Workers, Decommission(w) PROVE StrandInv'
  <2>1. /\ UNCHANGED <<job, thread, reaper, process>>
        /\ "decommission" \in Faults /\ "crash" \notin Faults
    BY <1>5 DEF Decommission, Fault, NothingDropped
  <2>2. \A x \in Workers : row'[x].status \in {row[x].status, "dead"}
                           /\ (row[x].status = "dead" => row'[x].status = "dead")
    BY <1>0, <1>5 DEF Decommission, TypeOK, WorkerRow
  <2>3. /\ \A x \in Workers : process[x] # "crashed"
        /\ \A x \in reaper.found : x \in Workers /\ process[x] = "crashed"
    BY <1>0, <2>1 DEF StrandInv, CrashKnown, SafeInv, StaleIsCrashed, TypeOK, ReaperState
  <2>4. LiveIsActive'
    BY <2>1, <2>2 DEF StrandInv, LiveIsActive
  <2>. QED
    BY <2>1, <2>3, <2>4, StrandRows
<1>6. ASSUME NEW w \in Workers, Stall(w) \/ LongDrain(w) PROVE FALSE
  BY <1>6 DEF NothingDropped, NoFalseDeath, Stall, LongDrain, Fault
<1>. QED
  BY <1>1, <1>2, <1>3, <1>4, <1>5, <1>6 DEF Disturb

LEMMA ReplayStrand ==
  ASSUME StrandInv, SafeInv', NEW d \in Jobs, RetryDeadJob(d)
  PROVE  StrandInv'
<1>0. TypeOK /\ SafeInv
  BY DEF StrandInv, SafeInv
<1>1. /\ UNCHANGED <<row, process, thread, reaper>>
      /\ \A k \in Jobs : job'[k] # job[k] =>
           job[k].status = "absent" /\ job'[k].status = "queued"
  BY <1>0, ReplayEffect, ReplayRow
<1>2. BusyOwned'
  BY <1>0, <1>1, BusyHasJob DEF StrandInv, BusyOwned, Busy
<1>3. \A k \in Jobs : job'[k] # job[k] =>
        job[k].status \notin Held /\ job'[k].status \notin Held
  BY <1>1 DEF Held
<1>4. Orphans(reaper.worker)' = Orphans(reaper.worker)
  BY <1>1, <1>3 DEF Orphans
<1>5. \A j \in Jobs : InHand(j) => InHand(j)'
  BY <1>1 DEF InHand, Live
<1>. QED
  BY <1>1, <1>2, <1>3, <1>4, <1>5, StrandJobs

LEMMA InitStrand == Init => StrandInv
<1>. SUFFICES ASSUME Init PROVE StrandInv
  OBVIOUS
<1>1. \A w \in Workers, s \in Slots : thread[w][s].pc = "idle"
  BY IdleType DEF Init
<1>2. reaper.found = {} /\ reaper.pc = "idle"
  BY DEF Init, Resting
<1>3. BusyOwned /\ LiveIsActive /\ CrashKnown /\ FoundIsActive /\ OrphansKnown
  BY <1>1, <1>2 DEF Init, BusyOwned, LiveIsActive, CrashKnown, FoundIsActive, OrphansKnown,
     Busy, Alive
<1>4. NoStrandedJob
  BY DEF Init, NoStrandedJob, Held
<1>. QED
  BY <1>3, <1>4, InitSafe DEF StrandInv

LEMMA NextStrand ==
  ASSUME NothingDropped
  PROVE  StrandInv /\ [Next]_vars => StrandInv'
<1>. SUFFICES ASSUME StrandInv, [Next]_vars PROVE StrandInv'
  OBVIOUS
<1>1. SafeInv'
  BY NextSafe DEF StrandInv, NothingDropped
<1>2. CASE UNCHANGED vars
  <2>1. UNCHANGED <<job, thread, reaper, row, process>>
    BY <1>2 DEF vars
  <2>. QED
    BY <1>1, <2>1, StrandRows DEF StrandInv, LiveIsActive, FoundIsActive
<1>. QED
  BY <1>1, <1>2, LoopStrand, RunJobStrand, ServiceStrand, EnvironmentStrand,
     ReplayStrand DEF Next

\* Whatever crashes, drains or is pruned, or else whatever is decommissioned: a claimed or running job is always in the
\* hands of a thread or of the reaper, or the reaper will still find its worker.
THEOREM NoJobStranded == ASSUME NothingDropped PROVE Spec => []NoStrandedJob
<1>1. StrandInv => NoStrandedJob
  BY DEF StrandInv
<1>. QED
  BY <1>1, InitStrand, NextStrand, PTL DEF Spec

-----------------------------------------------------------------------------
(* The cluster implements the contract                                     *)

PhaseOf(status) ==
    IF status = "absent" THEN "unsubmitted"
    ELSE IF status \in {"queued", "scheduled"} THEN "waiting"
    ELSE IF status \in Held THEN "executing" ELSE status

Waiting == {"queued", "scheduled"}

\* The steps of the contract, in terms of the rows.
RowStep(r, q, max) ==
    \/ q.status = r.status /\ q.retry_count = r.retry_count
    \/ r.status = "absent" /\ q.status = "queued" /\ q.retry_count = r.retry_count
    \/ r.status \in Waiting /\ q.status \in Waiting /\ q.retry_count = r.retry_count
    \/ r.status \in Waiting /\ q.status \in Held /\ q.retry_count = r.retry_count
    \/ r.status \in Held /\ q.status \in Held
         /\ q.retry_count \in {r.retry_count, r.retry_count + 1}
    \/ r.status \in Held /\ q.status \in Waiting
         /\ q.retry_count \in {r.retry_count, r.retry_count + 1}
    \/ r.status \in Held /\ q.status = "completed" /\ q.retry_count = r.retry_count
    \/ r.status \in Held /\ q.status = "dead" /\ q.retry_count = r.retry_count
         /\ r.retry_count > 0 /\ r.retry_count >= max

LEMMA PhaseValue ==
  /\ TypeOK => \A j \in Jobs : phaseOf[j] = PhaseOf(job[j].status)
  /\ TypeOK' => \A j \in Jobs : phaseOf'[j] = PhaseOf(job'[j].status)
  BY DEF phaseOf, PhaseOf, TypeOK, JobRow, JobStatus, Held

LEMMA PhaseType ==
  /\ TypeOK => phaseOf \in [Jobs -> Contract!Phases] /\ triesOf \in [Jobs -> Nat]
  /\ TypeOK' => phaseOf' \in [Jobs -> Contract!Phases] /\ triesOf' \in [Jobs -> Nat]
<1>1. ASSUME NEW st \in JobStatus PROVE PhaseOf(st) \in Contract!Phases
  BY DEF PhaseOf, JobStatus, Held, Contract!Phases
<1>2. ASSUME TypeOK PROVE phaseOf \in [Jobs -> Contract!Phases] /\ triesOf \in [Jobs -> Nat]
  <2>1. \A j \in Jobs : job[j].status \in JobStatus /\ job[j].retry_count \in Nat
    BY <1>2 DEF TypeOK, JobRow
  <2>2. \A j \in Jobs : phaseOf[j] \in Contract!Phases
    BY <1>1, <1>2, <2>1, PhaseValue
  <2>. QED
    BY <2>1, <2>2 DEF phaseOf, triesOf
<1>3. ASSUME TypeOK' PROVE phaseOf' \in [Jobs -> Contract!Phases] /\ triesOf' \in [Jobs -> Nat]
  <2>1. \A j \in Jobs : job'[j].status \in JobStatus /\ job'[j].retry_count \in Nat
    BY <1>3 DEF TypeOK, JobRow
  <2>2. \A j \in Jobs : phaseOf'[j] \in Contract!Phases
    BY <1>1, <1>3, <2>1, PhaseValue
  <2>. QED
    BY <2>1, <2>2 DEF phaseOf, triesOf
<1>. QED
  BY <1>2, <1>3

\* A step of the rows is a step of the contract, or none.
LEMMA RowStepIsJobStep ==
  ASSUME TypeOK, TypeOK', NEW j \in Jobs, RowStep(job[j], job'[j], MaxRetries[j])
  PROVE  Contract!JobStep(j) \/ Contract!Stay(j)
<1>. DEFINE r == job[j]  q == job'[j]
<1>1. /\ phaseOf[j] = PhaseOf(r.status) /\ phaseOf'[j] = PhaseOf(q.status)
      /\ triesOf[j] = r.retry_count /\ triesOf'[j] = q.retry_count
  BY PhaseValue DEF triesOf
<1>2. r.retry_count \in Nat /\ q.retry_count \in Nat
  BY DEF TypeOK, JobRow
<1>. HIDE DEF r, q
<1>3. /\ PhaseOf("completed") = "completed" /\ PhaseOf("dead") = "dead"
      /\ PhaseOf("absent") = "unsubmitted" /\ PhaseOf("queued") = "waiting"
      /\ \A st \in Waiting : PhaseOf(st) = "waiting"
      /\ \A st \in Held : PhaseOf(st) = "executing"
  BY DEF PhaseOf, Waiting, Held
<1>4. RowStep(r, q, MaxRetries[j])
  BY DEF r, q
<1>. QED
  BY <1>1, <1>2, <1>3, <1>4
  DEF RowStep, Contract!JobStep, Contract!Stay, Contract!Moves, Contract!Submit, Contract!Take,
      Contract!Fail, Contract!GiveBack, Contract!Lose, Contract!Finish, Contract!GiveUp

LEMMA NextRowStep ==
  ASSUME AttemptInv, Next, NEW j \in Jobs
  PROVE  RowStep(job[j], job'[j], MaxRetries[j])
<1>0. TypeOK /\ SafeInv
  BY DEF AttemptInv, SafeInv
<1>1. job'[j] = job[j] => RowStep(job[j], job'[j], MaxRetries[j])
  BY DEF RowStep
<1>2. ASSUME NEW w \in Workers, Loop(w) PROVE RowStep(job[j], job'[j], MaxRetries[j])
  BY <1>0, <1>1, <1>2, LoopEffect DEF RowStep, Waiting, Held
<1>3. ASSUME NEW w \in Workers, NEW s \in Slots, RunJob(w, s)
      PROVE  RowStep(job[j], job'[j], MaxRetries[j])
  <2>. DEFINE t == thread[w][s]  u == thread'[w][s]
              e == execution[j]  f == execution'[j]
              r == job[j]  q == job'[j]
  <2>1. CASE t.job # j
    BY <1>0, <1>1, <1>3, <2>1, RunJobFrame
  <2>2. CASE t.job = j
    <3>1. \/ Loads(t, u, r, q, e, f) \/ Starts(t, u, r, q, e, f)
          \/ GivesUp(t, u, r, q, e, f) \/ Completes(t, u, r, q, e, f)
          \/ FailsOnce(t, u, r, q, e, f) \/ Retries(t, u, r, q, e, f)
          \/ Buries(t, u, r, q, e, f)
      BY <1>0, <1>3, <2>2, RunJobEffect
    <3>2. /\ t.pc \in {"loaded", "running", "failed"} => t.retry_count = r.retry_count
          /\ t.pc = "loaded" => r.status = "claimed" /\ t.status = "claimed"
          /\ t.pc \in {"running", "failed"} => r.status = "running"
          /\ t.pc = "failed" => t.retry_count > 0
      BY <1>0, <2>2 DEF SafeInv, CachesFresh, AttemptInv, PcIsStatus
    <3>3. MaxRetries[t.job] = MaxRetries[j]
      BY <2>2
    <3>. HIDE DEF t, u, e, f, r, q
    <3>4. RowStep(r, q, MaxRetries[j])
      BY <3>1, <3>2, <3>3
      DEF Loads, Starts, GivesUp, Completes, FailsOnce, Retries, Buries, RowStep,
          Waiting, Held
    <3>. QED
      BY <3>4 DEF r, q
  <2>. QED
    BY <2>1, <2>2
<1>4. CASE PromoteDueJobs
  BY <1>0, <1>1, <1>4, PromotionEffect DEF RowStep, Waiting
<1>5. CASE ReaperCycle
  <2>1. CASE RecoverOrphans
    <3>1. /\ reaper.pc = "recover"
          /\ IF j \in reaper.jobs
             THEN /\ job'[j].status = "queued"
                  /\ job'[j].retry_count = reaper.retry_count[j] + 1
             ELSE job'[j] = job[j]
      BY <1>0, <2>1, RecoveryEffect
    <3>2. j \in reaper.jobs =>
            job[j].status \in Held /\ reaper.retry_count[j] = job[j].retry_count
      BY <1>0, <3>1 DEF SafeInv, ReaperApart, CachesFresh
    <3>. QED
      BY <1>1, <3>1, <3>2 DEF RowStep, Waiting
  <2>2. ASSUME NEW w \in Workers, ReadOrphans(w) PROVE job' = job
    BY <1>0, <2>2, ReadOrphansEffect
  <2>3. CASE FindDeadWorkers \/ MarkWorkerAsDead \/ ReaperCrash
    BY <1>0, <1>1, <2>3, ReaperQuiet DEF Quiet
  <2>. QED
    BY <1>1, <1>5, <2>1, <2>2, <2>3 DEF ReaperCycle
<1>6. CASE PruneDeadWorkers
  BY <1>0, <1>6, PruneEffect DEF RowStep
<1>7. ASSUME NEW w \in Workers, Disturb(w) PROVE job' = job
  BY <1>0, <1>7, DisturbQuiet, CrashEffect DEF Quiet
<1>8. ASSUME NEW d \in Jobs, RetryDeadJob(d)
      PROVE  RowStep(job[j], job'[j], MaxRetries[j])
  <2>1. \/ job'[j] = job[j]
        \/ /\ job[j].status = "absent"
           /\ job'[j] = [job[j] EXCEPT !.status = "queued"]
    BY <1>0, <1>8, ReplayEffect
  <2>. QED
    BY <1>0, <1>1, <2>1 DEF RowStep, TypeOK, JobRow
<1>. QED
  BY <1>1, <1>2, <1>3, <1>4, <1>5, <1>6, <1>7, <1>8 DEF Next

\* As long as no live process is taken for dead, the life of every job is one that
\* the contract allows, whatever crashes, drains or is pruned.
THEOREM ClusterImplementsContract ==
  ASSUME NoFalseDeath PROVE Spec => ImplementsContract
<1>1. ASSUME Init PROVE Contract!ContractInit
  <2>1. \A j \in Jobs : job[j].status \in {"queued", "absent"} /\ job[j].retry_count = 0
    BY <1>1 DEF Init
  <2>2. \A j \in Jobs : phaseOf[j] \in {"waiting", "unsubmitted"} /\ triesOf[j] = 0
    BY <1>1, <2>1, InitTypeOK, PhaseValue DEF PhaseOf, triesOf
  <2>3. phaseOf \in [Jobs -> Contract!Phases] /\ triesOf \in [Jobs -> Nat]
    BY <1>1, InitTypeOK, PhaseType
  <2>. HIDE DEF phaseOf, triesOf
  <2>. QED
    BY <2>2, <2>3 DEF Contract!ContractInit
<1>2. AttemptInv /\ AttemptInv' /\ [Next]_vars
        => [Contract!ContractNext]_(Contract!contractVars)
  <2>. SUFFICES ASSUME AttemptInv, AttemptInv', [Next]_vars
                PROVE  [Contract!ContractNext]_(Contract!contractVars)
    OBVIOUS
  <2>1. CASE UNCHANGED vars
    BY <2>1 DEF vars, Contract!contractVars, phaseOf, triesOf
  <2>2. CASE Next
    <3>1. TypeOK /\ TypeOK'
      BY DEF AttemptInv, SafeInv
    <3>2. \A j \in Jobs : Contract!JobStep(j) \/ Contract!Stay(j)
      BY <2>2, <3>1, NextRowStep, RowStepIsJobStep
    <3>3. phaseOf' \in [Jobs -> Contract!Phases] /\ triesOf' \in [Jobs -> Nat]
      BY <3>1, PhaseType
    <3>. QED
      BY <3>2, <3>3 DEF Contract!ContractNext
  <2>. QED
    BY <2>1, <2>2
<1>. QED
  BY <1>1, <1>2, InitAttempts, NextAttempts, PTL DEF Spec, ImplementsContract,
     Contract!ContractSpec
=============================================================================
