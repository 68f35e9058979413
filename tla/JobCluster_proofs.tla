------------------------- MODULE JobCluster_proofs -------------------------
(***************************************************************************)
(* Proofs about JobCluster.                                                *)
(***************************************************************************)
EXTENDS JobClusterInv, TLAPS

USE DEF Alive, Held, Final, JobStatus, GivenUp

-----------------------------------------------------------------------------
(* Lemmas on the operators the actions are built from                      *)

\* Writing a well-typed thread state into a slot keeps the type of thread.
LEMMA SetThreadType ==
  ASSUME thread \in [Workers -> [Slots -> ThreadState]],
         NEW w \in Workers, NEW s \in Slots, NEW v \in ThreadState,
         SetThread(w, s, v)
  PROVE  thread' \in [Workers -> [Slots -> ThreadState]]
  BY DEF SetThread

\* SetThread changes the slot and no other.
LEMMA SetThreadValue ==
  ASSUME thread \in [Workers -> [Slots -> ThreadState]],
         NEW w \in Workers, NEW s \in Slots, NEW v, SetThread(w, s, v)
  PROVE  /\ thread'[w][s] = v
         /\ \A x \in Workers, y \in Slots :
              (x # w \/ y # s) => thread'[x][y] = thread[x][y]
  BY DEF SetThread

LEMMA IdleType == Idle \in ThreadState /\ Idle.pc = "idle"
  BY DEF Idle, ThreadState

\* Replacing one field of one row keeps the types of the rows.
LEMMA JobStatusType ==
  ASSUME TypeOK, NEW j \in Jobs, NEW st \in JobStatus,
         job' = [job EXCEPT ![j].status = st]
  PROVE  job' \in [Jobs -> JobRow]
  BY DEF TypeOK, JobRow

LEMMA ExecutionType ==
  ASSUME TypeOK, NEW j \in Jobs,
         \/ execution' = [execution EXCEPT ![j].started = @ + 1]
         \/ execution' = [execution EXCEPT ![j].completed = @ + 1]
         \/ execution' = [execution EXCEPT ![j].failed = @ + 1]
  PROVE  execution' \in [Jobs -> ExecutionRows]
<1>1. execution[j] \in ExecutionRows
  BY DEF TypeOK
<1>2. /\ [execution[j] EXCEPT !.started = @ + 1] \in ExecutionRows
      /\ [execution[j] EXCEPT !.completed = @ + 1] \in ExecutionRows
      /\ [execution[j] EXCEPT !.failed = @ + 1] \in ExecutionRows
  BY <1>1 DEF ExecutionRows
<1>3. \E r \in ExecutionRows : execution' = [execution EXCEPT ![j] = r]
  BY <1>2
<1>. QED
  BY <1>3 DEF TypeOK

LEMMA RestingType == Resting \in ReaperState
  BY DEF Resting, ReaperState

\* A step that writes one thread keeps the types of all threads.
LEMMA ThreadStepType ==
  ASSUME TypeOK, NEW w \in Workers, NEW s \in Slots, NEW v \in ThreadState,
         v.pc # "idle" => v.job \in Jobs,
         SetThread(w, s, v)
  PROVE  /\ thread' \in [Workers -> [Slots -> ThreadState]]
         /\ \A x \in Workers, y \in Slots :
              thread'[x][y].pc # "idle" => thread'[x][y].job \in Jobs
<1>1. thread' \in [Workers -> [Slots -> ThreadState]]
  BY SetThreadType DEF TypeOK
<1>2. /\ thread'[w][s] = v
      /\ \A x \in Workers, y \in Slots :
           (x # w \/ y # s) => thread'[x][y] = thread[x][y]
  BY SetThreadValue DEF TypeOK
<1>. QED
  BY <1>1, <1>2 DEF TypeOK

-----------------------------------------------------------------------------
(* Type correctness                                                        *)

\* The initial state is well typed.
LEMMA InitTypeOK == Init => TypeOK
<1>. SUFFICES ASSUME Init PROVE TypeOK
  OBVIOUS
<1>1. thread \in [Workers -> [Slots -> ThreadState]]
  BY IdleType DEF Init
<1>2. \A w \in Workers, s \in Slots : thread[w][s].pc = "idle"
  BY IdleType DEF Init
<1>3. job \in [Jobs -> JobRow] /\ execution \in [Jobs -> ExecutionRows]
  BY DEF Init, JobRow, ExecutionRows
<1>4. row \in [Workers -> WorkerRow] /\ reaper \in ReaperState
  BY RestingType DEF Init, WorkerRow
<1>. QED
  BY <1>1, <1>2, <1>3, <1>4, ClusterAssumption DEF Init, TypeOK

\* Steps of the worker loop keep the types.
LEMMA LoopTypeOK ==
  ASSUME TypeOK, NEW w \in Workers, Loop(w)
  PROVE  TypeOK'
<1>1. CASE Register(w)
  <2>1. row' \in [Workers -> WorkerRow]
    BY <1>1 DEF TypeOK, Register, WorkerRow
  <2>. QED
    BY <1>1, <2>1 DEF TypeOK, Register
<1>2. CASE Claim(w)
  <2>0. PICK used \in (SUBSET FreeSlots(w)) \ {{}} :
          \E task \in Injection(used, Claimable) :
            /\ job' = ClaimedRows(w, Range(task))
            /\ thread' = [thread EXCEPT ![w] = [s \in Slots |->
                  IF s \in used
                  THEN [Idle EXCEPT !.pc = "dispatched", !.job = task[s]]
                  ELSE thread[w][s]]]
    BY <1>2 DEF Claim
  <2>1. PICK task \in Injection(used, Claimable) :
          /\ job' = ClaimedRows(w, Range(task))
          /\ thread' = [thread EXCEPT ![w] = [s \in Slots |->
                IF s \in used
                THEN [Idle EXCEPT !.pc = "dispatched", !.job = task[s]]
                ELSE thread[w][s]]]
    BY <2>0
  <2>2. \A s \in used : task[s] \in Jobs
    BY DEF Injection, Claimable
  <2>3. job' \in [Jobs -> JobRow]
    BY <2>1 DEF TypeOK, ClaimedRows, JobRow
  <2>4. \A s \in used :
          LET v == [Idle EXCEPT !.pc = "dispatched", !.job = task[s]] IN
          v \in ThreadState /\ v.job \in Jobs
    BY <2>2 DEF Idle, ThreadState
  <2>5. thread' \in [Workers -> [Slots -> ThreadState]]
    BY <2>1, <2>4 DEF TypeOK
  <2>6. \A v \in Workers, s \in Slots :
          thread'[v][s].pc # "idle" => thread'[v][s].job \in Jobs
    BY <2>1, <2>4 DEF TypeOK
  <2>. QED
    BY <1>2, <2>3, <2>5, <2>6 DEF TypeOK, Claim
<1>3. CASE ClaimThenError(w)
  <2>1. PICK batch : job' = ClaimedRows(w, batch)
    BY <1>3 DEF ClaimThenError
  <2>2. job' \in [Jobs -> JobRow]
    BY <2>1 DEF TypeOK, ClaimedRows, JobRow
  <2>. QED
    BY <1>3, <2>2 DEF TypeOK, ClaimThenError, Fault
<1>4. CASE PollNothing(w)
  BY <1>4 DEF TypeOK, PollNothing
<1>5. CASE NotDue(w)
  BY <1>5 DEF TypeOK, NotDue
<1>6. CASE ReadHeartbeat(w)
  BY <1>6 DEF TypeOK, ReadHeartbeat
<1>7. CASE WriteHeartbeat(w)
  <2>1. row' \in [Workers -> WorkerRow]
    BY <1>7 DEF TypeOK, WriteHeartbeat, Exists, WorkerRow
  <2>. QED
    BY <1>7, <2>1 DEF TypeOK, WriteHeartbeat
<1>8. CASE Deregister(w)
  <2>1. row' \in [Workers -> WorkerRow]
    BY <1>8 DEF TypeOK, Deregister, WorkerRow
  <2>. QED
    BY <1>8, <2>1 DEF TypeOK, Deregister
<1>. QED
  BY <1>1, <1>2, <1>3, <1>4, <1>5, <1>6, <1>7, <1>8 DEF Loop

\* Steps of the executor threads keep the types.
LEMMA RunJobTypeOK ==
  ASSUME TypeOK, NEW w \in Workers, NEW s \in Slots, RunJob(w, s)
  PROVE  TypeOK'
<1>. DEFINE t == thread[w][s]
<1>0. t \in ThreadState /\ (t.pc # "idle" => t.job \in Jobs)
  BY DEF TypeOK
<1>1. CASE LoadJob(w, s)
  <2>. DEFINE v == [pc |-> "loaded", job |-> t.job,
                    retry_count |-> job[t.job].retry_count,
                    status |-> job[t.job].status]
  <2>1. v \in ThreadState /\ v.job \in Jobs
    BY <1>0, <1>1 DEF TypeOK, LoadJob, ThreadState, JobRow
  <2>2. SetThread(w, s, v)
    BY <1>1 DEF LoadJob
  <2>. HIDE DEF v
  <2>. QED
    BY <1>1, <2>1, <2>2, ThreadStepType DEF TypeOK, LoadJob
<1>2. CASE StartRun(w, s)
  <2>. DEFINE v == [t EXCEPT !.pc = "running"]
  <2>0. t.job \in Jobs
    BY <1>0, <1>2 DEF StartRun
  <2>1. v \in ThreadState /\ v.job \in Jobs
    BY <1>0, <1>2 DEF StartRun, ThreadState
  <2>2. SetThread(w, s, v)
    BY <1>2 DEF StartRun
  <2>3. job' \in [Jobs -> JobRow]
    <3>. DEFINE st == IF t.status = "running" THEN job[t.job].status
                                              ELSE "running"
    <3>1. st \in JobStatus
      BY <2>0 DEF TypeOK, JobRow
    <3>2. job' = [job EXCEPT ![t.job].status = st]
      BY <1>2 DEF StartRun
    <3>. HIDE DEF st
    <3>. QED
      BY <2>0, <3>1, <3>2, JobStatusType
  <2>4. execution' \in [Jobs -> ExecutionRows]
    <3>1. execution' = [execution EXCEPT ![t.job].started = @ + 1]
      BY <1>2 DEF StartRun
    <3>. QED
      BY <2>0, <3>1, ExecutionType
  <2>. HIDE DEF v
  <2>. QED
    BY <1>2, <2>1, <2>2, <2>3, <2>4, ThreadStepType DEF TypeOK, StartRun
<1>3. CASE StartRefused(w, s)
  BY <1>3, IdleType, ThreadStepType DEF TypeOK, StartRefused
<1>4. CASE CompleteRun(w, s)
  <2>1. job' \in [Jobs -> JobRow]
    BY <1>4 DEF TypeOK, CompleteRun, JobRow
  <2>2. execution' \in [Jobs -> ExecutionRows]
    BY <1>0, <1>4, ExecutionType DEF CompleteRun
  <2>. QED
    BY <1>4, <2>1, <2>2, IdleType, ThreadStepType DEF TypeOK, CompleteRun
<1>5. CASE FailRun(w, s)
  <2>. DEFINE v == [t EXCEPT !.pc = "failed", !.retry_count = @ + 1]
  <2>1. v \in ThreadState /\ v.job \in Jobs
    <3>1. t.pc = "running"
      BY <1>5 DEF FailRun
    <3>2. t.retry_count + 1 \in Nat
      BY <1>0 DEF ThreadState
    <3>. QED
      BY <1>0, <3>1, <3>2 DEF ThreadState
  <2>2. SetThread(w, s, v)
    BY <1>5 DEF FailRun
  <2>3. t.retry_count + 1 \in Nat
    BY <1>0 DEF ThreadState
  <2>4. job' \in [Jobs -> JobRow]
    BY <1>5, <2>3 DEF TypeOK, FailRun, JobRow
  <2>5. execution' \in [Jobs -> ExecutionRows]
    BY <1>0, <1>5, ExecutionType DEF FailRun
  <2>. HIDE DEF v
  <2>. QED
    BY <1>5, <2>1, <2>2, <2>4, <2>5, ThreadStepType DEF TypeOK, FailRun
<1>6. CASE ScheduleRetry(w, s)
  <2>1. job' \in [Jobs -> JobRow]
    BY <1>6 DEF TypeOK, ScheduleRetry, JobRow
  <2>. QED
    BY <1>6, <2>1, IdleType, ThreadStepType DEF TypeOK, ScheduleRetry
<1>7. CASE MoveToDlq(w, s)
  <2>1. job' \in [Jobs -> JobRow]
    BY <1>7 DEF TypeOK, MoveToDlq, JobRow
  <2>2. dlq' \subseteq Jobs
    BY <1>0, <1>7 DEF TypeOK, MoveToDlq
  <2>. QED
    BY <1>7, <2>1, <2>2, IdleType, ThreadStepType DEF TypeOK, MoveToDlq
<1>8. CASE ExecutorError(w, s)
  BY <1>8, IdleType, ThreadStepType DEF TypeOK, ExecutorError, Fault
<1>. QED
  BY <1>1, <1>2, <1>3, <1>4, <1>5, <1>6, <1>7, <1>8 DEF RunJob

\* Promotion and the reaper keep the types.
LEMMA ServiceTypeOK ==
  ASSUME TypeOK, PromoteDueJobs \/ ReaperCycle
  PROVE  TypeOK'
<1>1. CASE PromoteDueJobs
  <2>1. job' \in [Jobs -> JobRow]
    <3>1. PICK due \in SUBSET Jobs :
            job' = [j \in Jobs |-> IF j \in due
                                   THEN [job[j] EXCEPT !.status = "queued"]
                                   ELSE job[j]]
      BY <1>1 DEF PromoteDueJobs
    <3>. QED
      BY <3>1 DEF TypeOK, JobRow
  <2>. QED
    BY <1>1, <2>1 DEF TypeOK, PromoteDueJobs
<1>2. CASE FindDeadWorkers
  <2>1. reaper' \in ReaperState
    BY <1>2 DEF TypeOK, FindDeadWorkers, ReaperState
  <2>. QED
    BY <1>2, <2>1 DEF TypeOK, FindDeadWorkers
<1>3. ASSUME NEW w \in Workers, ReadOrphans(w) PROVE TypeOK'
  <2>1. \A j \in Jobs : job[j].retry_count \in Nat
    BY DEF TypeOK, JobRow
  <2>2. reaper' \in ReaperState
    BY <1>3, <2>1 DEF TypeOK, ReadOrphans, ReaperState, Orphans
  <2>. QED
    BY <1>3, <2>2 DEF TypeOK, ReadOrphans
<1>4. CASE RecoverOrphans
  <2>1. job' \in [Jobs -> JobRow]
    BY <1>4 DEF TypeOK, RecoverOrphans, JobRow, ReaperState
  <2>2. reaper' \in ReaperState
    BY <1>4 DEF TypeOK, RecoverOrphans, Resting, ReaperState
  <2>3. recovered' \in [Jobs -> Nat]
    BY <1>4 DEF TypeOK, RecoverOrphans
  <2>. QED
    BY <1>4, <2>1, <2>2, <2>3 DEF TypeOK, RecoverOrphans
<1>5. CASE MarkWorkerAsDead
  <2>1. row' \in [Workers -> WorkerRow]
    BY <1>5 DEF TypeOK, MarkWorkerAsDead, WorkerRow
  <2>2. reaper' \in ReaperState
    BY <1>5 DEF TypeOK, MarkWorkerAsDead, Resting, ReaperState
  <2>. QED
    BY <1>5, <2>1, <2>2 DEF TypeOK, MarkWorkerAsDead
<1>6. CASE ReaperCrash
  BY <1>6, RestingType DEF TypeOK, ReaperCrash, Fault
<1>. QED
  BY <1>1, <1>2, <1>3, <1>4, <1>5, <1>6 DEF ReaperCycle

\* The environment keeps the types.
LEMMA EnvironmentTypeOK ==
  ASSUME TypeOK, PruneDeadWorkers \/ (\E w \in Workers : Disturb(w))
  PROVE  TypeOK'
<1>1. CASE PruneDeadWorkers
  <2>1. row' \in [Workers -> WorkerRow]
    BY <1>1 DEF TypeOK, PruneDeadWorkers, WorkerRow
  <2>2. job' \in [Jobs -> JobRow]
    <3>1. PICK gone \in SUBSET Workers :
            job' = [j \in Jobs |-> IF job[j].worker \in gone
                                   THEN [job[j] EXCEPT !.worker = NoWorker]
                                   ELSE job[j]]
      BY <1>1 DEF PruneDeadWorkers
    <3>2. \A j \in Jobs : [job[j] EXCEPT !.worker = NoWorker] \in JobRow
      BY DEF TypeOK, JobRow
    <3>. QED
      BY <3>1, <3>2 DEF TypeOK
  <2>. QED
    BY <1>1, <2>1, <2>2 DEF TypeOK, PruneDeadWorkers, Fault
<1>2. ASSUME NEW w \in Workers, Crash(w) PROVE TypeOK'
  <2>1. thread' \in [Workers -> [Slots -> ThreadState]]
    BY <1>2, IdleType DEF TypeOK, Crash
  <2>2. \A x \in Workers, y \in Slots :
          thread'[x][y].pc # "idle" => thread'[x][y].job \in Jobs
    BY <1>2, IdleType DEF TypeOK, Crash
  <2>. QED
    BY <1>2, <2>1, <2>2 DEF TypeOK, Crash, Fault
<1>3. ASSUME NEW w \in Workers, Shutdown(w) PROVE TypeOK'
  BY <1>3 DEF TypeOK, Shutdown, Fault
<1>4. ASSUME NEW w \in Workers, HeartbeatExpires(w) \/ Stall(w) \/ LongDrain(w)
      PROVE  TypeOK'
  <2>1. row' \in [Workers -> WorkerRow]
    BY <1>4 DEF TypeOK, HeartbeatExpires, Stall, LongDrain, Expire, WorkerRow
  <2>. QED
    BY <1>4, <2>1 DEF TypeOK, HeartbeatExpires, Stall, LongDrain, Fault
<1>5. ASSUME NEW w \in Workers, Decommission(w) PROVE TypeOK'
  <2>1. row' \in [Workers -> WorkerRow]
    BY <1>5 DEF TypeOK, Decommission, WorkerRow
  <2>. QED
    BY <1>5, <2>1 DEF TypeOK, Decommission, Fault
<1>. QED
  BY <1>1, <1>2, <1>3, <1>4, <1>5 DEF Disturb

\* A replay inserts one job and changes no other, and whoever was given up still
\* is, by the clone if not by the entry.
LEMMA ReplayEffect ==
  ASSUME TypeOK, NEW j \in Jobs, RetryDeadJob(j)
  PROVE  /\ UNCHANGED <<execution, recovered, row, process, thread, reaper>>
         /\ \A k \in Jobs : GivenUp(k)' <=> GivenUp(k)
         /\ \E clone \in Jobs :
              /\ job[clone].status = "absent"
              /\ job' = [job EXCEPT ![clone].status = "queued"]
              /\ job'[clone] = [job[clone] EXCEPT !.status = "queued"]
              /\ \A k \in Jobs : k # clone => job'[k] = job[k]
<1>1. /\ UNCHANGED <<execution, recovered, row, process, thread, reaper>>
      /\ clones' = [clones EXCEPT ![j] = clones[j] + 1]
      /\ \/ j \in dlq /\ dlq' = dlq \ {j}
         \/ clones[j] > 0 /\ dlq' = dlq
  BY DEF RetryDeadJob
<1>2. clones[j] \in Nat /\ clones'[j] = clones[j] + 1
  BY <1>1 DEF TypeOK
<1>3. ASSUME NEW k \in Jobs PROVE GivenUp(k)' <=> GivenUp(k)
  <2>1. CASE k = j
    BY <1>1, <1>2, <2>1
  <2>2. CASE k # j
    BY <1>1, <2>2 DEF TypeOK
  <2>. QED
    BY <2>1, <2>2
<1>4. PICK clone \in Jobs : /\ job[clone].status = "absent"
                            /\ job' = [job EXCEPT ![clone].status = "queued"]
  BY DEF RetryDeadJob
<1>5. /\ job'[clone] = [job[clone] EXCEPT !.status = "queued"]
      /\ \A k \in Jobs : k # clone => job'[k] = job[k]
  BY <1>4 DEF TypeOK
<1>. QED
  BY <1>1, <1>3, <1>4, <1>5

\* Replays keep the types.
LEMMA ReplayTypeOK ==
  ASSUME TypeOK, NEW j \in Jobs, RetryDeadJob(j)
  PROVE  TypeOK'
<1>1. PICK clone \in Jobs : job' = [job EXCEPT ![clone].status = "queued"]
  BY DEF RetryDeadJob
<1>2. job' \in [Jobs -> JobRow]
  BY <1>1, JobStatusType
<1>3. dlq' \subseteq Jobs /\ clones' \in [Jobs -> Nat]
  BY DEF RetryDeadJob, TypeOK
<1>4. faultsLeft' \in Nat
  BY DEF RetryDeadJob, Fault, TypeOK
<1>. QED
  BY <1>2, <1>3, <1>4 DEF RetryDeadJob, TypeOK

\* Type correctness is inductive.
LEMMA NextTypeOK == TypeOK /\ [Next]_vars => TypeOK'
<1>. SUFFICES ASSUME TypeOK, [Next]_vars PROVE TypeOK'
  OBVIOUS
<1>1. CASE UNCHANGED vars
  BY <1>1 DEF TypeOK, vars
<1>. QED
  BY <1>1, LoopTypeOK, RunJobTypeOK, ServiceTypeOK, EnvironmentTypeOK,
     ReplayTypeOK DEF Next

\* The variables of the cluster keep their types, under every disturbance.
THEOREM TypeCorrect == Spec => []TypeOK
  BY InitTypeOK, NextTypeOK, PTL DEF Spec

-----------------------------------------------------------------------------
(* One thread per job                                                      *)

\* No live process is ever taken for dead.
NoFalseDeath == "stall" \notin Faults /\ "long_drain" \notin Faults

\* Two threads, two jobs: what a thread does to its own job no other sees.
LEMMA BusyDistinct ==
  ASSUME BusyApart, NEW w \in Workers, NEW s \in Slots, Busy(w, s),
         NEW x \in Workers, NEW y \in Slots, Busy(x, y), x # w \/ y # s
  PROVE  thread[x][y].job # thread[w][s].job
  BY DEF BusyApart

\* A thread that ends leaves the invariants of the others alone, whatever it
\* wrote to the row of its own job.
LEMMA ThreadEnds ==
  ASSUME SafeInv, NEW w \in Workers, NEW s \in Slots, Busy(w, s),
         SetThread(w, s, Idle),
         \A k \in Jobs : k # thread[w][s].job => job'[k] = job[k],
         UNCHANGED <<process, row, reaper>>
  PROVE  /\ BusyIsAlive' /\ BusyHolds' /\ BusyApart'
         /\ StaleIsCrashed' /\ ReaperApart' /\ CachesFresh'
<1>. USE DEF SafeInv
<1>1. /\ thread'[w][s].pc = "idle"
      /\ \A x \in Workers, y \in Slots :
           (x # w \/ y # s) => thread'[x][y] = thread[x][y]
  BY SetThreadValue, IdleType DEF TypeOK
<1>2. \A x \in Workers, y \in Slots :
        Busy(x, y)' => /\ Busy(x, y)
                       /\ x # w \/ y # s
                       /\ thread'[x][y] = thread[x][y]
                       /\ thread[x][y].job \in Jobs
                       /\ thread[x][y].job # thread[w][s].job
  BY <1>1, BusyDistinct DEF Busy, TypeOK
<1>3. BusyIsAlive'
  BY <1>2 DEF BusyIsAlive
<1>4. BusyHolds'
  BY <1>2 DEF BusyHolds
<1>5. BusyApart'
  BY <1>2 DEF BusyApart
<1>6. StaleIsCrashed'
  BY DEF StaleIsCrashed, Stale
<1>7. reaper.pc = "recover" =>
        \A j \in reaper.jobs : j \in Jobs /\ job'[j] = job[j]
  BY DEF ReaperApart, TypeOK, ReaperState
<1>8. ReaperApart'
  BY <1>2, <1>7 DEF ReaperApart
<1>9. \A x \in Workers, y \in Slots :
        thread'[x][y].pc \in {"loaded", "running", "failed"} => Busy(x, y)'
  BY DEF Busy
<1>10. CachesFresh'
  BY <1>2, <1>7, <1>9 DEF CachesFresh
<1>. QED
  BY <1>3, <1>4, <1>5, <1>6, <1>8, <1>10

\* A thread that goes on keeps its job claimed or running, and knows the
\* retry_count it wrote.
LEMMA ThreadGoesOn ==
  ASSUME SafeInv, NEW w \in Workers, NEW s \in Slots, Busy(w, s),
         process[w] \in Alive,
         NEW v \in ThreadState, v.pc # "idle", v.job = thread[w][s].job,
         SetThread(w, s, v),
         \A k \in Jobs : k # v.job => job'[k] = job[k],
         job'[v.job].status \in Held,
         job'[v.job].worker = job[v.job].worker,
         job'[v.job].retry_count = v.retry_count,
         UNCHANGED <<process, row, reaper>>
  PROVE  /\ BusyIsAlive' /\ BusyHolds' /\ BusyApart'
         /\ StaleIsCrashed' /\ ReaperApart' /\ CachesFresh'
<1>. USE DEF SafeInv
<1>1. /\ thread'[w][s] = v
      /\ \A x \in Workers, y \in Slots :
           (x # w \/ y # s) => thread'[x][y] = thread[x][y]
  BY SetThreadValue DEF TypeOK
<1>2. \A x \in Workers, y \in Slots :
        /\ Busy(x, y)' => Busy(x, y) /\ thread'[x][y].job = thread[x][y].job
        /\ Busy(x, y)' => thread[x][y].job \in Jobs
  BY <1>1 DEF Busy, TypeOK
<1>3. \A x \in Workers, y \in Slots :
        (Busy(x, y)' /\ (x # w \/ y # s)) =>
          /\ thread'[x][y] = thread[x][y]
          /\ thread[x][y].job # v.job
  BY <1>1, <1>2, BusyDistinct
<1>4. BusyIsAlive'
  BY <1>2 DEF BusyIsAlive
<1>5. BusyHolds'
  <2>. SUFFICES ASSUME NEW x \in Workers, NEW y \in Slots, Busy(x, y)'
                PROVE  /\ job'[thread'[x][y].job].status \in Held
                       /\ job'[thread'[x][y].job].worker \in {x, NoWorker}
    BY DEF BusyHolds
  <2>1. CASE x # w \/ y # s
    BY <1>2, <1>3, <2>1 DEF BusyHolds
  <2>2. CASE x = w /\ y = s
    BY <1>1, <1>2, <2>2 DEF BusyHolds
  <2>. QED
    BY <2>1, <2>2
<1>6. BusyApart'
  BY <1>2 DEF BusyApart
<1>7. StaleIsCrashed'
  BY DEF StaleIsCrashed, Stale
<1>8. reaper.pc = "recover" =>
        \A j \in reaper.jobs : j \in Jobs /\ job'[j] = job[j]
  BY DEF ReaperApart, TypeOK, ReaperState
<1>9. ReaperApart'
  BY <1>2, <1>8 DEF ReaperApart
<1>10. CachesFresh'
  <2>1. ASSUME NEW x \in Workers, NEW y \in Slots,
               thread'[x][y].pc \in {"loaded", "running", "failed"}
        PROVE  thread'[x][y].retry_count = job'[thread'[x][y].job].retry_count
    <3>0. Busy(x, y)'
      BY <2>1 DEF Busy
    <3>1. CASE x # w \/ y # s
      BY <1>2, <1>3, <2>1, <3>0, <3>1 DEF CachesFresh
    <3>2. CASE x = w /\ y = s
      BY <1>1, <3>2
    <3>. QED
      BY <3>1, <3>2
  <2>2. reaper.pc = "recover" =>
          \A j \in reaper.jobs : reaper.retry_count[j] = job'[j].retry_count
    BY <1>8 DEF CachesFresh
  <2>. QED
    BY <2>1, <2>2 DEF CachesFresh
<1>. QED
  BY <1>4, <1>5, <1>6, <1>7, <1>9, <1>10

\* The steps of a thread preserve the invariant.
LEMMA RunJobSafe ==
  ASSUME SafeInv, NEW w \in Workers, NEW s \in Slots, RunJob(w, s)
  PROVE  SafeInv'
<1>. DEFINE t == thread[w][s]
            j == t.job
            Apart == /\ BusyIsAlive' /\ BusyHolds' /\ BusyApart'
                     /\ StaleIsCrashed' /\ ReaperApart' /\ CachesFresh'
<1>. USE DEF SafeInv
<1>0. TypeOK'
  BY RunJobTypeOK
<1>1. Busy(w, s) /\ process[w] \in Alive
  BY DEF RunJob, LoadJob, StartRun, StartRefused, CompleteRun, FailRun,
         ScheduleRetry, MoveToDlq, ExecutorError, Live, Busy, BusyIsAlive
<1>2. /\ j \in Jobs
      /\ job[j] \in JobRow
      /\ job[j].status \in Held
      /\ t \in ThreadState
  BY <1>1 DEF TypeOK, Busy, BusyHolds
<1>3. ~GivenUp(j)
  BY <1>2 DEF DeadLetterExact
<1>4. CASE LoadJob(w, s)
  <2>. DEFINE v == [pc |-> "loaded", job |-> t.job,
                    retry_count |-> job[t.job].retry_count,
                    status |-> job[t.job].status]
  <2>1. v \in ThreadState /\ v.pc # "idle" /\ v.job = j
        /\ v.retry_count = job[j].retry_count
    BY <1>2 DEF ThreadState, JobRow
  <2>2. SetThread(w, s, v)
    BY <1>4 DEF LoadJob
  <2>. HIDE DEF v
  <2>3. Apart
    BY <1>1, <1>2, <1>4, <2>1, <2>2, ThreadGoesOn DEF LoadJob
  <2>. QED
    BY <1>0, <1>4, <2>3 DEF LoadJob, RetryAccounting, DeadLetterExact
<1>5. CASE StartRun(w, s)
  <2>. DEFINE v == [t EXCEPT !.pc = "running"]
  <2>1. v \in ThreadState /\ v.pc # "idle" /\ v.job = j
        /\ v.retry_count = t.retry_count
    BY <1>2 DEF ThreadState
  <2>2. SetThread(w, s, v)
    BY <1>5 DEF StartRun
  <2>3. /\ \A k \in Jobs : k # j => job'[k] = job[k]
        /\ job'[j].status \in Held
        /\ job'[j].worker = job[j].worker
        /\ job'[j].retry_count = job[j].retry_count
    BY <1>2, <1>5 DEF StartRun, TypeOK, JobRow
  <2>4. t.retry_count = job[j].retry_count
    BY <1>5 DEF StartRun, CachesFresh
  <2>. HIDE DEF v
  <2>5. Apart
    BY <1>1, <1>2, <1>5, <2>1, <2>2, <2>3, <2>4, ThreadGoesOn DEF StartRun
  <2>6. \A k \in Jobs : execution'[k].failed = execution[k].failed
    BY <1>5 DEF StartRun, TypeOK, ExecutionRows
  <2>7. RetryAccounting'
    BY <1>5, <2>3, <2>6 DEF StartRun, RetryAccounting
  <2>8. DeadLetterExact'
    BY <1>2, <1>5, <2>3 DEF StartRun, DeadLetterExact
  <2>. QED
    BY <1>0, <2>5, <2>7, <2>8
<1>6. CASE StartRefused(w, s) \/ ExecutorError(w, s)
  <2>1. Apart
    BY <1>1, <1>6, ThreadEnds DEF StartRefused, ExecutorError
  <2>. QED
    BY <1>0, <1>6, <2>1 DEF StartRefused, ExecutorError, RetryAccounting,
                            DeadLetterExact
<1>7. CASE CompleteRun(w, s)
  <2>1. /\ \A k \in Jobs : k # j => job'[k] = job[k]
        /\ job'[j].status = "completed"
        /\ job'[j].retry_count = job[j].retry_count
    BY <1>2, <1>7 DEF CompleteRun, TypeOK, JobRow
  <2>2. Apart
    BY <1>1, <1>7, <2>1, ThreadEnds DEF CompleteRun
  <2>3. \A k \in Jobs : execution'[k].failed = execution[k].failed
    BY <1>7 DEF CompleteRun, TypeOK, ExecutionRows
  <2>4. RetryAccounting'
    BY <1>7, <2>1, <2>3 DEF CompleteRun, RetryAccounting
  <2>5. DeadLetterExact'
    BY <1>3, <1>7, <2>1 DEF CompleteRun, DeadLetterExact
  <2>. QED
    BY <1>0, <2>2, <2>4, <2>5
<1>8. CASE FailRun(w, s)
  <2>. DEFINE v == [t EXCEPT !.pc = "failed", !.retry_count = @ + 1]
  <2>1. t.retry_count + 1 \in Nat
    BY <1>2 DEF ThreadState
  <2>2. v \in ThreadState /\ v.pc # "idle" /\ v.job = j
        /\ v.retry_count = t.retry_count + 1
    BY <1>2, <2>1 DEF ThreadState
  <2>3. SetThread(w, s, v)
    BY <1>8 DEF FailRun
  <2>4. /\ \A k \in Jobs : k # j => job'[k] = job[k]
        /\ job'[j].status = job[j].status
        /\ job'[j].worker = job[j].worker
        /\ job'[j].retry_count = t.retry_count + 1
    BY <1>2, <1>8 DEF FailRun, TypeOK, JobRow
  <2>5. t.retry_count = job[j].retry_count
    BY <1>8 DEF FailRun, CachesFresh
  <2>. HIDE DEF v
  <2>6. Apart
    BY <1>1, <1>2, <1>8, <2>2, <2>3, <2>4, ThreadGoesOn DEF FailRun
  <2>7. /\ \A k \in Jobs : k # j => execution'[k].failed = execution[k].failed
        /\ execution'[j].failed = execution[j].failed + 1
    BY <1>2, <1>8 DEF FailRun, TypeOK, ExecutionRows
  <2>8. RetryAccounting'
    <3>1. /\ execution[j].failed \in Nat
          /\ recovered[j] \in Nat
      BY <1>2 DEF TypeOK, ExecutionRows
    <3>2. job'[j].retry_count = execution'[j].failed + recovered[j]
      BY <1>2, <2>4, <2>5, <2>7, <3>1 DEF RetryAccounting
    <3>. QED
      BY <1>8, <2>4, <2>7, <3>2 DEF FailRun, RetryAccounting
  <2>9. DeadLetterExact'
    BY <1>8, <2>4 DEF FailRun, DeadLetterExact
  <2>. QED
    BY <1>0, <2>6, <2>8, <2>9
<1>9. CASE ScheduleRetry(w, s)
  <2>1. /\ \A k \in Jobs : k # j => job'[k] = job[k]
        /\ job'[j].status = "scheduled"
        /\ job'[j].retry_count = job[j].retry_count
    BY <1>2, <1>9 DEF ScheduleRetry, TypeOK, JobRow
  <2>2. Apart
    BY <1>1, <1>9, <2>1, ThreadEnds DEF ScheduleRetry
  <2>3. RetryAccounting'
    BY <1>9, <2>1 DEF ScheduleRetry, RetryAccounting
  <2>4. DeadLetterExact'
    BY <1>3, <1>9, <2>1 DEF ScheduleRetry, DeadLetterExact
  <2>. QED
    BY <1>0, <2>2, <2>3, <2>4
<1>10. CASE MoveToDlq(w, s)
  <2>1. /\ \A k \in Jobs : k # j => job'[k] = job[k]
        /\ job'[j].status = "dead"
        /\ job'[j].retry_count = job[j].retry_count
    BY <1>2, <1>10 DEF MoveToDlq, TypeOK, JobRow
  <2>2. Apart
    BY <1>1, <1>10, <2>1, ThreadEnds DEF MoveToDlq
  <2>3. RetryAccounting'
    BY <1>10, <2>1 DEF MoveToDlq, RetryAccounting
  <2>4. DeadLetterExact'
    BY <1>10, <2>1 DEF MoveToDlq, DeadLetterExact
  <2>. QED
    BY <1>0, <2>2, <2>3, <2>4
<1>. QED
  BY <1>4, <1>5, <1>6, <1>7, <1>8, <1>9, <1>10 DEF RunJob

\* Steps that touch no job and no thread only have to mind the stale workers.
LEMMA QuietStepSafe ==
  ASSUME SafeInv, TypeOK', StaleIsCrashed',
         UNCHANGED <<job, dlq, clones, execution, recovered, thread>>,
         \A w \in Workers : process[w] \in Alive =>
             \/ process'[w] \in Alive
             \/ \A s \in Slots : ~Busy(w, s),
         reaper' = reaper \/ reaper'.pc # "recover"
  PROVE  SafeInv'
<1>. USE DEF SafeInv
<1>1. BusyIsAlive'
  BY DEF BusyIsAlive, Busy
<1>2. BusyHolds' /\ BusyApart'
  BY DEF BusyHolds, BusyApart, Busy
<1>3. ReaperApart'
  BY DEF ReaperApart, Busy
<1>4. CachesFresh'
  BY DEF CachesFresh
<1>5. RetryAccounting' /\ DeadLetterExact'
  BY DEF RetryAccounting, DeadLetterExact
<1>. QED
  BY <1>1, <1>2, <1>3, <1>4, <1>5

\* A claim takes jobs that are in nobody's hands.
LEMMA ClaimSafe ==
  ASSUME SafeInv, NEW w \in Workers, Claim(w)
  PROVE  SafeInv'
<1>. USE DEF SafeInv
<1>0. TypeOK'
  BY LoopTypeOK DEF Loop
<1>1. PICK used \in (SUBSET FreeSlots(w)) \ {{}} :
        \E task \in Injection(used, Claimable) :
          /\ job' = ClaimedRows(w, Range(task))
          /\ thread' = [thread EXCEPT ![w] = [s \in Slots |->
                IF s \in used
                THEN [Idle EXCEPT !.pc = "dispatched", !.job = task[s]]
                ELSE thread[w][s]]]
  BY DEF Claim
<1>2. PICK task \in Injection(used, Claimable) :
        /\ job' = ClaimedRows(w, Range(task))
        /\ thread' = [thread EXCEPT ![w] = [s \in Slots |->
              IF s \in used
              THEN [Idle EXCEPT !.pc = "dispatched", !.job = task[s]]
              ELSE thread[w][s]]]
  BY <1>1
<1>3. /\ process[w] = "poll"
      /\ process' = [process EXCEPT ![w] = "beat"]
      /\ UNCHANGED <<dlq, clones, execution, recovered, row, reaper>>
  BY DEF Claim
<1>4. /\ \A s \in used : task[s] \in Claimable
      /\ \A a, b \in used : task[a] = task[b] => a = b
      /\ Range(task) = {task[s] : s \in used}
  <2>1. task \in [used -> Claimable] /\ IsInjective(task)
    BY DEF Injection
  <2>2. DOMAIN task = used /\ \A s \in used : task[s] \in Claimable
    BY <2>1
  <2>3. \A a, b \in used : task[a] = task[b] => a = b
    BY <2>1, <2>2 DEF IsInjective
  <2>4. Range(task) = {task[s] : s \in used}
    BY <2>2 DEF Range
  <2>. QED
    BY <2>2, <2>3, <2>4
<1>5. /\ \A s \in used : task[s] \in Range(task)
      /\ \A j \in Range(task) : j \in Jobs /\ job[j].status = "queued"
  BY <1>4 DEF Claimable
<1>6. \A j \in Jobs :
        IF j \in Range(task)
        THEN /\ job'[j].status = "claimed" /\ job'[j].worker = w
             /\ job'[j].retry_count = job[j].retry_count
        ELSE job'[j] = job[j]
  BY <1>2 DEF ClaimedRows, TypeOK, JobRow
<1>7. \A s \in used : /\ thread'[w][s].pc = "dispatched"
                      /\ thread'[w][s].job = task[s]
  <2>1. used \subseteq Slots
    BY DEF FreeSlots
  <2>. QED
    BY <1>2, <2>1 DEF TypeOK, Idle
<1>8. \A x \in Workers, y \in Slots :
        ~(x = w /\ y \in used) => thread'[x][y] = thread[x][y]
  BY <1>2 DEF TypeOK
<1>9. \A x \in Workers, y \in Slots :
        (Busy(x, y)' /\ ~(x = w /\ y \in used)) =>
          /\ Busy(x, y)
          /\ thread[x][y].job \in Jobs
          /\ thread[x][y].job \notin Range(task)
  <2>. SUFFICES ASSUME NEW x \in Workers, NEW y \in Slots, Busy(x, y)',
                       ~(x = w /\ y \in used)
                PROVE  /\ Busy(x, y)
                       /\ thread[x][y].job \in Jobs
                       /\ thread[x][y].job \notin Range(task)
    OBVIOUS
  <2>1. Busy(x, y)
    BY <1>8 DEF Busy
  <2>2. thread[x][y].job \in Jobs
    BY <2>1 DEF Busy, TypeOK
  <2>3. job[thread[x][y].job].status \in Held
    BY <2>1 DEF BusyHolds
  <2>. QED
    BY <1>5, <2>1, <2>2, <2>3
<1>10. BusyIsAlive'
  <2>. SUFFICES ASSUME NEW x \in Workers, NEW y \in Slots, Busy(x, y)'
                PROVE  process'[x] \in Alive
    BY DEF BusyIsAlive
  <2>1. CASE x = w
    BY <1>3, <2>1 DEF TypeOK
  <2>2. CASE x # w
    BY <1>3, <1>9, <2>2 DEF BusyIsAlive, TypeOK
  <2>. QED
    BY <2>1, <2>2
<1>11. BusyHolds'
  <2>. SUFFICES ASSUME NEW x \in Workers, NEW y \in Slots, Busy(x, y)'
                PROVE  /\ job'[thread'[x][y].job].status \in Held
                       /\ job'[thread'[x][y].job].worker \in {x, NoWorker}
    BY DEF BusyHolds
  <2>1. CASE x = w /\ y \in used
    BY <1>5, <1>6, <1>7, <2>1
  <2>2. CASE ~(x = w /\ y \in used)
    BY <1>6, <1>8, <1>9, <2>2 DEF BusyHolds
  <2>. QED
    BY <2>1, <2>2
<1>12. BusyApart'
  <2>. SUFFICES ASSUME NEW w1 \in Workers, NEW w2 \in Workers,
                       NEW s1 \in Slots, NEW s2 \in Slots,
                       Busy(w1, s1)', Busy(w2, s2)',
                       thread'[w1][s1].job = thread'[w2][s2].job
                PROVE  w1 = w2 /\ s1 = s2
    BY DEF BusyApart
  <2>. DEFINE new1 == w1 = w /\ s1 \in used
              new2 == w2 = w /\ s2 \in used
  <2>1. CASE new1 /\ new2
    BY <1>4, <1>7, <2>1
  <2>2. CASE new1 /\ ~new2
    BY <1>5, <1>7, <1>8, <1>9, <2>2
  <2>3. CASE ~new1 /\ new2
    BY <1>5, <1>7, <1>8, <1>9, <2>3
  <2>4. CASE ~new1 /\ ~new2
    BY <1>8, <1>9, <2>4 DEF BusyApart
  <2>. QED
    BY <2>1, <2>2, <2>3, <2>4
<1>13. StaleIsCrashed'
  BY <1>3 DEF StaleIsCrashed, Stale, TypeOK
<1>14. reaper.pc = "recover" =>
         \A j \in reaper.jobs : j \in Jobs /\ j \notin Range(task)
  BY <1>5 DEF ReaperApart, TypeOK, ReaperState
<1>15. ReaperApart'
  <2>. SUFFICES ASSUME reaper.pc = "recover", NEW j \in reaper.jobs
                PROVE  /\ job'[j].status \in Held
                       /\ \A x \in Workers, y \in Slots :
                            Busy(x, y)' => thread'[x][y].job # j
    BY <1>3 DEF ReaperApart
  <2>1. job'[j].status \in Held
    BY <1>6, <1>14 DEF ReaperApart
  <2>2. ASSUME NEW x \in Workers, NEW y \in Slots, Busy(x, y)'
        PROVE  thread'[x][y].job # j
    <3>1. CASE x = w /\ y \in used
      BY <1>5, <1>7, <1>14, <3>1
    <3>2. CASE ~(x = w /\ y \in used)
      BY <1>8, <1>9, <2>2, <3>2 DEF ReaperApart
    <3>. QED
      BY <3>1, <3>2
  <2>. QED
    BY <2>1, <2>2
<1>16. CachesFresh'
  <2>1. ASSUME NEW x \in Workers, NEW y \in Slots,
               thread'[x][y].pc \in {"loaded", "running", "failed"}
        PROVE  thread'[x][y].retry_count = job'[thread'[x][y].job].retry_count
    <3>1. ~(x = w /\ y \in used)
      BY <1>7, <2>1
    <3>2. Busy(x, y)'
      BY <2>1 DEF Busy
    <3>. QED
      BY <1>6, <1>8, <1>9, <2>1, <3>1, <3>2 DEF CachesFresh
  <2>2. reaper'.pc = "recover" =>
          \A j \in reaper'.jobs : reaper'.retry_count[j] = job'[j].retry_count
    BY <1>3, <1>6, <1>14 DEF CachesFresh
  <2>. QED
    BY <2>1, <2>2 DEF CachesFresh
<1>17. RetryAccounting'
  BY <1>3, <1>6 DEF RetryAccounting
<1>18. DeadLetterExact'
  BY <1>3, <1>5, <1>6 DEF DeadLetterExact
<1>. QED
  BY <1>0, <1>10, <1>11, <1>12, <1>13, <1>15, <1>16, <1>17, <1>18

\* The steps of the worker loop preserve the invariant.
LEMMA LoopSafe ==
  ASSUME SafeInv, NEW w \in Workers, Loop(w)
  PROVE  SafeInv'
<1>. USE DEF SafeInv
<1>0. TypeOK'
  BY LoopTypeOK
<1>1. CASE Claim(w)
  BY <1>1, ClaimSafe
<1>2. CASE ClaimThenError(w)
  <2>1. PICK batch \in (SUBSET Claimable) \ {{}} : job' = ClaimedRows(w, batch)
    BY <1>2 DEF ClaimThenError
  <2>2. UNCHANGED <<dlq, clones, execution, recovered, row, process, thread, reaper>>
    BY <1>2 DEF ClaimThenError
  <2>3. \A j \in batch : j \in Jobs /\ job[j].status = "queued"
    BY DEF Claimable
  <2>4. \A j \in Jobs :
          IF j \in batch
          THEN /\ job'[j].status = "claimed"
               /\ job'[j].retry_count = job[j].retry_count
          ELSE job'[j] = job[j]
    BY <2>1 DEF ClaimedRows, TypeOK, JobRow
  <2>5. \A x \in Workers, y \in Slots : Busy(x, y) =>
          /\ thread[x][y].job \in Jobs
          /\ thread[x][y].job \notin batch
    BY <2>3 DEF Busy, BusyHolds, TypeOK
  <2>6. reaper.pc = "recover" =>
          \A j \in reaper.jobs : j \in Jobs /\ j \notin batch
    BY <2>3 DEF ReaperApart, TypeOK, ReaperState
  <2>7. BusyIsAlive' /\ BusyApart' /\ StaleIsCrashed'
    BY <2>2 DEF BusyIsAlive, BusyApart, StaleIsCrashed, Busy, Stale
  <2>8. BusyHolds'
    BY <2>2, <2>4, <2>5 DEF BusyHolds, Busy
  <2>9. ReaperApart'
    BY <2>2, <2>4, <2>6 DEF ReaperApart, Busy
  <2>10. CachesFresh'
    <3>1. \A x \in Workers, y \in Slots :
            thread[x][y].pc \in {"loaded", "running", "failed"} => Busy(x, y)
      BY DEF Busy
    <3>. QED
      BY <2>2, <2>4, <2>5, <2>6, <3>1 DEF CachesFresh
  <2>11. RetryAccounting' /\ DeadLetterExact'
    BY <2>2, <2>3, <2>4 DEF RetryAccounting, DeadLetterExact
  <2>. QED
    BY <1>0, <2>7, <2>8, <2>9, <2>10, <2>11
<1>3. CASE Register(w)
  <2>1. StaleIsCrashed'
    BY <1>3 DEF Register, StaleIsCrashed, Stale, TypeOK
  <2>. QED
    BY <1>0, <1>3, <2>1, QuietStepSafe DEF Register, TypeOK
<1>4. CASE PollNothing(w)
  <2>1. StaleIsCrashed'
    BY <1>4 DEF PollNothing, StaleIsCrashed, Stale, TypeOK
  <2>. QED
    BY <1>0, <1>4, <2>1, QuietStepSafe DEF PollNothing, TypeOK
<1>5. CASE NotDue(w)
  <2>1. StaleIsCrashed'
    BY <1>5 DEF NotDue, StaleIsCrashed, Stale, TypeOK
  <2>. QED
    BY <1>0, <1>5, <2>1, QuietStepSafe DEF NotDue, TypeOK
<1>6. CASE ReadHeartbeat(w)
  <2>1. StaleIsCrashed'
    BY <1>6 DEF ReadHeartbeat, StaleIsCrashed, Stale, TypeOK
  <2>. QED
    BY <1>0, <1>6, <2>1, QuietStepSafe DEF ReadHeartbeat, TypeOK
<1>7. CASE WriteHeartbeat(w)
  <2>1. /\ row'[w].status = row[w].status
        /\ \A x \in Workers : x # w => row'[x] = row[x]
        /\ Exists(w) => row'[w].fresh
    BY <1>7 DEF WriteHeartbeat, TypeOK, WorkerRow, Exists
  <2>2. StaleIsCrashed'
    <3>1. \A x \in Workers : Stale(x)' => Stale(x)
      BY <2>1 DEF Stale, Exists
    <3>2. \A x \in Workers : process[x] = "crashed" => process'[x] = "crashed"
      BY <1>7 DEF WriteHeartbeat, TypeOK
    <3>3. reaper' = reaper /\ reaper.found \subseteq Workers
      BY <1>7 DEF WriteHeartbeat, TypeOK, ReaperState
    <3>. QED
      BY <3>1, <3>2, <3>3 DEF StaleIsCrashed
  <2>. QED
    BY <1>0, <1>7, <2>2, QuietStepSafe DEF WriteHeartbeat, TypeOK
<1>8. CASE Deregister(w)
  <2>1. StaleIsCrashed'
    BY <1>8 DEF Deregister, StaleIsCrashed, Stale, Exists, TypeOK
  <2>2. \A s \in Slots : ~Busy(w, s)
    BY <1>8 DEF Deregister, FreeSlots, Busy
  <2>. QED
    BY <1>0, <1>8, <2>1, <2>2, QuietStepSafe DEF Deregister, TypeOK
<1>. QED
  BY <1>1, <1>2, <1>3, <1>4, <1>5, <1>6, <1>7, <1>8 DEF Loop

\* Promotion and the reaper preserve the invariant.
LEMMA ServiceSafe ==
  ASSUME SafeInv, PromoteDueJobs \/ ReaperCycle
  PROVE  SafeInv'
<1>. USE DEF SafeInv
<1>0. TypeOK'
  BY ServiceTypeOK
<1>1. CASE PromoteDueJobs
  <2>1. PICK due \in (SUBSET {j \in Jobs : job[j].status = "scheduled"}) \ {{}} :
          job' = [j \in Jobs |-> IF j \in due
                                 THEN [job[j] EXCEPT !.status = "queued"]
                                 ELSE job[j]]
    BY <1>1 DEF PromoteDueJobs
  <2>2. UNCHANGED <<dlq, clones, execution, recovered, row, process, thread, reaper>>
    BY <1>1 DEF PromoteDueJobs
  <2>3. \A j \in due : j \in Jobs /\ job[j].status = "scheduled"
    OBVIOUS
  <2>4. \A j \in Jobs :
          IF j \in due
          THEN /\ job'[j].status = "queued"
               /\ job'[j].retry_count = job[j].retry_count
          ELSE job'[j] = job[j]
    BY <2>1 DEF TypeOK, JobRow
  <2>5. \A x \in Workers, y \in Slots : Busy(x, y) =>
          /\ thread[x][y].job \in Jobs
          /\ thread[x][y].job \notin due
    BY <2>3 DEF Busy, BusyHolds, TypeOK
  <2>6. reaper.pc = "recover" =>
          \A j \in reaper.jobs : j \in Jobs /\ j \notin due
    BY <2>3 DEF ReaperApart, TypeOK, ReaperState
  <2>7. BusyIsAlive' /\ BusyApart' /\ StaleIsCrashed'
    BY <2>2 DEF BusyIsAlive, BusyApart, StaleIsCrashed, Busy, Stale
  <2>8. BusyHolds'
    BY <2>2, <2>4, <2>5 DEF BusyHolds, Busy
  <2>9. ReaperApart'
    BY <2>2, <2>4, <2>6 DEF ReaperApart, Busy
  <2>10. CachesFresh'
    <3>1. \A x \in Workers, y \in Slots :
            thread[x][y].pc \in {"loaded", "running", "failed"} => Busy(x, y)
      BY DEF Busy
    <3>. QED
      BY <2>2, <2>4, <2>5, <2>6, <3>1 DEF CachesFresh
  <2>11. RetryAccounting' /\ DeadLetterExact'
    BY <2>2, <2>3, <2>4 DEF RetryAccounting, DeadLetterExact
  <2>. QED
    BY <1>0, <2>7, <2>8, <2>9, <2>10, <2>11
<1>2. CASE FindDeadWorkers
  <2>. DEFINE stale == {w \in Workers : Stale(w)}
              next == IF \E w \in Workers : Stale(w) THEN "next" ELSE "idle"
  <2>0. /\ reaper' = [reaper EXCEPT !.found = stale, !.pc = next]
        /\ next # "recover"
    BY <1>2 DEF FindDeadWorkers
  <2>1. reaper'.found = stale /\ reaper'.pc # "recover"
    <3>. HIDE DEF stale, next
    <3>. QED
      BY <2>0 DEF TypeOK, ReaperState
  <2>2. StaleIsCrashed'
    <3>1. row' = row /\ process' = process
      BY <1>2 DEF FindDeadWorkers
    <3>2. \A w \in Workers : Stale(w)' <=> Stale(w)
      BY <3>1 DEF Stale
    <3>. QED
      BY <2>1, <3>1, <3>2 DEF StaleIsCrashed
  <2>. QED
    BY <1>0, <1>2, <2>1, <2>2, QuietStepSafe DEF FindDeadWorkers
<1>3. ASSUME NEW w \in Workers, ReadOrphans(w) PROVE SafeInv'
  <2>1. UNCHANGED <<job, dlq, clones, execution, recovered, row, process, thread>>
    BY <1>3 DEF ReadOrphans
  <2>2. /\ reaper'.found = reaper.found
        /\ reaper'.jobs = Orphans(w)
        /\ \A j \in Orphans(w) : reaper'.retry_count[j] = job[j].retry_count
        /\ process[w] = "crashed"
    BY <1>3 DEF ReadOrphans, Orphans, TypeOK, ReaperState, StaleIsCrashed
  <2>3. BusyIsAlive' /\ BusyHolds' /\ BusyApart'
    BY <2>1 DEF BusyIsAlive, BusyHolds, BusyApart, Busy
  <2>4. StaleIsCrashed'
    BY <2>1, <2>2 DEF StaleIsCrashed, Stale
  <2>5. \A x \in Workers, y \in Slots : Busy(x, y) =>
          thread[x][y].job \notin Orphans(w)
    BY <2>2, ClusterAssumption DEF BusyIsAlive, BusyHolds, Orphans
  <2>6. ReaperApart'
    BY <2>1, <2>2, <2>5 DEF ReaperApart, Orphans, Busy
  <2>7. CachesFresh'
    BY <2>1, <2>2 DEF CachesFresh
  <2>8. RetryAccounting' /\ DeadLetterExact'
    BY <2>1 DEF RetryAccounting, DeadLetterExact
  <2>. QED
    BY <1>0, <2>3, <2>4, <2>6, <2>7, <2>8
<1>4. CASE RecoverOrphans
  <2>1. /\ reaper.pc = "recover"
        /\ UNCHANGED <<dlq, clones, execution, row, process, thread>>
    BY <1>4 DEF RecoverOrphans
  <2>2. \A j \in Jobs :
          IF j \in reaper.jobs
          THEN /\ job'[j].status = "queued"
               /\ job'[j].retry_count = reaper.retry_count[j] + 1
               /\ recovered'[j] = recovered[j] + 1
          ELSE job'[j] = job[j] /\ recovered'[j] = recovered[j]
    BY <1>4 DEF RecoverOrphans
  <2>3. reaper'.found = reaper.found /\ reaper'.pc # "recover"
    BY <1>4 DEF RecoverOrphans, Resting
  <2>4. \A x \in Workers, y \in Slots : Busy(x, y) =>
          /\ thread[x][y].job \in Jobs
          /\ thread[x][y].job \notin reaper.jobs
    BY <2>1 DEF ReaperApart, Busy, TypeOK
  <2>5. BusyIsAlive' /\ BusyApart' /\ StaleIsCrashed'
    BY <2>1, <2>3 DEF BusyIsAlive, BusyApart, StaleIsCrashed, Busy, Stale
  <2>6. BusyHolds'
    BY <2>1, <2>2, <2>4 DEF BusyHolds, Busy
  <2>7. ReaperApart'
    BY <2>3 DEF ReaperApart
  <2>8. CachesFresh'
    <3>1. \A x \in Workers, y \in Slots :
            thread[x][y].pc \in {"loaded", "running", "failed"} => Busy(x, y)
      BY DEF Busy
    <3>. QED
      BY <2>1, <2>2, <2>3, <2>4, <3>1 DEF CachesFresh
  <2>9. RetryAccounting'
    <3>. SUFFICES ASSUME NEW j \in Jobs
                  PROVE  job'[j].retry_count = execution'[j].failed + recovered'[j]
      BY DEF RetryAccounting
    <3>1. execution[j].failed \in Nat /\ recovered[j] \in Nat
      BY DEF TypeOK, ExecutionRows
    <3>2. job[j].retry_count = execution[j].failed + recovered[j]
      BY DEF RetryAccounting
    <3>3. j \in reaper.jobs => reaper.retry_count[j] = job[j].retry_count
      BY <2>1 DEF CachesFresh
    <3>. QED
      BY <2>1, <2>2, <3>1, <3>2, <3>3
  <2>10. DeadLetterExact'
    BY <2>1, <2>2 DEF DeadLetterExact, ReaperApart
  <2>. QED
    BY <1>0, <2>5, <2>6, <2>7, <2>8, <2>9, <2>10
<1>5. CASE MarkWorkerAsDead
  <2>1. reaper'.found \subseteq reaper.found /\ reaper'.pc # "recover"
    BY <1>5 DEF MarkWorkerAsDead, Resting
  <2>2. \A w \in Workers : Stale(w)' => Stale(w)
    BY <1>5 DEF MarkWorkerAsDead, Stale, TypeOK, WorkerRow
  <2>3. StaleIsCrashed'
    BY <1>5, <2>1, <2>2 DEF MarkWorkerAsDead, StaleIsCrashed
  <2>. QED
    BY <1>0, <1>5, <2>1, <2>3, QuietStepSafe DEF MarkWorkerAsDead
<1>6. CASE ReaperCrash
  <2>1. reaper'.found = {} /\ reaper'.pc # "recover"
    BY <1>6 DEF ReaperCrash, Resting
  <2>2. StaleIsCrashed'
    BY <1>6, <2>1 DEF ReaperCrash, StaleIsCrashed, Stale
  <2>. QED
    BY <1>0, <1>6, <2>1, <2>2, QuietStepSafe DEF ReaperCrash
<1>. QED
  BY <1>1, <1>2, <1>3, <1>4, <1>5, <1>6 DEF ReaperCycle

\* The environment preserves the invariant when it never stalls a loop nor lets
\* a drain outlive the threshold.
LEMMA EnvironmentSafe ==
  ASSUME NoFalseDeath, SafeInv,
         PruneDeadWorkers \/ (\E w \in Workers : Disturb(w))
  PROVE  SafeInv'
<1>. USE DEF SafeInv
<1>0. TypeOK'
  BY EnvironmentTypeOK
<1>1. CASE PruneDeadWorkers
  <2>1. UNCHANGED <<dlq, clones, execution, recovered, process, thread, reaper>>
    BY <1>1 DEF PruneDeadWorkers
  <2>2. \A j \in Jobs : /\ job'[j].status = job[j].status
                        /\ job'[j].retry_count = job[j].retry_count
                        /\ job'[j].worker \in {job[j].worker, NoWorker}
    BY <1>1 DEF PruneDeadWorkers, TypeOK, JobRow
  <2>3. \A w \in Workers : Stale(w)' => Stale(w)
    BY <1>1 DEF PruneDeadWorkers, Stale
  <2>4. \A x \in Workers, y \in Slots : Busy(x, y) => thread[x][y].job \in Jobs
    BY DEF Busy, TypeOK
  <2>5. BusyIsAlive' /\ BusyApart'
    BY <2>1 DEF BusyIsAlive, BusyApart, Busy
  <2>6. BusyHolds'
    BY <2>1, <2>2, <2>4 DEF BusyHolds, Busy
  <2>7. StaleIsCrashed'
    BY <2>1, <2>3 DEF StaleIsCrashed
  <2>8. reaper.jobs \subseteq Jobs
    BY DEF TypeOK, ReaperState
  <2>9. ReaperApart'
    BY <2>1, <2>2, <2>8 DEF ReaperApart, Busy
  <2>10. CachesFresh'
    <3>1. \A x \in Workers, y \in Slots :
            thread[x][y].pc \in {"loaded", "running", "failed"} => Busy(x, y)
      BY DEF Busy
    <3>. QED
      BY <2>1, <2>2, <2>4, <2>8, <3>1 DEF CachesFresh
  <2>11. RetryAccounting' /\ DeadLetterExact'
    BY <2>1, <2>2 DEF RetryAccounting, DeadLetterExact
  <2>. QED
    BY <1>0, <2>5, <2>6, <2>7, <2>9, <2>10, <2>11
<1>2. ASSUME NEW w \in Workers, Crash(w) PROVE SafeInv'
  <2>1. /\ UNCHANGED <<job, dlq, clones, execution, recovered, row, reaper>>
        /\ process' = [process EXCEPT ![w] = "crashed"]
        /\ process[w] \in Alive
    BY <1>2 DEF Crash
  <2>2. /\ \A y \in Slots : thread'[w][y].pc = "idle"
        /\ \A x \in Workers : x # w => thread'[x] = thread[x]
    BY <1>2, IdleType DEF Crash, TypeOK
  <2>3. \A x \in Workers, y \in Slots : Busy(x, y)' =>
          /\ x # w
          /\ Busy(x, y)
          /\ thread'[x][y] = thread[x][y]
    BY <2>2 DEF Busy
  <2>4. BusyIsAlive'
    BY <2>1, <2>3 DEF BusyIsAlive, TypeOK
  <2>5. BusyHolds'
    BY <2>1, <2>3 DEF BusyHolds
  <2>6. BusyApart'
    BY <2>3 DEF BusyApart
  <2>7. StaleIsCrashed'
    <3>1. row' = row /\ reaper' = reaper
      BY <2>1
    <3>2. \A x \in Workers : process[x] = "crashed" => process'[x] = "crashed"
      BY <2>1 DEF TypeOK
    <3>3. \A x \in Workers : Stale(x)' <=> Stale(x)
      BY <3>1 DEF Stale
    <3>4. reaper.found \subseteq Workers
      BY DEF TypeOK, ReaperState
    <3>. QED
      BY <3>1, <3>2, <3>3, <3>4 DEF StaleIsCrashed
  <2>8. ReaperApart'
    BY <2>1, <2>3 DEF ReaperApart
  <2>9. \A x \in Workers, y \in Slots :
          thread'[x][y].pc \in {"loaded", "running", "failed"} => Busy(x, y)'
    BY DEF Busy
  <2>10. CachesFresh'
    BY <2>1, <2>3, <2>9 DEF CachesFresh
  <2>11. RetryAccounting' /\ DeadLetterExact'
    BY <2>1 DEF RetryAccounting, DeadLetterExact
  <2>. QED
    BY <1>0, <2>4, <2>5, <2>6, <2>7, <2>8, <2>10, <2>11
<1>3. ASSUME NEW w \in Workers, Shutdown(w) PROVE SafeInv'
  <2>1. StaleIsCrashed'
    BY <1>3 DEF Shutdown, StaleIsCrashed, Stale, TypeOK
  <2>. QED
    BY <1>0, <1>3, <2>1, QuietStepSafe DEF Shutdown, TypeOK
<1>4. ASSUME NEW w \in Workers, HeartbeatExpires(w) PROVE SafeInv'
  <2>1. \A x \in Workers : Stale(x)' => x = w \/ Stale(x)
    BY <1>4 DEF HeartbeatExpires, Expire, Stale, TypeOK, WorkerRow
  <2>2. StaleIsCrashed'
    BY <1>4, <2>1 DEF HeartbeatExpires, StaleIsCrashed
  <2>. QED
    BY <1>0, <1>4, <2>2, QuietStepSafe DEF HeartbeatExpires
<1>5. ASSUME NEW w \in Workers, Stall(w) \/ LongDrain(w) PROVE SafeInv'
  BY <1>5 DEF NoFalseDeath, Stall, LongDrain, Fault
<1>6. ASSUME NEW w \in Workers, Decommission(w) PROVE SafeInv'
  <2>1. \A x \in Workers : Stale(x)' => Stale(x)
    BY <1>6 DEF Decommission, Stale, TypeOK, WorkerRow
  <2>2. StaleIsCrashed'
    BY <1>6, <2>1 DEF Decommission, StaleIsCrashed
  <2>. QED
    BY <1>0, <1>6, <2>2, QuietStepSafe DEF Decommission
<1>. QED
  BY <1>1, <1>2, <1>3, <1>4, <1>5, <1>6 DEF Disturb

\* So do replays: the row that appears is in nobody's hands.
LEMMA ReplaySafe ==
  ASSUME SafeInv, NEW j \in Jobs, RetryDeadJob(j)
  PROVE  SafeInv'
<1>. USE DEF SafeInv
<1>0. TypeOK'
  BY ReplayTypeOK
<1>1. /\ UNCHANGED <<execution, recovered, row, process, thread, reaper>>
      /\ \A k \in Jobs : GivenUp(k)' <=> GivenUp(k)
  BY ReplayEffect
<1>2. PICK clone \in Jobs :
        /\ job[clone].status = "absent"
        /\ job'[clone] = [job[clone] EXCEPT !.status = "queued"]
        /\ \A k \in Jobs : k # clone => job'[k] = job[k]
  BY ReplayEffect
<1>3. \A k \in Jobs : /\ job'[k].retry_count = job[k].retry_count
                      /\ job[k].status # "absent" => job'[k] = job[k]
                      /\ job'[k].status = "dead" <=> job[k].status = "dead"
  BY <1>2 DEF TypeOK, JobRow
<1>4. \A x \in Workers, y \in Slots : Busy(x, y) =>
        /\ thread[x][y].job \in Jobs
        /\ job'[thread[x][y].job] = job[thread[x][y].job]
  BY <1>3 DEF Busy, BusyHolds, TypeOK
<1>5. reaper.pc = "recover" =>
        \A k \in reaper.jobs : k \in Jobs /\ job'[k] = job[k]
  BY <1>3 DEF ReaperApart, TypeOK, ReaperState
<1>6. BusyIsAlive' /\ BusyApart' /\ StaleIsCrashed'
  BY <1>1 DEF BusyIsAlive, BusyApart, StaleIsCrashed, Busy, Stale
<1>7. BusyHolds'
  BY <1>1, <1>4 DEF BusyHolds, Busy
<1>8. ReaperApart'
  BY <1>1, <1>5 DEF ReaperApart, Busy
<1>9. \A x \in Workers, y \in Slots :
        thread[x][y].pc \in {"loaded", "running", "failed"} => Busy(x, y)
  BY DEF Busy
<1>10. CachesFresh'
  BY <1>1, <1>4, <1>5, <1>9 DEF CachesFresh
<1>11. RetryAccounting'
  BY <1>1, <1>3 DEF RetryAccounting
<1>12. DeadLetterExact'
  BY <1>1, <1>3 DEF DeadLetterExact
<1>. QED
  BY <1>0, <1>6, <1>7, <1>8, <1>10, <1>11, <1>12

\* The initial state satisfies the invariant.
LEMMA InitSafe == Init => SafeInv
<1>. SUFFICES ASSUME Init PROVE SafeInv
  OBVIOUS
<1>1. TypeOK
  BY InitTypeOK
<1>2. \A w \in Workers, s \in Slots : thread[w][s].pc = "idle"
  BY IdleType DEF Init
<1>3. BusyIsAlive /\ BusyHolds /\ BusyApart
  BY <1>2 DEF BusyIsAlive, BusyHolds, BusyApart, Busy
<1>4. reaper.found = {} /\ reaper.pc = "idle"
  BY DEF Init, Resting
<1>5. StaleIsCrashed
  BY <1>4 DEF Init, StaleIsCrashed, Stale
<1>6. ReaperApart /\ CachesFresh
  BY <1>2, <1>4 DEF ReaperApart, CachesFresh
<1>7. RetryAccounting /\ DeadLetterExact
  BY DEF Init, RetryAccounting, DeadLetterExact
<1>. QED
  BY <1>1, <1>3, <1>5, <1>6, <1>7 DEF SafeInv

\* The invariant is inductive.
LEMMA NextSafe ==
  ASSUME NoFalseDeath
  PROVE  SafeInv /\ [Next]_vars => SafeInv'
<1>. SUFFICES ASSUME SafeInv, [Next]_vars PROVE SafeInv'
  OBVIOUS
<1>1. CASE UNCHANGED vars
  <2>1. TypeOK'
    BY <1>1, NextTypeOK DEF SafeInv
  <2>2. StaleIsCrashed'
    BY <1>1 DEF vars, SafeInv, StaleIsCrashed, Stale
  <2>. QED
    BY <1>1, <2>1, <2>2, QuietStepSafe DEF vars
<1>. QED
  BY <1>1, LoopSafe, RunJobSafe, ServiceSafe, EnvironmentSafe, ReplaySafe DEF Next

\* Whatever crashes, drains, is decommissioned or pruned: as long as no live
\* process is taken for dead, the inductive invariant holds.
THEOREM SafeInvHolds == ASSUME NoFalseDeath PROVE Spec => []SafeInv
  BY InitSafe, NextSafe, PTL DEF Spec

\* ... and so no job is ever in the hands of two threads at once,
THEOREM OneThread == ASSUME NoFalseDeath PROVE Spec => []OneThreadPerJob
<1>1. SafeInv => OneThreadPerJob
  BY DEF SafeInv, BusyApart, OneThreadPerJob, Live, Busy
<1>. QED
  BY <1>1, SafeInvHolds, PTL

\* retry_count counts the failures and the recoveries,
THEOREM RetriesAccounted == ASSUME NoFalseDeath PROVE Spec => []RetryAccounting
<1>1. SafeInv => RetryAccounting
  BY DEF SafeInv
<1>. QED
  BY <1>1, SafeInvHolds, PTL

\* and the dead jobs are those with an entry or, once replayed, a clone.
THEOREM DeadLettersExact == ASSUME NoFalseDeath PROVE Spec => []DeadLetterExact
<1>1. SafeInv => DeadLetterExact
  BY DEF SafeInv
<1>. QED
  BY <1>1, SafeInvHolds, PTL
=============================================================================
