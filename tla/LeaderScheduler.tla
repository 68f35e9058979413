--------------------------- MODULE LeaderScheduler ---------------------------
(***************************************************************************)
(* The scheduler processes: one of them holds the advisory lock, promotes  *)
(* delayed jobs that are due and spawns a child job for every occurrence   *)
(* of a cron template.                                                     *)
(*                                                                         *)
(*   workers/scheduler.py            the loop, has_lock                    *)
(*   services/lock_service.py        pg_try_advisory_lock                  *)
(*   services/scheduler_service.py   promotion and cron templates          *)
(*                                                                         *)
(* The lock belongs to a database connection that the process opens once,  *)
(* and has_lock is what the process remembers of it.  Both sweeps read     *)
(* rows without a lock and write them back later from what they read, so   *)
(* only the leadership keeps two sweeps apart.                             *)
(*                                                                         *)
(* The clock counts up to Horizon.  croniter is a parameter: NextRun[t][x] *)
(* is the first occurrence of template t after time x.                     *)
(***************************************************************************)
EXTENDS Integers, FiniteSets

CONSTANTS
    Schedulers,   \* scheduler processes
    Jobs,         \* delayed jobs
    Templates,    \* cron templates
    NextRun,      \* external: croniter
    Horizon,      \* the last value of the clock
    BatchSize,    \* batch_size of both sweeps
    Faults,       \* the kinds of disturbance the environment may inject
    FaultBudget,  \* how many of them
    NoLeader      \* nobody holds the advisory lock

Times == 0..Horizon

\* scheduled_at of a template that was never looked at: NULL.
Unset == 0

FaultKinds ==
    {"crash",            \* a scheduler process is killed, and started again
     "shutdown",         \* SIGTERM
     "tick_error",       \* a statement of a sweep fails
     "delete",           \* a template goes, its queue is force deleted
     "lost_connection"}  \* the connection that holds the lock is lost

ASSUME SchedulerAssumption ==
    /\ Horizon \in Nat
    /\ NextRun \in [Templates -> [Times -> Nat]]
    /\ \A t \in Templates, x \in Times : NextRun[t][x] > x
    /\ BatchSize \in Nat \ {0}
    /\ Faults \subseteq FaultKinds
    /\ FaultBudget \in Nat
    /\ NoLeader \notin Schedulers

VARIABLES
    now,         \* the clock
    lock,        \* the connection that holds the advisory lock
    sched,       \* the scheduler processes
    job,         \* delayed jobs: status, and scheduled_at
    nextRun,     \* templates: scheduled_at
    children,    \* templates: jobs spawned for each occurrence
    deleted,     \* templates whose row is gone
    faultsLeft   \* disturbances still to come

vars == <<now, lock, sched, job, nextRun, children, deleted, faultsLeft>>

Down == [pc |-> "down", has_lock |-> FALSE, connection |-> "none", due |-> {},
         batch |-> {}, cached |-> [t \in Templates |-> Unset], at |-> 0]

Init ==
    /\ now = 0
    /\ lock = NoLeader
    /\ sched = [s \in Schedulers |-> Down]
    /\ job \in [Jobs -> [status : {"scheduled"}, at : 1..2]]
    /\ nextRun = [t \in Templates |-> Unset]
    /\ children = [t \in Templates |-> [x \in Times |-> 0]]
    /\ deleted = {}
    /\ faultsLeft = FaultBudget

Fault(kind) ==
    /\ kind \in Faults
    /\ faultsLeft > 0
    /\ faultsLeft' = faultsLeft - 1

\* Mutant: the sweep forgets to compare scheduled_at.
DueAnyTime(j) == job[j].status = "scheduled"

\* Mutant: a job is due after its scheduled_at.
DueLater(j) == job[j].status = "scheduled" /\ job[j].at < now

Due(j) == job[j].status = "scheduled" /\ job[j].at <= now

\* What LIMIT batch_size may return of a set of rows, in an order of its own.
Limited(rows) ==
    {batch \in SUBSET rows :
        IF Cardinality(rows) <= BatchSize THEN batch = rows
                                          ELSE Cardinality(batch) = BatchSize}

\* Scheduler s goes on as described by state.
Becomes(s, state) == sched' = [sched EXCEPT ![s] = state]

\* The process is between the read and the write of a sweep, or before one.
Leads(s) == sched[s].pc \in {"tick", "promote", "cron", "spawn"} /\ sched[s].has_lock

-----------------------------------------------------------------------------
(* The scheduler loop                                                      *)

Start(s) ==
    /\ sched[s].pc = "down"
    /\ Becomes(s, [Down EXCEPT !.pc = "tick"])
    /\ UNCHANGED <<now, lock, job, nextRun, children, deleted, faultsLeft>>

\* Mutant: the answer of pg_try_advisory_lock is not looked at.
ElectAnyway(s) ==
    /\ sched[s].pc = "tick"
    /\ ~sched[s].has_lock
    /\ sched[s].connection # "lost"
    /\ lock' = IF lock = NoLeader THEN s ELSE lock
    /\ Becomes(s, [sched[s] EXCEPT !.has_lock = TRUE, !.connection = "open"])
    /\ UNCHANGED <<now, job, nextRun, children, deleted, faultsLeft>>

\* acquire_advisory_lock finds the lock free.  Once the connection is lost it can
\* no longer be asked for: the session, which is never rolled back, refuses every
\* statement and the loop swallows the error.
Elect(s) ==
    /\ sched[s].pc = "tick"
    /\ ~sched[s].has_lock
    /\ sched[s].connection # "lost"
    /\ lock = NoLeader
    /\ lock' = s
    /\ Becomes(s, [sched[s] EXCEPT !.has_lock = TRUE, !.connection = "open"])
    /\ UNCHANGED <<now, job, nextRun, children, deleted, faultsLeft>>

\* Another connection holds the lock.  The transaction of the attempt stays open.
StandBy(s) ==
    /\ sched[s].pc = "tick"
    /\ ~sched[s].has_lock
    /\ sched[s].connection # "lost"
    /\ lock # NoLeader
    /\ Becomes(s, [sched[s] EXCEPT !.connection = "open"])
    /\ UNCHANGED <<now, lock, job, nextRun, children, deleted, faultsLeft>>

\* promote_due_jobs reads a batch of jobs that are due ...
ReadDueJobs(s) ==
    /\ sched[s].pc = "tick"
    /\ sched[s].has_lock
    /\ \E due \in Limited({j \in Jobs : Due(j)}) :
         Becomes(s, [sched[s] EXCEPT !.due = due,
                                     !.pc = IF due = {} THEN "cron" ELSE "promote"])
    /\ UNCHANGED <<now, lock, job, nextRun, children, deleted, faultsLeft>>

\* ... and queues them, whatever has become of them.
Promote(s) ==
    /\ sched[s].pc = "promote"
    /\ job' = [j \in Jobs |-> IF j \in sched[s].due
                              THEN [job[j] EXCEPT !.status = "queued"]
                              ELSE job[j]]
    /\ Becomes(s, [sched[s] EXCEPT !.pc = "cron", !.due = {}])
    /\ UNCHANGED <<now, lock, nextRun, children, deleted, faultsLeft>>

\* Mutant: the time of the sweep is rounded up.
ReadTemplatesAhead(s) ==
    /\ sched[s].pc = "cron"
    /\ \E batch \in Limited(Templates \ deleted) :
         Becomes(s, [sched[s] EXCEPT !.pc = IF batch = {} THEN "tick" ELSE "spawn",
                                     !.batch = batch, !.cached = nextRun, !.at = now + 1])
    /\ UNCHANGED <<now, lock, job, nextRun, children, deleted, faultsLeft>>

\* process_cron_jobs reads a batch of templates, due or not, and the time.
ReadTemplates(s) ==
    /\ sched[s].pc = "cron"
    /\ \E batch \in Limited(Templates \ deleted) :
         Becomes(s, [sched[s] EXCEPT !.pc = IF batch = {} THEN "tick" ELSE "spawn",
                                     !.batch = batch, !.cached = nextRun, !.at = now])
    /\ UNCHANGED <<now, lock, job, nextRun, children, deleted, faultsLeft>>

\* The templates that one commit covers: up to the first whose scheduled_at was
\* NULL, which commits in the middle of the loop, or all that are left.
Segments(s) ==
    LET fresh(seg) == {t \in seg : sched[s].cached[t] = Unset} IN
    {seg \in SUBSET sched[s].batch :
        \/ seg = sched[s].batch /\ fresh(seg) = {}
        \/ \E t \in sched[s].batch : fresh(seg) = {t}}

Reached(s, t) == sched[s].cached[t] # Unset /\ sched[s].cached[t] <= sched[s].at
Written(s, seg) == {t \in seg : sched[s].cached[t] = Unset \/ Reached(s, t)}

\* The next occurrence after the time of the sweep: missed ones are skipped.
Advanced(s, t) == NextRun[t][sched[s].at]

Spawned(s, seg) ==
    [t \in Templates |-> [x \in Times |->
        IF t \in seg /\ Reached(s, t) /\ x = sched[s].cached[t]
        THEN children[t][x] + 1 ELSE children[t][x]]]

\* Mutant: the children are committed before the templates are advanced.
CommitTemplatesUnadvanced(s) ==
    /\ sched[s].pc = "spawn"
    /\ \E seg \in Segments(s) :
         /\ Written(s, seg) \intersect deleted = {}
         /\ children' = Spawned(s, seg)
         /\ nextRun' = [t \in Templates |->
              IF t \in Written(s, seg) /\ ~Reached(s, t) THEN Advanced(s, t)
                                                         ELSE nextRun[t]]
         /\ Becomes(s, [sched[s] EXCEPT
              !.batch = @ \ seg,
              !.pc = IF sched[s].batch = seg THEN "tick" ELSE "spawn"])
    /\ UNCHANGED <<now, lock, job, deleted, faultsLeft>>

\* A commit inserts one child for each template whose time has come, and writes
\* the next scheduled_at, both from the values that were read.
CommitTemplates(s) ==
    /\ sched[s].pc = "spawn"
    /\ \E seg \in Segments(s) :
         /\ Written(s, seg) \intersect deleted = {}
         /\ children' = Spawned(s, seg)
         /\ nextRun' = [t \in Templates |->
              IF t \in Written(s, seg) THEN Advanced(s, t) ELSE nextRun[t]]
         /\ Becomes(s, [sched[s] EXCEPT
              !.batch = @ \ seg,
              !.pc = IF sched[s].batch = seg THEN "tick" ELSE "spawn"])
    /\ UNCHANGED <<now, lock, job, deleted, faultsLeft>>

\* A template of the batch was deleted: its write fails, the session refuses
\* every later statement, and the rest of the sweep is lost.
CommitRefused(s) ==
    /\ sched[s].pc = "spawn"
    /\ \E seg \in Segments(s) : Written(s, seg) \intersect deleted # {}
    /\ Becomes(s, [sched[s] EXCEPT !.pc = "tick", !.batch = {}])
    /\ UNCHANGED <<now, lock, job, nextRun, children, deleted, faultsLeft>>

\* A statement fails: the sweep rolls back and the loop swallows the error.
TickError(s) ==
    /\ Fault("tick_error")
    /\ sched[s].pc \in {"promote", "cron", "spawn"}
    /\ Becomes(s, [sched[s] EXCEPT !.pc = "tick", !.due = {}, !.batch = {}])
    /\ UNCHANGED <<now, lock, job, nextRun, children, deleted>>

\* Mutant: the session goes back to the pool with its lock.
Kept(s) == lock

\* release_advisory_lock, or the end of the connection.
Released(s) == IF lock = s THEN NoLeader ELSE lock

\* SIGTERM between two ticks: the lock is released.
Shutdown(s) ==
    /\ Fault("shutdown")
    /\ sched[s].pc = "tick"
    /\ lock' = Released(s)
    /\ Becomes(s, [Down EXCEPT !.pc = "exited"])
    /\ UNCHANGED <<now, job, nextRun, children, deleted>>

-----------------------------------------------------------------------------
(* The environment                                                         *)

\* PostgreSQL releases the lock of a connection that is gone.
Crash(s) ==
    /\ Fault("crash")
    /\ sched[s].pc \notin {"down", "exited"}
    /\ lock' = Released(s)
    /\ Becomes(s, Down)
    /\ UNCHANGED <<now, job, nextRun, children, deleted>>

\* ... and the process does not notice: has_lock is never verified.
LoseConnection(s) ==
    /\ Fault("lost_connection")
    /\ sched[s].connection = "open"
    /\ lock' = Released(s)
    /\ Becomes(s, [sched[s] EXCEPT !.connection = "lost"])
    /\ UNCHANGED <<now, job, nextRun, children, deleted>>

DeleteTemplate(t) ==
    /\ Fault("delete")
    /\ t \notin deleted
    /\ deleted' = deleted \union {t}
    /\ UNCHANGED <<now, lock, sched, job, nextRun, children>>

Tick ==
    /\ now < Horizon
    /\ now' = now + 1
    /\ UNCHANGED <<lock, sched, job, nextRun, children, deleted, faultsLeft>>

\* A worker claims a queued job.
WorkerClaims(j) ==
    /\ job[j].status = "queued"
    /\ job' = [job EXCEPT ![j].status = "claimed"]
    /\ UNCHANGED <<now, lock, sched, nextRun, children, deleted, faultsLeft>>

\* The execution ends, or fails and waits for a later scheduled_at.
WorkerEnds(j) ==
    /\ job[j].status = "claimed"
    /\ \/ job' = [job EXCEPT ![j].status = "completed"]
       \/ job' = [job EXCEPT ![j].status = "scheduled", ![j].at = now + 1]
    /\ UNCHANGED <<now, lock, sched, nextRun, children, deleted, faultsLeft>>

-----------------------------------------------------------------------------

Sweep(s) ==
    \/ Elect(s)
    \/ StandBy(s)
    \/ ReadDueJobs(s)
    \/ Promote(s)
    \/ ReadTemplates(s)
    \/ CommitTemplates(s)
    \/ CommitRefused(s)

Next ==
    \/ \E s \in Schedulers :
         \/ Start(s)
         \/ Sweep(s)
         \/ TickError(s)
         \/ Shutdown(s)
         \/ Crash(s)
         \/ LoseConnection(s)
    \/ \E t \in Templates : DeleteTemplate(t)
    \/ \E j \in Jobs : WorkerClaims(j) \/ WorkerEnds(j)
    \/ Tick

Spec == Init /\ [][Next]_vars

\* The loop sleeps between two ticks, the container is restarted, time passes.
FairSpec ==
    /\ Spec
    /\ \A s \in Schedulers : WF_vars(Start(s)) /\ WF_vars(Sweep(s))
    /\ WF_vars(Tick)

-----------------------------------------------------------------------------
(* Properties                                                              *)

DelayedJob == [status : {"scheduled", "queued", "claimed", "completed"}, at : Nat]
SchedulerState ==
    [pc : {"down", "tick", "promote", "cron", "spawn", "exited"},
     has_lock : BOOLEAN, connection : {"none", "open", "lost"}, due : SUBSET Jobs,
     batch : SUBSET Templates, cached : [Templates -> Nat], at : Times]

\* Every variable keeps its type.
TypeOK ==
    /\ now \in Times
    /\ lock \in Schedulers \union {NoLeader}
    /\ sched \in [Schedulers -> SchedulerState]
    /\ job \in [Jobs -> DelayedJob]
    /\ nextRun \in [Templates -> Nat]
    /\ children \in [Templates -> [Times -> Nat]]
    /\ deleted \subseteq Templates
    /\ faultsLeft \in Nat

(* What holds while the connection that holds the lock is not lost.         *)

\* At most one process believes to be the leader, and the lock is its own.
OneLeader == \A s \in Schedulers : Leads(s) => lock = s

\* Every occurrence of a template spawns one child at most, not before its time
\* and not after the template has moved on to it: no sweep that was cut off or
\* taken over by another process spawns it again.
SpawnedOnce ==
    \A t \in Templates, x \in Times : children[t][x] > 0 =>
        /\ children[t][x] = 1
        /\ x <= now
        /\ x < nextRun[t]

\* A job enters the queue only from scheduled and when it is due: a promotion
\* never pulls back a job that a worker took, nor cuts short the delay of a retry.
PromotesOnlyDue ==
    [][\A j \in Jobs : (job[j].status # "queued" /\ job'[j].status = "queued")
                           => job[j].status = "scheduled" /\ job[j].at <= now]_vars

\* When the clock stops, every delayed job that is due has been promoted and no
\* template has an occurrence outstanding, unless every process was shut down.
EverythingServed ==
    <>[](\/ \A s \in Schedulers : sched[s].pc = "exited"
         \/ /\ \A j \in Jobs : job[j].status = "scheduled" => job[j].at > now
            /\ \A t \in Templates \ deleted : nextRun[t] > now)

(* What holds even when connections are lost.                               *)

\* The lock is never left with a process that does not sweep: one that has ended,
\* that was started again, or that stands by without knowing that it is its own.
LockIsServed ==
    lock # NoLeader =>
        /\ Leads(lock)
        /\ sched[lock].connection = "open"

\* Two leaders may spawn an occurrence twice, but never before its time, and no
\* sweep works with a time that is still to come.
SpawnsAreDue ==
    /\ \A t \in Templates, x \in Times : children[t][x] > 0 => x <= now
    /\ \A s \in Schedulers : sched[s].at <= now

(* The inductive invariant behind them.                                     *)

\* has_lock is true of the owner of the lock, and every sweep is the owner's.
LockIsOwned ==
    \A s \in Schedulers :
        /\ sched[s].has_lock => lock = s
        /\ sched[s].pc \in {"promote", "cron", "spawn"} => sched[s].has_lock
        /\ sched[s].pc \in {"down", "exited"} => ~sched[s].has_lock

\* What a sweep has read is still so.
ReadsFresh ==
    \A s \in Schedulers :
        /\ sched[s].pc = "promote" => \A j \in sched[s].due : Due(j)
        /\ sched[s].pc = "spawn" =>
              /\ sched[s].at <= now
              /\ \A t \in sched[s].batch : sched[s].cached[t] = nextRun[t]

\* Inductive whenever the connection of the lock is never lost.
LeaderInv == TypeOK /\ LockIsOwned /\ ReadsFresh /\ SpawnedOnce
=============================================================================
