----------------------- MODULE LeaderScheduler_proofs -----------------------
(***************************************************************************)
(* Proofs about LeaderScheduler, for every set of processes, jobs and      *)
(* templates, every timetable and every horizon.                           *)
(***************************************************************************)
EXTENDS LeaderTimetable, TLAPS

\* The initial state satisfies the invariant.
LEMMA InitInv == Init => LeaderInv
<1> SUFFICES ASSUME Init PROVE LeaderInv
  OBVIOUS
<1> USE SchedulerAssumption
<1>1. TypeOK
  BY DEF Init, TypeOK, Down, DelayedJob, SchedulerState, Unset, Times
<1>2. LockIsOwned
  BY DEF Init, LockIsOwned, Down
<1>3. ReadsFresh
  BY DEF Init, ReadsFresh, Down
<1>4. SpawnedOnce
  BY DEF Init, SpawnedOnce
<1> QED
  BY <1>1, <1>2, <1>3, <1>4 DEF LeaderInv

\* A process whose new state has its type leaves all processes typed.
LEMMA BecomesType ==
    ASSUME sched \in [Schedulers -> SchedulerState], NEW s \in Schedulers,
           NEW state \in SchedulerState, Becomes(s, state)
    PROVE  sched' \in [Schedulers -> SchedulerState]
BY DEF Becomes

\* A process that dies or exits is typed.
LEMMA DownType ==
    /\ Down \in SchedulerState
    /\ [Down EXCEPT !.pc = "tick"] \in SchedulerState
    /\ [Down EXCEPT !.pc = "exited"] \in SchedulerState
<1>1. Down \in SchedulerState
  BY SchedulerAssumption DEF Down, SchedulerState, Unset, Times
<1>2. \A p \in {"tick", "exited"} : [Down EXCEPT !.pc = p] \in SchedulerState
  BY <1>1 DEF SchedulerState
<1> QED
  BY <1>1, <1>2

\* The steps of a sweep keep types.
LEMMA SweepType ==
    ASSUME TypeOK, NEW s \in Schedulers, Sweep(s)
    PROVE  TypeOK'
<1> DEFINE r == sched[s]
<1>0. r \in SchedulerState
  BY DEF TypeOK
<1> USE SchedulerAssumption
<1>1. CASE Elect(s)
  <2>1. [r EXCEPT !.has_lock = TRUE, !.connection = "open"] \in SchedulerState
    BY <1>0 DEF SchedulerState
  <2> QED
    BY <1>1, <2>1, BecomesType DEF Elect, TypeOK
<1>2. CASE StandBy(s)
  <2>1. [r EXCEPT !.connection = "open"] \in SchedulerState
    BY <1>0 DEF SchedulerState
  <2> QED
    BY <1>2, <2>1, BecomesType DEF StandBy, TypeOK
<1>3. CASE ReadDueJobs(s)
  <2>1. PICK due \in Limited({j \in Jobs : Due(j)}) :
          Becomes(s, [r EXCEPT !.due = due,
                               !.pc = IF due = {} THEN "cron" ELSE "promote"])
    BY <1>3 DEF ReadDueJobs
  <2>2. due \subseteq Jobs
    BY DEF Limited
  <2>3. [r EXCEPT !.due = due, !.pc = IF due = {} THEN "cron" ELSE "promote"]
          \in SchedulerState
    BY <1>0, <2>2 DEF SchedulerState
  <2> QED
    BY <1>3, <2>1, <2>3, BecomesType DEF ReadDueJobs, TypeOK
<1>4. CASE Promote(s)
  <2>1. [r EXCEPT !.pc = "cron", !.due = {}] \in SchedulerState
    BY <1>0 DEF SchedulerState
  <2>2. job' \in [Jobs -> DelayedJob]
    BY <1>4 DEF Promote, TypeOK, DelayedJob
  <2> QED
    BY <1>4, <2>1, <2>2, BecomesType DEF Promote, TypeOK
<1>5. CASE ReadTemplates(s)
  <2>1. PICK batch \in Limited(Templates \ deleted) :
          Becomes(s, [r EXCEPT !.pc = IF batch = {} THEN "tick" ELSE "spawn",
                               !.batch = batch, !.cached = nextRun, !.at = now])
    BY <1>5 DEF ReadTemplates
  <2>2. batch \subseteq Templates
    BY DEF Limited
  <2>3. [r EXCEPT !.pc = IF batch = {} THEN "tick" ELSE "spawn",
                  !.batch = batch, !.cached = nextRun, !.at = now] \in SchedulerState
    BY <1>0, <2>2 DEF SchedulerState, TypeOK
  <2> QED
    BY <1>5, <2>1, <2>3, BecomesType DEF ReadTemplates, TypeOK
<1>6. CASE CommitTemplates(s)
  <2>1. PICK seg \in Segments(s) :
          /\ children' = Spawned(s, seg)
          /\ nextRun' = [t \in Templates |->
               IF t \in Written(s, seg) THEN Advanced(s, t) ELSE nextRun[t]]
          /\ Becomes(s, [r EXCEPT
               !.batch = @ \ seg,
               !.pc = IF r.batch = seg THEN "tick" ELSE "spawn"])
    BY <1>6 DEF CommitTemplates
  <2>2. \A t \in Templates : Advanced(s, t) \in Nat
    BY <1>0 DEF Advanced, SchedulerState
  <2>3. children' \in [Templates -> [Times -> Nat]]
    BY <2>1 DEF Spawned, TypeOK
  <2>4. nextRun' \in [Templates -> Nat]
    BY <2>1, <2>2 DEF TypeOK
  <2>5. [r EXCEPT !.batch = @ \ seg,
                  !.pc = IF r.batch = seg THEN "tick" ELSE "spawn"] \in SchedulerState
    BY <1>0 DEF SchedulerState
  <2>6. sched' \in [Schedulers -> SchedulerState]
    BY <2>1, <2>5, BecomesType DEF TypeOK
  <2> QED
    BY <1>6, <2>3, <2>4, <2>6 DEF CommitTemplates, TypeOK
<1>7. CASE CommitRefused(s)
  <2>1. [r EXCEPT !.pc = "tick", !.batch = {}] \in SchedulerState
    BY <1>0 DEF SchedulerState
  <2> QED
    BY <1>7, <2>1, BecomesType DEF CommitRefused, TypeOK
<1> QED
  BY <1>1, <1>2, <1>3, <1>4, <1>5, <1>6, <1>7 DEF Sweep

\* Every step keeps types, whatever is lost.
LEMMA NextType == TypeOK /\ [Next]_vars => TypeOK'
<1> SUFFICES ASSUME TypeOK, [Next]_vars PROVE TypeOK'
  OBVIOUS
<1> USE SchedulerAssumption
<1>1. CASE UNCHANGED vars
  BY <1>1 DEF vars, TypeOK
<1>2. ASSUME NEW s \in Schedulers, Sweep(s) PROVE TypeOK'
  BY <1>2, SweepType
<1>3. ASSUME NEW s \in Schedulers,
             Start(s) \/ TickError(s) \/ Shutdown(s) \/ Crash(s) \/ LoseConnection(s)
      PROVE  TypeOK'
  <2>0. sched[s] \in SchedulerState
    BY DEF TypeOK
  <2>1. CASE Start(s)
    BY <2>1, DownType, BecomesType DEF Start, TypeOK
  <2>2. CASE TickError(s)
    <3>1. [sched[s] EXCEPT !.pc = "tick", !.due = {}, !.batch = {}] \in SchedulerState
      BY <2>0 DEF SchedulerState
    <3> QED
      BY <2>2, <3>1, BecomesType DEF TickError, Fault, TypeOK
  <2>3. CASE Shutdown(s)
    BY <2>3, DownType, BecomesType DEF Shutdown, Fault, Released, TypeOK
  <2>4. CASE Crash(s)
    BY <2>4, DownType, BecomesType DEF Crash, Fault, Released, TypeOK
  <2>5. CASE LoseConnection(s)
    <3>1. [sched[s] EXCEPT !.connection = "lost"] \in SchedulerState
      BY <2>0 DEF SchedulerState
    <3> QED
      BY <2>5, <3>1, BecomesType DEF LoseConnection, Fault, Released, TypeOK
  <2> QED
    BY <1>3, <2>1, <2>2, <2>3, <2>4, <2>5
<1>4. ASSUME NEW t \in Templates, DeleteTemplate(t) PROVE TypeOK'
  BY <1>4 DEF DeleteTemplate, Fault, TypeOK
<1>5. ASSUME NEW j \in Jobs, WorkerClaims(j) \/ WorkerEnds(j) PROVE TypeOK'
  <2>0. job[j] \in DelayedJob /\ now + 1 \in Nat
    BY DEF TypeOK, Times
  <2>1. CASE job' = [job EXCEPT ![j].status = "claimed"]
    BY <1>5, <2>0, <2>1 DEF WorkerClaims, WorkerEnds, TypeOK, DelayedJob
  <2>2. CASE job' = [job EXCEPT ![j].status = "completed"]
    BY <1>5, <2>0, <2>2 DEF WorkerClaims, WorkerEnds, TypeOK, DelayedJob
  <2>3. CASE job' = [job EXCEPT ![j].status = "scheduled", ![j].at = now + 1]
    BY <1>5, <2>0, <2>3 DEF WorkerClaims, WorkerEnds, TypeOK, DelayedJob
  <2> QED
    BY <1>5, <2>1, <2>2, <2>3 DEF WorkerClaims, WorkerEnds
<1>6. CASE Tick
  <2>1. now' \in Times
    BY <1>6 DEF Tick, TypeOK, Times
  <2> QED
    BY <1>6, <2>1 DEF Tick, TypeOK
<1> QED
  BY <1>1, <1>2, <1>3, <1>4, <1>5, <1>6 DEF Next

\* Every variable keeps its type in every behaviour of the scheduler.
THEOREM SchedulerTypeCorrect == Spec => []TypeOK
<1>1. Init => TypeOK
  BY InitInv DEF LeaderInv
<1> QED
  BY <1>1, NextType, PTL DEF Spec

-----------------------------------------------------------------------------

\* What the invariant says of process s in a given state, under a given lock.
Owns(s, state, owner) ==
    /\ state.has_lock => owner = s
    /\ state.pc \in {"promote", "cron", "spawn"} => state.has_lock
    /\ state.pc \in {"down", "exited"} => ~state.has_lock

\* Ownership after a step of process s, which may drop its own lock or take a
\* free one.
LEMMA OwnershipStep ==
    ASSUME sched \in [Schedulers -> SchedulerState], LockIsOwned,
           NEW s \in Schedulers, NEW state, Becomes(s, state),
           Owns(s, state, lock'),
           lock' = lock \/ lock = s \/ lock = NoLeader
    PROVE  LockIsOwned'
<1> SUFFICES ASSUME NEW r \in Schedulers PROVE Owns(r, sched'[r], lock')
  BY DEF LockIsOwned, Owns
<1>1. CASE r = s
  BY <1>1 DEF Becomes
<1>2. CASE r # s
  <2>1. sched'[r] = sched[r]
    BY <1>2 DEF Becomes
  <2>2. Owns(r, sched[r], lock)
    BY DEF LockIsOwned, Owns
  <2>3. sched[r].has_lock => lock' = lock
    BY <1>2, <2>2, SchedulerAssumption DEF Owns
  <2> QED
    BY <2>1, <2>2, <2>3 DEF Owns
<1> QED
  BY <1>1, <1>2

\* Ownership of the lock survives every step but the loss of its connection.
LEMMA LockStep ==
    ASSUME TypeOK, LockIsOwned, [Next]_vars, "lost_connection" \notin Faults
    PROVE  LockIsOwned'
<1>1. CASE UNCHANGED vars
  BY <1>1 DEF vars, LockIsOwned
<1>2. ASSUME NEW s \in Schedulers,
             \/ Sweep(s)
             \/ Start(s) \/ TickError(s) \/ Shutdown(s) \/ Crash(s) \/ LoseConnection(s)
      PROVE  LockIsOwned'
  <2> DEFINE r == sched[s]
  <2>0. /\ sched \in [Schedulers -> SchedulerState]
        /\ r \in SchedulerState
        /\ Owns(s, r, lock)
    BY DEF TypeOK, LockIsOwned, Owns
  <2>1. CASE Elect(s)
    <3>1. Owns(s, [r EXCEPT !.has_lock = TRUE, !.connection = "open"], lock')
      BY <2>0, <2>1 DEF Elect, Owns, SchedulerState
    <3> QED
      BY <2>0, <2>1, <3>1, OwnershipStep DEF Elect
  <2>2. CASE StandBy(s)
    <3>1. Owns(s, [r EXCEPT !.connection = "open"], lock')
      BY <2>0, <2>2 DEF StandBy, Owns, SchedulerState
    <3> QED
      BY <2>0, <2>2, <3>1, OwnershipStep DEF StandBy
  <2>3. CASE ReadDueJobs(s)
    <3>1. PICK due : Becomes(s, [r EXCEPT !.due = due,
                                 !.pc = IF due = {} THEN "cron" ELSE "promote"])
      BY <2>3 DEF ReadDueJobs
    <3>2. Owns(s, [r EXCEPT !.due = due,
                            !.pc = IF due = {} THEN "cron" ELSE "promote"], lock')
      BY <2>0, <2>3 DEF ReadDueJobs, Owns, SchedulerState
    <3> QED
      BY <2>0, <2>3, <3>1, <3>2, OwnershipStep DEF ReadDueJobs
  <2>4. CASE Promote(s)
    <3>1. Owns(s, [r EXCEPT !.pc = "cron", !.due = {}], lock')
      BY <2>0, <2>4 DEF Promote, Owns, SchedulerState
    <3> QED
      BY <2>0, <2>4, <3>1, OwnershipStep DEF Promote
  <2>5. CASE ReadTemplates(s)
    <3>1. PICK batch :
            Becomes(s, [r EXCEPT !.pc = IF batch = {} THEN "tick" ELSE "spawn",
                                 !.batch = batch, !.cached = nextRun, !.at = now])
      BY <2>5 DEF ReadTemplates
    <3>2. Owns(s, [r EXCEPT !.pc = IF batch = {} THEN "tick" ELSE "spawn",
                            !.batch = batch, !.cached = nextRun, !.at = now], lock')
      BY <2>0, <2>5 DEF ReadTemplates, Owns, SchedulerState
    <3> QED
      BY <2>0, <2>5, <3>1, <3>2, OwnershipStep DEF ReadTemplates
  <2>6. CASE CommitTemplates(s)
    <3>1. PICK seg \in Segments(s) :
            Becomes(s, [r EXCEPT !.batch = @ \ seg,
                                 !.pc = IF r.batch = seg THEN "tick" ELSE "spawn"])
      BY <2>6 DEF CommitTemplates
    <3>2. Owns(s, [r EXCEPT !.batch = @ \ seg,
                            !.pc = IF r.batch = seg THEN "tick" ELSE "spawn"], lock')
      BY <2>0, <2>6 DEF CommitTemplates, Owns, SchedulerState
    <3> QED
      BY <2>0, <2>6, <3>1, <3>2, OwnershipStep DEF CommitTemplates
  <2>7. CASE CommitRefused(s)
    <3>1. Owns(s, [r EXCEPT !.pc = "tick", !.batch = {}], lock')
      BY <2>0, <2>7 DEF CommitRefused, Owns, SchedulerState
    <3> QED
      BY <2>0, <2>7, <3>1, OwnershipStep DEF CommitRefused
  <2>8. CASE Start(s)
    <3>1. Owns(s, [Down EXCEPT !.pc = "tick"], lock')
      BY DEF Owns, Down
    <3> QED
      BY <2>0, <2>8, <3>1, OwnershipStep DEF Start
  <2>9. CASE TickError(s)
    <3>1. Owns(s, [r EXCEPT !.pc = "tick", !.due = {}, !.batch = {}], lock')
      BY <2>0, <2>9 DEF TickError, Owns, SchedulerState
    <3> QED
      BY <2>0, <2>9, <3>1, OwnershipStep DEF TickError
  <2>10. CASE Shutdown(s)
    <3>1. Owns(s, [Down EXCEPT !.pc = "exited"], lock')
      BY DEF Owns, Down
    <3> QED
      BY <2>0, <2>10, <3>1, OwnershipStep DEF Shutdown, Released
  <2>11. CASE Crash(s)
    <3>1. Owns(s, Down, lock')
      BY DEF Owns, Down
    <3> QED
      BY <2>0, <2>11, <3>1, OwnershipStep DEF Crash, Released
  <2>12. CASE LoseConnection(s)
    BY <2>12 DEF LoseConnection, Fault
  <2> QED
    BY <1>2, <2>1, <2>2, <2>3, <2>4, <2>5, <2>6, <2>7, <2>8, <2>9, <2>10,
       <2>11, <2>12 DEF Sweep
<1>3. ASSUME NEW t \in Templates, DeleteTemplate(t) PROVE LockIsOwned'
  BY <1>3 DEF DeleteTemplate, LockIsOwned
<1>4. ASSUME NEW j \in Jobs, WorkerClaims(j) \/ WorkerEnds(j) PROVE LockIsOwned'
  BY <1>4 DEF WorkerClaims, WorkerEnds, LockIsOwned
<1>5. CASE Tick
  BY <1>5 DEF Tick, LockIsOwned
<1> QED
  BY <1>1, <1>2, <1>3, <1>4, <1>5 DEF Next

-----------------------------------------------------------------------------

\* What a process in a given state has read is so now.
FreshIn(state) ==
    /\ state.pc = "promote" => \A j \in state.due : Due(j)
    /\ state.pc = "spawn" =>
          /\ state.at <= now
          /\ \A t \in state.batch : state.cached[t] = nextRun[t]

\* Two processes in the middle of a sweep are one.
LEMMA OneSweep ==
    ASSUME LockIsOwned, NEW s \in Schedulers, NEW r \in Schedulers,
           sched[s].pc \in {"promote", "cron", "spawn"},
           sched[r].pc \in {"promote", "cron", "spawn"}
    PROVE  r = s
BY DEF LockIsOwned

\* A step of process s that writes neither jobs nor templates keeps reads fresh,
\* if what s itself has read is.
LEMMA QuietStep ==
    ASSUME sched \in [Schedulers -> SchedulerState], ReadsFresh,
           NEW s \in Schedulers, NEW state, Becomes(s, state), FreshIn(state),
           UNCHANGED <<now, job, nextRun>>
    PROVE  ReadsFresh'
<1> SUFFICES ASSUME NEW r \in Schedulers PROVE FreshIn(sched[r])'
  BY DEF ReadsFresh, FreshIn
<1>1. sched'[r] = sched[r] \/ sched'[r] = state
  BY DEF Becomes
<1>2. FreshIn(sched[r])
  BY DEF ReadsFresh, FreshIn
<1>3. FreshIn(sched'[r])
  BY <1>1, <1>2
<1> QED
  BY <1>3 DEF FreshIn, Due

\* What a sweep has read stays so until the sweep writes it.
LEMMA FreshStep ==
    ASSUME TypeOK, LockIsOwned, ReadsFresh, [Next]_vars
    PROVE  ReadsFresh'
<1> USE SchedulerAssumption
<1>1. CASE UNCHANGED vars
  BY <1>1 DEF vars, ReadsFresh, Due
<1>2. ASSUME NEW s \in Schedulers,
             \/ Sweep(s)
             \/ Start(s) \/ TickError(s) \/ Shutdown(s) \/ Crash(s) \/ LoseConnection(s)
      PROVE  ReadsFresh'
  <2> DEFINE r == sched[s]
  <2>0. /\ sched \in [Schedulers -> SchedulerState]
        /\ r \in SchedulerState
        /\ FreshIn(r)
    BY DEF TypeOK, ReadsFresh, FreshIn
  <2>1. CASE Elect(s)
    <3>1. FreshIn([r EXCEPT !.has_lock = TRUE, !.connection = "open"])
      BY <2>0, <2>1 DEF Elect, FreshIn, SchedulerState
    <3> QED
      BY <2>0, <2>1, <3>1, QuietStep DEF Elect
  <2>2. CASE StandBy(s)
    <3>1. FreshIn([r EXCEPT !.connection = "open"])
      BY <2>0, <2>2 DEF StandBy, FreshIn, SchedulerState
    <3> QED
      BY <2>0, <2>2, <3>1, QuietStep DEF StandBy
  <2>3. CASE ReadDueJobs(s)
    <3>1. PICK due \in Limited({j \in Jobs : Due(j)}) :
            Becomes(s, [r EXCEPT !.due = due,
                                 !.pc = IF due = {} THEN "cron" ELSE "promote"])
      BY <2>3 DEF ReadDueJobs
    <3>2. \A j \in due : Due(j)
      BY DEF Limited
    <3>3. FreshIn([r EXCEPT !.due = due,
                            !.pc = IF due = {} THEN "cron" ELSE "promote"])
      BY <2>0, <3>2 DEF FreshIn, SchedulerState
    <3> QED
      BY <2>0, <2>3, <3>1, <3>3, QuietStep DEF ReadDueJobs
  <2>4. CASE Promote(s)
    <3> SUFFICES ASSUME NEW p \in Schedulers PROVE FreshIn(sched[p])'
      BY DEF ReadsFresh, FreshIn
    <3>1. CASE p = s
      <4>1. sched'[s].pc = "cron"
        BY <2>0, <2>4 DEF Promote, Becomes, SchedulerState
      <4> QED
        BY <3>1, <4>1 DEF FreshIn
    <3>2. CASE p # s
      <4>1. sched[p].pc \notin {"promote", "spawn"}
        BY <2>4, <3>2, OneSweep DEF Promote
      <4>2. sched'[p] = sched[p]
        BY <2>0, <2>4, <3>2 DEF Promote, Becomes
      <4> QED
        BY <4>1, <4>2 DEF FreshIn
    <3> QED
      BY <3>1, <3>2
  <2>5. CASE ReadTemplates(s)
    <3>1. PICK batch :
            Becomes(s, [r EXCEPT !.pc = IF batch = {} THEN "tick" ELSE "spawn",
                                 !.batch = batch, !.cached = nextRun, !.at = now])
      BY <2>5 DEF ReadTemplates
    <3>2. FreshIn([r EXCEPT !.pc = IF batch = {} THEN "tick" ELSE "spawn",
                            !.batch = batch, !.cached = nextRun, !.at = now])
      BY <2>0 DEF FreshIn, SchedulerState, TypeOK, Times
    <3> QED
      BY <2>0, <2>5, <3>1, <3>2, QuietStep DEF ReadTemplates
  <2>6. CASE CommitTemplates(s)
    <3>0. PICK seg \in Segments(s) :
            /\ nextRun' = [t \in Templates |->
                 IF t \in Written(s, seg) THEN Advanced(s, t) ELSE nextRun[t]]
            /\ Becomes(s, [r EXCEPT !.batch = @ \ seg,
                                    !.pc = IF r.batch = seg THEN "tick" ELSE "spawn"])
      BY <2>6 DEF CommitTemplates
    <3> SUFFICES ASSUME NEW p \in Schedulers PROVE FreshIn(sched[p])'
      BY DEF ReadsFresh, FreshIn
    <3>1. CASE p = s
      <4>1. /\ sched'[s].pc \in {"tick", "spawn"}
            /\ sched'[s].batch = r.batch \ seg
            /\ sched'[s].cached = r.cached
            /\ sched'[s].at = r.at
        BY <2>0, <3>0 DEF Becomes, SchedulerState
      <4>2. \A t \in r.batch \ seg : nextRun'[t] = nextRun[t]
        BY <2>0, <3>0 DEF Written, SchedulerState, TypeOK
      <4>3. r.at <= now' /\ \A t \in r.batch : r.cached[t] = nextRun[t]
        BY <2>0, <2>6 DEF CommitTemplates, FreshIn
      <4> QED
        BY <3>1, <4>1, <4>2, <4>3 DEF FreshIn
    <3>2. CASE p # s
      <4>1. sched[p].pc \notin {"promote", "spawn"}
        BY <2>6, <3>2, OneSweep DEF CommitTemplates
      <4>2. sched'[p] = sched[p]
        BY <2>0, <3>0, <3>2 DEF Becomes
      <4> QED
        BY <4>1, <4>2 DEF FreshIn
    <3> QED
      BY <3>1, <3>2
  <2>7. CASE CommitRefused(s)
    <3>1. FreshIn([r EXCEPT !.pc = "tick", !.batch = {}])
      BY <2>0 DEF FreshIn, SchedulerState
    <3> QED
      BY <2>0, <2>7, <3>1, QuietStep DEF CommitRefused
  <2>8. CASE Start(s)
    <3>1. FreshIn([Down EXCEPT !.pc = "tick"])
      BY DEF FreshIn, Down
    <3> QED
      BY <2>0, <2>8, <3>1, QuietStep DEF Start
  <2>9. CASE TickError(s)
    <3>1. FreshIn([r EXCEPT !.pc = "tick", !.due = {}, !.batch = {}])
      BY <2>0 DEF FreshIn, SchedulerState
    <3> QED
      BY <2>0, <2>9, <3>1, QuietStep DEF TickError
  <2>10. CASE Shutdown(s)
    <3>1. FreshIn([Down EXCEPT !.pc = "exited"])
      BY DEF FreshIn, Down
    <3> QED
      BY <2>0, <2>10, <3>1, QuietStep DEF Shutdown
  <2>11. CASE Crash(s)
    <3>1. FreshIn(Down)
      BY DEF FreshIn, Down
    <3> QED
      BY <2>0, <2>11, <3>1, QuietStep DEF Crash
  <2>12. CASE LoseConnection(s)
    <3>1. FreshIn([r EXCEPT !.connection = "lost"])
      BY <2>0 DEF FreshIn, SchedulerState
    <3> QED
      BY <2>0, <2>12, <3>1, QuietStep DEF LoseConnection
  <2> QED
    BY <1>2, <2>1, <2>2, <2>3, <2>4, <2>5, <2>6, <2>7, <2>8, <2>9, <2>10,
       <2>11, <2>12 DEF Sweep
<1>3. ASSUME NEW t \in Templates, DeleteTemplate(t) PROVE ReadsFresh'
  BY <1>3 DEF DeleteTemplate, ReadsFresh, Due
<1>4. ASSUME NEW j \in Jobs, WorkerClaims(j) \/ WorkerEnds(j) PROVE ReadsFresh'
  <2>1. job[j].status # "scheduled" /\ UNCHANGED <<now, sched, nextRun>>
    BY <1>4 DEF WorkerClaims, WorkerEnds
  <2>2. \A i \in Jobs : i # j => job'[i] = job[i]
    BY <1>4 DEF WorkerClaims, WorkerEnds, TypeOK
  <2>3. \A i \in Jobs : Due(i) => Due(i)'
    BY <2>1, <2>2 DEF Due
  <2>4. \A s \in Schedulers : sched[s].due \subseteq Jobs
    BY DEF TypeOK, SchedulerState
  <2> QED
    BY <2>1, <2>3, <2>4 DEF ReadsFresh
<1>5. CASE Tick
  <2>1. now \in Nat /\ now' = now + 1 /\ UNCHANGED <<sched, job, nextRun>>
    BY <1>5 DEF Tick, TypeOK, Times
  <2>2. \A j \in Jobs : Due(j) => Due(j)'
    BY <2>1 DEF Due, TypeOK, DelayedJob
  <2>3. \A s \in Schedulers : sched[s].due \subseteq Jobs /\ sched[s].at \in Nat
    BY DEF TypeOK, SchedulerState, Times
  <2> QED
    BY <2>1, <2>2, <2>3 DEF ReadsFresh
<1> QED
  BY <1>1, <1>2, <1>3, <1>4, <1>5 DEF Next

-----------------------------------------------------------------------------

\* No occurrence spawns a second child in a step of the leader.
LEMMA SpawnStep ==
    ASSUME TypeOK, ReadsFresh, SpawnedOnce, [Next]_vars
    PROVE  SpawnedOnce'
<1> USE SchedulerAssumption
<1>1. CASE UNCHANGED <<now, children, nextRun>>
  BY <1>1 DEF SpawnedOnce
<1>2. ASSUME NEW s \in Schedulers, CommitTemplates(s)
      PROVE  SpawnedOnce'
  <2> DEFINE r == sched[s]
  <2>1. PICK seg \in Segments(s) :
          /\ children' = Spawned(s, seg)
          /\ nextRun' = [t \in Templates |->
               IF t \in Written(s, seg) THEN Advanced(s, t) ELSE nextRun[t]]
    BY <1>2 DEF CommitTemplates
  <2>2. seg \subseteq r.batch
    BY <2>1 DEF Segments
  <2>3. /\ r.at \in Times /\ r.at <= now /\ now' = now
        /\ \A t \in r.batch : r.cached[t] = nextRun[t]
    BY <1>2 DEF CommitTemplates, ReadsFresh, TypeOK, SchedulerState
  <2> SUFFICES ASSUME NEW t \in Templates, NEW x \in Times, children'[t][x] > 0
               PROVE  children'[t][x] = 1 /\ x <= now' /\ x < nextRun'[t]
    BY DEF SpawnedOnce
  <2>4. /\ nextRun[t] \in Nat /\ children[t][x] \in Nat
        /\ x \in Nat /\ now \in Nat /\ r.at \in Nat
    BY <2>3 DEF TypeOK, Times
  <2>5. children[t][x] > 0 => children[t][x] = 1 /\ x <= now /\ x < nextRun[t]
    BY DEF SpawnedOnce
  <2>6. Advanced(s, t) \in Nat /\ Advanced(s, t) > r.at
    BY <2>3 DEF Advanced
  <2>7. children'[t][x] = IF t \in seg /\ Reached(s, t) /\ x = r.cached[t]
                          THEN children[t][x] + 1 ELSE children[t][x]
    BY <2>1 DEF Spawned
  <2>8. nextRun'[t] = IF t \in Written(s, seg) THEN Advanced(s, t) ELSE nextRun[t]
    BY <2>1
  <2>9. CASE t \in seg /\ Reached(s, t)
    <3>1. r.cached[t] = nextRun[t] /\ nextRun[t] <= r.at
      BY <2>2, <2>3, <2>9 DEF Reached
    <3>2. t \in Written(s, seg)
      BY <2>9 DEF Written
    <3> QED
      BY <2>3, <2>4, <2>5, <2>6, <2>7, <2>8, <2>9, <3>1, <3>2
  <2>10. CASE t \in seg /\ ~Reached(s, t) /\ t \in Written(s, seg)
    <3>1. nextRun[t] = 0
      BY <2>2, <2>3, <2>10 DEF Written, Unset
    <3> QED
      BY <2>4, <2>5, <2>7, <2>10, <3>1
  <2>11. CASE t \notin Written(s, seg)
    <3>1. ~(t \in seg /\ Reached(s, t))
      BY <2>11 DEF Written
    <3> QED
      BY <2>3, <2>5, <2>7, <2>8, <2>11, <3>1
  <2> QED
    BY <2>9, <2>10, <2>11 DEF Written
<1>3. CASE Tick
  <2>1. now \in Nat /\ now' = now + 1 /\ UNCHANGED <<children, nextRun>>
    BY <1>3 DEF Tick, TypeOK, Times
  <2> SUFFICES ASSUME NEW t \in Templates, NEW x \in Times, children[t][x] > 0
               PROVE  children[t][x] = 1 /\ x <= now + 1 /\ x < nextRun[t]
    BY <2>1 DEF SpawnedOnce
  <2>2. x \in Nat /\ children[t][x] = 1 /\ x <= now /\ x < nextRun[t]
    BY DEF SpawnedOnce, Times
  <2> QED
    BY <2>1, <2>2
<1>4. \/ UNCHANGED <<now, children, nextRun>>
      \/ \E s \in Schedulers : CommitTemplates(s)
      \/ Tick
  BY DEF Next, Sweep, vars, Start, Elect, StandBy, ReadDueJobs, Promote, ReadTemplates,
         CommitRefused, TickError, Shutdown, Crash, LoseConnection, DeleteTemplate,
         WorkerClaims, WorkerEnds
<1> QED
  BY <1>1, <1>2, <1>3, <1>4

\* As long as the connection that holds the lock is never lost, the whole invariant
\* holds in every reachable state: each process knows whether it is the leader, and
\* what a sweep has read is still so when it writes.
THEOREM LeaderInvHolds ==
    ASSUME "lost_connection" \notin Faults
    PROVE  Spec => []LeaderInv
<1>1. LeaderInv /\ [Next]_vars => LeaderInv'
  BY NextType, LockStep, FreshStep, SpawnStep DEF LeaderInv
<1> QED
  BY <1>1, InitInv, PTL DEF Spec

\* Then at most one process acts as the leader, and it holds the lock.
THEOREM OneLeaderHolds ==
    ASSUME "lost_connection" \notin Faults
    PROVE  Spec => []OneLeader
<1>1. LeaderInv => OneLeader
  BY DEF LeaderInv, LockIsOwned, OneLeader, Leads
<1> QED
  BY <1>1, LeaderInvHolds, PTL

\* Then no occurrence of a template spawns two children, for any timetable.
THEOREM ChildrenSpawnedOnce ==
    ASSUME "lost_connection" \notin Faults
    PROVE  Spec => []SpawnedOnce
<1>1. LeaderInv => SpawnedOnce
  BY DEF LeaderInv
<1> QED
  BY <1>1, LeaderInvHolds, PTL

\* Then a promotion finds every job of its batch still scheduled and due.
THEOREM PromotesOnlyDueHolds ==
    ASSUME "lost_connection" \notin Faults
    PROVE  Spec => PromotesOnlyDue
<1> DEFINE P == \A j \in Jobs :
              (job[j].status # "queued" /\ job'[j].status = "queued")
                  => job[j].status = "scheduled" /\ job[j].at <= now
<1>1. LeaderInv /\ [Next]_vars => [P]_vars
  <2> SUFFICES ASSUME TypeOK, ReadsFresh, Next, NEW j \in Jobs,
                      job[j].status # "queued", job'[j].status = "queued"
               PROVE  Due(j)
    BY DEF LeaderInv, Due
  <2>1. \/ \E s \in Schedulers : Promote(s)
        \/ \E i \in Jobs : WorkerClaims(i) \/ WorkerEnds(i)
        \/ UNCHANGED job
    BY DEF Next, Sweep, Start, Elect, StandBy, ReadDueJobs, ReadTemplates, Tick,
           CommitTemplates, CommitRefused, TickError, Shutdown, Crash,
           LoseConnection, DeleteTemplate
  <2>2. ASSUME NEW s \in Schedulers, Promote(s) PROVE Due(j)
    <3>1. j \in sched[s].due
      BY <2>2 DEF Promote
    <3> QED
      BY <2>2, <3>1 DEF Promote, ReadsFresh
  <2>3. ASSUME NEW i \in Jobs, WorkerClaims(i) \/ WorkerEnds(i) PROVE FALSE
    <3>1. job[j] \in DelayedJob
      BY DEF TypeOK
    <3>2. CASE i # j
      BY <2>3, <3>2 DEF WorkerClaims, WorkerEnds, TypeOK
    <3>3. CASE i = j
      <4>1. job'[j].status \in {"claimed", "completed", "scheduled"}
        BY <2>3, <3>1, <3>3 DEF WorkerClaims, WorkerEnds, TypeOK, DelayedJob
      <4> QED
        BY <4>1
    <3> QED
      BY <3>2, <3>3
  <2> QED
    BY <2>1, <2>2, <2>3
<1> QED
  BY <1>1, LeaderInvHolds, PTL DEF Spec, PromotesOnlyDue

\* A process in this state holds the lock and sweeps.
Serves(state) ==
    /\ state.pc \in {"tick", "promote", "cron", "spawn"}
    /\ state.has_lock
    /\ state.connection = "open"

\* The lock stays served after a step of process s that gives it up, or leaves s
\* serving if it is then its own.
LEMMA ServedStep ==
    ASSUME sched \in [Schedulers -> SchedulerState], lock \in Schedulers \union {NoLeader},
           LockIsServed, NEW s \in Schedulers, NEW state, Becomes(s, state),
           lock' \in {lock, s, NoLeader}, lock' = s => Serves(state)
    PROVE  LockIsServed'
<1>1. sched' = [sched EXCEPT ![s] = state]
  BY DEF Becomes
<1>2. CASE lock' = NoLeader
  BY <1>2 DEF LockIsServed
<1>3. CASE lock' = s
  <2>1. sched'[lock'] = state
    BY <1>1, <1>3
  <2> QED
    BY <1>3, <2>1 DEF LockIsServed, Leads, Serves
<1>4. CASE lock' = lock /\ lock # s /\ lock # NoLeader
  <2>1. lock \in Schedulers /\ sched'[lock'] = sched[lock]
    BY <1>1, <1>4
  <2> QED
    BY <1>4, <2>1 DEF LockIsServed, Leads
<1> QED
  BY <1>2, <1>3, <1>4

\* Under every disturbance the lock is never left with a process that has ended, was
\* started again, or stands by: a free lock or a working leader, nothing between.
THEOREM LockIsServedHolds == Spec => []LockIsServed
<1> USE SchedulerAssumption
<1>1. Init => LockIsServed
  BY DEF Init, LockIsServed
<1>2. ASSUME TypeOK, LockIsServed, Next PROVE LockIsServed'
  <2> USE <1>2 DEF TypeOK
  <2>1. ASSUME NEW s \in Schedulers,
               Start(s) \/ StandBy(s) \/ Crash(s) \/ Shutdown(s) \/ LoseConnection(s)
        PROVE  LockIsServed'
    <3>1. lock' \in {lock, NoLeader} /\ lock' # s
      BY <2>1 DEF Start, StandBy, Crash, Shutdown, LoseConnection, Released,
                  LockIsServed, Leads
    <3>2. PICK state : Becomes(s, state)
      BY <2>1 DEF Start, StandBy, Crash, Shutdown, LoseConnection
    <3> QED
      BY <3>1, <3>2, ServedStep
  <2>2. ASSUME NEW s \in Schedulers, Elect(s) PROVE LockIsServed'
    <3> DEFINE state == [sched[s] EXCEPT !.has_lock = TRUE, !.connection = "open"]
    <3>1. Becomes(s, state) /\ lock' = s /\ sched[s].pc = "tick"
      BY <2>2 DEF Elect
    <3>2. Serves(state)
      BY <3>1 DEF Serves, SchedulerState
    <3> QED
      BY <3>1, <3>2, ServedStep
  <2>3. ASSUME NEW s \in Schedulers,
               \/ ReadDueJobs(s) \/ Promote(s) \/ ReadTemplates(s)
               \/ CommitTemplates(s) \/ CommitRefused(s) \/ TickError(s)
        PROVE  LockIsServed'
    <3>1. lock' = lock
      BY <2>3 DEF ReadDueJobs, Promote, ReadTemplates, CommitTemplates,
                  CommitRefused, TickError
    <3>2. /\ Becomes(s, sched'[s])
          /\ sched'[s].has_lock = sched[s].has_lock
          /\ sched'[s].connection = sched[s].connection
          /\ sched'[s].pc \in {"tick", "promote", "cron", "spawn"}
      <4> USE DEF Becomes, SchedulerState
      <4>1. CASE ReadDueJobs(s)
        <5>1. PICK due \in Limited({j \in Jobs : Due(j)}) :
                Becomes(s, [sched[s] EXCEPT
                  !.due = due, !.pc = IF due = {} THEN "cron" ELSE "promote"])
          BY <4>1 DEF ReadDueJobs
        <5>2. sched'[s] = [sched[s] EXCEPT
                  !.due = due, !.pc = IF due = {} THEN "cron" ELSE "promote"]
          BY <5>1
        <5> QED
          BY <5>1, <5>2
      <4>2. CASE Promote(s)
        BY <4>2 DEF Promote
      <4>3. CASE ReadTemplates(s)
        BY <4>3 DEF ReadTemplates
      <4>4. CASE CommitTemplates(s)
        BY <4>4 DEF CommitTemplates
      <4>5. CASE CommitRefused(s)
        BY <4>5 DEF CommitRefused
      <4>6. CASE TickError(s)
        BY <4>6 DEF TickError
      <4> QED
        BY <2>3, <4>1, <4>2, <4>3, <4>4, <4>5, <4>6
    <3>3. lock' = s => Serves(sched'[s])
      BY <3>1, <3>2 DEF Serves, LockIsServed, Leads
    <3> QED
      BY <3>1, <3>2, <3>3, ServedStep
  <2>4. ASSUME UNCHANGED <<lock, sched>> PROVE LockIsServed'
    BY <2>4 DEF LockIsServed, Leads
  <2> QED
    BY <2>1, <2>2, <2>3, <2>4 DEF Next, Sweep, DeleteTemplate, WorkerClaims, WorkerEnds, Tick
<1>3. ASSUME LockIsServed, UNCHANGED vars PROVE LockIsServed'
  BY <1>3 DEF LockIsServed, Leads, vars
<1> QED
  BY <1>1, <1>2, <1>3, SchedulerTypeCorrect, PTL DEF Spec

\* A step of process s whose new state has no later time than now, and that spawns
\* nothing, or only what is due.
LEMMA DueStep ==
    ASSUME TypeOK, SpawnsAreDue, NEW s \in Schedulers, NEW state, Becomes(s, state),
           state.at <= now, now' = now,
           \A t \in Templates, x \in Times :
               children'[t][x] > 0 => children[t][x] > 0 \/ x <= now
    PROVE  SpawnsAreDue'
<1>1. sched' = [sched EXCEPT ![s] = state] /\ sched \in [Schedulers -> SchedulerState]
  BY DEF Becomes, TypeOK
<1>2. \A p \in Schedulers : sched'[p].at <= now'
  BY <1>1 DEF SpawnsAreDue
<1> QED
  BY <1>2 DEF SpawnsAreDue

\* Under every disturbance, lost connections and two leaders included, no occurrence
\* is spawned before its time.
THEOREM SpawnsAreDueHolds == Spec => []SpawnsAreDue
<1> USE SchedulerAssumption
<1>1. Init => SpawnsAreDue
  BY DEF Init, SpawnsAreDue, Down, Times
<1>2. ASSUME TypeOK, SpawnsAreDue, Next PROVE SpawnsAreDue'
  <2>0. /\ now \in Nat
        /\ \A s \in Schedulers : sched[s] \in SchedulerState /\ sched[s].at <= now
    BY <1>2 DEF TypeOK, Times, SpawnsAreDue
  <2>1. ASSUME NEW s \in Schedulers, Start(s) \/ Shutdown(s) \/ Crash(s)
        PROVE  SpawnsAreDue'
    <3>1. PICK state : Becomes(s, state) /\ state.at = 0
      BY <2>1 DEF Start, Shutdown, Crash, Down
    <3>2. now' = now /\ children' = children
      BY <2>1 DEF Start, Shutdown, Crash
    <3> QED
      BY <1>2, <2>0, <3>1, <3>2, DueStep
  <2>2. ASSUME NEW s \in Schedulers,
               \/ Elect(s) \/ StandBy(s) \/ ReadDueJobs(s) \/ Promote(s)
               \/ CommitRefused(s) \/ TickError(s) \/ LoseConnection(s)
        PROVE  SpawnsAreDue'
    <3>1. Becomes(s, sched'[s]) /\ sched'[s].at = sched[s].at
      <4> USE <1>2, <2>0 DEF Becomes, SchedulerState, TypeOK
      <4>1. CASE Elect(s)
        BY <4>1 DEF Elect
      <4>2. CASE StandBy(s)
        BY <4>2 DEF StandBy
      <4>3. CASE ReadDueJobs(s)
        BY <4>3 DEF ReadDueJobs
      <4>4. CASE Promote(s)
        BY <4>4 DEF Promote
      <4>5. CASE CommitRefused(s)
        BY <4>5 DEF CommitRefused
      <4>6. CASE TickError(s)
        BY <4>6 DEF TickError
      <4>7. CASE LoseConnection(s)
        BY <4>7 DEF LoseConnection
      <4> QED
        BY <2>2, <4>1, <4>2, <4>3, <4>4, <4>5, <4>6, <4>7
    <3>2. now' = now /\ children' = children
      BY <2>2 DEF Elect, StandBy, ReadDueJobs, Promote, CommitRefused, TickError,
                  LoseConnection
    <3> QED
      BY <1>2, <2>0, <3>1, <3>2, DueStep
  <2>3. ASSUME NEW s \in Schedulers, ReadTemplates(s) PROVE SpawnsAreDue'
    <3>1. Becomes(s, sched'[s]) /\ sched'[s].at = now
      BY <1>2, <2>0, <2>3 DEF ReadTemplates, Becomes, SchedulerState, TypeOK
    <3>2. now' = now /\ children' = children
      BY <2>3 DEF ReadTemplates
    <3> QED
      BY <1>2, <2>0, <3>1, <3>2, DueStep
  <2>4. ASSUME NEW s \in Schedulers, CommitTemplates(s) PROVE SpawnsAreDue'
    <3>0. PICK seg \in Segments(s) :
            /\ children' = Spawned(s, seg)
            /\ Becomes(s, [sched[s] EXCEPT
                 !.batch = @ \ seg,
                 !.pc = IF sched[s].batch = seg THEN "tick" ELSE "spawn"])
      BY <2>4 DEF CommitTemplates
    <3>1. Becomes(s, sched'[s]) /\ sched'[s].at = sched[s].at
      BY <1>2, <2>0, <3>0 DEF Becomes, SchedulerState, TypeOK
    <3>2. ASSUME NEW t \in Templates, NEW x \in Times, children'[t][x] > 0
          PROVE  children[t][x] > 0 \/ x <= now
      <4>1. children'[t][x] = IF t \in seg /\ Reached(s, t) /\ x = sched[s].cached[t]
                              THEN children[t][x] + 1 ELSE children[t][x]
        BY <3>0 DEF Spawned
      <4>2. sched[s].at \in Nat /\ x \in Nat /\ sched[s].cached[t] \in Nat
        BY <2>0 DEF SchedulerState, Times
      <4>3. CASE Reached(s, t) /\ x = sched[s].cached[t]
        BY <2>0, <4>2, <4>3 DEF Reached
      <4> QED
        BY <3>2, <4>1, <4>3
    <3>3. now' = now
      BY <2>4 DEF CommitTemplates
    <3> QED
      BY <1>2, <2>0, <3>1, <3>2, <3>3, DueStep
  <2>5. CASE Tick
    <3>1. now' = now + 1 /\ UNCHANGED <<children, sched>>
      BY <2>5 DEF Tick
    <3>2. \A x \in Times : x <= now => x <= now + 1
      BY <2>0 DEF Times
    <3>3. \A s \in Schedulers : sched[s].at <= now + 1
      BY <2>0 DEF SchedulerState, Times
    <3> QED
      BY <1>2, <3>1, <3>2, <3>3 DEF SpawnsAreDue
  <2>6. ASSUME UNCHANGED <<now, sched, children>> PROVE SpawnsAreDue'
    BY <1>2, <2>6 DEF SpawnsAreDue
  <2> QED
    BY <1>2, <2>1, <2>2, <2>3, <2>4, <2>5, <2>6
    DEF Next, Sweep, DeleteTemplate, WorkerClaims, WorkerEnds
<1>3. ASSUME SpawnsAreDue, UNCHANGED vars PROVE SpawnsAreDue'
  BY <1>3 DEF SpawnsAreDue, vars
<1> QED
  BY <1>1, <1>2, <1>3, SchedulerTypeCorrect, PTL DEF Spec

-----------------------------------------------------------------------------
(* The schedulers implement the timetable                                  *)

\* The horizon and the empty entry are the timetable's.
LEMMA SameMoments == Promise!Moments = Times /\ Promise!NotEntered = Unset
BY DEF Promise!Moments, Promise!NotEntered, Times, Unset

\* A commit enters and fires templates: each from what the timetable is at, which
\* is what the sweep read.
LEMMA CommitServes ==
    ASSUME TypeOK, TypeOK', ReadsFresh, NEW s \in Schedulers, CommitTemplates(s)
    PROVE  Promise!ServeTemplates
<1> USE SchedulerAssumption
<1> DEFINE r == sched[s]
<1>1. PICK seg \in Segments(s) :
        /\ Written(s, seg) \intersect deleted = {}
        /\ children' = Spawned(s, seg)
        /\ nextRun' = [t \in Templates |->
             IF t \in Written(s, seg) THEN Advanced(s, t) ELSE nextRun[t]]
  BY DEF CommitTemplates
<1>2. seg \subseteq r.batch
  BY <1>1 DEF Segments
<1>3. /\ r.at \in Times /\ r.at <= now
      /\ \A t \in r.batch : r.cached[t] = nextRun[t]
  BY DEF CommitTemplates, ReadsFresh, TypeOK, SchedulerState
<1>4. nextRun' \in [Templates -> Nat] /\ children' \in [Templates -> [Times -> Nat]]
  BY DEF TypeOK
<1>5. ASSUME NEW t \in Templates
      PROVE  Promise!Enter(t) \/ Promise!Fire(t) \/ Promise!Rest(t)
  <2>1. /\ nextRun[t] \in Nat /\ r.at \in Nat /\ now \in Nat /\ now <= Horizon
        /\ Horizon \in Nat /\ children[t] \in [Times -> Nat]
        /\ children'[t] \in [Times -> Nat]
    <3>1. now \in Times /\ nextRun[t] \in Nat /\ children[t] \in [Times -> Nat]
      BY DEF TypeOK
    <3>2. children'[t] \in [Times -> Nat]
      BY <1>4
    <3>3. Horizon \in Nat /\ \A x \in Times : x \in Nat /\ x <= Horizon
      BY DEF Times
    <3> HIDE DEF r
    <3> QED
      BY <1>3, <3>1, <3>2, <3>3
  <2>2. children'[t] = [x \in Times |->
           IF t \in seg /\ Reached(s, t) /\ x = r.cached[t]
           THEN children[t][x] + 1 ELSE children[t][x]]
    BY <1>1 DEF Spawned
  <2>3. nextRun'[t] = IF t \in Written(s, seg) THEN Advanced(s, t) ELSE nextRun[t]
    BY <1>1
  <2>4. CASE t \in seg /\ Reached(s, t)
    <3>1. r.cached[t] = nextRun[t] /\ nextRun[t] # Unset /\ nextRun[t] <= r.at
      BY <1>2, <1>3, <2>4 DEF Reached
    <3>2. t \notin deleted /\ nextRun'[t] = NextRun[t][r.at]
      BY <1>1, <2>3, <2>4 DEF Written, Advanced
    <3>3. r.at \in nextRun[t]..now /\ nextRun[t] <= now
      BY <1>3, <2>1, <3>1
    <3>4. children'[t] = [children[t] EXCEPT ![nextRun[t]] = @ + 1]
      BY <2>1, <2>2, <2>4, <3>1
    <3> QED
      BY <3>1, <3>2, <3>3, <3>4, SameMoments DEF Promise!Fire, Promise!MovesOn
  <2>5. CASE ~(t \in seg /\ Reached(s, t))
    <3>1. children'[t] = children[t]
      BY <2>1, <2>2, <2>5
    <3>2. CASE t \in Written(s, seg)
      <4>1. r.cached[t] = Unset /\ t \in seg
        BY <2>5, <3>2 DEF Written
      <4>2. t \notin deleted /\ nextRun[t] = Unset
        BY <1>1, <1>2, <1>3, <3>2, <4>1
      <4>3. nextRun'[t] = NextRun[t][r.at] /\ r.at \in 0..now
        BY <1>3, <2>1, <2>3, <3>2 DEF Advanced
      <4> QED
        BY <3>1, <4>2, <4>3, SameMoments DEF Promise!Enter, Promise!MovesOn
    <3>3. CASE t \notin Written(s, seg)
      BY <2>3, <3>1, <3>3 DEF Promise!Rest
    <3> QED
      BY <3>2, <3>3
  <2> QED
    BY <2>4, <2>5
<1>6. UNCHANGED <<now, deleted, statusOf, atOf>>
  BY DEF CommitTemplates, statusOf, atOf
<1> QED
  BY <1>5, <1>4, <1>6, SameMoments DEF Promise!ServeTemplates

\* A promotion queues jobs whose time has come.
LEMMA PromotionQueues ==
    ASSUME TypeOK, ReadsFresh, NEW s \in Schedulers, Promote(s)
    PROVE  Promise!QueueJobs
<1> DEFINE due == sched[s].due
<1>1. due \subseteq Jobs /\ \A j \in due : Due(j)
  BY DEF Promote, ReadsFresh, TypeOK, SchedulerState
<1>2. /\ job \in [Jobs -> DelayedJob]
      /\ job' = [j \in Jobs |-> IF j \in due THEN [job[j] EXCEPT !.status = "queued"]
                                             ELSE job[j]]
  BY DEF Promote, TypeOK
<1>3. \A j \in Jobs : statusOf[j] = job[j].status /\ atOf[j] = job[j].at
  BY DEF statusOf, atOf
<1>4. due \in SUBSET {j \in Jobs : statusOf[j] = "scheduled" /\ atOf[j] <= now}
  BY <1>1, <1>3 DEF Due
<1>5. statusOf' = [j \in Jobs |-> IF j \in due THEN "queued" ELSE statusOf[j]]
  BY <1>2, <1>3 DEF statusOf, DelayedJob
<1>6. atOf' = atOf
  BY <1>2 DEF atOf, DelayedJob
<1>7. UNCHANGED <<now, nextRun, children, deleted>>
  BY DEF Promote
<1> QED
  BY <1>4, <1>5, <1>6, <1>7 DEF Promise!QueueJobs

\* What a worker does to a delayed job is what the timetable lets it do.
LEMMA WorkerWorks ==
    ASSUME TypeOK, NEW j \in Jobs, WorkerClaims(j) \/ WorkerEnds(j)
    PROVE  Promise!WorkJob(j)
<1>0. /\ job \in [Jobs -> DelayedJob] /\ now \in Nat
      /\ UNCHANGED <<now, nextRun, children, deleted>>
  BY DEF TypeOK, Times, WorkerClaims, WorkerEnds
<1>1. statusOf[j] = job[j].status
  BY DEF statusOf
<1>2. CASE WorkerClaims(j)
  <2>1. job[j].status = "queued" /\ job' = [job EXCEPT ![j].status = "claimed"]
    BY <1>2 DEF WorkerClaims
  <2>2. statusOf' = [statusOf EXCEPT ![j] = "claimed"] /\ atOf' = atOf
    BY <1>0, <2>1 DEF statusOf, atOf, DelayedJob
  <2> QED
    BY <1>0, <1>1, <2>1, <2>2 DEF Promise!WorkJob, Promise!Take, Promise!Moves
<1>3. CASE WorkerEnds(j) /\ job' = [job EXCEPT ![j].status = "completed"]
  <2>1. job[j].status = "claimed"
    BY <1>3 DEF WorkerEnds
  <2>2. statusOf' = [statusOf EXCEPT ![j] = "completed"] /\ atOf' = atOf
    BY <1>0, <1>3 DEF statusOf, atOf, DelayedJob
  <2> QED
    BY <1>0, <1>1, <2>1, <2>2 DEF Promise!WorkJob, Promise!End, Promise!Moves
<1>4. CASE WorkerEnds(j)
           /\ job' = [job EXCEPT ![j].status = "scheduled", ![j].at = now + 1]
  <2>1. job[j].status = "claimed"
    BY <1>4 DEF WorkerEnds
  <2>2. job'[j].status = "scheduled" /\ job'[j].at = now + 1
    BY <1>0, <1>4 DEF DelayedJob
  <2>3. \A i \in Jobs \ {j} : job'[i] = job[i]
    BY <1>0, <1>4
  <2>4. statusOf' = [statusOf EXCEPT ![j] = "scheduled"]
    BY <2>2, <2>3 DEF statusOf
  <2>5. /\ atOf' \in [Jobs -> Nat]
        /\ atOf'[j] > now
        /\ \A i \in Jobs \ {j} : atOf'[i] = atOf[i]
    BY <1>0, <2>2, <2>3 DEF atOf, DelayedJob
  <2> QED
    BY <1>0, <1>1, <2>1, <2>4, <2>5 DEF Promise!WorkJob, Promise!Delay, Promise!Moves
<1> QED
  BY <1>2, <1>3, <1>4 DEF WorkerEnds

\* As long as the connection that holds the lock is never lost, the processes
\* together keep the timetable: whatever crashes, fails, is shut down or deleted,
\* every step is one that the timetable allows, or changes nothing it shows.
THEOREM SchedulersImplementTimetable ==
    ASSUME "lost_connection" \notin Faults
    PROVE  Spec => ImplementsTimetable
<1>1. ASSUME Init PROVE Promise!TimetableInit
  <2>1. \A j \in Jobs : job[j].status = "scheduled" /\ job[j].at \in Nat
    BY <1>1 DEF Init
  <2>2. statusOf = [j \in Jobs |-> "scheduled"] /\ atOf \in [Jobs -> Nat]
    BY <2>1 DEF statusOf, atOf
  <2> QED
    BY <1>1, <2>2, SameMoments DEF Init, Promise!TimetableInit
<1>2. LeaderInv /\ LeaderInv' /\ [Next]_vars
        => [Promise!TimetableNext]_(Promise!timetableVars)
  <2> SUFFICES ASSUME TypeOK, TypeOK', ReadsFresh, [Next]_vars
               PROVE  Promise!TimetableNext \/ UNCHANGED Promise!timetableVars
    BY DEF LeaderInv
  <2>1. ASSUME UNCHANGED <<now, job, nextRun, children, deleted>>
        PROVE  UNCHANGED Promise!timetableVars
    BY <2>1 DEF Promise!timetableVars, statusOf, atOf
  <2>2. ASSUME NEW s \in Schedulers, CommitTemplates(s) PROVE Promise!TimetableNext
    BY <2>2, CommitServes DEF Promise!TimetableNext
  <2>3. ASSUME NEW s \in Schedulers, Promote(s) PROVE Promise!TimetableNext
    BY <2>3, PromotionQueues DEF Promise!TimetableNext
  <2>4. ASSUME NEW j \in Jobs, WorkerClaims(j) \/ WorkerEnds(j)
        PROVE  Promise!TimetableNext
    BY <2>4, WorkerWorks DEF Promise!TimetableNext
  <2>5. ASSUME NEW t \in Templates, DeleteTemplate(t) PROVE Promise!TimetableNext
    BY <2>5 DEF DeleteTemplate, Promise!TimetableNext, Promise!Withdraw, statusOf, atOf
  <2>6. CASE Tick
    BY <2>6 DEF Tick, Promise!TimetableNext, Promise!Advance, statusOf, atOf
  <2>7. \/ \E s \in Schedulers : CommitTemplates(s) \/ Promote(s)
        \/ \E j \in Jobs : WorkerClaims(j) \/ WorkerEnds(j)
        \/ \E t \in Templates : DeleteTemplate(t)
        \/ Tick
        \/ UNCHANGED <<now, job, nextRun, children, deleted>>
    BY DEF Next, Sweep, vars, Start, Elect, StandBy, ReadDueJobs, ReadTemplates,
           CommitRefused, TickError, Shutdown, Crash, LoseConnection
  <2> QED
    BY <2>1, <2>2, <2>3, <2>4, <2>5, <2>6, <2>7
<1> QED
  BY <1>1, <1>2, LeaderInvHolds, PTL DEF Spec, ImplementsTimetable,
     Promise!TimetableSpec
=============================================================================
