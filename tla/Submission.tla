------------------------------ MODULE Submission ------------------------------
(***************************************************************************)
(* The submission of jobs with an Idempotency-Key: HTTP requests that run  *)
(* at once, each a sequence of calls to Redis and to PostgreSQL.           *)
(*                                                                         *)
(*   api/v1/endpoints/jobs.py         submit_job                           *)
(*   services/job_service.py          create_job                           *)
(*   services/idempotency_service.py  the Redis cache                      *)
(*                                                                         *)
(* The job that request r inserts is called r.  Queries read what is       *)
(* committed at that moment; the insert and its commit are one step, which *)
(* the unique index on the key and the foreign keys may refuse.            *)
(***************************************************************************)
EXTENDS Integers, FiniteSets

CONSTANTS
    Requests,     \* submissions, a client's retries included
    Keys,         \* idempotency keys
    Queues,       \* queues
    Faults,       \* the kinds of disturbance the environment may inject
    FaultBudget,  \* how many of them
    NoKey,        \* a request without the header
    NoQueue,      \* a request that has not arrived
    NoJob         \* no job

FaultKinds ==
    {"redis_error",  \* a call to Redis raises, the service swallows it
     "expire",       \* the TTL of an entry runs out
     "db_error",     \* the connection to PostgreSQL is lost: the request ends with a 500
     "crash",        \* the process that serves a request dies
     "delete"}       \* a queue is deleted by force, with its jobs

ASSUME SubmissionAssumption ==
    /\ Faults \subseteq FaultKinds
    /\ FaultBudget \in Nat
    /\ NoKey \notin Keys
    /\ NoQueue \notin Queues
    /\ NoJob \notin Requests

VARIABLES
    request,    \* requests: where they are, what they ask for and what they found
    row,        \* jobs: "none", "present" or "deleted" in the table
    redis,      \* idempotency:<key>
    queues,     \* queues that exist
    faultsLeft  \* disturbances still to come

vars == <<request, row, redis, queues, faultsLeft>>

Idle == [pc |-> "idle", key |-> NoKey, queue |-> NoQueue, parent |-> NoJob,
         cached |-> NoJob, job |-> NoJob, status |-> "none"]

Init ==
    /\ request = [r \in Requests |-> Idle]
    /\ row = [r \in Requests |-> "none"]
    /\ redis = [k \in Keys |-> NoJob]
    /\ queues = Queues
    /\ faultsLeft = FaultBudget

Fault(kind) ==
    /\ kind \in Faults
    /\ faultsLeft > 0
    /\ faultsLeft' = faultsLeft - 1

Present == {j \in Requests : row[j] = "present"}
Carries(j, key) == key \in Keys /\ j \in Present /\ request[j].key = key

\* Request r goes on as described by state.
Becomes(r, state) == request' = [request EXCEPT ![r] = state]
Answered(r, status) == [request[r] EXCEPT !.pc = "done", !.status = status]

-----------------------------------------------------------------------------
(* create_job                                                              *)

\* The queue is looked up; without a key the search for a duplicate is left out.
Arrive(r) ==
    /\ request[r].pc = "idle"
    /\ \E key \in Keys \union {NoKey}, queue \in Queues, parent \in Requests \union {NoJob} :
         Becomes(r, [request[r] EXCEPT
             !.key = key, !.queue = queue, !.parent = parent,
             !.status = IF queue \in queues THEN "none" ELSE "404",
             !.pc = IF queue \notin queues THEN "done"
                    ELSE IF key = NoKey THEN "check" ELSE "get"])
    /\ UNCHANGED <<row, redis, queues, faultsLeft>>

GetCached(r) ==
    /\ request[r].pc = "get"
    /\ LET entry == redis[request[r].key] IN
         Becomes(r, [request[r] EXCEPT !.cached = entry,
                                       !.pc = IF entry = NoJob THEN "find" ELSE "cached"])
    /\ UNCHANGED <<row, redis, queues, faultsLeft>>

GetFails(r) ==
    /\ Fault("redis_error")
    /\ request[r].pc = "get"
    /\ Becomes(r, [request[r] EXCEPT !.pc = "find"])
    /\ UNCHANGED <<row, redis, queues>>

\* Mutant: the job id of the cache is trusted.
FindCachedUnchecked(r) ==
    /\ request[r].pc = "cached"
    /\ Becomes(r, [Answered(r, "200") EXCEPT !.job = request[r].cached])
    /\ UNCHANGED <<row, redis, queues, faultsLeft>>

\* The cached job is an answer only if its row is there.
FindCached(r) ==
    /\ request[r].pc = "cached"
    /\ Becomes(r, IF request[r].cached \in Present
                  THEN [Answered(r, "200") EXCEPT !.job = request[r].cached]
                  ELSE [request[r] EXCEPT !.pc = "find"])
    /\ UNCHANGED <<row, redis, queues, faultsLeft>>

FindByKey(r) ==
    /\ request[r].pc = "find"
    /\ \/ \E j \in Requests :
            /\ Carries(j, request[r].key)
            /\ Becomes(r, [request[r] EXCEPT !.pc = "store", !.job = j, !.status = "200"])
       \/ /\ \A j \in Requests : ~Carries(j, request[r].key)
          /\ Becomes(r, [request[r] EXCEPT !.pc = "check"])
    /\ UNCHANGED <<row, redis, queues, faultsLeft>>

ParentThere(r) == request[r].parent \in Present \union {NoJob}

CheckParent(r) ==
    /\ request[r].pc = "check"
    /\ Becomes(r, IF ParentThere(r) THEN [request[r] EXCEPT !.pc = "insert"]
                                    ELSE Answered(r, "400"))
    /\ UNCHANGED <<row, redis, queues, faultsLeft>>

\* Mutant: the key is not written to the table, which has nothing to refuse.
AcceptedWithoutKey(r) == request[r].queue \in queues /\ ParentThere(r)

\* What the unique index and the foreign keys of the jobs table demand.
Accepted(r) ==
    /\ request[r].queue \in queues
    /\ ParentThere(r)
    /\ \A j \in Requests : ~Carries(j, request[r].key)

Insert(r) ==
    /\ request[r].pc = "insert"
    /\ Accepted(r)
    /\ row' = [row EXCEPT ![r] = "present"]
    /\ Becomes(r, [request[r] EXCEPT !.pc = "refresh", !.job = r])
    /\ UNCHANGED <<redis, queues, faultsLeft>>

\* An IntegrityError that nothing catches.
InsertRefused(r) ==
    /\ request[r].pc = "insert"
    /\ ~Accepted(r)
    /\ Becomes(r, Answered(r, "500"))
    /\ UNCHANGED <<row, redis, queues, faultsLeft>>

\* The inserted row is read back, unless it went with its queue.
Refresh(r) ==
    /\ request[r].pc = "refresh"
    /\ Becomes(r, IF r \notin Present THEN Answered(r, "500")
                  ELSE IF request[r].key = NoKey THEN Answered(r, "201")
                  ELSE [request[r] EXCEPT !.pc = "store", !.status = "201"])
    /\ UNCHANGED <<row, redis, queues, faultsLeft>>

\* Mutant: a request stores its own id, whatever it found.
StoreKeyOwn(r) ==
    /\ request[r].pc = "store"
    /\ redis' = [redis EXCEPT ![request[r].key] = IF @ = NoJob THEN r ELSE @]
    /\ Becomes(r, Answered(r, request[r].status))
    /\ UNCHANGED <<row, queues, faultsLeft>>

\* SET NX: an entry that is there stays, also when its job is gone.
StoreKey(r) ==
    /\ request[r].pc = "store"
    /\ redis' = [redis EXCEPT ![request[r].key] = IF @ = NoJob THEN request[r].job ELSE @]
    /\ Becomes(r, Answered(r, request[r].status))
    /\ UNCHANGED <<row, queues, faultsLeft>>

StoreFails(r) ==
    /\ Fault("redis_error")
    /\ request[r].pc = "store"
    /\ Becomes(r, Answered(r, request[r].status))
    /\ UNCHANGED <<row, redis, queues>>

\* A query, the commit or the refresh raises and nothing catches it.  Past the
\* commit, or when only its acknowledgement is lost, the job stays.
DatabaseFails(r) ==
    /\ Fault("db_error")
    /\ request[r].pc \in {"cached", "find", "check", "insert", "refresh"}
    /\ Becomes(r, Answered(r, "500"))
    /\ UNCHANGED <<row, redis, queues>>

-----------------------------------------------------------------------------
(* The environment                                                         *)

\* The process that serves r is gone; the client gets no answer.
Crash(r) ==
    /\ Fault("crash")
    /\ request[r].pc \notin {"idle", "done"}
    /\ Becomes(r, Answered(r, "lost"))
    /\ UNCHANGED <<row, redis, queues>>

Expire(k) ==
    /\ Fault("expire")
    /\ redis[k] # NoJob
    /\ redis' = [redis EXCEPT ![k] = NoJob]
    /\ UNCHANGED <<request, row, queues>>

\* delete_queue with force: the rows of the queue and the queue, in one commit.
DeleteQueue(q) ==
    /\ Fault("delete")
    /\ q \in queues
    /\ queues' = queues \ {q}
    /\ row' = [j \in Requests |->
                 IF j \in Present /\ request[j].queue = q THEN "deleted" ELSE row[j]]
    /\ UNCHANGED <<request, redis>>

-----------------------------------------------------------------------------

Serve(r) ==
    \/ Arrive(r)
    \/ GetCached(r)
    \/ GetFails(r)
    \/ FindCached(r)
    \/ FindByKey(r)
    \/ CheckParent(r)
    \/ Insert(r)
    \/ InsertRefused(r)
    \/ Refresh(r)
    \/ StoreKey(r)
    \/ StoreFails(r)
    \/ DatabaseFails(r)

Next ==
    \/ \E r \in Requests : Serve(r) \/ Crash(r)
    \/ \E k \in Keys : Expire(k)
    \/ \E q \in Queues : DeleteQueue(q)

Spec == Init /\ [][Next]_vars

-----------------------------------------------------------------------------
(* Properties                                                              *)

RequestState ==
    [pc : {"idle", "get", "cached", "find", "check", "insert", "refresh", "store", "done"},
     key : Keys \union {NoKey}, queue : Queues \union {NoQueue},
     parent : Requests \union {NoJob}, cached : Requests \union {NoJob},
     job : Requests \union {NoJob},
     status : {"none", "200", "201", "400", "404", "500", "lost"}]

\* Every variable keeps its type.
TypeOK ==
    /\ request \in [Requests -> RequestState]
    /\ row \in [Requests -> {"none", "present", "deleted"}]
    /\ redis \in [Keys -> Requests \union {NoJob}]
    /\ queues \subseteq Queues
    /\ faultsLeft \in Nat

\* Two submissions with one key are answered with one job, or one of the two jobs
\* has been deleted: whatever Redis has forgotten, kept too long or never been told.
AnswersAgree ==
    \A r, s \in Requests :
        /\ request[r].status \in {"200", "201"} /\ request[r].pc = "done"
        /\ request[s].status \in {"200", "201"} /\ request[s].pc = "done"
        /\ request[r].key = request[s].key /\ request[r].key # NoKey
        /\ request[r].job # request[s].job
        => \E j \in {request[r].job, request[s].job} : row[j] = "deleted"

\* The client of r saw an error, or nothing, though the job of r is in the table.
LeftBehind(r) ==
    request[r].pc = "done" /\ request[r].status \in {"500", "lost"} /\ row[r] = "present"

\* A submission that fails after its commit can be repeated with its key: as long as
\* its job is there, no success with the key makes or names another.
RetriesFindTheJob ==
    \A r, s \in Requests :
        /\ LeftBehind(r) /\ request[r].key # NoKey
        /\ request[s].pc = "done" /\ request[s].status \in {"200", "201"}
        /\ request[s].key = request[r].key
        => request[s].job = r \/ row[request[s].job] = "deleted"

\* The refinement mapping: a submission takes effect at its insert, or when it finds
\* the row of the job it answers with.
Holder == [k \in Keys |->
    IF \E j \in Requests : Carries(j, k) THEN CHOOSE j \in Requests : Carries(j, k)
                                         ELSE NoJob]

Contract == INSTANCE ExactlyOnce WITH
    asked   <- [r \in Requests |-> request[r].key],
    holder  <- Holder,
    outcome <- [r \in Requests |-> request[r].job]

\* Submissions with a key are exactly once, in the sense of ExactlyOnce.
ImplementsExactlyOnce == Contract!Spec

(* The inductive invariant behind them.                                     *)

\* The table holds at most one job for a key.
OneJobPerKey ==
    \A i, j \in Requests, k \in Keys : Carries(i, k) /\ Carries(j, k) => i = j

\* A job id that was cached, or found, is the id of a job with that key.
IdsAreTrue ==
    /\ \A k \in Keys : redis[k] # NoJob =>
          row[redis[k]] # "none" /\ request[redis[k]].key = k
    /\ \A r \in Requests : \A j \in {request[r].cached, request[r].job} \ {NoJob} :
          /\ row[j] # "none"
          /\ request[j].key = request[r].key

\* A request has a row only after its insert, in the queue it named, and is then
\* bound to answer with it.
RowsAreMade ==
    \A r \in Requests :
        /\ row[r] # "none" <=> request[r].job = r
        /\ request[r].pc \in {"idle", "get", "cached", "find", "check", "insert"} =>
              request[r].job = NoJob /\ request[r].status = "none"
        /\ request[r].pc = "refresh" => request[r].job = r /\ request[r].status = "none"
        /\ request[r].pc = "store" =>
              /\ request[r].job # NoJob
              /\ request[r].status \in {"200", "201"}
              /\ request[r].key # NoKey
        /\ request[r].pc \in {"get", "cached", "find"} => request[r].key # NoKey
        /\ request[r].pc = "idle" => request[r] = Idle
        /\ request[r].pc = "cached" => request[r].cached # NoJob
        /\ request[r].pc = "done" /\ request[r].status \in {"200", "201"} =>
              request[r].job # NoJob

\* A job that is in the table has its queue there, though the queue was looked up
\* before the insert and may be deleted in between.
JobsHaveQueues == \A j \in Present : request[j].queue \in queues

SubmissionInv == TypeOK /\ OneJobPerKey /\ IdsAreTrue /\ RowsAreMade /\ JobsHaveQueues
=============================================================================
