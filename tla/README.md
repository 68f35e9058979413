# A TLA+ verification of the Codity job scheduler

Codity is a distributed job scheduler: an HTTP API over PostgreSQL, worker
processes that poll the `jobs` table, a scheduler process for delayed and cron
jobs and a reaper process that recovers the jobs of dead workers. There is no
message broker; all processes meet in the database. That makes every hard
behaviour of the system a matter of which transactions interleave, which values
a session read before its last commit, and which process died between two
commits. Users and administrators reach the API through a single-page
application, which adds a second kind of concurrency: answers that arrive late,
lists read before a write, and tabs that share one stored session. This directory
models those transactions and those pages in TLA+, checks them with TLC and proves
the central guarantees with TLAPS.

## 1. Inventory

| Component | State | Operations | What makes it correct |
|---|---|---|---|
| Worker process (`workers/main_worker.py`, `claim_service`, `heartbeat_service`) | its row in `workers`, `active_futures` | register, claim, dispatch, heartbeat, drain, deregister | a claimed job always reaches a thread; a drain leaves nothing behind |
| Job executor (`executor_service.run_job`) | a session per thread and what it cached; `job_executions` | load, start, complete, fail | a job is in one hand at a time; outcomes are recorded once |
| Retry engine (`retry_service`) | `retry_count`, `scheduled_at` | retry or escalate; delay functions | attempts are counted exactly and bounded |
| Dead letter queue (`dlq_service`) | `dead_letter_entries` | escalate, list, replay | no dead job without an entry or a clone; a replay touches no job that may still run |
| Reaper (`workers/reaper.py`, `reaper_service`) | nothing but its session | find stale workers, read orphans, requeue, mark dead | no stranded job; no live worker robbed |
| Scheduler (`workers/scheduler.py`, `scheduler_service`, `lock_service`) | advisory lock, `has_lock` | elect, promote, spawn cron children | one leader; each occurrence spawned once |
| Worker administration (`api/v1/endpoints/workers.py`) | `workers` | decommission, prune | running jobs survive it |
| Submission (`job_service`, `idempotency_service`) | `jobs`, Redis keys | create with an idempotency key | one job per key |
| Queue management (`queue_service`) | `queues` | create, update, pause, resume, delete | no active job deleted unasked; limits respected |
| Accounts, projects (`auth.py`, `projects.py`, `deps.py`) | organisations, users, projects | register, log in, tenant checks | unique slug and e-mail |
| Web session (`AuthContext`, `client.ts`, `PrivateRoute`, `Login`, `AuthCallback`, `auth.ts`) | `localStorage`, shared by all tabs; `token`, `user`, `isLoading` of a document | verify, sign in, register, OAuth, log out, leave on a 401 | the account shown is the one whose token is sent; no dead session stays; redirects end |
| Web pages (`Dashboard`, `Jobs`, `Queues`, `Workers`, `DLQ`, `Layout`, `JobDetailModal`, `GlobalSearch`, `NotificationsPopover`) | the query cache; page, filter and search of the view | poll, filter, turn pages, refresh, search, write and invalidate | a list is not older than the user's own write; "empty" means empty; lists catch up |
| Job submission form (`Jobs.tsx`, the dialog) | the fields, the hidden cron expression, the pending mutation | edit, choose a preset, submit | one job per click; the expression is what is displayed |
| Queue administration (`Queues.tsx`, `QueueCard`) | dialogs and forms over the row of the last poll | create (in one or two calls), pause, resume, edit, delete | no write from a stale row that nobody asked for; a plain delete takes no active job that it could count |
| Tokens and OAuth (server side), read-only queries, schemas, widgets, deployment, migrations | – | – | not modelled: no state of their own, or pure reads, or declarative |

How the processes interact: only through rows. A worker takes a job by
`UPDATE ... WHERE id IN (SELECT ... FOR UPDATE SKIP LOCKED)`; everything after
that (executor, reaper, scheduler) reads a row through an ORM session and later
writes columns back without a lock and without looking again. Sessions are made
with `expire_on_commit=False` (`core/database.py:31`), so a value read before a
commit is still used after it.

Hard behaviours: the overlap of a drain, a stall or a decommission with the
reaper; crashes between the two transactions of a failure and between the two of
a recovery; lost updates of `retry_count`; foreign keys that turn a concurrent
prune into an error of an unrelated thread.

The front end talks to the API by HTTP only. TanStack Query keeps one entry
for each query key, polls the mounted ones, retries a failed fetch once (`App.tsx:21`), joins a fetch that is already under way unless an invalidation
cancels it, and shows the old data while it fetches. Axios adds the token that is in
`localStorage` when a request is sent, and its interceptor clears `localStorage` when
a 401 is *answered*: another tab may have signed in meanwhile. Hard behaviours:
answers that arrive in another order than they were asked for, dialogs that are
closed, reopened and replaced while their mutation is pending, forms filled again by
a poll, and two administrators with old rows.

`PROJECT.json` lists each hazard at its line.

## 2. Modules

| Module | Models |
|---|---|
| `JobCluster` | the life of submitted jobs on worker processes, executor threads, the reaper, promotion of due jobs, worker administration and the replay of dead letters; all properties |
| `JobContract` | what the scheduler promises to a submitter: the abstract specification of a job's life |
| `JobClusterContract` | the refinement mapping from `JobCluster` to `JobContract` |
| `JobClusterInv` | the inductive invariants, in named parts |
| `JobCluster_proofs` | the theorems about safety while heartbeats are truthful, and their proofs |
| `JobClusterFaults_proofs` | the theorems about what every disturbance leaves, what overlapping executions cost, bounded attempts, stranded jobs and the refinement of `JobContract` |
| `MCJobCluster` | instances of `JobCluster` for TLC |
| `LeaderScheduler` | the scheduler processes: advisory lock, `has_lock`, the sweep that promotes delayed jobs and the sweep that spawns children of cron templates |
| `Timetable` | what the scheduler promises to whoever delays a job or writes a cron template: the abstract specification |
| `LeaderTimetable` | the refinement mapping from `LeaderScheduler` to `Timetable` |
| `LeaderScheduler_proofs` | its theorems and proofs, the refinement among them |
| `MCLeaderScheduler` | instances of `LeaderScheduler`: timetables |
| `Submission` | the submission of jobs with an Idempotency-Key: concurrent requests against Redis and PostgreSQL |
| `ExactlyOnce` | what an Idempotency-Key promises: the abstract specification of a set of submissions |
| `Submission_proofs` | its theorems and proofs, the refinement among them |
| `MCSubmission` | instances of `Submission` for TLC |
| `WebSession` | the tabs of one browser: verification, the 401 interceptor, logins, OAuth, logout |
| `WebSession_proofs` | its theorems and proofs |
| `QueryCache` | one entry of TanStack Query, as the pages use it (external); used by the next and by `WebQueueAdmin` |
| `WebViews` | what the pages read, poll, show and invalidate, and the writes made on their lists |
| `WebViews_proofs` | its theorems and proofs |
| `WebJobForm` | the dialog that submits jobs: its controls, its submissions and their answers |
| `WebJobForm_proofs` | its theorems and proofs |
| `WebQueueAdmin` | administrators at the queues page, composed with what `queue_service` does |
| `WebQueueAdmin_proofs` | its theorems and proofs |
| `MCWebSession`, `MCWebViews`, `MCWebJobForm`, `MCWebQueueAdmin` | instances for TLC |

### State and code

- `job[j]`: `status`, `worker_id` and `retry_count` of a row of `jobs` (`absent` until a
  replay inserts it); `dlq`: the jobs with a row in `dead_letter_entries`; `clones[j]`, a
  history, how many rows replays have inserted for the job.
- `execution[j]`: how many rows of `job_executions` were inserted for the job and
  how many were closed as completed and as failed; `recovered[j]`: the reaper's
  rows in `job_logs`. They are histories that the code really writes, which lets
  properties speak about attempts.
- `row[w]`: `active`, `dead` or absent, and whether `last_heartbeat_at` is within
  the threshold. A process that restarts registers a new row, so identities are
  never reused: `Workers` bounds the number of processes ever started.
- `process[w]`: `new`, `poll` (before the claim of an iteration), `beat` (before
  the heartbeat test), `beating` (between the read and the write of
  `update_heartbeat`), `draining`, `exited`, `crashed`.
- `thread[w][s]`: one executor thread with the values its session cached at
  `LoadJob`: `retry_count`, and the status, because SQLAlchemy omits a column
  from an `UPDATE` when the assigned value equals the loaded one.
- `reaper`: the list found by `find_dead_workers`, the worker in hand, and the
  jobs and counts read by `recover_jobs_for_worker` before it writes.

One action is one transaction. `run_job` is `LoadJob`, `StartRun` (or
`StartRefused`, when the foreign key of `job_executions.worker_id` refuses the
insert), `CompleteRun` or `FailRun`, then `ScheduleRetry` or `MoveToDlq`. The
reaper is `FindDeadWorkers`, `ReadOrphans`, `RecoverOrphans`, `MarkWorkerAsDead`
for each worker found. A heartbeat is `ReadHeartbeat` and `WriteHeartbeat`. A replay
(`RetryDeadJob`) inserts a clone and deletes the entry, and leaves the job `dead`. It
reads the entry without a lock, so once an entry was there a second replay may still
follow the first: it deletes nothing and inserts another clone.
Claim, promotion and prune are one step each: the claim is one statement and one
commit, the promotion's blind write is harmless while one leader runs it (which
`LeaderScheduler` shows), and the prune is one transaction.

In `LeaderScheduler`:

- `lock` is the connection that holds the advisory lock; `sched[s]` is a process:
  `has_lock` as it remembers it, the state of its lock connection, and, between
  the read and the commit of a sweep, the rows it read (`due`; `batch`, `cached`,
  `at`).
- `job[j]` is the `status` and `scheduled_at` of a delayed job, `nextRun[t]` the
  `scheduled_at` of a template, `children[t][x]` how many jobs were spawned for
  its occurrence at time `x`.
- A tick is `Elect` or `StandBy`, then `ReadDueJobs`, `Promote`, `ReadTemplates`
  and one or more `CommitTemplates`: a template that is seen for the first time
  commits in the middle of the loop, together with the children spawned before
  it (`Segments`). `CommitRefused` is the foreign key or the missing row of a
  template that was deleted in between.
- `croniter` is a parameter: `NextRun` is any function to later times.
- `WorkerClaims` and `WorkerEnds` are what workers do to the rows the promotion
  writes.

In `Submission`:

- `request[r]` is one HTTP request: its key, queue and parent job, the job id it
  found in Redis (`cached`), the job it is about to answer with, and its status
  code. A client's retry is another request.
- `row[r]` is the job that request `r` inserted: not there, in the table, or
  deleted. `redis[k]` is the entry `idempotency:<k>`, `queues` the queues that
  exist.
- A request is `Arrive` (the queue is looked up), `GetCached` or `GetFails`,
  `FindCached`, `FindByKey`, `CheckParent`, `Insert` or `InsertRefused`,
  `Refresh`, `StoreKey` or `StoreFails`: one action for each call to Redis or to
  the database, because every other request may come in between. `Accepted` is
  what the unique index and the foreign keys demand at the commit.
- A call to Redis that times out after it took effect is `StoreKey`: the service
  ignores the result. A call to PostgreSQL that fails (`DatabaseFails`) ends the request
  with a 500 wherever it is, after the commit included; a commit whose acknowledgement is
  lost is an `Insert` with a `DatabaseFails` behind it.

In `WebSession`:

- `storage` is `localStorage`; `tab[t]` is the document of a tab: its path, where it
  is going (`leaving`: a navigation that `window.location` began is over later), the
  provider's `token` and `user`, the token `getMe` was sent with, the attempt to sign
  in, and the tokens of the requests of its page that are under way.
- `foreign` is a history: the tabs under whose feet another tab wrote the storage.
- `issued` and `valid` are the tokens the API has given out and still accepts.
- A request is sent, answered, refused or lost in actions of their own, because a
  tab may be left, and the storage written, in between. A document that is replaced
  takes its requests with it.
- `FormRefused` is every answer of the API that the form shows as a text (an address that
  is taken, an account that is not active); `OAuthInvalid` is the one that the callback
  page cannot show: the page goes blank.

In `QueryCache` and `WebViews`:

- an entry is the data shown, the fetch under way (`sent`, or `read` once the API has
  read the database) and its answer; `Restarted` is an invalidation, which cancels
  and sends again, `Begun` a poll, which joins.
- data is the time `at` it was read: every change of the database is one tick, and
  `found[f]` is how many jobs a filter finds. What a list says is all that matters of
  it: how old it is and whether it is empty.
- `write[m]` is a mutation: sent, committed, answered; `due[k]` is the history of what
  the page owes: the time of the last write of the user that was answered while the
  list `k` was on the screen with data.
- `PageOf` gives each page the queries it polls and reads once, `Invalidates` what each
  mutation names, `Offers` which writes a page shows a control for, which depends on
  the rows it has.

In `WebJobForm`:

- `form` has the fields as the submission reads them: a payload is whether it parses,
  a date whether it is past; the cron part has the number, the unit and the hidden
  expression. `ExprOf` is what the number and the unit write, `Description` what the
  summary says, and `Matches` when a cron expression is due in a month of minutes.
- `Repeats` is what "every <value> <unit>" means, in minutes and without any cron field:
  due at the start, then again when the period is over or when the hour, the day or the
  month begins anew. `RunsAsShown` compares the two.
- `pending` is the submission whose outcome the page waits for, `mine` those this
  visit sent. `jobs[r]` counts the jobs that one request made.

In `WebQueueAdmin`:

- `rows` are the queues of the projects; `list[a]` is the query of an administrator,
  `card[a]` the dialogs of the card it shows; `calls[c]` is a mutation with its stage
  at the server (`sent`, `counted` between the count of active jobs and the delete,
  `done`, `refused`, `invalid`), and whether the component that sent it is still
  there (`mine`). A call whose client has given up (`CallLost`) belongs to `nobody`, and
  the API may go on with it. `late`, a history, are the jobs that became active after
  the count of a delete.
- `ServeCount` and `ServeDelete` are the two halves of `delete_queue`; everything may
  come in between, and then every job that is there goes with the queue. `ServeProject`
  and `ServeCreate` are the two calls of a create.
- `RequeueJob` is the blind write of the reaper: a job that is over is active again.

Abstractions: a payload is its outcome (a timeout is a failure: `run_job` leaves
its inner pool only when the payload has ended); priorities, queues, payloads and
delays are left out, so a claim may take any queued jobs and a delayed job may
become due at any moment. Both are wider than the code. Cron templates and
submissions have modules of their own, so `Submitted` is a fixed set of
non-cron jobs that start `queued`, and the rest of `Jobs` are rows for clones. Log texts
and timestamps are left out.

Two simplifications are narrower than the code. Promotion is one step in `JobCluster`:
with two leaders (after a lost lock connection) a blind write of `promote_due_jobs`
could requeue a job that a worker has taken meanwhile, and no run or theorem of the
cluster includes that. In `WebViews` a page has one write of each kind under way, also
after the user has left the page and come back, where the code would let a second one be
sent while the first is still to be answered.

### Disturbances

`Faults` names the kinds the environment may inject and `FaultBudget` how many;
a run states which questions it asks by what it admits.

| Kind | In the code |
|---|---|
| `crash` | a worker process disappears with its threads |
| `reaper_crash` | the reaper dies, or its cycle raises and is swallowed |
| `shutdown` | SIGTERM: the loop ends before its next iteration |
| `decommission`, `prune` | `DELETE /workers/{id}`, `DELETE /workers/dead` |
| `replay` | `POST /dlq/{id}/retry` |
| `db_error` | a statement of a worker loop after the claim's commit, or of a thread, fails |
| `stall` | a live loop misses heartbeats for longer than the threshold |
| `long_drain` | a draining process, which sends no heartbeats, takes longer than the threshold |
| `tick_error`, `delete`, `lost_connection` | (scheduler) a statement of a sweep fails; a template goes with its queue; the connection of the advisory lock breaks |
| `redis_error`, `expire` | (submission) a call to Redis raises; an entry reaches its TTL |
| `db_error` | (submission) the connection to PostgreSQL is lost, before or after the commit |
| `crash`, `delete` | (submission) the process of a request dies; a queue is deleted by force with its jobs |
| (no kinds) | (front end) requests are lost before or after they took effect, tokens expire, queues are deleted, others change the database: actions with a bound of their own |

`stall` and `long_drain` are the two ways a living process looks dead. Without
them the guarantees are strong (and proved); with them several fail, and
`cluster_chaos` checks what is left.

## 3. Runs

The `cluster_` runs use `MCJobCluster`, the `leader_` runs `MCLeaderScheduler`, the
`submission_` run `MCSubmission`, and each `web_` run the module of its name.

Two workers are the least that can contend, two jobs the
least that can be confused, two slots the least for which a batch claim and a
partial drain differ; two attempts give a retry and an escalation; two
disturbances give every pair (a crash while recovering from a crash, a
decommission then a prune). Jobs, workers and slots are interchangeable in every
definition, so `SYMMETRY` is sound for the safety runs; the liveness run does not
use it. The liveness runs check it with one disturbance (`cluster_live`) or two
(`leader_failover`, `leader_split`). A job more than `Submitted` is a row for the clone
of a replay, which takes one disturbance; `cluster_chaos` has two of them, so an entry may
be replayed twice.

| Run | Question |
|---|---|
| `cluster_crash` | Crashes of workers and reaper, shutdowns, prunes, replays: `NoStrandedJob`, `AttemptsBounded`, and the whole behaviour implements `JobContract` |
| `cluster_apart` | All disturbances but the two that falsify heartbeats: `OneThreadPerJob`, `RetryAccounting`, `DeadLetterExact`, and the inductive invariant `SafeInv`, types included |
| `cluster_live` | One crash, SIGTERM, decommission or replay with several busy slots: under fairness `EveryJobEnds`, clones included |
| `cluster_chaos` | Every disturbance there is on one job and, after replays, its clones: `RetryNeverOvercounted`, `FinalIsEarned`, `DeadWorkersStayDead`, and what overlapping executions cost: `OverlapsArePaid`, `StartsArePaid` |
| `leader_failover` | Crashes, shutdowns, failing sweeps and deleted templates with two processes: `OneLeader`, `SpawnedOnce`, the inductive invariant `LeaderInv`, the whole behaviour implements `Timetable`, and under fairness `EverythingServed` |
| `leader_split` | Crashes and lost lock connections, so that two processes may lead: `LockIsServed`, `SpawnsAreDue`, and under fairness still `EverythingServed` |
| `submission_once` | Three requests with the same or no key, every disturbance: `AnswersAgree`, `RetriesFindTheJob`, the inductive invariant `SubmissionInv`, and the whole behaviour implements `ExactlyOnce` |
| `web_session` | Two tabs, two accounts, expiry and lost answers: `AccountIsShown` and its inductive invariant `SessionInv`; under fairness `DeadSessionLeaves` and `PagesSettle` |
| `web_views` | The explorer with its filter, pager, detail dialog and search box: `FreshAfterWrite`, `EmptyIsHonest`, the inductive invariant `ViewsInv`; under fairness `ListsCatchUp` |
| `web_job_form` | Two submissions, every control, lost answers, deleted queues: `OneJobPerClick`, `RunsAsShown` and the invariant `JobFormInv` |
| `web_queue_admin` | Two administrators, two mutations, a job that comes, goes and comes back: `UntouchedFollow`, `PausedStaysPaused`, `DeletedAsCounted` and the invariant `AdminInv` |

For the scheduler, two processes give a leader and a successor, two templates
(one fires at every tick of the clock, one at every second tick) give a commit in
the middle of a sweep and occurrences that are missed, a horizon of 3 gives each
template its first look, an occurrence and the next one, and two disturbances a
failure during a takeover.

For submissions, three requests give a job, its duplicate and a late retry that
meets what the first two left in Redis; one key is enough because requests with
different keys share nothing but the queues; two queues let a duplicate name
another queue than the job and let one of them disappear; two disturbances give
an entry that is lost and one that outlives its job. A request is served in a
bounded number of steps, so a finished instance stops and deadlock is not
checked.

For the front end: two tabs and two accounts are the least with which a token and a
name can be of different users, one of the tokens being there from an earlier visit;
one request at a time of a page is enough because its requests differ in their token
only. Two jobs, page sizes 1 and 2 and a filter that finds one of them give a page
that disappears under a filter or a size; one change by others and one lost answer,
with two clicks, give a write in front of, behind and across a poll. Of the numbers, 7
divides neither an hour nor a day and 90 is beyond every cron field; the presets add 1
and 24 hours, where the builder writes another form of expression. Two administrators with two mutations and four steps
give a save across a pause, a delete across an edit, and a second mutation of a kind
pressed while the first is under way; a queue that is deleted, created anew and then met
by an older delete takes a third mutation, so that part of `DeletedAsCounted` is left to
its proof. `MaxQueues` only makes the set of queue numbers
finite, each of the two mutations can make one more. The front end's instances stop when the clicks
are used up: deadlock is not checked.

One run shows a disagreement between the code and what the repository says of it:

| Run | Shows |
|---|---|
| `cluster_double_run` | the drain sends no heartbeats: reaped while running, the job runs twice at once (`docs/ARCHITECTURE.md:157`) |

More observations follow from the models and have no run of their own. Of the
back end:

- a decommissioned worker that crashes before its drain ends is never looked at by
  the reaper, which asks for status `active` (`reaper_service.py:33`; line 6 promises
  to reclaim the jobs of dead workers): with `decommission` and `crash` both in
  `Faults`, `NoStrandedJob` fails. `cluster_crash` does not decommission, and the theorem
  `NoJobStranded` names the combinations it excludes;
- `has_lock` outlives the connection of the lock (`workers/scheduler.py:44`): with
  `lost_connection`, two leaders spawn one occurrence twice and `SpawnedOnce` fails,
  although `docs/DESIGN_DECISIONS.md:36` guarantees a single evaluation;
- with a `BatchSize` smaller than the number of templates, those that are not due may
  fill the batch and keep a due one out for ever (`scheduler_service.py:79`), and
  `EverythingServed` fails;
- two submissions with one key at the same time: the unique index stops the second,
  nothing catches the error and its client gets a 500 (`job_service.py:92`), where
  `tests/test_jobs.py:46` expects the identical job. It leaves nothing behind, and a
  retry finds the job of the first;
- a connection that is lost at the commit or at the refresh after it
  (`job_service.py:92`, `93`) answers a 500 for a job that is there. With a key a retry is
  answered with that job (`RetriesFindTheJob`); without a key it makes a second one;
- a replay leaves the job `dead` and nothing on the clone says where it came from, so the
  dead letter queue does not hold all dead jobs: what holds is that each has its entry or
  was replayed (`DeadLetterExact`). Two replays of one entry at the same time make two
  clones (`dlq_service.py:91` reads it without a lock);
- an Idempotency-Key is looked up over all queues and tenants (`job_service.py:46`), so a
  submission to another queue may be answered with a job it did not describe;
- the reaper requeues without looking at `max_retries` (`reaper_service.py:60`), so
  a job can wait with `retry_count` at its limit; `AttemptsBounded` states what is
  left: an attempt is paid for by a recovery;
- a job that completes between the reaper's read and its write is requeued and run
  again (`reaper_service.py:59`) when its worker is alive after all; `FinalIsEarned` and
  `OverlapsArePaid` state what is left;
- a worker that is decommissioned and pruned between claiming and starting a job
  leaves it `claimed` with no worker (`StartRefused`), where nothing finds it; the
  runs that check `NoStrandedJob` therefore do not prune a living worker;
- a stand-by scheduler whose own lock connection broke once never asks again
  (`workers/scheduler.py:67` swallows the error without a rollback), so nobody
  takes over when the leader is shut down; hence `leader_split` admits restarts but
  no `shutdown`;
- a job that arrives between the count and the delete of a plain delete is purged
  (`queue_service.py:165`), be it a new one or one that was over and is requeued by the
  reaper's blind write; `DeletedAsCounted` states what is left.

Of the front end:

- the interceptor and `verifyAuth` clear the storage for the answer of an *old* token
  too: a late 401, or a failed sign-in in one tab, ends the session another tab has
  just begun, and a network error at start-up logs the user out. Two tabs may show
  the name of one user over the data of another until the next load; so
  `AccountIsShown` is about a tab whose storage nobody else has written;
- the dead letter page says it is clean, and the explorer that no jobs match, also
  when the first fetch failed; `EmptyIsHonest` speaks of data that is there;
- the projects query is not polled: when it fails, the list of queues stays empty and a
  create makes another project, whose queue the page never shows (it lists the first);
- a replay from the detail dialog closes the dialog that is open when it is answered,
  be it another job's, and does not invalidate the dashboard's list;
- a 422 has a list of objects as its `detail`, which the two create dialogs pass to
  React as text: the page goes blank (`blank` in `WebQueueAdmin`, `page` in
  `WebJobForm`), with the dialog of a new queue also when it is opened again by "Create
  Default Queue", which keeps the error. The callback page of OAuth does the same
  (`OAuthInvalid`); `Login.tsx` handles the case;
- the answer of an earlier submission closes a dialog that was reopened meanwhile;
  Cancel does not abort;
- a submission whose answer is lost is shown as failed; a user who tries again makes
  a second job, because no Idempotency-Key is sent. `OneJobPerClick` says that the
  page never does this by itself;
- "every 7 minutes" begins anew with each hour (the last two runs of an hour are 4
  minutes apart), and "every 90 minutes" is due every hour, if croniter accepts it at all;
  `RunsAsShown` says exactly this much of the fields and the summary: the period, or the
  end of the hour, day or month if that comes first;
- what is typed in the edit dialog of a queue is lost when a poll brings a changed row,
  even if only the number of its jobs changed; a save sends every field, so it undoes
  a change of another administrator made since the last poll; failures of a save or a
  pause are not shown.

### Fairness

`FairSpec` adds weak fairness of each worker's loop, of each executor thread, of
the reaper and of promotion: these are loops that sleep and go round, threads
that the operating system runs, and payloads that are assumed to end. The
heartbeat is due every few seconds whatever else the loop does, so the read of
the heartbeat is strongly fair (a loop may not choose "not due" for ever).
The heartbeat of a crashed process eventually expires. Disturbances are never
fair. `EveryJobEnds` needs one surviving worker: `cluster_live` has two workers
and a budget of one.

In `LeaderScheduler`, `Start` (the container is restarted), each process's loop
and the clock are weakly fair; `EverythingServed` excuses a system whose
processes were all shut down.

In `WebSession` the requests of a document are answered or fail and its navigations
end (axios has no timeout, but a connection does end); the user, the expiry of tokens
and the provider are not fair. In `WebViews` the debounce of the search box and, for
each list, its interval and its requests are weakly fair: intervals fire again
whatever the last fetch did. Clicks, writes, changes and failures are not.

## 4. Proofs

`JobCluster_proofs` proves, for every set of jobs, workers and slots, every
`max_retries` and every budget, from `ClusterAssumption` alone:

- `TypeCorrect`: `Spec => []TypeOK`, under all disturbances;
- `SafeInvHolds`: `Spec => []SafeInv` when neither `stall` nor `long_drain` is in
  `Faults`, and from it `OneThread`, `RetriesAccounted`, `DeadLettersExact`. Replays are
  among the disturbances, any number of them.

None of the three properties is inductive. That a claim never gives out a job a
thread still has rests on `BusyHolds` (the job of a thread is claimed or running,
so not claimable). That survives the reaper because of `ReaperApart` (what it is
about to requeue is in no thread), which rests on `StaleIsCrashed` (only crashed
processes are stale, and the reaper's list holds no others) and `BusyIsAlive` (a
crashed process has no threads). This is where the two excluded disturbances
enter. That no increment is lost rests on `CachesFresh`: the blind writes are
correct because, while a thread or the reaper holds a job, no one else changes
its row. `SafeInv` is the conjunction; the proof has one lemma per group of
actions (loop, executor, services, environment) and one step per action.

TLC checks `SafeInv` in `cluster_apart`, so the invariant was known to hold on a
small instance before it was proved.

`JobClusterFaults_proofs` proves, from the same assumption, the rest of what the
cluster's runs check:

- under every disturbance, `NeverOvercounted`, `FinalsAreEarned`, `DeadStayDead`,
  `OverlapsPaid` and `StartsPaidFor`;
- `ClaimsOwned` (a claimed row names a worker) when `prune` is not in `Faults`;
- `StartsBounded` when neither `stall` nor `long_drain` is in `Faults`;
- `NoJobStranded` when in addition `db_error` is not, and `decommission` does not come
  together with `crash` or `prune` (`NothingDropped`): a failed statement, and the death
  or the deletion of a worker that is already marked dead, are the ways in which a job
  is let go of and nobody else knows;
- `ClusterImplementsContract`, under the assumption of `StartsBounded`: a claim is
  `Take` for each job of the batch, `FailRun` is `Fail`, `ScheduleRetry` is `GiveBack`,
  a recovery is `Lose` for each orphan, `CompleteRun` is `Finish` and `MoveToDlq` is
  `GiveUp`; a replay is the submission of another job; everything else, starts and
  promotions included, stutters.

Under every disturbance the caches are stale, and what is inductive is an inequality:
`CachesCounted` says that a cached `retry_count` is never more than what has been
counted by now, so a blind write may lose increments and never invents one
(`ChaosInv`). `DeadStayDead` needs only that a process without a row has never had one
(`NewIsAbsent`).

`OverlapsArePaid` is what remains of mutual exclusion when live workers are robbed: the
hands, the completed executions and the dead letter of a job exceed one by no more than
the reaper recovered it. A bound on the hands alone is not inductive, because a claim makes a
hand out of a queued row; `PlacesPaid` therefore counts every place a job can be
(queued or scheduled, a thread, an outcome), so a claim, a retry or a completion moves
the job from one place to another and only `RecoverOrphans` adds one. `StartsPaid` does
the same for starts: a start uses up a place from which the job can be started (it waits,
or a thread holds it that has not started it or has just failed it, `Starting`), and a
failed execution or a recovery gives one back. The proof (`PaidInv`) needs no assumption on `Faults` and nothing about
caches: it is a count over the cardinality of a set of threads that gains or loses one
element in a step. `StrandInv` allows a dead row for a living worker when workers are decommissioned,
and `CrashKnown` says that then no process crashes.

`AttemptsBounded` counts starts, and a start is not a failure yet:
`StartsCounted` says that all starts but one have ended, `StartLeft` that a job that
waits has one left, and `PcIsStatus` ties both to where a thread is (`AttemptInv`).
`NoStrandedJob` is about jobs in nobody's hands, so `StrandInv` follows a job from the
thread to the reaper: `BusyOwned` and `LiveIsActive` put a job on an active row when its
worker crashes, `FoundIsActive` and `OrphansKnown` say that the reaper marks the worker
only when it has taken all of them. All of these were checked by TLC before they were
proved.

`LeaderScheduler_proofs` proves, for every set of processes, jobs and templates,
every timetable and horizon, from `SchedulerAssumption`:

- `SchedulerTypeCorrect`: `Spec => []TypeOK`, under all disturbances;
- `LockIsServedHolds`: `Spec => []LockIsServed`, and `SpawnsAreDueHolds`:
  `Spec => []SpawnsAreDue`, under all disturbances;
- `LeaderInvHolds`: `Spec => []LeaderInv` when `lost_connection` is not in
  `Faults`, and from it `OneLeaderHolds`, `ChildrenSpawnedOnce` and
  `PromotesOnlyDueHolds`;
- `SchedulersImplementTimetable`: `Spec => ImplementsTimetable` under the same assumption.

`SpawnedOnce` is not inductive: a commit writes from the values its sweep read.
`ReadsFresh` says they still hold, which no other process disturbs because of
`LockIsOwned`: a process in the middle of a sweep remembers the lock, and what it
remembers is true. A lost connection breaks `LockIsOwned`, and `SpawnedOnce` goes with
it; what is left then is `LockIsServed` and `SpawnsAreDue`: two leaders may spawn an
occurrence twice, but a sweep compares with a time that has passed, so never early.

`Timetable` has no processes and no sweeps: a template is entered, fires the occurrence
it is at and moves on past what was missed; jobs are queued when their time has come, and
workers do the rest. In the refinement a `CommitTemplates` is one `ServeTemplates`: each
template of the segment enters, fires or rests, and `ReadsFresh` is what makes the
occurrence that was *read* the one the timetable is *at*, and the time of the sweep a moment
between that occurrence and now. `Promote` is `QueueJobs`, again because the rows that were read
are still due; `WorkerClaims` and `WorkerEnds` are `WorkJob`, `DeleteTemplate` is
`Withdraw`. Elections, reads, errors, crashes and shutdowns stutter. The refinement says
more than `SpawnedOnce` and `PromotesOnlyDue`: also that a template never moves backwards or without
firing, and that a withdrawn one stays as it was.

`Submission_proofs` proves, for every set of requests, keys and queues, every
budget and *all* disturbances, from `SubmissionAssumption`:

- `SubmissionInvHolds`, and from it `AnswersAgreeHolds` and
  `RetriesFindTheJobHolds`;
- `SubmissionsExactlyOnce`: `Spec => Contract!Spec`, the protocol implements
  `ExactlyOnce`. A submission takes effect at its `Insert`, or where it finds the
  row it answers with (`FindCached`, `FindByKey`); an expiry, an error of Redis or of
  the database and a crash are stuttering steps; a deleted queue is `Delete`.

`AnswersAgree` is not inductive. It needs `OneJobPerKey`, which the unique index
gives, and `IdsAreTrue`: an id in Redis or in a request is that of a job that was
once inserted with this very key. With that, an entry that is stale can only be
one whose job was deleted, and `FindCached` looks at the row before it answers. The same
two facts prove `RetriesFindTheJob`: a job that an error left behind carries its key, so
no other job can, and every success names one that did.
The refinement needs the same facts to know that `Holder`, a `CHOOSE`, is the job
that was found.

`WebSession_proofs` proves, for every number of tabs, users and tokens, from
`SessionAssumption`, `SessionInvHolds` and `AccountIsShownHolds`. What a tab shows is
what `getMe` answered, perhaps long ago, and what it sends is what is stored now: that
they agree needs `OwnTab` in every phase of a document, the verification included,
and `StoredTokenIsIssued` for the answers that come from the API. The history
`foreign` marks where it stops: a tab whose storage another tab has written.

`WebJobForm_proofs` proves, for every set of queues, requests and numbers,
`JobFormInvHolds` (the page waits for the one submission of its own that is under
way), `RunsAsShownHolds` and `OneJobPerClickHolds`
(from `MadeIsCounted`: only a request that reached a queue has a job, and each
request was one click). The controls keep `Built`: the expression is what number and
unit write, or that of the preset of 24 hours. That such an expression is due when they
say is arithmetic (`MinutesRepeat`, `HoursRepeat`, `DaysRepeat`: between a multiple of a
step and the next there is none, and the step is cut by the end of the cycle), for every
step, within the field or beyond.

`WebViews_proofs` proves, for every set of filters, page sizes and writes, from
`ViewsAssumption` and `FoundAssumption` (the filters find at most the jobs there are),
`ViewsInSync`, and from it `WritesAreSeen` and `EmptyMeansNone`. That a list at rest is
not older than a write is not inductive: the list may be at rest because a fetch ended
that was sent before the write. `DebtsAreServed` says what the fetches under way will
bring, and the one step that creates a debt is the one that restarts the fetches of the
same keys. That an empty page is empty rests on `PagesExist`: a page that is asked for
exists as long as no job has left a filter, since every change of a filter or of a size
starts from the first page.

`WebQueueAdmin_proofs` proves, for every number of administrators, mutations and
projects, from `AdminsAssumption`, `AdminInvHolds`, `UntouchedFollows`, `PausedStays`
and `DeletesAreCounted`, from one invariant: types, what relates cards to the calls
they wait for (`PageInv`), and what the server's half-served calls rely on
(`ServerInv`). `UntouchedFollow` is inductive with `DialogsHaveCards`, because each
arrival fills the form of a changed row again. The delete needs `CountedNone`: whatever
is active while a plain delete is between its two halves became so after its count.

What is only model-checked is the liveness (`EveryJobEnds`, `EverythingServed`,
`DeadSessionLeaves`, `PagesSettle`, `ListsCatchUp`): liveness under fairness is out of
reach of the installed provers. Every invariant and every action property that a
passing run checks, and all three refinements, are theorems too.

## 5. What is left

In the order of what it would add:

1. The row locks behind `Claim` (snapshot, skip, lock, re-check, update, commit),
   shown to implement an atomic claim. They are PostgreSQL's, so the module would be
   external for the most part.
2. Queues inside `JobCluster`: what a pause and a concurrency limit do to the claims of
   queue-bound workers. The limit holds per worker process only (`main_worker.py:128`).
3. The retry delays against a reference definition.

## 6. Not modelled

Of the back end: tokens, OAuth and password hashing (their outcomes are steps of
`WebSession`); read-only queries, metrics and health checks (they change nothing);
schemas and settings (validation, whose admitted values are the constants' domains);
deployment files and migrations (declarative). `depends_on_job_id` is stored and read
by no claim, so there is no guard to model.

Of the front end: `SearchDialog.tsx` (imported nowhere), `MetricsChart.tsx` and
`WorkerCard.tsx` (they draw what they are given; much of the dashboard's chart is
constant), view modes, pills and the filter of workers, the snapshot dialog of the
dead letters, the theme and all layout: no request and no list depends on them.
