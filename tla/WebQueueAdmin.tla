---------------------------- MODULE WebQueueAdmin ----------------------------
(***************************************************************************)
(* Administrators who manage queues from the queues page at the same time. *)
(*                                                                         *)
(*   frontend/src/pages/Queues.tsx           the list and the create dialog*)
(*   frontend/src/components/QueueCard.tsx   pause, edit and delete        *)
(*   app/services/queue_service.py           what the API does             *)
(*                                                                         *)
(* The page shows the queues of the first project only; a project has at   *)
(* most one queue here (there is one name, and names are unique).  Each    *)
(* administrator sees the row of the last poll.  A click sends a call; the *)
(* call is served and answered later, in any order.  Administrators stay   *)
(* on the page; one whose page has failed to render does nothing more.     *)
(***************************************************************************)
EXTENDS Integers, FiniteSets, QueryCache

CONSTANTS
    Admins,      \* browsers of administrators of one organization
    Jobs,        \* jobs that may be submitted to the queue of the first project
    Calls,       \* mutations that may be sent: bounds them
    Fields,      \* fields of the edit form: numbers, except "name"
    Values,      \* what may be typed
    Empty,       \* an empty field
    MaxProjects, \* bound on the projects
    MaxQueues,   \* bound on the queues ever created
    ClickBudget  \* bound on the steps of the administrators

ASSUME AdminsAssumption ==
    /\ Admins # {}
    /\ IsFiniteSet(Jobs)
    /\ Values # {}
    /\ MaxProjects \in Nat \ {0}
    /\ MaxQueues \in Nat \ {0}
    /\ ClickBudget \in Nat

Projects == 1..MaxProjects
Default == CHOOSE v \in Values : TRUE
FirstConfig == [f \in Fields |-> Default]

VARIABLES
    projects, \* how many projects there are; the oldest is number 1
    rows,     \* server: the queue of each project
    made,     \* server: queues created so far, for their ids
    jobs,     \* server: the jobs of the first project's queue
    home,     \* what the projects query told an administrator
    asking,   \* the projects query is under way
    list,     \* the queues query of an administrator
    card,     \* the dialogs of the queue's card
    create,   \* the dialog of a new queue
    calls,    \* every mutation sent
    blank,    \* administrators whose page has failed to render
    clicks    \* steps of the administrators so far

server == <<projects, rows, made, jobs>>
client == <<home, asking, list, card, create, blank>>
vars == <<server, client, calls, clicks>>

Config == [Fields -> Values \union {Empty}]
Ids == 1..MaxQueues
Row == [id : Ids, config : Config, paused : BOOLEAN]
Shown == [id : Ids, config : Config, paused : BOOLEAN, count : 0..Cardinality(Jobs)]

FreshCard ==
    [editOpen |-> FALSE, form |-> FirstConfig, touched |-> {}, \* history: edited since the last reset
     deleteOpen |-> FALSE, deleteError |-> FALSE]

FreshCreate == [open |-> FALSE, error |-> "text", named |-> FALSE, fine |-> TRUE]

Unsent ==
    [kind |-> "off", by |-> "nobody", queue |-> 0, body |-> FirstConfig,
     stage |-> "over", into |-> 0, fine |-> TRUE, mine |-> FALSE,
     late |-> {}] \* history: the jobs that became active after the count

Init ==
    /\ projects \in {0, 1}
    /\ \E there \in BOOLEAN :
          /\ there => projects = 1
          /\ rows = [p \in Projects |-> IF there /\ p = 1
                        THEN Some([id |-> 1, config |-> FirstConfig, paused |-> FALSE]) ELSE None]
    /\ made = 1
    /\ jobs = [j \in Jobs |-> "new"]
    /\ home = [a \in Admins |-> "unknown"] /\ asking = [a \in Admins |-> TRUE]
    /\ list = [a \in Admins |-> Blank]
    /\ card = [a \in Admins |-> FreshCard] /\ create = [a \in Admins |-> FreshCreate]
    /\ calls = [c \in Calls |-> Unsent]
    /\ blank = {}
    /\ clicks = 0

-----------------------------------------------------------------------------
(* The lists.                                                              *)

\* count_active_jobs.
Active == {j \in Jobs : jobs[j] = "active"}

\* The answer of get_queues_by_project for the first project: a queue or nothing.
Listing ==
    IF rows[1] = None THEN None
    ELSE Some([id |-> Value(rows[1]).id, config |-> Value(rows[1]).config,
               paused |-> Value(rows[1]).paused, count |-> Cardinality(Active)])

\* The card that is on the page.
HasCard(a) == list[a].data # None /\ Value(list[a].data) # None
Queue(a) == Value(Value(list[a].data))

ProjectsArrive(a) ==
    /\ asking[a] /\ a \notin blank
    /\ asking' = [asking EXCEPT ![a] = FALSE]
    /\ home' = [home EXCEPT ![a] = IF projects = 0 THEN "none" ELSE "first"]
    /\ UNCHANGED <<server, list, card, create, calls, blank, clicks>>

\* The projects query is not polled: after a failure it is not sent again.
ProjectsFail(a) ==
    /\ asking[a]
    /\ asking' = [asking EXCEPT ![a] = FALSE]
    /\ UNCHANGED <<server, home, list, card, create, calls, blank, clicks>>

\* The interval of the queues query, or its refresh button.  Nothing depends on the
\* time between sending and reading, and an answer that equals the data (structural
\* sharing keeps the old row) changes nothing: only news is fetched.
Poll(a) ==
    /\ home[a] = "first" /\ a \notin blank
    /\ list[a].fetch = "off" /\ list[a].data # Some(Listing)
    /\ list' = [list EXCEPT ![a] = Answered(Begun(@), Listing)]
    /\ UNCHANGED <<server, home, asking, card, create, calls, blank, clicks>>

\* The API reads for a fetch that an invalidation sent.
Read(a) ==
    /\ list[a].fetch = "sent"
    /\ list' = [list EXCEPT ![a] = Answered(@, Listing)]
    /\ UNCHANGED <<server, home, asking, card, create, calls, blank, clicks>>

\* Mutant: the effect that fills the form runs only when the dialog opens.
RefilledOnce(c, old, new) == c

\* The effect of the card: while the dialog is open, another row than before fills
\* the form again, and what was typed is lost.
Refilled(c, old, new) ==
    IF c.editOpen /\ new # old
    THEN [c EXCEPT !.form = new.config, !.touched = {}] ELSE c

\* The answer replaces the list; the card of another queue is a new one, and the
\* calls of the old one go on without it.
Arrive(a) ==
    /\ list[a].fetch = "read" /\ a \notin blank
    /\ list' = [list EXCEPT ![a] = Arrived(@)]
    /\ LET new == Value(list[a].answer)
           stays == HasCard(a) /\ new # None /\ Value(new).id = Queue(a).id
       IN  /\ card' = [card EXCEPT ![a] =
                          IF stays THEN Refilled(@, Queue(a), Value(new)) ELSE FreshCard]
           /\ calls' = [c \in Calls |->
                          IF stays \/ calls[c].by # a \/ calls[c].kind = "create" THEN calls[c]
                          ELSE [calls[c] EXCEPT !.mine = FALSE]]
    /\ UNCHANGED <<server, home, asking, create, blank, clicks>>

FetchFails(a) ==
    /\ list[a].fetch # "off"
    /\ list' = [list EXCEPT ![a] = Failed(@)]
    /\ UNCHANGED <<server, home, asking, card, create, calls, blank, clicks>>

-----------------------------------------------------------------------------
(* Clicks.                                                                 *)

Click(a) == a \notin blank /\ clicks < ClickBudget /\ clicks' = clicks + 1

\* Mutant: the buttons are not disabled.
PendingNever(a, kinds) == FALSE

\* A mutation is pending in the component that would send it.
Pending(a, kinds) ==
    \E c \in Calls : calls[c].by = a /\ calls[c].mine /\ calls[c].kind \in kinds

\* There is a page that waits for the answer.
Heard(c) == calls[c].by \in Admins \ blank

Sends(a, kind, call) ==
    \E c \in Calls :
        /\ calls[c].kind = "off"
        /\ calls' = [calls EXCEPT ![c] = [call EXCEPT !.kind = kind, !.by = a, !.mine = TRUE]]

CardCall(a, stage) == [Unsent EXCEPT !.queue = Queue(a).id, !.stage = stage]

\* The pause button does the opposite of what the card shows.
TogglePause(a) ==
    /\ HasCard(a) /\ ~Pending(a, {"pause", "resume"})
    /\ Click(a)
    /\ Sends(a, IF Queue(a).paused THEN "resume" ELSE "pause", CardCall(a, "sent"))
    /\ UNCHANGED <<server, client>>

OpenEdit(a) ==
    /\ HasCard(a) /\ ~card[a].editOpen
    /\ Click(a)
    /\ card' = [card EXCEPT ![a] =
                  [@ EXCEPT !.editOpen = TRUE, !.form = Queue(a).config, !.touched = {}]]
    /\ UNCHANGED <<server, home, asking, list, create, calls, blank>>

\* "Cancel"; a save under way is not cancelled.
CloseEdit(a) ==
    /\ card[a].editOpen
    /\ Click(a)
    /\ card' = [card EXCEPT ![a].editOpen = FALSE]
    /\ UNCHANGED <<server, home, asking, list, create, calls, blank>>

Edited(c, f, v) == [c EXCEPT !.form[f] = v, !.touched = @ \union {f}]

EditField(a) ==
    /\ card[a].editOpen
    /\ Click(a)
    /\ \E f \in Fields : \E v \in (Values \union {Empty}) \ {card[a].form[f]} :
          card' = [card EXCEPT ![a] = Edited(card[a], f, v)]
    /\ UNCHANGED <<server, home, asking, list, create, calls, blank>>

\* Every field is sent; an empty number becomes its default.
Body(form) ==
    [f \in Fields |-> IF f # "name" /\ form[f] = Empty THEN Default ELSE form[f]]

Save(a) ==
    /\ card[a].editOpen /\ ~Pending(a, {"save"})
    /\ Click(a)
    /\ Sends(a, "save", [CardCall(a, "sent") EXCEPT !.body = Body(card[a].form)])
    /\ UNCHANGED <<server, client>>

OpenDelete(a) ==
    /\ HasCard(a) /\ ~card[a].deleteOpen
    /\ Click(a)
    /\ card' = [card EXCEPT ![a].deleteOpen = TRUE, ![a].deleteError = FALSE]
    /\ UNCHANGED <<server, home, asking, list, create, calls, blank>>

CloseDelete(a) ==
    /\ card[a].deleteOpen
    /\ Click(a)
    /\ card' = [card EXCEPT ![a].deleteOpen = FALSE]
    /\ UNCHANGED <<server, home, asking, list, create, calls, blank>>

\* "Delete Queue" or "Force Delete (Purge)".
Delete(a) ==
    /\ card[a].deleteOpen /\ ~Pending(a, {"delete", "force"})
    /\ Click(a)
    /\ \E kind \in {"delete", "force"} : Sends(a, kind, CardCall(a, "sent"))
    /\ UNCHANGED <<server, client>>

\* "New Queue" clears the error: like a text, nothing is something the page can render.
OpenCreate(a) ==
    /\ ~create[a].open
    /\ Click(a)
    /\ create' = [create EXCEPT ![a].open = TRUE, ![a].error = "text"]
    /\ UNCHANGED <<server, home, asking, list, card, calls, blank>>

\* "Create Default Queue" of an empty list shows the error of the last time again.
OpenDefault(a) ==
    /\ ~create[a].open /\ ~HasCard(a)
    /\ list[a].data = None => list[a].fetch = "off"
    /\ Click(a)
    /\ create' = [create EXCEPT ![a].open = TRUE]
    /\ blank' = IF create[a].error = "list" THEN blank \union {a} ELSE blank
    /\ UNCHANGED <<server, home, asking, list, card, calls>>

CloseCreate(a) ==
    /\ create[a].open
    /\ Click(a)
    /\ create' = [create EXCEPT ![a].open = FALSE]
    /\ UNCHANGED <<server, home, asking, list, card, calls, blank>>

\* The form of a new queue: its name, and whether its numbers are in range.
FillCreate(a) ==
    /\ create[a].open
    /\ Click(a)
    /\ \/ create' = [create EXCEPT ![a].named = ~@]
       \/ create' = [create EXCEPT ![a].fine = ~@]
    /\ UNCHANGED <<server, home, asking, list, card, calls, blank>>

\* Without a known project one is created first.
FirstStep(a) ==
    IF home[a] = "first" THEN [stage |-> "sent", into |-> 1] ELSE [stage |-> "project", into |-> 0]

Create(a) ==
    /\ create[a].open /\ create[a].named /\ ~Pending(a, {"create"})
    /\ Click(a)
    /\ Sends(a, "create", [Unsent EXCEPT !.stage = FirstStep(a).stage, !.into = FirstStep(a).into,
                                         !.fine = create[a].fine])
    /\ UNCHANGED <<server, client>>

-----------------------------------------------------------------------------
(* The API serves a call.                                                  *)

There(id) == rows[1] # None /\ Value(rows[1]).id = id

Served(c, stage) == calls' = [calls EXCEPT ![c].stage = stage]

\* A queue that is gone: 404.
ServeGone(c) ==
    /\ calls[c].stage = "sent" /\ calls[c].kind # "create"
    /\ ~There(calls[c].queue)
    /\ Served(c, "refused")
    /\ UNCHANGED <<server, client, clicks>>

\* pause_queue, resume_queue.
ServePause(c) ==
    /\ calls[c].stage = "sent" /\ calls[c].kind \in {"pause", "resume"}
    /\ There(calls[c].queue)
    /\ rows' = [rows EXCEPT ![1] = Some([Value(@) EXCEPT !.paused = calls[c].kind = "pause"])]
    /\ Served(c, "done")
    /\ UNCHANGED <<projects, made, jobs, client, clicks>>

\* Mutant: the form also sends whether the queue is paused, as the card shows it.
SavedAll(row, c) ==
    [row EXCEPT !.config = calls[c].body,
                !.paused = Heard(c) /\ HasCard(calls[c].by) /\ Queue(calls[c].by).paused]

\* update_queue sets what the body names: never is_paused.
Saved(row, c) == [row EXCEPT !.config = calls[c].body]

ServeSave(c) ==
    /\ calls[c].stage = "sent" /\ calls[c].kind = "save"
    /\ There(calls[c].queue)
    /\ IF "name" \in Fields /\ calls[c].body["name"] = Empty
       THEN Served(c, "refused") /\ UNCHANGED rows
       ELSE /\ rows' = [rows EXCEPT ![1] = Some(Saved(Value(@), c))]
            /\ Served(c, "done")
    /\ UNCHANGED <<projects, made, jobs, client, clicks>>

\* Mutant: nothing is counted.
MayDeleteAlways(c) == TRUE

\* delete_queue: an active job refuses a plain delete.
MayDelete(c) == Active = {} \/ calls[c].kind = "force"

ServeCount(c) ==
    /\ calls[c].stage = "sent" /\ calls[c].kind \in {"delete", "force"}
    /\ There(calls[c].queue)
    /\ Served(c, IF MayDelete(c) THEN "counted" ELSE "refused")
    /\ UNCHANGED <<server, client, clicks>>

\* ... and after the count every job that is there by then goes with the queue.
ServeDelete(c) ==
    /\ calls[c].stage = "counted"
    /\ IF There(calls[c].queue)
       THEN /\ rows' = [rows EXCEPT ![1] = None]
            /\ jobs' = [j \in Jobs |-> IF jobs[j] = "new" THEN "new" ELSE "purged"]
       ELSE UNCHANGED <<rows, jobs>>
    /\ Served(c, "done")
    /\ UNCHANGED <<projects, made, client, clicks>>

\* createMutation, first step.
ServeProject(c) ==
    /\ calls[c].stage = "project" /\ projects < MaxProjects
    /\ projects' = projects + 1
    /\ calls' = [calls EXCEPT ![c].stage = "ready", ![c].into = projects + 1]
    /\ UNCHANGED <<rows, made, jobs, client, clicks>>

\* create_queue: the name may be taken (409), the numbers out of range (422).
ServeCreate(c) ==
    /\ calls[c].stage = "sent" /\ calls[c].kind = "create"
    /\ LET p == calls[c].into
       IN  IF ~calls[c].fine THEN Served(c, "invalid") /\ UNCHANGED <<rows, made>>
           ELSE IF rows[p] # None THEN Served(c, "refused") /\ UNCHANGED <<rows, made>>
           ELSE /\ made < MaxQueues
                /\ made' = made + 1
                /\ rows' = [rows EXCEPT ![p] =
                              Some([id |-> made + 1, config |-> FirstConfig, paused |-> FALSE])]
                /\ Served(c, "done")
    /\ UNCHANGED <<projects, jobs, client, clicks>>

-----------------------------------------------------------------------------
(* The page takes the answer.                                              *)

Over(c) == calls' = [calls EXCEPT ![c] = [Unsent EXCEPT !.kind = "over"]]

\* invalidateQueries(['queues']).
Invalidated(a) == IF home[a] = "first" THEN [list EXCEPT ![a] = Restarted(@)] ELSE list

\* onSuccess of the four mutations; the dialog closes if its card is still there.
Succeed(c) ==
    LET a == calls[c].by IN
    /\ calls[c].stage = "done" /\ Heard(c)
    /\ list' = Invalidated(a)
    /\ IF calls[c].kind = "save" /\ calls[c].mine
       THEN card' = [card EXCEPT ![a].editOpen = FALSE]
       ELSE IF calls[c].kind \in {"delete", "force"} /\ calls[c].mine
       THEN card' = [card EXCEPT ![a].deleteOpen = FALSE, ![a].deleteError = FALSE]
       ELSE UNCHANGED card
    /\ create' = IF calls[c].kind = "create" THEN [create EXCEPT ![a] = FreshCreate] ELSE create
    /\ Over(c)
    /\ UNCHANGED <<server, home, asking, blank, clicks>>

\* Only deleting and creating say that they failed.
Fails(c, error) ==
    LET a == calls[c].by IN
    /\ card' = IF calls[c].kind \in {"delete", "force"} /\ calls[c].mine
               THEN [card EXCEPT ![a].deleteError = TRUE] ELSE card
    /\ create' = IF calls[c].kind = "create" THEN [create EXCEPT ![a].error = error] ELSE create

Refused(c) ==
    /\ calls[c].stage = "refused" /\ Heard(c)
    /\ Fails(c, "text") /\ Over(c)
    /\ UNCHANGED <<server, home, asking, list, blank, clicks>>

\* The detail of a 422 is a list of objects, which the open dialog cannot render.
Invalid(c) ==
    /\ calls[c].stage = "invalid" /\ Heard(c)
    /\ Fails(c, "list") /\ Over(c)
    /\ blank' = IF create[calls[c].by].open THEN blank \union {calls[c].by} ELSE blank
    /\ UNCHANGED <<server, home, asking, list, clicks>>

\* Nobody waits for the call any longer, but the API may still serve what was sent.
Abandoned(c) == calls' = [calls EXCEPT ![c] = [calls[c] EXCEPT !.by = "nobody", !.mine = FALSE]]

\* The call or its answer is lost; a project that was created first stays.
CallLost(c) ==
    /\ calls[c].stage # "over" /\ Heard(c)
    /\ Fails(c, "text")
    /\ IF calls[c].stage \in {"project", "sent", "counted"} THEN Abandoned(c) ELSE Over(c)
    /\ UNCHANGED <<server, home, asking, list, blank, clicks>>

\* createMutation, second step: the projects are asked for again, the queue is sent.
ProjectCreated(c) ==
    /\ calls[c].stage = "ready" /\ Heard(c)
    /\ asking' = [asking EXCEPT ![calls[c].by] = TRUE]
    /\ Served(c, "sent")
    /\ UNCHANGED <<server, home, list, card, create, blank, clicks>>

-----------------------------------------------------------------------------
(* Jobs.                                                                   *)

\* The job is there for the deletes that have counted already.
Activate(j) ==
    /\ jobs' = [jobs EXCEPT ![j] = "active"]
    /\ calls' = [c \in Calls |->
                   IF calls[c].stage = "counted" THEN [calls[c] EXCEPT !.late = @ \union {j}]
                   ELSE calls[c]]

SubmitJob(j) ==
    /\ rows[1] # None /\ jobs[j] = "new"
    /\ Activate(j)
    /\ UNCHANGED <<projects, rows, made, client, clicks>>

\* The reaper read the job while it ran and writes after it has finished
\* (recover_jobs_for_worker): a finished job is queued once more.
RequeueJob(j) ==
    /\ jobs[j] = "over"
    /\ Activate(j)
    /\ UNCHANGED <<projects, rows, made, client, clicks>>

FinishJob(j) ==
    /\ jobs[j] = "active"
    /\ jobs' = [jobs EXCEPT ![j] = "over"]
    /\ UNCHANGED <<projects, rows, made, client, calls, clicks>>

Admin(a) ==
    \/ ProjectsArrive(a) \/ ProjectsFail(a) \/ Poll(a) \/ Read(a) \/ Arrive(a) \/ FetchFails(a)
    \/ TogglePause(a) \/ OpenEdit(a) \/ CloseEdit(a) \/ EditField(a) \/ Save(a)
    \/ OpenDelete(a) \/ CloseDelete(a) \/ Delete(a)
    \/ OpenCreate(a) \/ OpenDefault(a) \/ CloseCreate(a) \/ FillCreate(a) \/ Create(a)

Api(c) ==
    \/ ServeGone(c) \/ ServePause(c) \/ ServeSave(c) \/ ServeCount(c) \/ ServeDelete(c)
    \/ ServeProject(c) \/ ServeCreate(c)

Answer(c) == Succeed(c) \/ Refused(c) \/ Invalid(c) \/ CallLost(c) \/ ProjectCreated(c)

Next ==
    \/ \E a \in Admins : Admin(a)
    \/ \E c \in Calls : Api(c) \/ Answer(c)
    \/ \E j \in Jobs : SubmitJob(j) \/ FinishJob(j) \/ RequeueJob(j)

Spec == Init /\ [][Next]_vars

-----------------------------------------------------------------------------
(* Properties.                                                             *)

Kinds == {"off", "over", "pause", "resume", "save", "delete", "force", "create"}

Rows == Option(Row)
Lists == Entry(Option(Shown))

TypeOK ==
    /\ projects \in 0..MaxProjects
    /\ rows \in [Projects -> Rows]
    /\ made \in Ids
    /\ jobs \in [Jobs -> {"new", "active", "over", "purged"}]
    /\ home \in [Admins -> {"unknown", "none", "first"}] /\ asking \in [Admins -> BOOLEAN]
    /\ list \in [Admins -> Lists]
    /\ card \in [Admins -> [editOpen : BOOLEAN, form : Config, touched : SUBSET Fields,
                            deleteOpen : BOOLEAN, deleteError : BOOLEAN]]
    /\ create \in [Admins -> [open : BOOLEAN, error : {"text", "list"},
                              named : BOOLEAN, fine : BOOLEAN]]
    /\ calls \in [Calls -> [kind : Kinds, by : Admins \union {"nobody"}, queue : Nat,
                            body : Config,
                            stage : {"over", "project", "ready", "sent", "counted", "done",
                                     "refused", "invalid"},
                            into : 0..MaxProjects, fine : BOOLEAN, mine : BOOLEAN,
                            late : SUBSET Jobs]]
    /\ \A c \in Calls : calls[c].mine => calls[c].by \in Admins
    /\ blank \subseteq Admins
    /\ clicks \in 0..ClickBudget

\* A dialog belongs to a card that is on the page.
DialogsHaveCards == \A a \in Admins : card[a].editOpen \/ card[a].deleteOpen => HasCard(a)

\* A component waits for one mutation at a time, of the queue that it shows.
OneOfAKind ==
    \A c, d \in Calls :
        /\ calls[c].mine /\ calls[d].mine /\ calls[c].by = calls[d].by
                /\ calls[c].kind = calls[d].kind => c = d
        /\ calls[c].mine /\ calls[c].kind # "create" =>
              HasCard(calls[c].by) /\ Queue(calls[c].by).id = calls[c].queue

\* The queue is sent only when its project exists, the new one included.
ProjectComesFirst ==
    /\ \A c \in Calls : calls[c].kind = "create" /\ calls[c].stage \in {"ready", "sent", "done"}
                          => calls[c].into \in 1..projects
    /\ \A p \in Projects : rows[p] # None => p <= projects

\* The two steps of createMutation (Queues.tsx:59) and the three mutations of a card
\* (QueueCard.tsx:63): answers late or lost, cards replaced and dialogs closed
\* meanwhile, a component has one mutation of a kind under way, for its own queue.
AdminInv == TypeOK /\ DialogsHaveCards /\ OneOfAKind /\ ProjectComesFirst

\* QueueCard, effect at 51-61: while the edit dialog is open, what the administrator
\* has not typed since the form was filled is what the card shows; so a save writes
\* back nothing older than the last poll.
UntouchedFollow ==
    \A a \in Admins : card[a].editOpen =>
        \A f \in Fields \ card[a].touched : card[a].form[f] = Queue(a).config[f]

\* pauseMutation and updateMutation: a paused queue starts again only by a resume that
\* was sent for this very queue, never as a side effect of a save or of a new queue of
\* the same name.
PausedStaysPaused ==
    [][\A p \in Projects :
          rows[p] # None /\ rows'[p] # None /\ Value(rows[p]).id = Value(rows'[p]).id
             /\ Value(rows[p]).paused /\ ~Value(rows'[p]).paused
          => \E c \in Calls : calls[c].kind = "resume" /\ calls[c].queue = Value(rows[p]).id
                              /\ calls[c].stage = "sent" /\ calls'[c].stage = "done"]_vars

\* delete_queue: a queue goes only by a delete of this very queue, be it that the same
\* name was deleted and created anew meanwhile; and unless it was forced, the active
\* jobs that go with it were submitted, or requeued by the reaper, after its count.
DeletedAsCounted ==
    [][rows[1] # None /\ rows'[1] = None =>
          \E c \in Calls :
             /\ calls[c].kind \in {"delete", "force"} /\ calls[c].stage = "counted"
             /\ calls'[c].stage = "done" /\ calls[c].queue = Value(rows[1]).id
             /\ calls[c].kind = "delete" => Active \subseteq calls[c].late]_vars
=============================================================================
