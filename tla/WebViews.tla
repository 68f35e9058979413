------------------------------- MODULE WebViews -------------------------------
(***************************************************************************)
(* What the pages of the web front end show: the cached queries of a page, *)
(* of the bell, of the search box and of the job details, while the user   *)
(* goes about and other people and processes change the database.          *)
(*                                                                         *)
(*   frontend/src/pages/{Dashboard,Jobs,Queues,Workers,DLQ}.tsx            *)
(*   frontend/src/components/{Layout,NotificationsPopover,GlobalSearch,    *)
(*                            JobDetailModal}.tsx                          *)
(*                                                                         *)
(* The database is a version, at, and the number of jobs that each filter  *)
(* of the explorer finds; an answer carries the version it was read at.    *)
(* Names and Kinds are the queries and the writes an instance looks at.    *)
(***************************************************************************)
EXTENDS Integers, FiniteSets, QueryCache

CONSTANTS
    Names,       \* queries
    Kinds,       \* writes
    Filters,     \* what a list of jobs is narrowed to, a status or a text, or nothing
    PageSizes,   \* rows per page of the explorer
    FirstSize,   \* the one it starts with
    FirstFound(_), \* how many jobs a filter finds at first
    MaxRows,     \* bound on the jobs a filter finds
    MaxChanges,  \* bound on the changes of the database
    ClickBudget, \* bound on the steps of the user, but the one back to the search
    FaultBudget  \* bound on the fetches and writes that fail

\* Nothing typed and no status chosen.
NoText == ""

ASSUME ViewsAssumption ==
    /\ Kinds \subseteq {"create", "replay", "detail-replay", "prune", "decommission",
                       "create-queue", "queue-write", "delete-queue"}
    /\ NoText \in Filters
    /\ PageSizes \subseteq Nat \ {0}
    /\ FirstSize \in PageSizes
    /\ MaxRows \in Nat
    /\ MaxChanges \in Nat
    /\ ClickBudget \in Nat
    /\ FaultBudget \in Nat
ASSUME FoundAssumption == \A f \in Filters : FirstFound(f) \in 0..MaxRows

\* The queries of a place: those that poll, and those only fetched on entering.
Dashboard == [polled |-> {"system-metrics", "recent-jobs"},
              once |-> {"projects", "dashboard-queues"}]
Jobs == [polled |-> {"jobs"}, once |-> {"projects", "queues"}]
Queues == [polled |-> {"queues"}, once |-> {"projects"}]
Workers == [polled |-> {"workers-all"}, once |-> {}]
DLQ == [polled |-> {"dlq"}, once |-> {}]
Notifications == [polled |-> {"notif-dlq", "notif-metrics", "notif-workers"}, once |-> {}]
JobDetail == [polled |-> {}, once |-> {"queues", "job-executions", "job-logs"}]
GlobalSearch == [polled |-> {},
                 once |-> {"search-jobs", "search-projects", "search-queues", "search-workers"}]

Routes == {"dashboard", "jobs", "queues", "workers", "dlq"}
PageOf(r) ==
    CASE r = "dashboard" -> Dashboard
      [] r = "jobs" -> Jobs
      [] r = "queues" -> Queues
      [] r = "workers" -> Workers
      [] r = "dlq" -> DLQ

\* The query whose data a query needs before it can ask.
Needs(n) ==
    CASE n \in {"queues", "dashboard-queues"} -> {"projects"}
      [] n = "search-queues" -> {"search-projects"}
      [] OTHER -> {}

\* Mutant: a replay refreshes the dead letters only.
InvalidatesDead(m) ==
    CASE m = "create" -> {"jobs", "system-metrics"}
      [] m \in {"replay", "detail-replay"} -> {"dlq"}
      [] m \in {"prune", "decommission"} -> {"workers-all"}
      [] m \in {"create-queue", "queue-write"} -> {"queues"}
      [] m = "delete-queue" -> {"queues", "jobs", "system-metrics"}
      [] OTHER -> {}

\* The queries that the answer to a write invalidates.
Invalidates(m) ==
    CASE m = "create" -> {"jobs", "system-metrics"}
      [] m \in {"replay", "detail-replay"} -> {"dlq", "jobs"}
      [] m \in {"prune", "decommission"} -> {"workers-all"}
      [] m \in {"create-queue", "queue-write"} -> {"queues"}
      [] m = "delete-queue" -> {"queues", "jobs", "system-metrics"}
      [] OTHER -> {}

VARIABLES
    route,      \* the page
    detail,     \* whether the details of a job are open over it
    table,      \* the explorer: filters, page and page size
    search,     \* the search box: its text, the text that is searched, open or not
    cache,      \* keys: their entries
    at,         \* version of the database
    found,      \* filters: how many jobs they find
    vanished,   \* whether a filter ever came to find fewer
    write,      \* kinds: "off", "sent" to the API or "done" there
    wrote,      \* kinds: the version the last one of the kind made
    due,        \* keys: the version a view owes to a write of this user
    clicksLeft, faultsLeft

vars == <<route, detail, table, search, cache, at, found, vanished, write, wrote, due,
          clicksLeft, faultsLeft>>

Tables == [filter : Filters, page : 0..MaxRows, size : PageSizes]
FirstTable == [filter |-> NoText, page |-> 0, size |-> FirstSize]
Answers == [at : 0..MaxChanges, total : 0..MaxRows]

\* Only the lists of jobs have parameters.
Key(n, tb, text) ==
    CASE n = "jobs" -> <<n, tb>>
      [] n = "search-jobs" -> <<n, [FirstTable EXCEPT !.filter = text]>>
      [] OTHER -> <<n, FirstTable>>
Keys == {Key(n, tb, x) : n \in Names, tb \in Tables, x \in Filters}
KeyOf(n) == Key(n, table, search.debounced)

\* The queries of what is on the screen.
OnPage(r) == PageOf(r).polled \union PageOf(r).once
InDetail == IF detail THEN JobDetail.once ELSE {}
InSearch == IF search.open THEN GlobalSearch.once ELSE {}
Mounted == Notifications.polled \union OnPage(route) \union InDetail \union InSearch
Polled == Notifications.polled \union PageOf(route).polled

Has(c, n) == n \in Names => c[<<n, FirstTable>>].data # None
Enabled(n, c, text) ==
    /\ \A p \in Needs(n) : Has(c, p)
    /\ n = "search-jobs" => text # NoText
Active(n) == n \in Names /\ n \in Mounted /\ Enabled(n, cache, search.debounced)

\* The cache when components with the queries ns mount or change their keys.
Fetched(ns, tb, text) ==
    LET keys == {Key(n, tb, text) : n \in {m \in ns \intersect Names : Enabled(m, cache, text)}}
    IN  [k \in Keys |-> IF k \in keys THEN Begun(cache[k]) ELSE cache[k]]

\* The cache when the queries ns are invalidated or refetched: those on the
\* screen start again, others are fetched when they are next mounted.
Refetched(ns) ==
    LET keys == {KeyOf(n) : n \in {m \in ns : Active(m)}}
    IN  [k \in Keys |-> IF k \in keys THEN Restarted(cache[k]) ELSE cache[k]]

\* What is left on the page of a list, and whether it shows any of it.
Items(tb, d) == d.total - tb.page * tb.size
Rows(n) ==
    n \in Names => LET e == cache[KeyOf(n)]
                   IN  e.data # None /\ Items(KeyOf(n)[2], Value(e.data)) > 0

\* Spinner, rows or a text that there are none: what each place shows.  The pills of
\* the dashboard, the status filter of the workers and the two layouts are left out.
RecentRows == Rows("recent-jobs")
JobRows == Rows("jobs")
QueueCards == Rows("queues")
WorkerCards == Rows("workers-all")
DeadRows == Rows("dlq")
Results(r) ==
    /\ search.open /\ search.debounced # NoText
    /\ CASE r = "queues" -> Rows("search-queues")
         [] r = "workers" -> Rows("search-workers")
         [] r = "jobs" -> Rows("search-jobs")
         [] OTHER -> FALSE

\* The writes a place offers.
Offers(r) ==
    CASE r = "jobs" -> {"create"}
      [] r = "queues" -> {"create-queue"} \union (IF QueueCards THEN {"queue-write", "delete-queue"} ELSE {})
      [] r = "workers" /\ WorkerCards -> {"prune", "decommission"}
      [] r = "dlq" /\ DeadRows -> {"replay"}
      [] OTHER -> {}

Click ==
    /\ clicksLeft > 0
    /\ clicksLeft' = clicksLeft - 1
    /\ UNCHANGED faultsLeft
Fault ==
    /\ faultsLeft > 0
    /\ faultsLeft' = faultsLeft - 1
    /\ UNCHANGED clicksLeft
NoBudget == UNCHANGED <<clicksLeft, faultsLeft>>

Database == <<at, found, vanished>>
Writes == <<write, wrote, due>>

Init ==
    /\ route \in Routes
    /\ detail = FALSE
    /\ table = FirstTable
    /\ search = [query |-> NoText, debounced |-> NoText, open |-> FALSE]
    /\ cache = [k \in Keys |->
           IF /\ k[2] = FirstTable
              /\ k[1] \in Notifications.polled \union OnPage(route)
              /\ Needs(k[1]) \intersect Names = {}
           THEN Begun(Blank) ELSE Blank]
    /\ at = 0
    /\ found = [f \in Filters |-> FirstFound(f)]
    /\ vanished = FALSE
    /\ write = [m \in Kinds |-> "off"]
    /\ wrote = [m \in Kinds |-> 0]
    /\ due = [k \in Keys |-> 0]
    /\ clicksLeft = ClickBudget
    /\ faultsLeft = FaultBudget

-----------------------------------------------------------------------------
(* Going about                                                             *)

\* The page of route r mounts: its state is new, its queries are fetched.
Enters(r) ==
    /\ route' = r
    /\ detail' = FALSE
    /\ table' = FirstTable
    /\ cache' = Fetched(OnPage(r), FirstTable, search.debounced)

\* The links of the layout.
GoTo(r) ==
    /\ Click
    /\ r # route
    /\ Enters(r)
    /\ UNCHANGED <<search, Database, Writes>>

\* A notification of the bell leads to the page it is about.
NotificationPage(n) ==
    CASE n = "notif-dlq" -> "dlq"
      [] n = "notif-metrics" -> "dashboard"
      [] OTHER -> "workers"

FollowNotification(n) ==
    /\ Click
    /\ Rows(n)
    /\ route # NotificationPage(n)
    /\ Enters(NotificationPage(n))
    /\ UNCHANGED <<search, Database, Writes>>

OpenDetail ==
    /\ Click
    /\ \/ route = "dashboard" /\ RecentRows
       \/ route = "jobs" /\ JobRows
    /\ ~ detail
    /\ detail' = TRUE
    /\ cache' = Fetched(JobDetail.once, table, search.debounced)
    /\ UNCHANGED <<route, table, search, Database, Writes>>

CloseDetail ==
    /\ Click
    /\ detail
    /\ detail' = FALSE
    /\ UNCHANGED <<route, table, search, cache, Database, Writes>>

-----------------------------------------------------------------------------
(* The explorer                                                            *)

\* The explorer is set to tb, which is a key of its own.
TableSet(tb) ==
    /\ Click
    /\ route = "jobs"
    /\ table' = tb
    /\ cache' = Fetched({"jobs"}, tb, search.debounced)
    /\ UNCHANGED <<route, detail, search, Database, Writes>>

\* Mutant: a new filter is looked at on the page of the old one.
SetFilterSamePage(f) == f # table.filter /\ TableSet([table EXCEPT !.filter = f])

SetFilter(f) == f # table.filter /\ TableSet([table EXCEPT !.filter = f, !.page = 0])

\* What the table shows for the data of its key.
TableShows ==
    LET e == cache[<<"jobs", table>>] IN
    CASE Loading(e) -> "spinner"
      [] JobRows -> "rows"
      [] OTHER -> "empty"

\* The pager is there with the rows only.
Pager == route = "jobs" /\ "jobs" \in Names /\ TableShows = "rows"

SetSize(n) ==
    /\ Pager
    /\ n # table.size
    /\ TableSet([table EXCEPT !.size = n, !.page = 0])

TurnPage(p) ==
    /\ Pager
    /\ p \in {table.page - 1, table.page + 1}
    /\ p * table.size < Value(cache[<<"jobs", table>>].data).total
    /\ TableSet([table EXCEPT !.page = p])

\* The button of a page refetches the queries that poll.
Refresh ==
    /\ Click
    /\ cache' = Refetched(PageOf(route).polled)
    /\ UNCHANGED <<route, detail, table, search, Database, Writes>>

-----------------------------------------------------------------------------
(* The search box                                                          *)

Type(x) ==
    /\ Click
    /\ x # search.query
    /\ search' = [search EXCEPT !.query = x, !.open = TRUE]
    /\ cache' = IF search.open THEN cache
                ELSE Fetched(GlobalSearch.once, table, search.debounced)
    /\ UNCHANGED <<route, detail, table, Database, Writes>>

Focus ==
    /\ search.query # NoText /\ ~ search.open
    /\ search' = [search EXCEPT !.open = TRUE]
    /\ cache' = Fetched(GlobalSearch.once, table, search.debounced)
    /\ UNCHANGED <<route, detail, table, Database, Writes>>
    /\ NoBudget

ClickAway ==
    /\ Click
    /\ search.open
    /\ search' = [search EXCEPT !.open = FALSE]
    /\ UNCHANGED <<route, detail, table, cache, Database, Writes>>

\* The text has rested for 300 ms.
Debounce ==
    /\ search.debounced # search.query
    /\ search' = [search EXCEPT !.debounced = search.query]
    /\ cache' = IF search.open THEN Fetched({"search-jobs"}, table, search.query) ELSE cache
    /\ UNCHANGED <<route, detail, table, Database, Writes>>
    /\ NoBudget

\* A result that is shown leads to the page of its kind.
HandleNavigate(r) ==
    /\ Click
    /\ Results(r)
    /\ search' = [search EXCEPT !.query = NoText, !.open = FALSE]
    /\ IF r = route THEN UNCHANGED <<route, detail, table, cache>> ELSE Enters(r)
    /\ UNCHANGED <<Database, Writes>>

-----------------------------------------------------------------------------
(* Fetches                                                                 *)

\* Mutant: the explorer does not poll.
PollNotJobs(n) ==
    /\ n # "jobs"
    /\ Active(n) /\ n \in Polled
    /\ cache[KeyOf(n)].fetch = "off"
    /\ cache' = [cache EXCEPT ![KeyOf(n)] = Begun(@)]
    /\ UNCHANGED <<route, detail, table, search, Database, Writes>>
    /\ NoBudget

Poll(n) ==
    /\ Active(n) /\ n \in Polled
    /\ cache[KeyOf(n)].fetch = "off"
    /\ cache' = [cache EXCEPT ![KeyOf(n)] = Begun(@)]
    /\ UNCHANGED <<route, detail, table, search, Database, Writes>>
    /\ NoBudget

\* The API answers from the database of this moment.
Read(k) ==
    /\ cache[k].fetch = "sent"
    /\ cache' = [cache EXCEPT ![k] =
           Answered(@, [at |-> at, total |-> found[k[2].filter]])]
    /\ UNCHANGED <<route, detail, table, search, Database, Writes>>
    /\ NoBudget

\* The answer replaces the data; queries that waited for it can ask.
Arrive(k) ==
    /\ cache[k].fetch = "read"
    /\ LET c == [cache EXCEPT ![k] = Arrived(@)]
           woken == {KeyOf(n) : n \in {m \in Mounted \intersect Names :
                       Enabled(m, c, search.debounced) /\ ~ Enabled(m, cache, search.debounced)}}
       IN  cache' = [j \in Keys |-> IF j \in woken THEN Begun(c[j]) ELSE c[j]]
    /\ UNCHANGED <<route, detail, table, search, Database, Writes>>
    /\ NoBudget

\* A fetch and its retry fail: nobody owes the view anything any more.
FetchFails(k) ==
    /\ Fault
    /\ cache[k].fetch # "off"
    /\ cache' = [cache EXCEPT ![k] = Failed(@)]
    /\ due' = [due EXCEPT ![k] = 0]
    /\ UNCHANGED <<route, detail, table, search, Database, write, wrote>>

-----------------------------------------------------------------------------
(* Writes, of this user and of everybody else                              *)

Changed ==
    /\ at < MaxChanges
    /\ at' = at + 1
    /\ \E f \in Filters, n \in 0..MaxRows :
         /\ found' = [found EXCEPT ![f] = n]
         /\ vanished' = (vanished \/ n < found[f])

Change ==
    /\ Changed
    /\ UNCHANGED <<route, detail, table, search, cache, Writes>>
    /\ NoBudget

\* A button, disabled while a write of its kind is under way; the delete icon of a
\* worker is not, and is reduced to one write at a time.
Mutate(m) ==
    /\ Click
    /\ IF detail THEN m = "detail-replay" ELSE m \in Offers(route)
    /\ write[m] = "off"
    /\ write' = [write EXCEPT ![m] = "sent"]
    /\ UNCHANGED <<route, detail, table, search, cache, Database, wrote, due>>

Commit(m) ==
    /\ write[m] = "sent"
    /\ Changed
    /\ write' = [write EXCEPT ![m] = "done"]
    /\ wrote' = [wrote EXCEPT ![m] = at']
    /\ UNCHANGED <<route, detail, table, search, cache, due>>
    /\ NoBudget

\* The list a write is made on.
Target(m) ==
    CASE m \in {"create", "detail-replay"} -> "jobs"
      [] m = "replay" -> "dlq"
      [] m \in {"prune", "decommission"} -> "workers-all"
      [] OTHER -> "queues"

\* onSuccess, wherever the user has gone by then.  The details close.
Succeed(m) ==
    /\ write[m] = "done"
    /\ write' = [write EXCEPT ![m] = "off"]
    /\ detail' = (detail /\ m # "detail-replay")
    /\ cache' = Refetched(Invalidates(m))
    /\ due' = [k \in Keys |->
           IF Active(Target(m)) /\ k = KeyOf(Target(m)) /\ cache[k].data # None /\ due[k] < wrote[m]
           THEN wrote[m] ELSE due[k]]
    /\ UNCHANGED <<route, table, search, Database, wrote>>
    /\ NoBudget

\* Refused, or the answer is lost before or after the commit.
MutationFails(m) ==
    /\ Fault
    /\ write[m] # "off"
    /\ write' = [write EXCEPT ![m] = "off"]
    /\ UNCHANGED <<route, detail, table, search, cache, Database, wrote, due>>

-----------------------------------------------------------------------------

Navigation ==
    \/ \E r \in Routes : GoTo(r)
    \/ \E n \in Notifications.polled : FollowNotification(n)
    \/ OpenDetail \/ CloseDetail
Explorer ==
    \/ \E f \in Filters : SetFilter(f)
    \/ \E n \in PageSizes : SetSize(n)
    \/ \E p \in 0..MaxRows : TurnPage(p)
    \/ Refresh
SearchBox ==
    \/ \E x \in Filters : Type(x)
    \/ Focus \/ ClickAway \/ Debounce
    \/ \E r \in Routes : HandleNavigate(r)
Fetching ==
    \/ \E n \in Names : Poll(n)
    \/ \E k \in Keys : Read(k) \/ Arrive(k) \/ FetchFails(k)
Writing ==
    \/ Change
    \/ \E m \in Kinds : Mutate(m) \/ Commit(m) \/ Succeed(m) \/ MutationFails(m)

Next == Navigation \/ Explorer \/ SearchBox \/ Fetching \/ Writing

Spec == Init /\ [][Next]_vars

\* The timer of a query, and its requests, which are answered or fail.
Goes(n) == Poll(n) \/ \E k \in Keys : k[1] = n /\ (Read(k) \/ Arrive(k))

Fairness == WF_vars(Debounce) /\ \A n \in Names : WF_vars(Goes(n))

FairSpec == Spec /\ Fairness

-----------------------------------------------------------------------------
(* Properties                                                              *)

TypeOK ==
    /\ route \in Routes
    /\ detail \in BOOLEAN
    /\ table \in Tables
    /\ search \in [query : Filters, debounced : Filters, open : BOOLEAN]
    /\ cache \in [Keys -> Entry(Answers)]
    /\ at \in 0..MaxChanges
    /\ found \in [Filters -> 0..MaxRows]
    /\ vanished \in BOOLEAN
    /\ write \in [Kinds -> {"off", "sent", "done"}]
    /\ wrote \in [Kinds -> 0..MaxChanges]
    /\ due \in [Keys -> 0..MaxChanges]
    /\ clicksLeft \in 0..ClickBudget
    /\ faultsLeft \in 0..FaultBudget

\* An answer is of the past, and while no filter has come to find fewer, it does
\* not count more jobs than there are, and the page it is for is one that exists.
Credible(k, d) ==
    /\ d.at <= at
    /\ ~ vanished /\ k[1] = "jobs" =>
         /\ d.total <= found[k[2].filter]
         /\ k[2].page = 0 \/ Items(k[2], d) > 0
AnswersCredible ==
    \A k \in Keys :
        /\ cache[k].data # None => Credible(k, Value(cache[k].data))
        /\ (cache[k].fetch = "read") = (cache[k].answer # None)
        /\ cache[k].answer # None => Credible(k, Value(cache[k].answer))

\* Every page of the explorer that is asked for exists, as long as nothing vanishes.
PagesExist ==
    ~ vanished =>
        /\ table.page = 0 \/ table.page * table.size < found[table.filter]
        /\ \A k \in Keys : k[1] = "jobs" /\ cache[k].fetch # "off" =>
             k[2].page = 0 \/ k[2].page * k[2].size < found[k[2].filter]

\* What a view owes to a write is there, or a fetch that will bring it is.
DebtsAreServed ==
    /\ \A m \in Kinds : wrote[m] <= at
    /\ \A k \in Keys :
         /\ due[k] <= at
         /\ due[k] > 0 => cache[k].data # None
         /\ cache[k].fetch = "off" /\ due[k] > 0 => due[k] <= Value(cache[k].data).at
         /\ cache[k].fetch = "read" => due[k] <= Value(cache[k].answer).at

ViewsInv == TypeOK /\ AnswersCredible /\ PagesExist /\ DebtsAreServed

\* Once the answer to a write has been handled and the fetches it caused are over,
\* the list the write was made on, if it was on the screen with data, is not one
\* from before the write, unless its refetch failed.
FreshAfterWrite ==
    \A k \in Keys :
        cache[k].fetch = "off" /\ due[k] > 0 => Value(cache[k].data).at >= due[k]

\* When the explorer has its answer and says that no jobs match the filters, none
\* do: it is not on a page past the end, unless jobs have left the filter since.
EmptyIsHonest ==
    route = "jobs" /\ "jobs" \in Names /\ TableShows = "empty" /\ ~ vanished
        /\ cache[<<"jobs", table>>].data # None
    => Value(cache[<<"jobs", table>>].data).total = 0

\* The lists that the user watches.
Watched == PageOf(route).polled \union Notifications.polled

\* When nobody changes anything any more, the lists of the page and the bell come to
\* show the database as it is, unless the projects that the list of queues needs
\* never came: that query does not poll.
ListsCatchUp ==
    <>[](\A n \in Watched \intersect Names :
            Enabled(n, cache, search.debounced) =>
                /\ cache[KeyOf(n)].data # None
                /\ Value(cache[KeyOf(n)].data).at = at)
=============================================================================
