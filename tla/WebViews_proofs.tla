--------------------------- MODULE WebViews_proofs ---------------------------
(***************************************************************************)
(* Proofs about WebViews: that the cache entries, the debts of the writes  *)
(* and the pages of the explorer keep in step (ViewsInv) whatever the user *)
(* does and whichever way fetches and writes interleave.                   *)
(***************************************************************************)
EXTENDS WebViews, TLAPS

-----------------------------------------------------------------------------
(* Options, entries and keys                                               *)

LEMMA OptionFacts ==
  /\ \A v : Some(v) # None /\ Value(Some(v)) = v
  /\ \A S, v : v \in S => Some(v) \in Option(S)
  /\ \A S : None \in Option(S)
  /\ \A S : \A o \in Option(S) : o # None => Value(o) \in S /\ o = Some(Value(o))
  BY DEF Some, None, Value, Option

\* What the operations of the library do to an entry, field by field.
LEMMA EntryFacts ==
  ASSUME NEW S, NEW e \in Entry(S)
  PROVE  /\ Begun(e) \in Entry(S) /\ Begun(e).data = e.data /\ Begun(e).answer = e.answer
         /\ Begun(e).fetch = IF e.fetch = "off" THEN "sent" ELSE e.fetch
         /\ Failed(e) \in Entry(S) /\ Failed(e).data = e.data
         /\ Failed(e).fetch = "off" /\ Failed(e).answer = None
         /\ Arrived(e) \in Entry(S) /\ Arrived(e).data = e.answer
         /\ Arrived(e).fetch = "off" /\ Arrived(e).answer = None
<1>. DEFINE O == Option(S)
<1>1. None \in O /\ \A v \in S : Some(v) \in O
  BY OptionFacts
<1>2. e \in [data : O, fetch : {"off", "sent", "read"}, answer : O]
  BY DEF Entry
<1>. HIDE DEF O
<1>3. Entry(S) = [data : O, fetch : {"off", "sent", "read"}, answer : O]
  BY DEF Entry, O
<1>. QED
  BY <1>1, <1>2, <1>3 DEF Begun, Failed, Arrived

LEMMA AnsweredFacts ==
  ASSUME NEW S, NEW e \in Entry(S), NEW v \in S
  PROVE  /\ Answered(e, v) \in Entry(S) /\ Answered(e, v).data = e.data
         /\ Answered(e, v).fetch = "read"
         /\ Answered(e, v).answer # None /\ Value(Answered(e, v).answer) = v
<1>. DEFINE O == Option(S)  o == Some(v)
<1>1. o \in O /\ o # None /\ Value(o) = v
  BY OptionFacts
<1>2. e \in [data : O, fetch : {"off", "sent", "read"}, answer : O]
  BY DEF Entry
<1>3. Answered(e, v) = [e EXCEPT !.fetch = "read", !.answer = o]
  BY DEF Answered
<1>. HIDE DEF O, o
<1>4. Entry(S) = [data : O, fetch : {"off", "sent", "read"}, answer : O]
  BY DEF Entry, O
<1>. QED
  BY <1>1, <1>2, <1>3, <1>4

LEMMA RestartedFacts ==
  ASSUME NEW S, NEW e \in Entry(S)
  PROVE  /\ Restarted(e) \in Entry(S) /\ Restarted(e).data = e.data
         /\ e.data = None => Restarted(e) = Begun(e)
         /\ e.data # None => Restarted(e).fetch = "sent" /\ Restarted(e).answer = None
<1>. DEFINE O == Option(S)
<1>1. None \in O
  BY OptionFacts
<1>2. e \in [data : O, fetch : {"off", "sent", "read"}, answer : O]
  BY DEF Entry
<1>. HIDE DEF O
<1>3. Entry(S) = [data : O, fetch : {"off", "sent", "read"}, answer : O]
  BY DEF Entry, O
<1>4. CASE e.data = None
  BY <1>4, EntryFacts DEF Restarted
<1>5. CASE e.data # None
  <2>1. Restarted(e) = [e EXCEPT !.fetch = "sent", !.answer = None]
    BY <1>5 DEF Restarted
  <2>. QED
    BY <1>1, <1>2, <1>3, <1>5, <2>1
<1>. QED
  BY <1>4, <1>5

\* The numbers among the constants.
LEMMA Bounds ==
  /\ MaxRows \in Nat /\ MaxChanges \in Nat
  /\ \A n \in 0..MaxRows : n \in Nat
  /\ \A n \in 0..MaxChanges : n \in Nat
  /\ \A n \in PageSizes : n \in Nat
<1>1. MaxRows \in Nat /\ MaxChanges \in Nat /\ PageSizes \subseteq Nat \ {0}
  BY ViewsAssumption
<1>. QED
  BY <1>1

LEMMA FirstTableType == FirstTable \in Tables /\ FirstTable.page = 0
<1>1. NoText \in Filters /\ FirstSize \in PageSizes /\ 0 \in 0..MaxRows
  BY ViewsAssumption
<1>. QED
  BY <1>1 DEF FirstTable, Tables

LEMMA KeyFacts ==
  ASSUME NEW n \in Names, NEW tb \in Tables, NEW x \in Filters
  PROVE  /\ Key(n, tb, x) \in Keys
         /\ Key(n, tb, x)[1] = n
         /\ n = "jobs" => Key(n, tb, x) = <<n, tb>>
<1>1. Key(n, tb, x) \in Keys
  BY DEF Keys
<1>2. CASE n = "jobs"
  BY <1>1, <1>2 DEF Key
<1>3. CASE n = "search-jobs"
  BY <1>1, <1>3 DEF Key
<1>4. CASE n # "jobs" /\ n # "search-jobs"
  BY <1>1, <1>4 DEF Key
<1>. QED
  BY <1>2, <1>3, <1>4

LEMMA KeysAreLists ==
  ASSUME NEW k \in Keys
  PROVE  k[2] \in Tables
<1>1. PICK n \in Names, tb \in Tables, x \in Filters : k = Key(n, tb, x)
  BY DEF Keys
<1>2. [FirstTable EXCEPT !.filter = x] \in Tables
  BY FirstTableType DEF Tables
<1>3. CASE n = "jobs"
  BY <1>1, <1>3 DEF Key
<1>4. CASE n = "search-jobs"
  BY <1>1, <1>2, <1>4 DEF Key
<1>5. CASE n # "jobs" /\ n # "search-jobs"
  BY <1>1, <1>5, FirstTableType DEF Key
<1>. QED
  BY <1>3, <1>4, <1>5

-----------------------------------------------------------------------------
(* What the steps ask for                                                  *)

\* Everything but the cache, the database and the debts.
UserOK ==
    /\ route \in Routes
    /\ detail \in BOOLEAN
    /\ table \in Tables
    /\ search \in [query : Filters, debounced : Filters, open : BOOLEAN]
    /\ clicksLeft \in 0..ClickBudget
    /\ faultsLeft \in 0..FaultBudget

DataOK ==
    /\ at \in 0..MaxChanges
    /\ found \in [Filters -> 0..MaxRows]
    /\ vanished \in BOOLEAN
    /\ wrote \in [Kinds -> 0..MaxChanges]
    /\ due \in [Keys -> 0..MaxChanges]

CacheOK == cache \in [Keys -> Entry(Answers)]
WriteOK == write \in [Kinds -> {"off", "sent", "done"}]

LEMMA TypeParts == TypeOK <=> UserOK /\ DataOK /\ CacheOK /\ WriteOK
  BY DEF TypeOK, UserOK, DataOK, CacheOK, WriteOK

LEMMA BudgetType ==
  ASSUME UserOK, Click \/ Fault \/ NoBudget
  PROVE  clicksLeft' \in 0..ClickBudget /\ faultsLeft' \in 0..FaultBudget
  BY ViewsAssumption DEF UserOK, Click, Fault, NoBudget

\* A list of jobs is only ever asked for as the explorer is set.
Asks(k, tb) ==
    \/ cache'[k] = cache[k]
    \/ /\ cache'[k] \in {Begun(cache[k]), Restarted(cache[k])}
       /\ k[1] = "jobs" => k[2] = tb

AsksAll(tb) == cache' = [k \in Keys |-> cache'[k]] /\ \A k \in Keys : Asks(k, tb)

LEMMA FetchedAsks ==
  ASSUME CacheOK, NEW ns, NEW tb \in Tables, NEW x \in Filters,
         cache' = Fetched(ns, tb, x)
  PROVE  AsksAll(tb)
<1>. DEFINE asked == {m \in ns \intersect Names : Enabled(m, cache, x)}
            keys == {Key(n, tb, x) : n \in asked}
<1>1. cache' = [k \in Keys |-> IF k \in keys THEN Begun(cache[k]) ELSE cache[k]]
  BY DEF Fetched
<1>2. ASSUME NEW k \in keys PROVE k[1] = "jobs" => k[2] = tb
  <2>1. PICK n \in asked : k = Key(n, tb, x)
    OBVIOUS
  <2>. QED
    BY <2>1, KeyFacts
<1>. HIDE DEF keys
<1>. QED
  BY <1>1, <1>2 DEF AsksAll, Asks

LEMMA RefetchedAsks ==
  ASSUME CacheOK, UserOK, NEW ns, cache' = Refetched(ns)
  PROVE  AsksAll(table)
<1>. DEFINE asked == {m \in ns : Active(m)}
            keys == {KeyOf(n) : n \in asked}
<1>1. cache' = [k \in Keys |-> IF k \in keys THEN Restarted(cache[k]) ELSE cache[k]]
  BY DEF Refetched
<1>2. ASSUME NEW k \in keys PROVE k[1] = "jobs" => k[2] = table
  <2>1. PICK n \in asked : k = KeyOf(n)
    OBVIOUS
  <2>. QED
    BY <2>1, KeyFacts DEF KeyOf, Active, UserOK
<1>. HIDE DEF keys
<1>. QED
  BY <1>1, <1>2 DEF AsksAll, Asks

LEMMA SameAsks ==
  ASSUME CacheOK, NEW tb, cache' = cache
  PROVE  AsksAll(tb)
  BY DEF CacheOK, AsksAll, Asks

LEMMA EntersAsks ==
  ASSUME CacheOK, UserOK, NEW r \in Routes, Enters(r)
  PROVE  /\ AsksAll(table') /\ table' = FirstTable
         /\ route' \in Routes /\ detail' \in BOOLEAN /\ table' \in Tables
  BY FirstTableType, FetchedAsks DEF Enters, UserOK

\* The explorer is on a page that exists.
TableExists ==
    ~ vanished => table.page = 0 \/ table.page * table.size < found[table.filter]

UserEffect ==
    /\ UserOK'
    /\ UNCHANGED <<Database, write, wrote, due>>
    /\ AsksAll(table')

LEMMA NavigationEffect ==
  ASSUME CacheOK, UserOK, Navigation
  PROVE  UserEffect /\ table' \in {table, FirstTable}
<1>1. ASSUME NEW r \in Routes, GoTo(r) PROVE UserEffect /\ table' = FirstTable
  BY <1>1, EntersAsks, BudgetType DEF GoTo, UserOK, UserEffect, Writes
<1>2. ASSUME NEW n \in Notifications.polled, FollowNotification(n)
      PROVE  UserEffect /\ table' = FirstTable
  <2>1. NotificationPage(n) \in Routes
    BY DEF NotificationPage, Routes
  <2>. QED
    BY <1>2, <2>1, EntersAsks, BudgetType DEF FollowNotification, UserOK, UserEffect, Writes
<1>3. CASE OpenDetail
  <2>1. AsksAll(table)
    BY <1>3, FetchedAsks DEF OpenDetail, UserOK
  <2>. QED
    BY <1>3, <2>1, BudgetType DEF OpenDetail, UserOK, UserEffect, Writes
<1>4. CASE CloseDetail
  BY <1>4, SameAsks, BudgetType DEF CloseDetail, UserOK, UserEffect, Writes
<1>. QED
  BY <1>1, <1>2, <1>3, <1>4 DEF Navigation

LEMMA SearchBoxEffect ==
  ASSUME CacheOK, UserOK, SearchBox
  PROVE  UserEffect /\ table' \in {table, FirstTable}
<1>0. /\ search.query \in Filters /\ search.debounced \in Filters /\ NoText \in Filters
      /\ table \in Tables
  BY ViewsAssumption DEF UserOK
<1>1. ASSUME NEW x \in Filters, Type(x) PROVE UserEffect /\ table' = table
  <2>1. AsksAll(table)
    BY <1>0, <1>1, FetchedAsks, SameAsks DEF Type
  <2>. QED
    BY <1>1, <2>1, BudgetType DEF Type, UserOK, UserEffect, Writes
<1>2. CASE Focus
  <2>1. AsksAll(table)
    BY <1>0, <1>2, FetchedAsks DEF Focus
  <2>. QED
    BY <1>2, <2>1, BudgetType DEF Focus, UserOK, UserEffect, Writes
<1>3. CASE ClickAway
  BY <1>3, SameAsks, BudgetType DEF ClickAway, UserOK, UserEffect, Writes
<1>4. CASE Debounce
  <2>1. AsksAll(table)
    BY <1>0, <1>4, FetchedAsks, SameAsks DEF Debounce
  <2>. QED
    BY <1>0, <1>4, <2>1, BudgetType DEF Debounce, UserOK, UserEffect, Writes
<1>5. ASSUME NEW r \in Routes, HandleNavigate(r)
      PROVE  UserEffect /\ table' \in {table, FirstTable}
  <2>1. search' \in [query : Filters, debounced : Filters, open : BOOLEAN]
    BY <1>0, <1>5 DEF HandleNavigate, UserOK
  <2>2. CASE r = route
    BY <1>5, <2>1, <2>2, SameAsks, BudgetType DEF HandleNavigate, UserOK, UserEffect, Writes
  <2>3. CASE r # route
    BY <1>5, <2>1, <2>3, EntersAsks, BudgetType DEF HandleNavigate, UserOK, UserEffect, Writes
  <2>. QED
    BY <2>2, <2>3
<1>. QED
  BY <1>1, <1>2, <1>3, <1>4, <1>5 DEF SearchBox

-----------------------------------------------------------------------------
(* The invariant, entry by entry                                           *)

PageExists(k) ==
    ~ vanished /\ k[1] = "jobs" =>
        k[2].page = 0 \/ k[2].page * k[2].size < found[k[2].filter]

EntryOK(k) ==
    LET e == cache[k] IN
    /\ e.data # None => Credible(k, Value(e.data))
    /\ (e.fetch = "read") = (e.answer # None)
    /\ e.answer # None => Credible(k, Value(e.answer))
    /\ e.fetch # "off" => PageExists(k)
    /\ due[k] <= at
    /\ due[k] > 0 => e.data # None
    /\ e.fetch = "off" /\ due[k] > 0 => due[k] <= Value(e.data).at
    /\ e.fetch = "read" => due[k] <= Value(e.answer).at

WroteOK == \A m \in Kinds : wrote[m] <= at

LEMMA InvParts ==
  ASSUME ViewsInv
  PROVE  /\ UserOK /\ DataOK /\ CacheOK /\ WriteOK
         /\ TableExists /\ WroteOK
         /\ \A k \in Keys : EntryOK(k)
  BY TypeParts DEF ViewsInv, AnswersCredible, PagesExist, DebtsAreServed, EntryOK,
     PageExists, TableExists, WroteOK

LEMMA PartsInv ==
  ASSUME UserOK', DataOK', CacheOK', WriteOK', TableExists', WroteOK',
         \A k \in Keys : EntryOK(k)'
  PROVE  ViewsInv'
<1>1. TypeOK'
  BY DEF TypeOK, UserOK, DataOK, CacheOK, WriteOK
<1>. QED
  BY <1>1 DEF ViewsInv, AnswersCredible, PagesExist, DebtsAreServed, EntryOK,
     PageExists, TableExists, WroteOK

\* Asking for an entry keeps what it shows and what it owes.
LEMMA AskedEntry ==
  ASSUME CacheOK, NEW k \in Keys, EntryOK(k), UNCHANGED Database, due'[k] = due[k],
         \/ cache'[k] = cache[k]
         \/ cache'[k] \in {Begun(cache[k]), Restarted(cache[k])} /\ PageExists(k)'
  PROVE  EntryOK(k)' /\ cache'[k] \in Entry(Answers)
<1>. DEFINE e == cache[k]  f == cache'[k]
<1>1. e \in Entry(Answers) /\ e.fetch \in {"off", "sent", "read"}
  BY DEF CacheOK, Entry
<1>2. /\ at' = at /\ \A d : Credible(k, d)' <=> Credible(k, d)
      /\ PageExists(k)' <=> PageExists(k)
  BY DEF Database, Credible, PageExists
<1>3. /\ f \in Entry(Answers) /\ f.data = e.data
      /\ \/ f = e
         \/ /\ PageExists(k)
            /\ \/ f.fetch = e.fetch /\ f.answer = e.answer
               \/ f.fetch = "sent" /\ e.fetch = "off" /\ f.answer = e.answer
               \/ f.fetch = "sent" /\ f.answer = None
  BY <1>1, <1>2, EntryFacts, RestartedFacts
<1>. HIDE DEF e, f
<1>4. EntryOK(k) <=>
        /\ e.data # None => Credible(k, Value(e.data))
        /\ (e.fetch = "read") = (e.answer # None)
        /\ e.answer # None => Credible(k, Value(e.answer))
        /\ e.fetch # "off" => PageExists(k)
        /\ due[k] <= at
        /\ due[k] > 0 => e.data # None
        /\ e.fetch = "off" /\ due[k] > 0 => due[k] <= Value(e.data).at
        /\ e.fetch = "read" => due[k] <= Value(e.answer).at
  BY DEF EntryOK, e
<1>5. /\ f.data # None => Credible(k, Value(f.data))
      /\ (f.fetch = "read") = (f.answer # None)
      /\ f.answer # None => Credible(k, Value(f.answer))
      /\ f.fetch # "off" => PageExists(k)
      /\ due[k] <= at
      /\ due[k] > 0 => f.data # None
      /\ f.fetch = "off" /\ due[k] > 0 => due[k] <= Value(f.data).at
      /\ f.fetch = "read" => due[k] <= Value(f.answer).at
  BY <1>1, <1>3, <1>4
<1>6. EntryOK(k)'
  BY <1>2, <1>5 DEF EntryOK, f
<1>. QED
  BY <1>3, <1>6 DEF f

\* A step that asks for entries and changes nothing else of the cache.
LEMMA AskStep ==
  ASSUME ViewsInv, UserOK', UNCHANGED <<Database, write, wrote, due>>,
         AsksAll(table'), TableExists'
  PROVE  ViewsInv'
<1>1. /\ UserOK /\ DataOK /\ CacheOK /\ WriteOK /\ TableExists /\ WroteOK
      /\ \A k \in Keys : EntryOK(k)
  BY InvParts
<1>2. ASSUME NEW k \in Keys
      PROVE  EntryOK(k)' /\ cache'[k] \in Entry(Answers)
  <2>1. Asks(k, table')
    BY DEF AsksAll
  <2>2. k[1] = "jobs" /\ k[2] = table' => PageExists(k)'
    BY DEF TableExists, PageExists
  <2>3. k[1] # "jobs" => PageExists(k)'
    BY DEF PageExists
  <2>. QED
    BY <1>1, <2>1, <2>2, <2>3, AskedEntry DEF Asks
<1>3. DataOK' /\ WriteOK' /\ WroteOK'
  BY <1>1 DEF DataOK, WriteOK, WroteOK, Database
<1>4. CacheOK'
  BY <1>2 DEF CacheOK, AsksAll
<1>. QED
  BY <1>2, <1>3, <1>4, PartsInv

-----------------------------------------------------------------------------
(* The steps of the user                                                   *)

LEMMA NavigationInv ==
  ASSUME ViewsInv, Navigation \/ SearchBox
  PROVE  ViewsInv'
<1>1. UserEffect /\ table' \in {table, FirstTable}
  BY InvParts, NavigationEffect, SearchBoxEffect
<1>2. TableExists'
  BY <1>1, InvParts, FirstTableType DEF UserEffect, TableExists, Database
<1>. QED
  BY <1>1, <1>2, AskStep DEF UserEffect

\* The explorer is set to a page that exists.
LEMMA TableSetInv ==
  ASSUME ViewsInv, NEW tb \in Tables, TableSet(tb),
         ~ vanished => tb.page = 0 \/ tb.page * tb.size < found[tb.filter]
  PROVE  ViewsInv'
<1>1. /\ UserOK /\ CacheOK /\ search.debounced \in Filters
  BY InvParts DEF UserOK
<1>2. AsksAll(table') /\ table' = tb
  BY <1>1, FetchedAsks DEF TableSet
<1>3. UserOK'
  BY <1>1, BudgetType DEF TableSet, UserOK
<1>4. TableExists'
  BY <1>2 DEF TableSet, TableExists, Database
<1>. QED
  BY <1>2, <1>3, <1>4, AskStep DEF TableSet, Writes

\* The pager is there with rows, and there are no more rows than there are jobs.
LEMMA PagerFacts ==
  ASSUME ViewsInv, Pager
  PROVE  LET d == Value(cache[<<"jobs", table>>].data)
         IN  /\ d.total \in Nat
             /\ ~ vanished => d.total <= found[table.filter]
<1>. DEFINE k == <<"jobs", table>>  d == Value(cache[k].data)
<1>1. "jobs" \in Names /\ table \in Tables /\ search.debounced \in Filters
  BY InvParts DEF Pager, UserOK
<1>2. KeyOf("jobs") = k /\ k \in Keys
  BY <1>1, KeyFacts DEF KeyOf
<1>3. JobRows
  <2>1. TableShows = "rows"
    BY DEF Pager
  <2>2. CASE Loading(cache[k])
    BY <2>1, <2>2 DEF TableShows
  <2>3. CASE ~ Loading(cache[k]) /\ ~ JobRows
    BY <2>1, <2>3 DEF TableShows
  <2>. QED
    BY <2>2, <2>3
<1>4. cache[k].data # None
  BY <1>1, <1>2, <1>3 DEF JobRows, Rows
<1>5. cache[k].data \in Option(Answers)
  BY <1>2, InvParts DEF CacheOK, Entry
<1>6. d \in Answers
  BY <1>4, <1>5, OptionFacts
<1>7. d.total \in Nat
  BY <1>6, ViewsAssumption DEF Answers
<1>8. Credible(k, d)
  BY <1>2, <1>4, InvParts DEF EntryOK
<1>. QED
  BY <1>7, <1>8 DEF Credible

LEMMA ExplorerInv ==
  ASSUME ViewsInv, Explorer
  PROVE  ViewsInv'
<1>0. /\ UserOK /\ table \in Tables /\ table.page \in 0..MaxRows /\ table.size \in Nat
      /\ table.size \in PageSizes /\ table.filter \in Filters
  BY InvParts, ViewsAssumption DEF UserOK, Tables
<1>1. ASSUME NEW f \in Filters, SetFilter(f) PROVE ViewsInv'
  <2>1. 0 \in 0..MaxRows
    BY ViewsAssumption
  <2>2. /\ [table EXCEPT !.filter = f, !.page = 0] \in Tables
        /\ [table EXCEPT !.filter = f, !.page = 0].page = 0
    BY <1>0, <2>1 DEF Tables
  <2>. QED
    BY <1>1, <2>2, TableSetInv DEF SetFilter
<1>2. ASSUME NEW n \in PageSizes, SetSize(n) PROVE ViewsInv'
  <2>1. 0 \in 0..MaxRows
    BY ViewsAssumption
  <2>2. /\ [table EXCEPT !.size = n, !.page = 0] \in Tables
        /\ [table EXCEPT !.size = n, !.page = 0].page = 0
    BY <1>0, <2>1 DEF Tables
  <2>. QED
    BY <1>2, <2>2, TableSetInv DEF SetSize
<1>3. ASSUME NEW p \in 0..MaxRows, TurnPage(p) PROVE ViewsInv'
  <2>. DEFINE tb == [table EXCEPT !.page = p]
              total == Value(cache[<<"jobs", table>>].data).total
  <2>1. tb \in Tables /\ tb.page = p /\ tb.size = table.size /\ tb.filter = table.filter
    BY <1>0 DEF Tables
  <2>2. p * table.size < total /\ Pager /\ TableSet(tb)
    BY <1>3 DEF TurnPage
  <2>3. total \in Nat /\ (~ vanished => total <= found[table.filter])
    BY <2>2, PagerFacts
  <2>4. p * table.size \in Nat
    BY <1>0, ViewsAssumption
  <2>5. found[table.filter] \in Nat
    BY <1>0, InvParts, ViewsAssumption DEF DataOK
  <2>6. ~ vanished => p * table.size < found[table.filter]
    BY <2>2, <2>3, <2>4, <2>5
  <2>. HIDE DEF tb, total
  <2>7. ~ vanished => tb.page * tb.size < found[tb.filter]
    BY <2>1, <2>6
  <2>. QED
    BY <2>1, <2>2, <2>7, TableSetInv
<1>4. CASE Refresh
  <2>1. AsksAll(table) /\ table' = table
    BY <1>0, <1>4, InvParts, RefetchedAsks DEF Refresh
  <2>2. UserOK'
    BY <1>0, <1>4, BudgetType DEF Refresh, UserOK
  <2>3. TableExists'
    BY <1>4, InvParts DEF Refresh, TableExists, Database
  <2>. QED
    BY <1>4, <2>1, <2>2, <2>3, AskStep DEF Refresh, Writes
<1>. QED
  BY <1>1, <1>2, <1>3, <1>4 DEF Explorer

-----------------------------------------------------------------------------
(* Fetches                                                                 *)

\* What is true of the entry e of the key k, when the view is owed the version d.
EntryGood(k, e, d) ==
    /\ e.data # None => Credible(k, Value(e.data))
    /\ (e.fetch = "read") = (e.answer # None)
    /\ e.answer # None => Credible(k, Value(e.answer))
    /\ e.fetch # "off" => PageExists(k)
    /\ d <= at
    /\ d > 0 => e.data # None
    /\ e.fetch = "off" /\ d > 0 => d <= Value(e.data).at
    /\ e.fetch = "read" => d <= Value(e.answer).at

LEMMA EntryIsGood == \A k : EntryOK(k) <=> EntryGood(k, cache[k], due[k])
  BY DEF EntryOK, EntryGood

LEMMA EntryStaysGood ==
  ASSUME NEW k, UNCHANGED Database, EntryGood(k, cache'[k], due'[k])
  PROVE  EntryOK(k)'
<1>1. /\ at' = at /\ \A d : Credible(k, d)' <=> Credible(k, d)
      /\ PageExists(k)' <=> PageExists(k)
  BY DEF Database, Credible, PageExists
<1>. QED
  BY <1>1 DEF EntryOK, EntryGood

\* A step that answers or drops the fetch of one key.
LEMMA OneEntryStep ==
  ASSUME ViewsInv, UserOK', UNCHANGED <<table, Database, write, wrote>>,
         NEW k \in Keys, NEW e \in Entry(Answers), NEW d \in {0, due[k]},
         cache' = [cache EXCEPT ![k] = e],
         due' = [due EXCEPT ![k] = d],
         EntryGood(k, e, d)
  PROVE  ViewsInv'
<1>1. /\ UserOK /\ DataOK /\ CacheOK /\ WriteOK /\ TableExists /\ WroteOK
      /\ \A j \in Keys : EntryOK(j)
  BY InvParts
<1>2. CacheOK' /\ \A j \in Keys : cache'[j] = IF j = k THEN e ELSE cache[j]
  BY <1>1 DEF CacheOK
<1>3. due \in [Keys -> 0..MaxChanges] /\ 0 \in 0..MaxChanges
  BY <1>1, ViewsAssumption DEF DataOK
<1>4. due' \in [Keys -> 0..MaxChanges] /\ \A j \in Keys : due'[j] = IF j = k THEN d ELSE due[j]
  BY <1>3
<1>5. ASSUME NEW j \in Keys PROVE EntryOK(j)'
  <2>1. CASE j = k
    BY <1>2, <1>4, <2>1, EntryStaysGood
  <2>2. CASE j # k
    BY <1>1, <1>2, <1>4, <2>2, EntryIsGood, EntryStaysGood
  <2>. QED
    BY <2>1, <2>2
<1>6. DataOK' /\ WriteOK' /\ WroteOK' /\ TableExists'
  BY <1>1, <1>4 DEF DataOK, WriteOK, WroteOK, TableExists, Database
<1>. QED
  BY <1>2, <1>5, <1>6, PartsInv

LEMMA PollInv ==
  ASSUME ViewsInv, NEW n \in Names, Poll(n)
  PROVE  ViewsInv'
<1>1. UserOK /\ CacheOK /\ TableExists /\ table \in Tables /\ search.debounced \in Filters
  BY InvParts DEF UserOK
<1>2. /\ KeyOf(n) \in Keys
      /\ KeyOf(n)[1] = "jobs" => KeyOf(n)[2] = table
  BY <1>1, KeyFacts DEF KeyOf
<1>3. AsksAll(table)
  BY <1>1, <1>2 DEF Poll, CacheOK, AsksAll, Asks
<1>4. UserOK' /\ TableExists'
  BY <1>1, BudgetType DEF Poll, UserOK, TableExists, Database
<1>. QED
  BY <1>3, <1>4, AskStep DEF Poll, Writes

LEMMA ReadInv ==
  ASSUME ViewsInv, NEW k \in Keys, Read(k)
  PROVE  ViewsInv'
<1>. DEFINE v == [at |-> at, total |-> found[k[2].filter]]
            e == Answered(cache[k], v)
<1>1. UserOK /\ DataOK /\ cache[k] \in Entry(Answers) /\ EntryOK(k) /\ k[2] \in Tables
  BY InvParts, KeysAreLists DEF CacheOK
<1>2. /\ k[2].filter \in Filters /\ k[2].page \in Nat /\ k[2].size \in Nat
      /\ found[k[2].filter] \in 0..MaxRows /\ found[k[2].filter] \in Nat
      /\ at \in 0..MaxChanges /\ at \in Nat
  <2>1. /\ k[2].filter \in Filters /\ k[2].page \in 0..MaxRows /\ k[2].size \in PageSizes
    BY <1>1 DEF Tables
  <2>2. /\ found \in [Filters -> 0..MaxRows] /\ at \in 0..MaxChanges
    BY <1>1 DEF DataOK
  <2>. QED
    BY <2>1, <2>2, Bounds
<1>3. v \in Answers /\ v.at = at /\ v.total = found[k[2].filter]
  BY <1>2 DEF Answers
<1>4. cache' = [cache EXCEPT ![k] = e] /\ due' = due /\ cache[k].fetch = "sent"
  BY DEF Read, Writes
<1>. HIDE DEF v
<1>5. /\ e \in Entry(Answers) /\ e.data = cache[k].data
      /\ e.fetch = "read" /\ e.answer # None /\ Value(e.answer) = v
  BY <1>1, <1>3, AnsweredFacts
<1>6. PageExists(k)
  BY <1>1, <1>4 DEF EntryOK
<1>7. k[2].page * k[2].size \in Nat
  BY <1>2
<1>8. Credible(k, v)
  BY <1>2, <1>3, <1>6, <1>7 DEF Credible, PageExists, Items
<1>9. EntryGood(k, e, due[k])
  BY <1>1, <1>3, <1>5, <1>6, <1>8 DEF EntryOK, EntryGood
<1>10. UserOK'
  BY <1>1, BudgetType DEF Read, UserOK
<1>11. due' = [due EXCEPT ![k] = due[k]]
  BY <1>1, <1>4 DEF DataOK
<1>. HIDE DEF e
<1>. QED
  BY <1>4, <1>5, <1>9, <1>10, <1>11, OneEntryStep DEF Read, Writes

LEMMA FetchFailsInv ==
  ASSUME ViewsInv, NEW k \in Keys, FetchFails(k)
  PROVE  ViewsInv'
<1>. DEFINE e == Failed(cache[k])
<1>1. UserOK /\ DataOK /\ cache[k] \in Entry(Answers) /\ EntryOK(k)
  BY InvParts DEF CacheOK
<1>2. e \in Entry(Answers) /\ e.data = cache[k].data /\ e.fetch = "off" /\ e.answer = None
  BY <1>1, EntryFacts
<1>3. at \in Nat
  BY <1>1, ViewsAssumption DEF DataOK
<1>4. EntryGood(k, e, 0)
  BY <1>1, <1>2, <1>3 DEF EntryOK, EntryGood
<1>5. UserOK'
  BY <1>1, BudgetType DEF FetchFails, UserOK
<1>6. cache' = [cache EXCEPT ![k] = e]
  BY DEF FetchFails
<1>. HIDE DEF e
<1>. QED
  BY <1>2, <1>4, <1>5, <1>6, OneEntryStep DEF FetchFails

LEMMA ArriveInv ==
  ASSUME ViewsInv, NEW k \in Keys, Arrive(k)
  PROVE  ViewsInv'
<1>. DEFINE c == [cache EXCEPT ![k] = Arrived(@)]
            asked == {m \in Mounted \intersect Names :
                        Enabled(m, c, search.debounced) /\ ~ Enabled(m, cache, search.debounced)}
            woken == {KeyOf(n) : n \in asked}
<1>1. /\ UserOK /\ DataOK /\ CacheOK /\ WriteOK /\ TableExists /\ WroteOK
      /\ \A j \in Keys : EntryOK(j) /\ cache[j] \in Entry(Answers)
      /\ table \in Tables /\ search.debounced \in Filters
  BY InvParts DEF UserOK, CacheOK
<1>2. cache' = [j \in Keys |-> IF j \in woken THEN Begun(c[j]) ELSE c[j]]
  BY DEF Arrive
<1>3. /\ UNCHANGED <<route, detail, table, search, Database, Writes>> /\ NoBudget
      /\ cache[k].fetch = "read"
  BY DEF Arrive
<1>4. ASSUME NEW j \in woken PROVE PageExists(j)
  <2>1. PICK n \in asked : j = KeyOf(n)
    OBVIOUS
  <2>2. j[1] = "jobs" => j[2] = table
    BY <1>1, <2>1, KeyFacts DEF KeyOf
  <2>. QED
    BY <1>1, <2>2 DEF TableExists, PageExists
<1>5. \A j \in Keys : c[j] = IF j = k THEN Arrived(cache[k]) ELSE cache[j]
  BY <1>1 DEF CacheOK
<1>. HIDE DEF c, woken
<1>6. ASSUME NEW j \in Keys
      PROVE  c[j] \in Entry(Answers) /\ EntryGood(j, c[j], due[j])
  <2>1. CASE j = k
    <3>1. c[j] = Arrived(cache[j]) /\ cache[j].fetch = "read"
      BY <1>3, <1>5, <2>1
    <3>2. /\ c[j] \in Entry(Answers) /\ c[j].data = cache[j].answer
          /\ c[j].fetch = "off" /\ c[j].answer = None
      BY <1>1, <3>1, EntryFacts
    <3>. QED
      BY <1>1, <3>1, <3>2 DEF EntryOK, EntryGood
  <2>2. CASE j # k
    BY <1>1, <1>5, <2>2, EntryIsGood
  <2>. QED
    BY <2>1, <2>2
<1>7. ASSUME NEW j \in Keys
      PROVE  cache'[j] \in Entry(Answers) /\ EntryGood(j, cache'[j], due[j])
  <2>1. CASE j \in woken
    <3>1. cache'[j] = Begun(c[j]) /\ PageExists(j)
      BY <1>2, <1>4, <2>1
    <3>2. /\ Begun(c[j]) \in Entry(Answers) /\ Begun(c[j]).data = c[j].data
          /\ Begun(c[j]).answer = c[j].answer
          /\ Begun(c[j]).fetch = IF c[j].fetch = "off" THEN "sent" ELSE c[j].fetch
      BY <1>6, EntryFacts
    <3>. QED
      BY <1>6, <3>1, <3>2 DEF EntryGood
  <2>2. CASE j \notin woken
    BY <1>2, <1>6, <2>2
  <2>. QED
    BY <2>1, <2>2
<1>8. \A j \in Keys : EntryOK(j)'
  BY <1>3, <1>7, EntryStaysGood DEF Writes
<1>9. CacheOK'
  BY <1>2, <1>7 DEF CacheOK
<1>10. UserOK' /\ DataOK' /\ WriteOK' /\ TableExists' /\ WroteOK'
  BY <1>1, <1>3, BudgetType DEF UserOK, DataOK, WriteOK, TableExists, WroteOK, Database, Writes
<1>. QED
  BY <1>8, <1>9, <1>10, PartsInv

LEMMA FetchingInv ==
  ASSUME ViewsInv, Fetching
  PROVE  ViewsInv'
  BY PollInv, ReadInv, ArriveInv, FetchFailsInv DEF Fetching

-----------------------------------------------------------------------------
(* Writes                                                                  *)

\* While nothing has vanished, what is found does not shrink.
LEMMA ChangedFinds ==
  ASSUME DataOK, Changed, NEW g \in Filters
  PROVE  /\ found[g] \in Nat /\ found'[g] \in Nat
         /\ ~ vanished' => ~ vanished /\ found[g] <= found'[g]
<1>1. PICK f \in Filters, n \in 0..MaxRows :
        /\ found' = [found EXCEPT ![f] = n]
        /\ vanished' = (vanished \/ n < found[f])
  BY DEF Changed
<1>2. found \in [Filters -> 0..MaxRows]
  BY DEF DataOK
<1>3. found[g] \in Nat /\ found[f] \in Nat /\ n \in Nat
  BY <1>2, Bounds
<1>4. found'[g] = IF g = f THEN n ELSE found[g]
  BY <1>1, <1>2
<1>5. ~ vanished' => ~ vanished /\ ~ n < found[f]
  BY <1>1
<1>. QED
  BY <1>3, <1>4, <1>5

\* A change of the database keeps every entry good: answers are of the past, and
\* what was found is still found unless something vanished.
LEMMA ChangedEntries ==
  ASSUME DataOK, Changed, UNCHANGED <<cache, due>>, CacheOK,
         NEW k \in Keys, EntryOK(k)
  PROVE  EntryOK(k)'
<1>. DEFINE x == found[k[2].filter]  y == found'[k[2].filter]
            items == k[2].page * k[2].size
<1>1. /\ k[2].filter \in Filters /\ k[2].page \in 0..MaxRows /\ k[2].size \in PageSizes
      /\ at \in 0..MaxChanges
  BY KeysAreLists DEF Tables, DataOK
<1>2. at' = at + 1 /\ at \in Nat /\ items \in Nat
  BY <1>1, Bounds DEF Changed
<1>3. x \in Nat /\ y \in Nat /\ (~ vanished' => ~ vanished /\ x <= y)
  BY <1>1, ChangedFinds
<1>. DEFINE e == cache[k]
<1>4. e \in Entry(Answers)
  BY DEF CacheOK
<1>5. /\ e.data # None => Value(e.data) \in Answers
      /\ e.answer # None => Value(e.answer) \in Answers
  <2>1. e.data \in Option(Answers) /\ e.answer \in Option(Answers)
    BY <1>4 DEF Entry
  <2>. QED
    BY <2>1, OptionFacts
<1>6. \A d \in Answers : Credible(k, d) => Credible(k, d)'
  <2>. SUFFICES ASSUME NEW d \in Answers, Credible(k, d)
                PROVE  Credible(k, d)'
    OBVIOUS
  <2>1. d.at \in Nat /\ d.total \in Nat
    BY ViewsAssumption DEF Answers
  <2>. QED
    BY <1>2, <1>3, <2>1 DEF Credible, Items
<1>7. PageExists(k) => PageExists(k)'
  BY <1>2, <1>3 DEF PageExists
<1>8. due[k] \in Nat /\ due'[k] = due[k] /\ cache'[k] = e
  BY ViewsAssumption DEF DataOK
<1>9. due[k] <= at => due[k] <= at'
  BY <1>2, <1>8
<1>. HIDE DEF e, x, y, items
<1>10. EntryOK(k) <=> EntryGood(k, e, due[k])
  BY EntryIsGood DEF e
<1>. QED
  BY <1>5, <1>6, <1>7, <1>8, <1>9, <1>10 DEF EntryOK, EntryGood, e

LEMMA ChangedTable ==
  ASSUME DataOK, UserOK, Changed, table' = table, TableExists
  PROVE  TableExists'
<1>. DEFINE x == found[table.filter]  y == found'[table.filter]
            items == table.page * table.size
<1>1. table.filter \in Filters /\ table.page \in 0..MaxRows /\ table.size \in PageSizes
  BY DEF Tables, UserOK
<1>2. items \in Nat
  BY <1>1, Bounds
<1>3. x \in Nat /\ y \in Nat /\ (~ vanished' => ~ vanished /\ x <= y)
  BY <1>1, ChangedFinds
<1>. QED
  BY <1>2, <1>3 DEF TableExists

LEMMA ChangedData ==
  ASSUME DataOK, Changed
  PROVE  /\ at' \in 0..MaxChanges /\ at' = at + 1 /\ at \in Nat
         /\ found' \in [Filters -> 0..MaxRows] /\ vanished' \in BOOLEAN
<1>1. at \in 0..MaxChanges /\ at < MaxChanges /\ at' = at + 1
  BY DEF DataOK, Changed
<1>2. PICK f \in Filters, n \in 0..MaxRows :
        /\ found' = [found EXCEPT ![f] = n]
        /\ vanished' = (vanished \/ n < found[f])
  BY DEF Changed
<1>3. found' \in [Filters -> 0..MaxRows] /\ vanished' \in BOOLEAN
  BY <1>2 DEF DataOK
<1>. QED
  BY <1>1, <1>3, ViewsAssumption

\* Somebody's write takes effect: of this user, or another.
LEMMA ChangedInv ==
  ASSUME ViewsInv, Changed, UserOK', WriteOK', UNCHANGED <<table, cache, due>>,
         \/ wrote' = wrote
         \/ \E m \in Kinds : wrote' = [wrote EXCEPT ![m] = at']
  PROVE  ViewsInv'
<1>1. /\ UserOK /\ DataOK /\ CacheOK /\ TableExists /\ WroteOK
      /\ \A k \in Keys : EntryOK(k)
  BY InvParts
<1>2. /\ at' \in 0..MaxChanges /\ at' = at + 1 /\ at \in Nat
      /\ found' \in [Filters -> 0..MaxRows] /\ vanished' \in BOOLEAN
  BY <1>1, ChangedData
<1>3. wrote \in [Kinds -> 0..MaxChanges]
  BY <1>1 DEF DataOK
<1>4. wrote' \in [Kinds -> 0..MaxChanges] /\ \A m \in Kinds : wrote'[m] \in {wrote[m], at'}
  BY <1>2, <1>3
<1>5. \A m \in Kinds : wrote[m] \in Nat /\ wrote[m] <= at
  BY <1>1, <1>3, ViewsAssumption DEF WroteOK
<1>6. WroteOK'
  BY <1>2, <1>4, <1>5 DEF WroteOK
<1>7. DataOK' /\ CacheOK'
  BY <1>1, <1>2, <1>4 DEF DataOK, CacheOK
<1>8. TableExists' /\ \A k \in Keys : EntryOK(k)'
  BY <1>1, ChangedEntries, ChangedTable
<1>. QED
  BY <1>6, <1>7, <1>8, PartsInv

\* The list that a write is made on is one that its answer invalidates.
LEMMA TargetInvalidated ==
  ASSUME NEW m \in Kinds
  PROVE  Target(m) \in Invalidates(m)
<1>1. m \in {"create", "replay", "detail-replay", "prune", "decommission",
             "create-queue", "queue-write", "delete-queue"}
  BY ViewsAssumption
<1>. QED
  BY <1>1 DEF Target, Invalidates

LEMMA SucceedInv ==
  ASSUME ViewsInv, NEW m \in Kinds, Succeed(m)
  PROVE  ViewsInv'
<1>. DEFINE n == Target(m)
            owed(k) == Active(n) /\ k = KeyOf(n) /\ cache[k].data # None /\ due[k] < wrote[m]
<1>1. /\ UserOK /\ DataOK /\ CacheOK /\ WriteOK /\ TableExists /\ WroteOK
      /\ \A k \in Keys : EntryOK(k) /\ cache[k] \in Entry(Answers)
      /\ table \in Tables /\ search.debounced \in Filters
  BY InvParts DEF UserOK, CacheOK
<1>2. /\ cache' = Refetched(Invalidates(m))
      /\ due' = [k \in Keys |-> IF owed(k) THEN wrote[m] ELSE due[k]]
      /\ UNCHANGED <<route, table, search, Database, wrote>> /\ NoBudget
      /\ write' = [write EXCEPT ![m] = "off"]
      /\ detail' = (detail /\ m # "detail-replay")
  BY DEF Succeed
<1>3. /\ wrote[m] \in 0..MaxChanges /\ wrote[m] <= at
      /\ \A k \in Keys : due[k] \in 0..MaxChanges
  BY <1>1 DEF DataOK, WroteOK
<1>4. AsksAll(table) /\ n \in Invalidates(m)
  BY <1>1, <1>2, RefetchedAsks, TargetInvalidated
<1>5. ASSUME NEW k \in Keys, owed(k)
      PROVE  cache'[k] = Restarted(cache[k]) /\ k = KeyOf(n) /\ cache[k].data # None
  <2>. DEFINE asked == {j \in Invalidates(m) : Active(j)}
              keys == {KeyOf(j) : j \in asked}
  <2>1. cache' = [j \in Keys |-> IF j \in keys THEN Restarted(cache[j]) ELSE cache[j]]
    BY <1>2 DEF Refetched
  <2>2. Active(n) /\ k = KeyOf(n) /\ cache[k].data # None
    BY <1>5
  <2>3. k \in keys
    BY <1>4, <2>2
  <2>. HIDE DEF keys
  <2>. QED
    BY <2>1, <2>2, <2>3
<1>. HIDE DEF owed, n
<1>6. ASSUME NEW k \in Keys
      PROVE  EntryOK(k)' /\ cache'[k] \in Entry(Answers)
  <2>1. Asks(k, table)
    BY <1>4 DEF AsksAll
  <2>2. k[1] # "jobs" \/ k[2] = table => PageExists(k)
    BY <1>1 DEF TableExists, PageExists
  <2>3. cache'[k] = cache[k] \/ (cache'[k] \in {Begun(cache[k]), Restarted(cache[k])} /\ PageExists(k))
    BY <2>1, <2>2 DEF Asks
  <2>4. CASE owed(k)
    <3>1. cache'[k] = Restarted(cache[k]) /\ cache[k].data # None
      BY <1>5, <2>4
    <3>2. /\ cache'[k] \in Entry(Answers) /\ cache'[k].data = cache[k].data
          /\ cache'[k].fetch = "sent" /\ cache'[k].answer = None
      BY <1>1, <3>1, RestartedFacts
    <3>3. due'[k] = wrote[m]
      BY <1>2, <2>4
    <3>4. PageExists(k) \/ cache'[k] = cache[k]
      BY <2>3
    <3>5. cache'[k].fetch # "off" => PageExists(k)
      BY <1>1, <3>4 DEF EntryOK
    <3>6. EntryGood(k, cache'[k], due'[k])
      BY <1>1, <1>3, <3>1, <3>2, <3>3, <3>5 DEF EntryOK, EntryGood
    <3>. QED
      BY <1>2, <3>2, <3>6, EntryStaysGood
  <2>5. CASE ~ owed(k)
    <3>1. due'[k] = due[k]
      BY <1>2, <2>5
    <3>2. PageExists(k) => PageExists(k)'
      BY <1>2 DEF PageExists, Database
    <3>. QED
      BY <1>1, <1>2, <2>3, <3>1, <3>2, AskedEntry
  <2>. QED
    BY <2>4, <2>5
<1>7. CacheOK'
  BY <1>4, <1>6 DEF CacheOK, AsksAll
<1>8. due' \in [Keys -> 0..MaxChanges]
  BY <1>2, <1>3
<1>9. UserOK' /\ WriteOK' /\ DataOK' /\ TableExists' /\ WroteOK'
  BY <1>1, <1>2, <1>8, BudgetType
     DEF UserOK, WriteOK, DataOK, TableExists, WroteOK, Database
<1>. QED
  BY <1>6, <1>7, <1>9, PartsInv

\* A button is pressed, or the write it made is lost: the cache does not change.
LEMMA WriteStateInv ==
  ASSUME ViewsInv, NEW m \in Kinds, Mutate(m) \/ MutationFails(m)
  PROVE  ViewsInv'
<1>1. UserOK /\ CacheOK /\ WriteOK /\ TableExists
  BY InvParts
<1>2. WriteOK' /\ UserOK'
  BY <1>1, BudgetType DEF Mutate, MutationFails, WriteOK, UserOK
<1>3. UNCHANGED <<table, cache, at, found, vanished, wrote, due>>
  BY DEF Mutate, MutationFails, Database
<1>4. /\ DataOK' /\ CacheOK' /\ TableExists' /\ WroteOK'
  BY <1>1, <1>3, InvParts DEF DataOK, CacheOK, TableExists, WroteOK
<1>5. ASSUME NEW k \in Keys PROVE EntryOK(k)'
  BY <1>3, InvParts, EntryIsGood, EntryStaysGood DEF Database
<1>. QED
  BY <1>2, <1>4, <1>5, PartsInv

LEMMA WritingInv ==
  ASSUME ViewsInv, Writing
  PROVE  ViewsInv'
<1>1. UserOK /\ WriteOK
  BY InvParts
<1>2. CASE Change
  <2>1. UserOK' /\ WriteOK'
    BY <1>1, <1>2, BudgetType DEF Change, UserOK, WriteOK, Writes
  <2>. QED
    BY <1>2, <2>1, ChangedInv DEF Change, Writes
<1>3. ASSUME NEW m \in Kinds, Commit(m) PROVE ViewsInv'
  <2>1. UserOK' /\ WriteOK'
    BY <1>1, <1>3, BudgetType DEF Commit, UserOK, WriteOK
  <2>. QED
    BY <1>3, <2>1, ChangedInv DEF Commit
<1>. QED
  BY <1>2, <1>3, SucceedInv, WriteStateInv DEF Writing

-----------------------------------------------------------------------------
(* The invariant and what follows from it                                  *)

LEMMA InitInv == ASSUME Init PROVE ViewsInv
<1>1. /\ 0 \in 0..MaxRows /\ 0 \in 0..MaxChanges
      /\ 0 \in Nat /\ ClickBudget \in 0..ClickBudget /\ FaultBudget \in 0..FaultBudget
      /\ NoText \in Filters
  BY ViewsAssumption
<1>2. FirstTable \in Tables /\ FirstTable.page = 0
  BY FirstTableType
<1>3. found \in [Filters -> 0..MaxRows]
  BY FoundAssumption DEF Init
<1>4. /\ Blank \in Entry(Answers) /\ Blank.data = None /\ Blank.fetch = "off"
      /\ Blank.answer = None
  <2>1. None \in Option(Answers)
    BY OptionFacts
  <2>. QED
    BY <2>1 DEF Blank, Entry
<1>5. /\ Begun(Blank) \in Entry(Answers) /\ Begun(Blank).data = None
      /\ Begun(Blank).fetch = "sent" /\ Begun(Blank).answer = None
  BY <1>4, EntryFacts
<1>6. ASSUME NEW k \in Keys
      PROVE  cache[k] = Blank \/ (cache[k] = Begun(Blank) /\ k[2] = FirstTable)
  BY DEF Init
<1>7. CacheOK
  BY <1>4, <1>5, <1>6 DEF CacheOK, Init
<1>8. TypeOK
  BY <1>1, <1>2, <1>3, <1>7 DEF TypeOK, CacheOK, Init
<1>9. at = 0 /\ \A k \in Keys : due[k] = 0
  BY DEF Init
<1>10. AnswersCredible
  BY <1>4, <1>5, <1>6 DEF AnswersCredible
<1>11. PagesExist
  BY <1>2, <1>4, <1>6 DEF PagesExist, Init
<1>12. DebtsAreServed
  BY <1>4, <1>5, <1>6, <1>9 DEF DebtsAreServed, Init
<1>. QED
  BY <1>8, <1>10, <1>11, <1>12 DEF ViewsInv

LEMMA NextInv ==
  ASSUME ViewsInv, [Next]_vars
  PROVE  ViewsInv'
<1>1. CASE Next
  BY <1>1, NavigationInv, ExplorerInv, FetchingInv, WritingInv DEF Next
<1>2. CASE UNCHANGED vars
  BY <1>2 DEF vars, Database, Writes, ViewsInv, TypeOK, AnswersCredible, Credible, PagesExist, DebtsAreServed
<1>. QED
  BY <1>1, <1>2

\* The entries of the cache, the pages asked for and the versions owed keep in step,
\* in whatever order the user, the fetches and the writes take their steps.
THEOREM ViewsInSync == Spec => []ViewsInv
<1>1. Init => ViewsInv
  BY InitInv
<1>2. ViewsInv /\ [Next]_vars => ViewsInv'
  BY NextInv
<1>. QED
  BY <1>1, <1>2, PTL DEF Spec

\* A list with no fetch left is not older than the write of this user it was told
\* about by onSuccess (invalidateQueries of every page), for any number of queries,
\* filters and changes of the database.
THEOREM WritesAreSeen == Spec => []FreshAfterWrite
<1>1. ViewsInv => FreshAfterWrite
  <2>. SUFFICES ASSUME ViewsInv, NEW k \in Keys, cache[k].fetch = "off", due[k] > 0
                PROVE  Value(cache[k].data).at >= due[k]
    BY DEF FreshAfterWrite
  <2>1. EntryOK(k) /\ due[k] \in Nat
    BY InvParts, Bounds DEF DataOK
  <2>2. cache[k].data \in Option(Answers) /\ cache[k].data # None
    BY <2>1, InvParts DEF CacheOK, Entry, EntryOK
  <2>3. Value(cache[k].data) \in Answers
    BY <2>2, OptionFacts
  <2>4. Value(cache[k].data).at \in Nat
    BY <2>3, Bounds DEF Answers
  <2>. QED
    BY <2>1, <2>4 DEF EntryOK
<1>. QED
  BY <1>1, ViewsInSync, PTL

\* The explorer says that no jobs match only when none do (Jobs.tsx resets the page
\* with every filter and size, and its pager stops at the total), until jobs vanish.
THEOREM EmptyMeansNone == Spec => []EmptyIsHonest
<1>1. ViewsInv => EmptyIsHonest
  <2>. DEFINE k == <<"jobs", table>>  d == Value(cache[k].data)
              shown == table.page * table.size
  <2>. SUFFICES ASSUME ViewsInv, route = "jobs", "jobs" \in Names, TableShows = "empty",
                       ~ vanished, cache[k].data # None
                PROVE  d.total = 0
    BY DEF EmptyIsHonest
  <2>1. UserOK /\ table \in Tables /\ search.debounced \in Filters
    BY InvParts DEF UserOK
  <2>2. KeyOf("jobs") = k /\ k \in Keys /\ k[1] = "jobs" /\ k[2] = table
    BY <2>1, KeyFacts DEF KeyOf
  <2>3. EntryOK(k) /\ cache[k].data \in Option(Answers)
    BY <2>2, InvParts DEF CacheOK, Entry
  <2>4. d \in Answers
    BY <2>3, OptionFacts
  <2>5. d.total \in Nat
    BY <2>4, Bounds DEF Answers
  <2>6. ~ JobRows
    <3>1. ~ Loading(cache[k])
      BY DEF Loading
    <3>. QED
      BY <3>1 DEF TableShows
  <2>7. ~ Items(table, d) > 0
    BY <2>2, <2>6 DEF JobRows, Rows
  <2>8. table.page \in Nat /\ table.size \in Nat
    BY <2>1, Bounds DEF Tables
  <2>9. shown \in Nat /\ (table.page = 0 => shown = 0)
    BY <2>8
  <2>10. ~ d.total - shown > 0
    BY <2>7 DEF Items
  <2>11. table.page = 0 \/ Items(table, d) > 0
    BY <2>2, <2>3 DEF EntryOK, Credible
  <2>. HIDE DEF d, shown
  <2>. QED
    BY <2>5, <2>7, <2>9, <2>10, <2>11
<1>. QED
  BY <1>1, ViewsInSync, PTL
=============================================================================
