------------------------- MODULE WebQueueAdmin_proofs -------------------------
(***************************************************************************)
(* Proofs about WebQueueAdmin: for any number of administrators, mutations *)
(* and jobs, a save writes back nothing older than the poll it followed,   *)
(* nothing but a resume resumes a queue, and a queue goes only by a delete *)
(* of its own, with no active job but those that came after the count.     *)
(***************************************************************************)
EXTENDS WebQueueAdmin, FiniteSetTheorems, TLAPS

-----------------------------------------------------------------------------
(* Types                                                                   *)

Stages == {"over", "project", "ready", "sent", "counted", "done", "refused", "invalid"}

CallRecord ==
    [kind : Kinds, by : Admins \union {"nobody"}, queue : Nat, body : Config, stage : Stages,
     into : 0..MaxProjects, fine : BOOLEAN, mine : BOOLEAN, late : SUBSET Jobs]

CallType == {r \in CallRecord : r.mine => r.by \in Admins}

CardType == [editOpen : BOOLEAN, form : Config, touched : SUBSET Fields,
             deleteOpen : BOOLEAN, deleteError : BOOLEAN]

\* What has been read for a fetch is there.
Entries == {e \in Lists : e.fetch = "read" => e.answer # None}

CreateType == [open : BOOLEAN, error : {"text", "list"}, named : BOOLEAN, fine : BOOLEAN]

ServerOK ==
    /\ projects \in 0..MaxProjects
    /\ rows \in [Projects -> Rows]
    /\ made \in Ids
    /\ jobs \in [Jobs -> {"new", "active", "over", "purged"}]

PageOK ==
    /\ home \in [Admins -> {"unknown", "none", "first"}] /\ asking \in [Admins -> BOOLEAN]
    /\ list \in [Admins -> Entries]
    /\ card \in [Admins -> CardType]
    /\ create \in [Admins -> CreateType]
    /\ blank \subseteq Admins

CallsOK == calls \in [Calls -> CallType]
ClicksOK == clicks \in 0..ClickBudget

Typed == ServerOK /\ PageOK /\ CallsOK /\ ClicksOK

LEMMA TypedIsTypeOK == Typed => TypeOK
<1>1. Entries \subseteq Lists
  BY DEF Entries
<1>2. ASSUME CallsOK
      PROVE  /\ calls \in [Calls -> CallRecord]
             /\ \A c \in Calls : calls[c].mine => calls[c].by \in Admins
  BY <1>2 DEF CallsOK, CallType, CallRecord
<1>. QED
  BY <1>1, <1>2 DEF Typed, TypeOK, ServerOK, PageOK, ClicksOK, CallRecord, CardType,
     CreateType, Stages

LEMMA OptionFacts ==
  /\ \A v : Some(v) # None /\ Value(Some(v)) = v
  /\ \A S, v : v \in S => Some(v) \in Option(S)
  /\ \A S : None \in Option(S)
  /\ \A S : \A o \in Option(S) : o # None => Value(o) \in S /\ o = Some(Value(o))
  BY DEF Some, None, Value, Option

\* A fetch that begins, is answered, is restarted or fails leaves the data alone.
LEMMA EntryFacts ==
  ASSUME NEW e \in Entries
  PROVE  /\ Begun(e) \in Entries /\ Begun(e).data = e.data
         /\ Restarted(e) \in Entries /\ Restarted(e).data = e.data
         /\ Failed(e) \in Entries /\ Failed(e).data = e.data
         /\ Arrived(e) \in Entries /\ Arrived(e).data = e.answer
         /\ e.data \in Option(Option(Shown)) /\ e.answer \in Option(Option(Shown))
         /\ e.fetch = "read" => e.answer # None
<1>. DEFINE O == Option(Option(Shown))
<1>1. None \in O
  BY OptionFacts
<1>2. Lists = [data : O, fetch : {"off", "sent", "read"}, answer : O]
  BY DEF Lists, Entry
<1>. HIDE DEF O
<1>3. Begun(e) \in Entries /\ Begun(e).data = e.data
  BY <1>1, <1>2 DEF Begun, Entries
<1>4. Restarted(e) \in Entries /\ Restarted(e).data = e.data
  BY <1>1, <1>2, <1>3 DEF Restarted, Entries
<1>5. /\ Failed(e) \in Entries /\ Failed(e).data = e.data
      /\ Arrived(e) \in Entries /\ Arrived(e).data = e.answer
      /\ e.data \in O /\ e.answer \in O
      /\ e.fetch = "read" => e.answer # None
  BY <1>1, <1>2 DEF Failed, Arrived, Entries
<1>. QED
  BY <1>3, <1>4, <1>5 DEF O

LEMMA AnsweredFacts ==
  ASSUME NEW e \in Entries, NEW v \in Option(Shown)
  PROVE  Answered(e, v) \in Entries /\ Answered(e, v).data = e.data
<1>. DEFINE O == Option(Option(Shown))  o == Some(v)
<1>1. o \in O /\ o # None
  BY OptionFacts
<1>2. Lists = [data : O, fetch : {"off", "sent", "read"}, answer : O]
  BY DEF Lists, Entry
<1>3. Answered(e, v) = [e EXCEPT !.fetch = "read", !.answer = o]
  BY DEF Answered
<1>. HIDE DEF O, o
<1>. QED
  BY <1>1, <1>2, <1>3 DEF Entries

LEMMA ConfigFacts ==
  /\ Default \in Values /\ FirstConfig \in Config
  /\ \A form \in Config : Body(form) \in Config
<1>1. Default \in Values
  BY AdminsAssumption DEF Default
<1>2. FirstConfig \in Config
  BY <1>1 DEF FirstConfig, Config
<1>3. ASSUME NEW form \in Config PROVE Body(form) \in Config
  BY <1>1 DEF Body, Config
<1>. QED
  BY <1>1, <1>2, <1>3

LEMMA UnsentType ==
  /\ Unsent \in CallType
  /\ Unsent.kind = "off" /\ ~ Unsent.mine /\ Unsent.stage = "over"
<1>1. 0 \in 0..MaxProjects /\ 0 \in Nat
  BY AdminsAssumption
<1>. QED
  BY <1>1, ConfigFacts DEF Unsent, CallType, CallRecord, Kinds, Stages

LEMMA FreshTypes == FreshCard \in CardType /\ FreshCreate \in CreateType
  BY ConfigFacts DEF FreshCard, FreshCreate, CardType, CreateType

LEMMA ListingType == ASSUME ServerOK PROVE Listing \in Option(Shown)
<1>. DEFINE r == Value(rows[1])  n == Cardinality(Active)
<1>1. CASE rows[1] = None
  BY <1>1, OptionFacts DEF Listing
<1>2. CASE rows[1] # None
  <2>1. 1 \in Projects
    BY AdminsAssumption DEF Projects
  <2>2. rows[1] \in Option(Row)
    BY <2>1 DEF ServerOK, Rows
  <2>3. r \in Row
    BY <1>2, <2>2, OptionFacts
  <2>4. n \in 0..Cardinality(Jobs)
    <3>1. Active \subseteq Jobs
      BY DEF Active
    <3>. QED
      BY <3>1, AdminsAssumption, FS_Subset, FS_CardinalityType
  <2>5. Listing = Some([id |-> r.id, config |-> r.config, paused |-> r.paused, count |-> n])
    BY <1>2 DEF Listing
  <2>. HIDE DEF r, n
  <2>6. [id |-> r.id, config |-> r.config, paused |-> r.paused, count |-> n] \in Shown
    BY <2>3, <2>4 DEF Row, Shown
  <2>. QED
    BY <2>5, <2>6, OptionFacts
<1>. QED
  BY <1>1, <1>2

\* The card shows a queue.
LEMMA QueueType ==
  ASSUME PageOK, NEW a \in Admins, HasCard(a)
  PROVE  Queue(a) \in Shown /\ Queue(a).config \in Config /\ Queue(a).id \in Nat
<1>1. list[a] \in Entries
  BY DEF PageOK
<1>2. list[a].data \in Option(Option(Shown))
  BY <1>1, EntryFacts
<1>3. Value(list[a].data) \in Option(Shown)
  BY <1>2, OptionFacts DEF HasCard
<1>4. Queue(a) \in Shown
  BY <1>3, OptionFacts DEF HasCard, Queue
<1>. QED
  BY <1>4 DEF Shown, Ids

-----------------------------------------------------------------------------
(* What the steps do to the calls                                          *)

LEMMA CallFields ==
  ASSUME CallsOK, NEW c \in Calls
  PROVE  /\ calls[c] \in CallType
         /\ calls[c].kind \in Kinds /\ calls[c].queue \in Nat
         /\ calls[c].mine => calls[c].by \in Admins
         /\ calls[c].body \in Config /\ calls[c].into \in 0..MaxProjects
         /\ calls[c].mine \in BOOLEAN /\ calls[c].late \subseteq Jobs
  BY DEF CallsOK, CallType, CallRecord

\* Only the stage of one call changes, and what project it is for.
Staged(c, s, p) ==
    /\ CallsOK'
    /\ \A d \in Calls :
         /\ calls'[d].kind = calls[d].kind /\ calls'[d].by = calls[d].by
         /\ calls'[d].queue = calls[d].queue /\ calls'[d].body = calls[d].body
         /\ calls'[d].mine = calls[d].mine /\ calls'[d].late = calls[d].late
         /\ calls'[d].stage = IF d = c THEN s ELSE calls[d].stage
         /\ calls'[d].into = IF d = c THEN p ELSE calls[d].into

LEMMA ServedEffect ==
  ASSUME CallsOK, NEW c \in Calls, NEW s \in Stages, Served(c, s)
  PROVE  Staged(c, s, calls[c].into)
<1>1. calls' = [calls EXCEPT ![c] = [calls[c] EXCEPT !.stage = s]]
  BY DEF Served
<1>2. \A d \in Calls : calls[d] \in CallType
  BY DEF CallsOK
<1>3. [calls[c] EXCEPT !.stage = s] \in CallType
  BY <1>2 DEF CallType, CallRecord
<1>4. CallsOK'
  BY <1>1, <1>3 DEF CallsOK
<1>. QED
  BY <1>1, <1>2, <1>4 DEF Staged, CallsOK, CallType, CallRecord

LEMMA ReadyEffect ==
  ASSUME CallsOK, NEW c \in Calls, NEW p \in 0..MaxProjects,
         calls' = [calls EXCEPT ![c].stage = "ready", ![c].into = p]
  PROVE  Staged(c, "ready", p)
<1>1. \A d \in Calls : calls[d] \in CallType
  BY DEF CallsOK
<1>2. calls' = [calls EXCEPT ![c] = [calls[c] EXCEPT !.stage = "ready", !.into = p]]
  BY <1>1 DEF CallsOK, CallType, CallRecord
<1>3. [calls[c] EXCEPT !.stage = "ready", !.into = p] \in CallType
  BY <1>1 DEF CallType, CallRecord, Stages
<1>4. CallsOK'
  BY <1>2, <1>3 DEF CallsOK
<1>. QED
  BY <1>1, <1>2, <1>4 DEF Staged, CallsOK, CallType, CallRecord

\* A call is answered or lost: nothing is left of it.
LEMMA OverEffect ==
  ASSUME CallsOK, NEW c \in Calls, Over(c)
  PROVE  /\ CallsOK'
         /\ calls'[c].kind = "over" /\ calls'[c].stage = "over" /\ ~ calls'[c].mine
         /\ \A d \in Calls \ {c} : calls'[d] = calls[d]
<1>1. /\ [Unsent EXCEPT !.kind = "over"] \in CallType
      /\ [Unsent EXCEPT !.kind = "over"].kind = "over"
      /\ [Unsent EXCEPT !.kind = "over"].stage = "over"
      /\ ~ [Unsent EXCEPT !.kind = "over"].mine
  BY UnsentType DEF CallType, CallRecord, Kinds
<1>. QED
  BY <1>1 DEF Over, CallsOK

\* Nobody waits for the call any longer; it is served as before.
LEMMA AbandonedEffect ==
  ASSUME CallsOK, NEW c \in Calls, Abandoned(c)
  PROVE  /\ CallsOK' /\ ~ calls'[c].mine
         /\ \A d \in Calls \ {c} : calls'[d] = calls[d]
         /\ calls'[c] = [calls[c] EXCEPT !.by = "nobody", !.mine = FALSE]
<1>. DEFINE left == [calls[c] EXCEPT !.by = "nobody", !.mine = FALSE]
<1>1. calls[c] \in CallType /\ calls' = [calls EXCEPT ![c] = left]
  BY DEF CallsOK, Abandoned
<1>2. left \in CallRecord /\ ~ left.mine
  BY <1>1 DEF CallType, CallRecord, CallRecord
<1>3. left \in CallType
  BY <1>2 DEF CallType, CallRecord
<1>. HIDE DEF left
<1>4. CallsOK' /\ calls'[c] = left /\ \A d \in Calls \ {c} : calls'[d] = calls[d]
  BY <1>1, <1>3 DEF CallsOK
<1>. QED
  BY <1>2, <1>4 DEF left

\* A new call, as it is sent.
SentAs(a, kind, call, c) ==
    /\ CallsOK'
    /\ calls'[c].kind = kind /\ calls'[c].by = a /\ calls'[c].mine
    /\ calls'[c].queue = call.queue /\ calls'[c].stage = call.stage
    /\ calls'[c].into = call.into
    /\ \A d \in Calls \ {c} : calls'[d] = calls[d]

LEMMA SendsEffect ==
  ASSUME CallsOK, NEW a \in Admins, NEW kind \in Kinds, NEW call \in CallType,
         Sends(a, kind, call)
  PROVE  \E c \in Calls : calls[c].kind = "off" /\ SentAs(a, kind, call, c)
<1>. DEFINE new == [call EXCEPT !.kind = kind, !.by = a, !.mine = TRUE]
<1>1. PICK c \in Calls : calls[c].kind = "off" /\ calls' = [calls EXCEPT ![c] = new]
  BY DEF Sends
<1>2. /\ new \in CallType /\ new.kind = kind /\ new.by = a /\ new.mine
      /\ new.queue = call.queue /\ new.stage = call.stage
      /\ new.into = call.into
  BY DEF CallType, CallRecord
<1>. HIDE DEF new
<1>3. SentAs(a, kind, call, c)
  BY <1>1, <1>2 DEF SentAs, CallsOK
<1>. QED
  BY <1>1, <1>3

LEMMA CardCallFacts ==
  ASSUME PageOK, NEW a \in Admins, HasCard(a), NEW s \in Stages
  PROVE  /\ CardCall(a, s) \in CallType
         /\ CardCall(a, s).queue = Queue(a).id /\ CardCall(a, s).stage = s
  BY UnsentType, QueueType DEF CardCall, CallType, CallRecord

-----------------------------------------------------------------------------
(* Type correctness                                                        *)

LEMMA InitType == ASSUME Init PROVE Typed
<1>1. /\ MaxProjects \in Nat \ {0} /\ MaxQueues \in Nat \ {0} /\ ClickBudget \in Nat
  BY AdminsAssumption
<1>2. 1 \in Projects /\ 1 \in Ids /\ 0 \in 0..MaxProjects /\ 1 \in 0..MaxProjects
      /\ 0 \in 0..ClickBudget
  BY <1>1 DEF Projects, Ids
<1>3. None \in Rows
  BY OptionFacts DEF Rows
<1>4. Some([id |-> 1, config |-> FirstConfig, paused |-> FALSE]) \in Rows
  BY <1>2, ConfigFacts, OptionFacts DEF Rows, Row
<1>5. ServerOK
  BY <1>2, <1>3, <1>4 DEF Init, ServerOK
<1>6. Blank \in Entries
  <2>1. None \in Option(Option(Shown))
    BY OptionFacts
  <2>. QED
    BY <2>1 DEF Blank, Entries, Lists, Entry
<1>7. PageOK
  BY <1>6, FreshTypes DEF Init, PageOK
<1>8. CallsOK /\ ClicksOK
  BY <1>2, UnsentType DEF Init, CallsOK, ClicksOK
<1>. QED
  BY <1>5, <1>7, <1>8 DEF Typed

LEMMA ClickType ==
  ASSUME ClicksOK, NEW a, Click(a) \/ UNCHANGED clicks
  PROVE  ClicksOK'
  BY AdminsAssumption DEF ClicksOK, Click

\* Another list of the same type.
LEMMA ListType ==
  ASSUME PageOK, NEW a \in Admins, NEW e \in Entries, list' = [list EXCEPT ![a] = e],
         UNCHANGED <<home, asking, card, create, blank>>
  PROVE  PageOK' /\ list'[a] = e /\ \A b \in Admins \ {a} : list'[b] = list[b]
  BY DEF PageOK

LEMMA FetchType ==
  ASSUME Typed, NEW a \in Admins,
         ProjectsArrive(a) \/ ProjectsFail(a) \/ Poll(a) \/ Read(a) \/ FetchFails(a)
  PROVE  Typed' /\ \A b \in Admins : list'[b].data = list[b].data
<1>0. ServerOK /\ PageOK /\ CallsOK /\ ClicksOK /\ list[a] \in Entries
  BY DEF Typed, PageOK
<1>1. Listing \in Option(Shown)
  BY <1>0, ListingType
<1>2. UNCHANGED <<server, calls, clicks>>
  BY DEF ProjectsArrive, ProjectsFail, Poll, Read, FetchFails
<1>3. ServerOK' /\ CallsOK' /\ ClicksOK'
  BY <1>0, <1>2 DEF ServerOK, CallsOK, ClicksOK, server, Projects
<1>4. PageOK' /\ \A b \in Admins : list'[b].data = list[b].data
  <2>1. CASE ProjectsArrive(a) \/ ProjectsFail(a)
    BY <1>0, <2>1 DEF ProjectsArrive, ProjectsFail, PageOK
  <2>2. CASE Poll(a)
    <3>. DEFINE e == Answered(Begun(list[a]), Listing)
    <3>1. e \in Entries /\ e.data = list[a].data
      BY <1>0, <1>1, EntryFacts, AnsweredFacts
    <3>2. list' = [list EXCEPT ![a] = e]
      BY <2>2 DEF Poll
    <3>3. UNCHANGED <<home, asking, card, create, blank>>
      BY <2>2 DEF Poll
    <3>. HIDE DEF e
    <3>4. PageOK' /\ list'[a] = e /\ \A b \in Admins \ {a} : list'[b] = list[b]
      BY <1>0, <3>1, <3>2, <3>3, ListType
    <3>. QED
      BY <3>1, <3>4
  <2>3. CASE Read(a)
    <3>. DEFINE e == Answered(list[a], Listing)
    <3>1. e \in Entries /\ e.data = list[a].data
      BY <1>0, <1>1, AnsweredFacts
    <3>2. list' = [list EXCEPT ![a] = e]
      BY <2>3 DEF Read
    <3>3. UNCHANGED <<home, asking, card, create, blank>>
      BY <2>3 DEF Read
    <3>. HIDE DEF e
    <3>4. PageOK' /\ list'[a] = e /\ \A b \in Admins \ {a} : list'[b] = list[b]
      BY <1>0, <3>1, <3>2, <3>3, ListType
    <3>. QED
      BY <3>1, <3>4
  <2>4. CASE FetchFails(a)
    <3>. DEFINE e == Failed(list[a])
    <3>1. e \in Entries /\ e.data = list[a].data
      BY <1>0, EntryFacts
    <3>2. list' = [list EXCEPT ![a] = e]
      BY <2>4 DEF FetchFails
    <3>3. UNCHANGED <<home, asking, card, create, blank>>
      BY <2>4 DEF FetchFails
    <3>. HIDE DEF e
    <3>4. PageOK' /\ list'[a] = e /\ \A b \in Admins \ {a} : list'[b] = list[b]
      BY <1>0, <3>1, <3>2, <3>3, ListType
    <3>. QED
      BY <3>1, <3>4
  <2>. QED
    BY <2>1, <2>2, <2>3, <2>4
<1>. QED
  BY <1>3, <1>4 DEF Typed

\* The card stays when the answer is about its queue.
Stays(a) ==
    LET new == Value(list[a].answer)
    IN  HasCard(a) /\ new # None /\ Value(new).id = Queue(a).id

LEMMA ArriveEffect ==
  ASSUME Typed, NEW a \in Admins, Arrive(a)
  PROVE  /\ Typed'
         /\ list'[a].data = list[a].answer
         /\ \A b \in Admins \ {a} : list'[b] = list[b] /\ card'[b] = card[b]
         /\ card'[a] = IF Stays(a) THEN Refilled(card[a], Queue(a), Value(Value(list[a].answer)))
                       ELSE FreshCard
         /\ \A c \in Calls :
              calls'[c] = IF Stays(a) \/ calls[c].by # a \/ calls[c].kind = "create" THEN calls[c]
                          ELSE [calls[c] EXCEPT !.mine = FALSE]
<1>0. ServerOK /\ PageOK /\ CallsOK /\ ClicksOK /\ list[a] \in Entries /\ card[a] \in CardType
  BY DEF Typed, PageOK
<1>. DEFINE new == Value(list[a].answer)
            after == IF Stays(a) THEN Refilled(card[a], Queue(a), Value(new)) ELSE FreshCard
<1>1. /\ list' = [list EXCEPT ![a] = Arrived(list[a])]
      /\ card' = [card EXCEPT ![a] = after]
      /\ calls' = [c \in Calls |->
           IF Stays(a) \/ calls[c].by # a \/ calls[c].kind = "create" THEN calls[c]
           ELSE [calls[c] EXCEPT !.mine = FALSE]]
      /\ UNCHANGED <<server, home, asking, create, blank, clicks>>
  BY DEF Arrive, Stays
<1>2. after \in CardType
  <2>1. CASE Stays(a)
    <3>1. list[a].answer \in Option(Option(Shown)) /\ list[a].answer # None
      BY <1>0, EntryFacts DEF Arrive
    <3>2. new \in Option(Shown) /\ new # None
      BY <2>1, <3>1, OptionFacts DEF Stays
    <3>3. Value(new) \in Shown
      BY <3>2, OptionFacts
    <3>4. Value(new).config \in Config
      BY <3>3 DEF Shown
    <3>5. Refilled(card[a], Queue(a), Value(new)) \in CardType
      BY <1>0, <3>4 DEF Refilled, CardType
    <3>. QED
      BY <2>1, <3>5
  <2>2. CASE ~ Stays(a)
    BY <2>2, FreshTypes
  <2>. QED
    BY <2>1, <2>2
<1>. HIDE DEF new, after
<1>3. PageOK' /\ list'[a].data = list[a].answer /\ card'[a] = after
      /\ \A b \in Admins \ {a} : list'[b] = list[b] /\ card'[b] = card[b]
  BY <1>0, <1>1, <1>2, EntryFacts DEF PageOK
<1>4. \A c \in Calls : calls[c] \in CallType /\ [calls[c] EXCEPT !.mine = FALSE] \in CallType
  BY <1>0 DEF CallsOK, CallType, CallRecord
<1>5. CallsOK'
  BY <1>1, <1>4 DEF CallsOK
<1>6. ServerOK' /\ ClicksOK'
  BY <1>0, <1>1 DEF ServerOK, ClicksOK, server
<1>. QED
  BY <1>1, <1>3, <1>5, <1>6 DEF Typed, after, new

-----------------------------------------------------------------------------
(* What the steps do to the cards                                          *)

\* A dialog opens only on a card, and its form is left alone but for what is typed,
\* or filled from the row that the card shows.
CardQuiet ==
    \A a \in Admins :
        /\ card'[a].editOpen \/ card'[a].deleteOpen =>
             card[a].editOpen \/ card[a].deleteOpen \/ HasCard(a)
        /\ card'[a].editOpen => \A f \in Fields \ card'[a].touched :
             \/ card'[a].form[f] = Queue(a).config[f]
             \/ /\ card[a].editOpen /\ f \notin card[a].touched
                /\ card'[a].form[f] = card[a].form[f]

DataKept == \A a \in Admins : list'[a].data = list[a].data

LEMMA SameCards == ASSUME card' = card PROVE CardQuiet
  BY DEF CardQuiet

LEMMA SameLists == ASSUME list' = list PROVE DataKept
  BY DEF DataKept

\* One card changes.
LEMMA OneCard ==
  ASSUME PageOK, NEW a \in Admins, NEW k \in CardType, card' = [card EXCEPT ![a] = k],
         UNCHANGED <<home, asking, list, create, blank>>,
         k.editOpen \/ k.deleteOpen => card[a].editOpen \/ card[a].deleteOpen \/ HasCard(a),
         k.editOpen => \A f \in Fields \ k.touched :
             \/ k.form[f] = Queue(a).config[f]
             \/ card[a].editOpen /\ f \notin card[a].touched /\ k.form[f] = card[a].form[f]
  PROVE  PageOK' /\ CardQuiet /\ DataKept
<1>1. \A b \in Admins : card'[b] = IF b = a THEN k ELSE card[b]
  BY DEF PageOK
<1>2. CardQuiet
  BY <1>1 DEF CardQuiet
<1>3. PageOK' /\ DataKept
  BY DEF PageOK, DataKept
<1>. QED
  BY <1>2, <1>3

LEMMA DialogEffect ==
  ASSUME Typed, NEW a \in Admins,
         \/ OpenEdit(a) \/ CloseEdit(a) \/ EditField(a) \/ OpenDelete(a) \/ CloseDelete(a)
         \/ OpenCreate(a) \/ OpenDefault(a) \/ CloseCreate(a) \/ FillCreate(a)
  PROVE  Typed' /\ UNCHANGED <<server, calls>> /\ CardQuiet /\ DataKept
<1>0. /\ ServerOK /\ PageOK /\ CallsOK /\ ClicksOK
      /\ card[a] \in CardType /\ create[a] \in CreateType
  BY DEF Typed, PageOK
<1>1. UNCHANGED <<server, calls>> /\ Click(a)
  BY DEF OpenEdit, CloseEdit, EditField, OpenDelete, CloseDelete, OpenCreate, OpenDefault,
     CloseCreate, FillCreate
<1>2. ServerOK' /\ CallsOK' /\ ClicksOK'
  BY <1>0, <1>1, ClickType DEF ServerOK, CallsOK, server
<1>3. PageOK' /\ CardQuiet /\ DataKept
  <2>1. CASE OpenEdit(a)
    <3>. DEFINE k == [card[a] EXCEPT !.editOpen = TRUE, !.form = Queue(a).config, !.touched = {}]
    <3>1. Queue(a).config \in Config /\ HasCard(a)
      BY <1>0, <2>1, QueueType DEF OpenEdit
    <3>2. k \in CardType /\ k.form = Queue(a).config /\ k.touched = {}
      BY <1>0, <3>1 DEF CardType
    <3>3. card' = [card EXCEPT ![a] = k]
      BY <2>1 DEF OpenEdit
    <3>. HIDE DEF k
    <3>. QED
      BY <1>0, <2>1, <3>1, <3>2, <3>3, OneCard DEF OpenEdit
  <2>2. CASE CloseEdit(a)
    <3>. DEFINE k == [card[a] EXCEPT !.editOpen = FALSE]
    <3>1. k \in CardType /\ ~ k.editOpen /\ k.deleteOpen = card[a].deleteOpen
      BY <1>0 DEF CardType
    <3>2. card' = [card EXCEPT ![a] = k]
      BY <1>0, <2>2 DEF CloseEdit, PageOK
    <3>. HIDE DEF k
    <3>. QED
      BY <1>0, <2>2, <3>1, <3>2, OneCard DEF CloseEdit
  <2>3. CASE EditField(a)
    <3>1. PICK g \in Fields, v \in Values \union {Empty} :
            card' = [card EXCEPT ![a] = Edited(card[a], g, v)]
      BY <2>3 DEF EditField
    <3>. DEFINE form == [card[a].form EXCEPT ![g] = v]
                touched == card[a].touched \union {g}
                k == Edited(card[a], g, v)
    <3>2. form \in Config /\ \A f \in Fields \ {g} : form[f] = card[a].form[f]
      BY <1>0 DEF CardType, Config
    <3>3. touched \in SUBSET Fields
      BY <1>0 DEF CardType
    <3>4. k = [card[a] EXCEPT !.form = form, !.touched = touched]
      BY <1>0 DEF Edited, CardType
    <3>. HIDE DEF form
    <3>5. k \in CardType /\ k.editOpen = card[a].editOpen /\ k.deleteOpen = card[a].deleteOpen
          /\ k.form = form /\ k.touched = touched
      BY <1>0, <3>2, <3>3, <3>4 DEF CardType
    <3>6. card[a].editOpen
      BY <2>3 DEF EditField
    <3>7. card' = [card EXCEPT ![a] = k]
      BY <3>1
    <3>. HIDE DEF k
    <3>. QED
      BY <1>0, <2>3, <3>7, <3>2, <3>5, <3>6, OneCard DEF EditField
  <2>4. CASE OpenDelete(a)
    <3>. DEFINE k == [card[a] EXCEPT !.deleteOpen = TRUE, !.deleteError = FALSE]
    <3>1. /\ k \in CardType /\ k.editOpen = card[a].editOpen
          /\ k.form = card[a].form /\ k.touched = card[a].touched
      BY <1>0 DEF CardType
    <3>2. card' = [card EXCEPT ![a] = k]
      BY <1>0, <2>4 DEF OpenDelete, PageOK, CardType
    <3>3. HasCard(a)
      BY <2>4 DEF OpenDelete
    <3>. HIDE DEF k
    <3>. QED
      BY <1>0, <2>4, <3>1, <3>2, <3>3, OneCard DEF OpenDelete
  <2>5. CASE CloseDelete(a)
    <3>. DEFINE k == [card[a] EXCEPT !.deleteOpen = FALSE]
    <3>1. /\ k \in CardType /\ k.editOpen = card[a].editOpen /\ ~ k.deleteOpen
          /\ k.form = card[a].form /\ k.touched = card[a].touched
      BY <1>0 DEF CardType
    <3>2. card' = [card EXCEPT ![a] = k]
      BY <1>0, <2>5 DEF CloseDelete, PageOK
    <3>. HIDE DEF k
    <3>. QED
      BY <1>0, <2>5, <3>1, <3>2, OneCard DEF CloseDelete
  <2>6. CASE OpenCreate(a) \/ OpenDefault(a) \/ CloseCreate(a) \/ FillCreate(a)
    <3>1. UNCHANGED <<home, asking, list, card>> /\ blank' \subseteq Admins
      BY <1>0, <2>6 DEF OpenCreate, OpenDefault, CloseCreate, FillCreate, PageOK
    <3>2. create' \in [Admins -> CreateType]
      <4>1. CASE OpenCreate(a)
        <5>1. create' = [create EXCEPT ![a] = [create[a] EXCEPT !.open = TRUE, !.error = "text"]]
          BY <1>0, <4>1 DEF OpenCreate, PageOK, CreateType
        <5>. QED
          BY <1>0, <5>1 DEF PageOK, CreateType
      <4>2. CASE CloseCreate(a)
        BY <1>0, <4>2 DEF CloseCreate, PageOK, CreateType
      <4>3. CASE FillCreate(a)
        <5>. DEFINE named == ~ create[a].named  fine == ~ create[a].fine
        <5>1. named \in BOOLEAN /\ fine \in BOOLEAN
          OBVIOUS
        <5>2. \/ create' = [create EXCEPT ![a] = [create[a] EXCEPT !.named = named]]
              \/ create' = [create EXCEPT ![a] = [create[a] EXCEPT !.fine = fine]]
          BY <1>0, <4>3 DEF FillCreate, PageOK
        <5>. HIDE DEF named, fine
        <5>3. /\ [create[a] EXCEPT !.named = named] \in CreateType
              /\ [create[a] EXCEPT !.fine = fine] \in CreateType
          BY <1>0, <5>1 DEF CreateType
        <5>. QED
          BY <1>0, <5>2, <5>3 DEF PageOK
      <4>4. CASE OpenDefault(a)
        BY <1>0, <4>4 DEF OpenDefault, PageOK, CreateType
      <4>. QED
        BY <2>6, <4>1, <4>2, <4>3, <4>4
    <3>. QED
      BY <1>0, <3>1, <3>2, SameCards, SameLists DEF PageOK
  <2>. QED
    BY <2>1, <2>2, <2>3, <2>4, <2>5, <2>6
<1>. QED
  BY <1>1, <1>2, <1>3 DEF Typed

\* An answer is handled: the list is asked for again, a dialog may close.
LEMMA RefetchType ==
  ASSUME PageOK, NEW a \in Admins
  PROVE  /\ Invalidated(a) \in [Admins -> Entries]
         /\ \A b \in Admins : Invalidated(a)[b].data = list[b].data
<1>1. list \in [Admins -> Entries]
  BY DEF PageOK
<1>2. Restarted(list[a]) \in Entries /\ Restarted(list[a]).data = list[a].data
  BY <1>1, EntryFacts
<1>. QED
  BY <1>1, <1>2 DEF Invalidated

-----------------------------------------------------------------------------
(* New calls                                                               *)

\* A page that knows of a project asks for the queues of one that exists.
HomeExists == \A a \in Admins : home[a] = "first" => 1 \in 1..projects

\* c is sent by a component that waits for no other call of its kind, for the queue
\* that it shows or for a project that exists.
NewCall(c) ==
    /\ \A d \in Calls \ {c} :
         /\ calls'[d] = calls[d]
         /\ ~ (calls[d].mine /\ calls[d].by = calls'[c].by /\ calls[d].kind = calls'[c].kind)
    /\ calls'[c].kind # "create" =>
         HasCard(calls'[c].by) /\ Queue(calls'[c].by).id = calls'[c].queue
    /\ calls'[c].kind = "create" /\ calls'[c].stage \in {"ready", "sent", "done"} =>
         calls'[c].into \in 1..projects
    /\ calls'[c].stage \in {"sent", "project"}

LEMMA NewCallOf ==
  ASSUME CallsOK, NEW a \in Admins, NEW kinds, NEW kind \in kinds \intersect Kinds,
         NEW call \in CallType, ~ Pending(a, kinds), Sends(a, kind, call),
         kind # "create" => HasCard(a) /\ Queue(a).id = call.queue,
         kind = "create" /\ call.stage \in {"ready", "sent", "done"} => call.into \in 1..projects,
         call.stage \in {"sent", "project"}
  PROVE  CallsOK' /\ \E c \in Calls : NewCall(c)
<1>1. PICK c \in Calls : calls[c].kind = "off" /\ SentAs(a, kind, call, c)
  BY SendsEffect
<1>2. ASSUME NEW d \in Calls \ {c}
      PROVE  /\ calls'[d] = calls[d]
             /\ ~ (calls[d].mine /\ calls[d].by = a /\ calls[d].kind = kind)
  BY <1>1 DEF SentAs, Pending
<1>3. NewCall(c)
  BY <1>1, <1>2 DEF SentAs, NewCall
<1>. QED
  BY <1>1, <1>3 DEF SentAs

LEMMA SendEffect ==
  ASSUME Typed, DialogsHaveCards, HomeExists, NEW a \in Admins,
         TogglePause(a) \/ Save(a) \/ Delete(a) \/ Create(a)
  PROVE  Typed' /\ UNCHANGED <<server, client>> /\ \E c \in Calls : NewCall(c)
<1>0. /\ ServerOK /\ PageOK /\ CallsOK /\ ClicksOK /\ card[a] \in CardType
      /\ create[a] \in CreateType /\ "sent" \in Stages
  BY DEF Typed, PageOK, Stages
<1>1. UNCHANGED <<server, client>> /\ Click(a)
  BY DEF TogglePause, Save, Delete, Create
<1>2. ServerOK' /\ PageOK' /\ ClicksOK'
  BY <1>0, <1>1, ClickType DEF ServerOK, PageOK, server, client
<1>3. CallsOK' /\ \E c \in Calls : NewCall(c)
  <2>1. CASE TogglePause(a)
    <3>. DEFINE kind == IF Queue(a).paused THEN "resume" ELSE "pause"
                call == CardCall(a, "sent")
    <3>1. /\ HasCard(a) /\ ~ Pending(a, {"pause", "resume"}) /\ Sends(a, kind, call)
      BY <2>1 DEF TogglePause
    <3>2. kind \in {"pause", "resume"} \intersect Kinds /\ kind \notin {"create", "delete"}
      BY DEF Kinds
    <3>3. call \in CallType /\ call.queue = Queue(a).id /\ call.stage = "sent"
      BY <1>0, <3>1, CardCallFacts
    <3>. HIDE DEF kind, call
    <3>. QED
      BY <1>0, <3>1, <3>2, <3>3, NewCallOf
  <2>2. CASE Save(a)
    <3>. DEFINE call == [CardCall(a, "sent") EXCEPT !.body = Body(card[a].form)]
    <3>1. HasCard(a) /\ ~ Pending(a, {"save"}) /\ Sends(a, "save", call)
      BY <2>2 DEF Save, DialogsHaveCards
    <3>2. Body(card[a].form) \in Config
      BY <1>0, ConfigFacts DEF CardType
    <3>3. /\ CardCall(a, "sent") \in CallType /\ CardCall(a, "sent").queue = Queue(a).id
          /\ CardCall(a, "sent").stage = "sent"
      BY <1>0, <3>1, CardCallFacts
    <3>4. call \in CallType /\ call.queue = Queue(a).id /\ call.stage = "sent"
      BY <3>2, <3>3 DEF CallType, CallRecord
    <3>5. "save" \in {"save"} \intersect Kinds
      BY DEF Kinds
    <3>. HIDE DEF call
    <3>. QED
      BY <1>0, <3>1, <3>4, <3>5, NewCallOf
  <2>3. CASE Delete(a)
    <3>. DEFINE call == CardCall(a, "sent")
    <3>1. HasCard(a) /\ ~ Pending(a, {"delete", "force"})
      BY <2>3 DEF Delete, DialogsHaveCards
    <3>2. PICK kind \in {"delete", "force"} : Sends(a, kind, call)
      BY <2>3 DEF Delete
    <3>3. call \in CallType /\ call.queue = Queue(a).id /\ call.stage = "sent"
      BY <1>0, <3>1, CardCallFacts
    <3>4. kind \in {"delete", "force"} \intersect Kinds /\ kind # "create"
      BY DEF Kinds
    <3>. HIDE DEF call
    <3>. QED
      BY <1>0, <3>1, <3>2, <3>3, <3>4, NewCallOf
  <2>4. CASE Create(a)
    <3>. DEFINE call == [Unsent EXCEPT !.stage = FirstStep(a).stage, !.into = FirstStep(a).into,
                                       !.fine = create[a].fine]
    <3>1. ~ Pending(a, {"create"}) /\ Sends(a, "create", call)
      BY <2>4 DEF Create
    <3>2. /\ FirstStep(a).stage \in {"sent", "project"} /\ FirstStep(a).stage \in Stages
          /\ FirstStep(a).into \in 0..MaxProjects
          /\ FirstStep(a).stage = "sent" => FirstStep(a).into \in 1..projects
      BY AdminsAssumption DEF FirstStep, Stages, HomeExists
    <3>3. /\ call \in CallType /\ call.stage = FirstStep(a).stage
          /\ call.into = FirstStep(a).into
      BY <1>0, <3>2, UnsentType DEF CallType, CallRecord, CreateType
    <3>4. "create" \in {"create"} \intersect Kinds
      BY DEF Kinds
    <3>. HIDE DEF call
    <3>. QED
      BY <1>0, <3>1, <3>2, <3>3, <3>4, NewCallOf
  <2>. QED
    BY <2>1, <2>2, <2>3, <2>4
<1>. QED
  BY <1>1, <1>2, <1>3 DEF Typed

-----------------------------------------------------------------------------
(* The API                                                                 *)

CountedIsDelete ==
    \A c \in Calls : calls[c].stage = "counted" => calls[c].kind \in {"delete", "force"}

\* The call c is served up to the stage s, for the project p if it creates a queue.
ApiStep(c, s, p) ==
    /\ Staged(c, s, p)
    /\ UNCHANGED client
    /\ projects' \in {projects, projects + 1}
    /\ \A q \in Projects : rows'[q] # None => rows[q] # None \/ q <= projects
    /\ calls[c].kind = "create" /\ s \in {"ready", "sent", "done"} => p \in 1..projects'
    /\ s = "counted" => /\ calls[c].kind \in {"delete", "force"}
                        /\ calls[c].kind = "delete" => Active = {}
    /\ \A j \in Jobs : jobs'[j] \in {jobs[j], "purged"}

LEMMA RowType ==
  ASSUME ServerOK, NEW p \in Projects, rows[p] # None
  PROVE  Value(rows[p]) \in Row /\ rows[p] = Some(Value(rows[p]))
  BY OptionFacts DEF ServerOK, Rows

\* A row is replaced or removed.
LEMMA RowsType ==
  ASSUME ServerOK, NEW p \in Projects, NEW o, o = None \/ (Value(o) \in Row /\ o = Some(Value(o))),
         rows' = [rows EXCEPT ![p] = o]
  PROVE  /\ rows' \in [Projects -> Rows]
         /\ \A q \in Projects : rows'[q] = IF q = p THEN o ELSE rows[q]
<1>1. o \in Rows
  BY OptionFacts DEF Rows
<1>. QED
  BY <1>1 DEF ServerOK

LEMMA ServeEffect ==
  ASSUME Typed, ProjectComesFirst, CountedIsDelete, NEW c \in Calls, Api(c)
  PROVE  Typed' /\ \E s \in Stages, p \in 0..MaxProjects : ApiStep(c, s, p)
<1>0. /\ ServerOK /\ PageOK /\ CallsOK /\ ClicksOK
      /\ calls[c].into \in 0..MaxProjects /\ calls[c].body \in Config
      /\ 1 \in Projects /\ projects \in 0..MaxProjects /\ projects \in Nat
      /\ MaxProjects \in Nat
  BY CallFields, AdminsAssumption DEF Typed, Projects, ServerOK
<1>1. UNCHANGED <<client, clicks>>
  BY DEF Api, ServeGone, ServePause, ServeSave, ServeCount, ServeDelete, ServeProject, ServeCreate
<1>2. PageOK' /\ ClicksOK'
  BY <1>0, <1>1 DEF PageOK, ClicksOK, client
<1>. DEFINE Goal == ServerOK' /\ \E s \in Stages, p \in 0..MaxProjects : ApiStep(c, s, p)
<1>. DEFINE p0 == calls[c].into
<1>. USE DEF Stages
<1>3. ASSUME ServeGone(c) PROVE Goal
  <2>1. Staged(c, "refused", p0)
    BY <1>0, <1>3, ServedEffect DEF ServeGone
  <2>2. ServerOK'
    BY <1>0, <1>3 DEF ServeGone, ServerOK, server
  <2>3. ApiStep(c, "refused", p0)
    BY <1>0, <1>1, <1>3, <2>1 DEF ServeGone, ApiStep, server
  <2>. QED
    BY <1>0, <2>2, <2>3
<1>4. ASSUME ServePause(c) PROVE Goal
  <2>. DEFINE paused == calls[c].kind = "pause"
              row == [Value(rows[1]) EXCEPT !.paused = paused]
  <2>1. Staged(c, "done", p0)
    BY <1>0, <1>4, ServedEffect DEF ServePause
  <2>2. rows[1] # None /\ paused \in BOOLEAN
    BY <1>4 DEF ServePause, There
  <2>3. rows' = [rows EXCEPT ![1] = Some(row)]
    BY <1>0, <1>4 DEF ServePause
  <2>. HIDE DEF paused
  <2>4. row \in Row
    BY <1>0, <2>2, RowType DEF Row
  <2>. HIDE DEF row
  <2>5. rows' \in [Projects -> Rows] /\ \A q \in Projects : rows'[q] = IF q = 1 THEN Some(row) ELSE rows[q]
    BY <1>0, <2>3, <2>4, OptionFacts, RowsType
  <2>6. ServerOK'
    BY <1>0, <1>4, <2>5 DEF ServePause, ServerOK
  <2>7. ApiStep(c, "done", p0)
    BY <1>0, <1>1, <1>4, <2>1, <2>2, <2>5 DEF ServePause, ApiStep
  <2>. QED
    BY <1>0, <2>6, <2>7
<1>5. ASSUME ServeSave(c) PROVE Goal
  <2>1. CASE Served(c, "refused") /\ UNCHANGED rows
    <3>1. Staged(c, "refused", p0)
      BY <1>0, <2>1, ServedEffect
    <3>2. ServerOK'
      BY <1>0, <1>5, <2>1 DEF ServeSave, ServerOK
    <3>3. ApiStep(c, "refused", p0)
      BY <1>0, <1>1, <1>5, <2>1, <3>1 DEF ServeSave, ApiStep
    <3>. QED
      BY <1>0, <3>2, <3>3
  <2>2. CASE Served(c, "done") /\ rows' = [rows EXCEPT ![1] = Some(Saved(Value(rows[1]), c))]
    <3>. DEFINE row == Saved(Value(rows[1]), c)
    <3>1. Staged(c, "done", p0)
      BY <1>0, <2>2, ServedEffect
    <3>2. rows[1] # None
      BY <1>5 DEF ServeSave, There
    <3>3. row \in Row
      BY <1>0, <3>2, RowType DEF Row, Saved
    <3>. HIDE DEF row
    <3>4. rows' \in [Projects -> Rows] /\ \A q \in Projects : rows'[q] = IF q = 1 THEN Some(row) ELSE rows[q]
      BY <1>0, <2>2, <3>3, OptionFacts, RowsType DEF row
    <3>5. ServerOK'
      BY <1>0, <1>5, <3>4 DEF ServeSave, ServerOK
    <3>6. ApiStep(c, "done", p0)
      BY <1>0, <1>1, <1>5, <3>1, <3>2, <3>4 DEF ServeSave, ApiStep
    <3>. QED
      BY <1>0, <3>5, <3>6
  <2>. QED
    BY <1>5, <2>1, <2>2 DEF ServeSave
<1>6. ASSUME ServeCount(c) PROVE Goal
  <2>. DEFINE s == IF MayDelete(c) THEN "counted" ELSE "refused"
  <2>1. Staged(c, s, p0)
    BY <1>0, <1>6, ServedEffect DEF ServeCount
  <2>2. ServerOK'
    BY <1>0, <1>6 DEF ServeCount, ServerOK, server
  <2>3. s = "counted" /\ calls[c].kind = "delete" => Active = {}
    BY DEF MayDelete
  <2>. HIDE DEF s
  <2>4. s \in {"counted", "refused"}
    BY DEF s
  <2>5. ApiStep(c, s, p0)
    BY <1>0, <1>1, <1>6, <2>1, <2>3, <2>4 DEF ServeCount, ApiStep, server
  <2>. QED
    BY <1>0, <2>2, <2>4, <2>5
<1>7. ASSUME ServeDelete(c) PROVE Goal
  <2>1. Staged(c, "done", p0)
    BY <1>0, <1>7, ServedEffect DEF ServeDelete
  <2>2. calls[c].kind # "create"
    BY <1>7 DEF ServeDelete, CountedIsDelete
  <2>3. CASE There(calls[c].queue)
    <3>1. /\ rows' = [rows EXCEPT ![1] = None]
          /\ jobs' = [j \in Jobs |-> IF jobs[j] = "new" THEN "new" ELSE "purged"]
      BY <1>7, <2>3 DEF ServeDelete
    <3>2. rows' \in [Projects -> Rows] /\ \A q \in Projects : rows'[q] = IF q = 1 THEN None ELSE rows[q]
      BY <1>0, <3>1, RowsType
    <3>3. ServerOK'
      BY <1>0, <1>7, <3>1, <3>2 DEF ServeDelete, ServerOK
    <3>4. ApiStep(c, "done", p0)
      BY <1>0, <1>1, <1>7, <2>1, <2>2, <3>1, <3>2 DEF ServeDelete, ApiStep
    <3>. QED
      BY <1>0, <3>3, <3>4
  <2>4. CASE ~ There(calls[c].queue)
    <3>1. ServerOK' /\ UNCHANGED <<projects, rows, jobs>>
      BY <1>0, <1>7, <2>4 DEF ServeDelete, ServerOK
    <3>2. ApiStep(c, "done", p0)
      BY <1>0, <1>1, <2>1, <2>2, <3>1 DEF ApiStep
    <3>. QED
      BY <1>0, <3>1, <3>2
  <2>. QED
    BY <2>3, <2>4
<1>8. ASSUME ServeProject(c) PROVE Goal
  <2>1. projects + 1 \in 0..MaxProjects /\ projects' = projects + 1
    BY <1>0, <1>8 DEF ServeProject
  <2>2. Staged(c, "ready", projects + 1)
    BY <1>0, <1>8, <2>1, ReadyEffect DEF ServeProject
  <2>3. ServerOK'
    BY <1>0, <1>8, <2>1 DEF ServeProject, ServerOK
  <2>4. projects + 1 \in 1..projects'
    BY <1>0, <2>1
  <2>5. ApiStep(c, "ready", projects + 1)
    BY <1>1, <1>8, <2>1, <2>2, <2>4 DEF ServeProject, ApiStep
  <2>. QED
    BY <2>1, <2>3, <2>5
<1>9. ASSUME ServeCreate(c) PROVE Goal
  <2>1. p0 \in 1..projects /\ p0 \in Projects /\ p0 <= projects
    BY <1>0, <1>9 DEF ServeCreate, ProjectComesFirst, Projects
  <2>2. CASE (Served(c, "invalid") \/ Served(c, "refused")) /\ UNCHANGED <<rows, made>>
    <3>1. Staged(c, "invalid", p0) \/ Staged(c, "refused", p0)
      BY <1>0, <2>2, ServedEffect
    <3>2. ServerOK'
      BY <1>0, <1>9, <2>2 DEF ServeCreate, ServerOK
    <3>3. ApiStep(c, "invalid", p0) \/ ApiStep(c, "refused", p0)
      BY <1>0, <1>1, <1>9, <2>2, <3>1 DEF ServeCreate, ApiStep
    <3>. QED
      BY <1>0, <3>2, <3>3
  <2>. DEFINE row == [id |-> made + 1, config |-> FirstConfig, paused |-> FALSE]
  <2>3. CASE /\ made < MaxQueues /\ made' = made + 1
             /\ rows' = [rows EXCEPT ![p0] = Some(row)] /\ Served(c, "done")
    <3>1. made \in Ids /\ made' \in Ids /\ made + 1 = made'
      BY <1>0, <2>3, AdminsAssumption DEF ServerOK, Ids
    <3>2. row \in Row
      BY <3>1, ConfigFacts DEF Row
    <3>. HIDE DEF row
    <3>3. rows' \in [Projects -> Rows] /\ \A q \in Projects : rows'[q] = IF q = p0 THEN Some(row) ELSE rows[q]
      BY <1>0, <2>1, <2>3, <3>2, OptionFacts, RowsType
    <3>4. Staged(c, "done", p0)
      BY <1>0, <2>3, ServedEffect
    <3>5. ServerOK'
      BY <1>0, <1>9, <3>1, <3>3 DEF ServeCreate, ServerOK
    <3>6. ApiStep(c, "done", p0)
      BY <1>0, <1>1, <1>9, <2>1, <3>3, <3>4 DEF ServeCreate, ApiStep
    <3>. QED
      BY <1>0, <3>5, <3>6
  <2>. QED
    BY <1>9, <2>2, <2>3 DEF ServeCreate
<1>10. Goal
  BY <1>3, <1>4, <1>5, <1>6, <1>7, <1>8, <1>9 DEF Api
<1>11. CallsOK'
  BY <1>10 DEF ApiStep, Staged
<1>. QED
  BY <1>2, <1>10, <1>11 DEF Typed

-----------------------------------------------------------------------------
(* Answers and jobs                                                        *)

\* What an answer does to the card of the administrator: a dialog closes, or says
\* that a delete failed.
LEMMA ClosedCard ==
  ASSUME PageOK, NEW a \in Admins,
         \/ card' = card
         \/ card' = [card EXCEPT ![a].editOpen = FALSE]
         \/ card' = [card EXCEPT ![a].deleteOpen = FALSE, ![a].deleteError = FALSE]
         \/ card' = [card EXCEPT ![a].deleteError = TRUE]
  PROVE  card' \in [Admins -> CardType] /\ CardQuiet
<1>1. card[a] \in CardType /\ card \in [Admins -> CardType]
  BY DEF PageOK
<1>2. CASE card' = card
  BY <1>1, <1>2, SameCards
<1>3. ASSUME NEW k \in CardType, card' = [card EXCEPT ![a] = k],
             k.editOpen => card[a].editOpen, k.deleteOpen => card[a].deleteOpen,
             k.form = card[a].form, k.touched = card[a].touched
      PROVE  card' \in [Admins -> CardType] /\ CardQuiet
  <2>1. \A b \in Admins : card'[b] = IF b = a THEN k ELSE card[b]
    BY <1>1, <1>3
  <2>. QED
    BY <1>1, <1>3, <2>1 DEF CardQuiet
<1>4. CASE card' = [card EXCEPT ![a].editOpen = FALSE]
  <2>. DEFINE k == [card[a] EXCEPT !.editOpen = FALSE]
  <2>1. /\ k \in CardType /\ ~ k.editOpen /\ k.deleteOpen = card[a].deleteOpen
        /\ k.form = card[a].form /\ k.touched = card[a].touched
    BY <1>1 DEF CardType
  <2>2. card' = [card EXCEPT ![a] = k]
    BY <1>1, <1>4
  <2>. HIDE DEF k
  <2>. QED
    BY <1>3, <2>1, <2>2
<1>5. CASE card' = [card EXCEPT ![a].deleteOpen = FALSE, ![a].deleteError = FALSE]
  <2>. DEFINE k == [card[a] EXCEPT !.deleteOpen = FALSE, !.deleteError = FALSE]
  <2>1. /\ k \in CardType /\ k.editOpen = card[a].editOpen /\ ~ k.deleteOpen
        /\ k.form = card[a].form /\ k.touched = card[a].touched
    BY <1>1 DEF CardType
  <2>2. card' = [card EXCEPT ![a] = k]
    BY <1>1, <1>5 DEF CardType
  <2>. HIDE DEF k
  <2>. QED
    BY <1>3, <2>1, <2>2
<1>6. CASE card' = [card EXCEPT ![a].deleteError = TRUE]
  <2>. DEFINE k == [card[a] EXCEPT !.deleteError = TRUE]
  <2>1. /\ k \in CardType /\ k.editOpen = card[a].editOpen /\ k.deleteOpen = card[a].deleteOpen
        /\ k.form = card[a].form /\ k.touched = card[a].touched
    BY <1>1 DEF CardType
  <2>2. card' = [card EXCEPT ![a] = k]
    BY <1>1, <1>6
  <2>. HIDE DEF k
  <2>. QED
    BY <1>3, <2>1, <2>2
<1>. QED
  BY <1>2, <1>4, <1>5, <1>6

\* The call is over or abandoned, or its project is there and the queue is sent.
AnswerStep(c) ==
    /\ UNCHANGED <<server, home>>
    /\ CardQuiet /\ DataKept
    /\ \/ Over(c) \/ Abandoned(c)
       \/ calls[c].stage = "ready" /\ Staged(c, "sent", calls[c].into)

LEMMA FailsType ==
  ASSUME PageOK, NEW c \in Calls, calls[c].by \in Admins, NEW error \in {"text", "list"},
         Fails(c, error)
  PROVE  /\ card' \in [Admins -> CardType] /\ CardQuiet
         /\ create' \in [Admins -> CreateType]
<1>1. card' \in [Admins -> CardType] /\ CardQuiet
  BY ClosedCard DEF Fails
<1>2. create' \in [Admins -> CreateType]
  BY DEF Fails, PageOK, CreateType
<1>. QED
  BY <1>1, <1>2

LEMMA AnswerEffect ==
  ASSUME Typed, NEW c \in Calls, Answer(c)
  PROVE  Typed' /\ AnswerStep(c)
<1>0. /\ ServerOK /\ PageOK /\ CallsOK /\ ClicksOK /\ calls[c].by \in Admins
      /\ calls[c].into \in 0..MaxProjects
  BY CallFields DEF Typed, Answer, Succeed, Refused, Invalid, CallLost, ProjectCreated, Heard
<1>1. UNCHANGED <<server, home, clicks>>
  BY DEF Answer, Succeed, Refused, Invalid, CallLost, ProjectCreated
<1>2. ServerOK' /\ ClicksOK'
  BY <1>0, <1>1 DEF ServerOK, ClicksOK, server
<1>3. ASSUME Succeed(c) PROVE PageOK' /\ CallsOK' /\ AnswerStep(c)
  <2>. DEFINE a == calls[c].by
  <2>1. card' \in [Admins -> CardType] /\ CardQuiet
    BY <1>0, <1>3, ClosedCard DEF Succeed
  <2>2. list' \in [Admins -> Entries] /\ DataKept
    BY <1>0, <1>3, RefetchType DEF Succeed, DataKept
  <2>3. create' \in [Admins -> CreateType]
    BY <1>0, <1>3, FreshTypes DEF Succeed, PageOK
  <2>4. PageOK'
    BY <1>0, <1>3, <2>1, <2>2, <2>3 DEF Succeed, PageOK
  <2>. QED
    BY <1>0, <1>1, <1>3, <2>1, <2>2, <2>4, OverEffect DEF Succeed, AnswerStep
<1>4. ASSUME Refused(c) \/ Invalid(c) \/ CallLost(c) PROVE PageOK' /\ CallsOK' /\ AnswerStep(c)
  <2>1. /\ \E error \in {"text", "list"} : Fails(c, error)
        /\ Over(c) \/ Abandoned(c)
        /\ UNCHANGED <<home, asking, list>>
    BY <1>4 DEF Refused, Invalid, CallLost
  <2>2. blank' \subseteq Admins
    BY <1>0, <1>4 DEF Refused, Invalid, CallLost, PageOK
  <2>3. PageOK' /\ CardQuiet
    BY <1>0, <2>1, <2>2, FailsType DEF PageOK
  <2>4. CallsOK'
    BY <1>0, <2>1, OverEffect, AbandonedEffect
  <2>. QED
    BY <1>1, <2>1, <2>3, <2>4, SameLists DEF AnswerStep
<1>5. ASSUME ProjectCreated(c) PROVE PageOK' /\ CallsOK' /\ AnswerStep(c)
  <2>1. Staged(c, "sent", calls[c].into)
    BY <1>0, <1>5, ServedEffect DEF ProjectCreated, Stages
  <2>2. PageOK'
    BY <1>0, <1>5 DEF ProjectCreated, PageOK
  <2>. QED
    BY <1>1, <1>5, <2>1, <2>2, SameCards, SameLists DEF ProjectCreated, AnswerStep, Staged
<1>. QED
  BY <1>2, <1>3, <1>4, <1>5 DEF Answer, Typed

\* Jobs come and go; the deletes that have counted know of those that come.
JobStep ==
    /\ UNCHANGED <<projects, rows, made, client>>
    /\ \A c \in Calls :
         /\ calls'[c].kind = calls[c].kind /\ calls'[c].by = calls[c].by
         /\ calls'[c].queue = calls[c].queue /\ calls'[c].mine = calls[c].mine
         /\ calls'[c].stage = calls[c].stage /\ calls'[c].into = calls[c].into
         /\ calls[c].late \subseteq calls'[c].late
         /\ calls[c].stage = "counted" => Active' \subseteq Active \union calls'[c].late

LEMMA ActivateEffect ==
  ASSUME CallsOK, ServerOK, NEW j \in Jobs, Activate(j), UNCHANGED <<projects, rows, made, client>>
  PROVE  CallsOK' /\ JobStep /\ jobs' = [jobs EXCEPT ![j] = "active"]
<1>. DEFINE Knows(c) == [calls[c] EXCEPT !.late = calls[c].late \union {j}]
<1>1. /\ jobs' = [jobs EXCEPT ![j] = "active"]
      /\ calls' = [c \in Calls |-> IF calls[c].stage = "counted" THEN Knows(c) ELSE calls[c]]
  BY DEF Activate
<1>2. ASSUME NEW c \in Calls
      PROVE  /\ calls[c] \in CallType /\ Knows(c) \in CallType
             /\ Knows(c).kind = calls[c].kind /\ Knows(c).by = calls[c].by
             /\ Knows(c).queue = calls[c].queue /\ Knows(c).mine = calls[c].mine
             /\ Knows(c).stage = calls[c].stage /\ Knows(c).into = calls[c].into
             /\ Knows(c).late = calls[c].late \union {j}
  <2>1. calls[c] \in CallRecord /\ (calls[c].mine => calls[c].by \in Admins)
    BY DEF CallsOK, CallType, CallRecord
  <2>. QED
    BY <2>1 DEF CallRecord, CallType, CallRecord
<1>. HIDE DEF Knows
<1>3. CallsOK'
  BY <1>1, <1>2 DEF CallsOK
<1>4. Active' \subseteq Active \union {j}
  BY <1>1 DEF Active, ServerOK
<1>5. JobStep
  BY <1>1, <1>2, <1>4 DEF JobStep
<1>. QED
  BY <1>1, <1>3, <1>5

LEMMA JobEffect ==
  ASSUME Typed, NEW j \in Jobs, SubmitJob(j) \/ FinishJob(j) \/ RequeueJob(j)
  PROVE  Typed' /\ JobStep
<1>0. ServerOK /\ PageOK /\ CallsOK /\ ClicksOK
  BY DEF Typed
<1>1. UNCHANGED <<projects, rows, made, client, clicks>>
  BY DEF SubmitJob, FinishJob, RequeueJob
<1>2. PageOK' /\ ClicksOK'
  BY <1>0, <1>1 DEF PageOK, ClicksOK, client
<1>3. CASE Activate(j)
  <2>1. CallsOK' /\ JobStep /\ jobs' = [jobs EXCEPT ![j] = "active"]
    BY <1>0, <1>1, <1>3, ActivateEffect
  <2>2. ServerOK'
    BY <1>0, <1>1, <2>1 DEF ServerOK
  <2>. QED
    BY <1>2, <2>1, <2>2 DEF Typed
<1>4. CASE FinishJob(j)
  <2>1. UNCHANGED calls /\ jobs' = [jobs EXCEPT ![j] = "over"]
    BY <1>4 DEF FinishJob
  <2>2. ServerOK' /\ CallsOK'
    BY <1>0, <1>1, <2>1 DEF ServerOK, CallsOK
  <2>3. Active' \subseteq Active
    BY <1>0, <2>1 DEF Active, ServerOK
  <2>4. JobStep
    BY <1>1, <2>1, <2>3 DEF JobStep
  <2>. QED
    BY <1>2, <2>2, <2>4 DEF Typed
<1>. QED
  BY <1>3, <1>4 DEF SubmitJob, RequeueJob

-----------------------------------------------------------------------------
(* The page: cards, dialogs and the calls they wait for                    *)

PageInv == DialogsHaveCards /\ OneOfAKind /\ UntouchedFollow

\* With the same data a card is the same.
LEMMA CardsSame ==
  ASSUME DataKept, NEW a \in Admins
  PROVE  (HasCard(a))' = HasCard(a) /\ (Queue(a))' = Queue(a)
  BY DEF DataKept, HasCard, Queue

\* No component waits for a call that it did not wait for.
FewerWaited ==
    \A c \in Calls : calls'[c].mine =>
        /\ calls[c].mine /\ calls'[c].kind = calls[c].kind
        /\ calls'[c].by = calls[c].by /\ calls'[c].queue = calls[c].queue

LEMMA QuietPage ==
  ASSUME Typed, Typed', PageInv, CardQuiet, DataKept, FewerWaited \/ \E c \in Calls : NewCall(c)
  PROVE  PageInv'
<1>1. \A a \in Admins : (HasCard(a))' = HasCard(a) /\ (Queue(a))' = Queue(a)
  BY CardsSame
<1>2. DialogsHaveCards'
  BY <1>1 DEF PageInv, CardQuiet, DialogsHaveCards
<1>3. UntouchedFollow'
  <2>. SUFFICES ASSUME NEW a \in Admins, card'[a].editOpen, NEW f \in Fields \ card'[a].touched
                PROVE  card'[a].form[f] = Queue(a).config[f]
    BY <1>1 DEF UntouchedFollow
  <2>. QED
    BY DEF PageInv, CardQuiet, UntouchedFollow
<1>4. \A c \in Calls : calls'[c].mine => calls'[c].by \in Admins
  BY DEF Typed, CallsOK, CallType, CallRecord
<1>5. CASE FewerWaited
  <2>1. ASSUME NEW c \in Calls, NEW d \in Calls
        PROVE  /\ calls'[c].mine /\ calls'[d].mine /\ calls'[c].by = calls'[d].by
                     /\ calls'[c].kind = calls'[d].kind => c = d
               /\ calls'[c].mine /\ calls'[c].kind # "create" =>
                     HasCard(calls'[c].by) /\ Queue(calls'[c].by).id = calls'[c].queue
    BY <1>5 DEF FewerWaited, PageInv, OneOfAKind
  <2>2. OneOfAKind'
    BY <1>1, <1>4, <2>1 DEF OneOfAKind
  <2>. QED
    BY <1>2, <1>3, <2>2 DEF PageInv
<1>6. CASE \E n \in Calls : NewCall(n)
  <2>1. PICK n \in Calls : NewCall(n)
    BY <1>6
  <2>2. ASSUME NEW c \in Calls, NEW d \in Calls
        PROVE  /\ calls'[c].mine /\ calls'[d].mine /\ calls'[c].by = calls'[d].by
                     /\ calls'[c].kind = calls'[d].kind => c = d
               /\ calls'[c].mine /\ calls'[c].kind # "create" =>
                     HasCard(calls'[c].by) /\ Queue(calls'[c].by).id = calls'[c].queue
    BY <2>1 DEF NewCall, PageInv, OneOfAKind
  <2>3. OneOfAKind'
    BY <1>1, <1>4, <2>2 DEF OneOfAKind
  <2>. QED
    BY <1>2, <1>3, <2>3 DEF PageInv
<1>. QED
  BY <1>5, <1>6

LEMMA ArrivePage ==
  ASSUME Typed, PageInv, NEW a \in Admins, Arrive(a)
  PROVE  Typed' /\ PageInv'
<1>. DEFINE new == Value(list[a].answer)
<1>1. /\ Typed'
      /\ list'[a].data = list[a].answer
      /\ \A b \in Admins \ {a} : list'[b] = list[b] /\ card'[b] = card[b]
      /\ card'[a] = IF Stays(a) THEN Refilled(card[a], Queue(a), Value(new)) ELSE FreshCard
      /\ \A c \in Calls :
           calls'[c] = IF Stays(a) \/ calls[c].by # a \/ calls[c].kind = "create" THEN calls[c]
                       ELSE [calls[c] EXCEPT !.mine = FALSE]
  BY ArriveEffect
<1>2. list[a].answer # None
  BY EntryFacts DEF Arrive, Typed, PageOK
<1>3. \A b \in Admins \ {a} : (HasCard(b))' = HasCard(b) /\ (Queue(b))' = Queue(b)
  BY <1>1 DEF HasCard, Queue
<1>4. /\ (Queue(a))' = Value(new)
      /\ Stays(a) => (HasCard(a))' /\ HasCard(a) /\ (Queue(a))'.id = Queue(a).id
  BY <1>1, <1>2 DEF HasCard, Queue, Stays
<1>5. /\ ~ FreshCard.editOpen /\ ~ FreshCard.deleteOpen
      /\ card[a] \in CardType
  BY DEF FreshCard, Typed, PageOK
<1>6. \A c \in Calls : /\ calls[c] \in CallType
                       /\ ~ [calls[c] EXCEPT !.mine = FALSE].mine
  BY DEF Typed, CallsOK, CallType, CallRecord
<1>7. DialogsHaveCards'
  <2>. SUFFICES ASSUME NEW b \in Admins, card'[b].editOpen \/ card'[b].deleteOpen
                PROVE  (HasCard(b))'
    BY DEF DialogsHaveCards
  <2>1. CASE b # a
    BY <1>1, <1>3, <2>1 DEF PageInv, DialogsHaveCards
  <2>2. CASE b = a
    BY <1>1, <1>4, <1>5, <2>2
  <2>. QED
    BY <2>1, <2>2
<1>8. OneOfAKind'
  <2>1. ASSUME NEW c \in Calls, calls'[c].mine
        PROVE  calls'[c] = calls[c] /\ (Stays(a) \/ calls[c].by # a \/ calls[c].kind = "create")
    BY <1>1, <1>6, <2>1
  <2>2. ASSUME NEW c \in Calls, NEW d \in Calls, calls'[c].mine, calls'[d].mine,
               calls'[c].by = calls'[d].by, calls'[c].kind = calls'[d].kind
        PROVE  c = d
    BY <2>1, <2>2 DEF PageInv, OneOfAKind
  <2>3. ASSUME NEW c \in Calls, calls'[c].mine, calls'[c].kind # "create",
               NEW b \in Admins, b = calls[c].by
        PROVE  (HasCard(b))' /\ (Queue(b))'.id = calls[c].queue
    <3>1. HasCard(b) /\ Queue(b).id = calls[c].queue
      BY <2>1, <2>3 DEF PageInv, OneOfAKind
    <3>2. CASE b # a
      BY <1>3, <3>1, <3>2
    <3>3. CASE b = a
      BY <1>4, <2>1, <2>3, <3>1, <3>3
    <3>. QED
      BY <3>2, <3>3
  <2>4. ASSUME NEW c \in Calls, calls'[c].mine, calls'[c].kind # "create"
        PROVE  (HasCard(calls[c].by) /\ Queue(calls[c].by).id = calls[c].queue)'
    <3>1. calls'[c] = calls[c]
      BY <2>1, <2>4
    <3>2. PICK b \in Admins : b = calls[c].by
      BY <1>6, <2>4, <3>1 DEF CallType
    <3>. QED
      BY <2>3, <2>4, <3>1, <3>2
  <2>. QED
    BY <2>2, <2>4 DEF OneOfAKind
<1>9. UntouchedFollow'
  <2>. SUFFICES ASSUME NEW b \in Admins, card'[b].editOpen, NEW f \in Fields \ card'[b].touched
                PROVE  card'[b].form[f] = (Queue(b))'.config[f]
    BY DEF UntouchedFollow
  <2>1. CASE b # a
    BY <1>1, <1>3, <2>1 DEF PageInv, UntouchedFollow
  <2>2. CASE b = a /\ card[a].editOpen /\ Value(new) # Queue(a)
    <3>1. card'[a] = [card[a] EXCEPT !.form = Value(new).config, !.touched = {}]
      BY <1>1, <1>5, <2>2 DEF Refilled
    <3>2. card'[a].form = Value(new).config
      BY <1>5, <3>1 DEF CardType
    <3>. QED
      BY <1>4, <2>2, <3>2
  <2>3. CASE b = a /\ ~ (card[a].editOpen /\ Value(new) # Queue(a))
    <3>1. Stays(a) /\ card'[a] = card[a]
      BY <1>1, <1>5, <2>3 DEF Refilled
    <3>. QED
      BY <1>4, <2>3, <3>1 DEF PageInv, UntouchedFollow
  <2>. QED
    BY <2>1, <2>2, <2>3
<1>. QED
  BY <1>1, <1>7, <1>8, <1>9 DEF PageInv

-----------------------------------------------------------------------------
(* The server: projects, rows and the jobs that a delete has counted       *)

\* A plain delete has counted no active job: those that are active now came later.
CountedNone ==
    \A c \in Calls :
        calls[c].kind = "delete" /\ calls[c].stage = "counted" => Active \subseteq calls[c].late

ServerInv == ProjectComesFirst /\ HomeExists /\ CountedIsDelete /\ CountedNone

LEMMA SameActive == ASSUME jobs' = jobs PROVE Active' = Active
  BY DEF Active

LEMMA NewCallServer ==
  ASSUME Typed, Typed', ServerInv, UNCHANGED <<server, home>>, NEW c \in Calls, NewCall(c)
  PROVE  ServerInv'
<1>1. UNCHANGED <<projects, rows, jobs, home>>
  BY DEF server
<1>2. ProjectComesFirst' /\ HomeExists'
  BY <1>1 DEF ServerInv, NewCall, ProjectComesFirst, HomeExists
<1>3. CountedIsDelete'
  BY DEF ServerInv, NewCall, CountedIsDelete
<1>4. CountedNone'
  BY <1>1, SameActive DEF ServerInv, NewCall, CountedNone
<1>. QED
  BY <1>2, <1>3, <1>4 DEF ServerInv

\* Calls whose stage, kind or place has not changed are as good as they were.
LEMMA SameServer ==
  ASSUME Typed, ServerInv, UNCHANGED server,
         UNCHANGED home \/ HomeExists',
         \A c \in Calls :
            \/ calls'[c] = calls[c]
            \/ calls'[c] = [calls[c] EXCEPT !.mine = FALSE]
            \/ calls'[c] = [calls[c] EXCEPT !.by = "nobody", !.mine = FALSE]
            \/ calls'[c].kind = "over" /\ calls'[c].stage = "over"
  PROVE  ServerInv'
<1>1. UNCHANGED <<projects, rows, jobs>>
  BY DEF server
<1>2. ASSUME NEW c \in Calls
      PROVE  \/ /\ calls'[c].kind = calls[c].kind /\ calls'[c].stage = calls[c].stage
                /\ calls'[c].into = calls[c].into /\ calls'[c].late = calls[c].late
             \/ calls'[c].kind = "over" /\ calls'[c].stage = "over"
  BY DEF Typed, CallsOK, CallType, CallRecord, CallRecord
<1>3. ProjectComesFirst' /\ HomeExists' /\ CountedIsDelete'
  BY <1>1, <1>2 DEF ServerInv, ProjectComesFirst, HomeExists, CountedIsDelete
<1>4. CountedNone'
  BY <1>1, <1>2, SameActive DEF ServerInv, CountedNone
<1>. QED
  BY <1>3, <1>4 DEF ServerInv

LEMMA ApiServer ==
  ASSUME Typed, Typed', ServerInv, NEW c \in Calls, NEW s \in Stages,
         NEW p \in 0..MaxProjects, ApiStep(c, s, p)
  PROVE  ServerInv' /\ FewerWaited /\ CardQuiet /\ DataKept
<1>0. projects \in Nat /\ projects' \in {projects, projects + 1}
  BY AdminsAssumption DEF Typed, ServerOK, ApiStep
<1>1. UNCHANGED <<home, card, list>>
  BY DEF ApiStep, client
<1>2. Staged(c, s, p)
  BY DEF ApiStep
<1>3. \A n : n \in 1..projects => n \in 1..projects'
  BY <1>0
<1>4. ProjectComesFirst'
  <2>1. ASSUME NEW d \in Calls, calls'[d].kind = "create",
               calls'[d].stage \in {"ready", "sent", "done"}
        PROVE  calls'[d].into \in 1..projects'
    <3>1. CASE d = c
      BY <1>2, <2>1, <3>1 DEF ApiStep, Staged
    <3>2. CASE d # c
      BY <1>2, <1>3, <2>1, <3>2 DEF Staged, ServerInv, ProjectComesFirst
    <3>. QED
      BY <3>1, <3>2
  <2>2. ASSUME NEW q \in Projects, rows'[q] # None PROVE q <= projects'
    <3>1. q \in Nat
      BY AdminsAssumption DEF Projects
    <3>2. q <= projects
      BY <2>2 DEF ApiStep, ServerInv, ProjectComesFirst
    <3>. QED
      BY <1>0, <3>1, <3>2
  <2>. QED
    BY <2>1, <2>2 DEF ProjectComesFirst
<1>5. HomeExists'
  BY <1>1, <1>3 DEF ServerInv, HomeExists
<1>6. CountedIsDelete'
  BY <1>2 DEF ServerInv, CountedIsDelete, ApiStep, Staged
<1>7. CountedNone'
  <2>. SUFFICES ASSUME NEW d \in Calls, calls'[d].kind = "delete", calls'[d].stage = "counted"
                PROVE  Active' \subseteq calls'[d].late
    BY DEF CountedNone
  <2>1. calls[d].kind = "delete" /\ calls'[d].late = calls[d].late
    BY <1>2 DEF Staged
  <2>2. Active' \subseteq Active
    BY DEF ApiStep, Active
  <2>3. CASE d = c
    BY <1>2, <2>1, <2>2, <2>3 DEF ApiStep, Staged
  <2>4. CASE d # c
    BY <1>2, <2>1, <2>2, <2>4 DEF Staged, ServerInv, CountedNone
  <2>. QED
    BY <2>3, <2>4
<1>8. FewerWaited
  BY <1>2 DEF Staged, FewerWaited
<1>. QED
  BY <1>1, <1>4, <1>5, <1>6, <1>7, <1>8, SameCards, SameLists DEF ServerInv

LEMMA AnswerServer ==
  ASSUME Typed, Typed', ServerInv, NEW c \in Calls, AnswerStep(c)
  PROVE  ServerInv' /\ FewerWaited
<1>1. CASE Over(c)
  <2>1. /\ calls'[c].kind = "over" /\ calls'[c].stage = "over" /\ ~ calls'[c].mine
        /\ \A d \in Calls \ {c} : calls'[d] = calls[d]
    BY <1>1, OverEffect DEF Typed
  <2>2. ServerInv'
    BY <2>1, SameServer DEF AnswerStep
  <2>3. FewerWaited
    BY <2>1 DEF FewerWaited
  <2>. QED
    BY <2>2, <2>3
<1>2. CASE calls[c].stage = "ready" /\ Staged(c, "sent", calls[c].into)
  <2>1. UNCHANGED <<projects, rows, jobs, home>>
    BY DEF AnswerStep, server
  <2>2. ProjectComesFirst' /\ HomeExists'
    BY <1>2, <2>1 DEF Staged, ServerInv, ProjectComesFirst, HomeExists
  <2>3. CountedIsDelete' /\ CountedNone'
    BY <1>2, <2>1, SameActive DEF Staged, ServerInv, CountedIsDelete, CountedNone
  <2>4. FewerWaited
    BY <1>2 DEF Staged, FewerWaited
  <2>. QED
    BY <2>2, <2>3, <2>4 DEF ServerInv
<1>3. CASE Abandoned(c)
  <2>1. /\ ~ calls'[c].mine
        /\ calls'[c] = [calls[c] EXCEPT !.by = "nobody", !.mine = FALSE]
        /\ \A d \in Calls \ {c} : calls'[d] = calls[d]
    BY <1>3, AbandonedEffect DEF Typed
  <2>2. ServerInv'
    BY <2>1, SameServer DEF AnswerStep
  <2>3. FewerWaited
    BY <2>1 DEF FewerWaited
  <2>. QED
    BY <2>2, <2>3
<1>. QED
  BY <1>1, <1>2, <1>3 DEF AnswerStep

LEMMA JobServer ==
  ASSUME Typed, ServerInv, JobStep
  PROVE  ServerInv' /\ FewerWaited /\ CardQuiet /\ DataKept
<1>1. UNCHANGED <<projects, rows, home, card, list>>
  BY DEF JobStep, client
<1>2. ProjectComesFirst' /\ HomeExists' /\ CountedIsDelete'
  BY <1>1 DEF JobStep, ServerInv, ProjectComesFirst, HomeExists, CountedIsDelete
<1>3. CountedNone'
  BY DEF JobStep, ServerInv, CountedNone
<1>. QED
  BY <1>1, <1>2, <1>3, SameCards, SameLists DEF ServerInv, JobStep, FewerWaited

-----------------------------------------------------------------------------
(* The invariant                                                           *)

SafeInv == Typed /\ PageInv /\ ServerInv

LEMMA InitSafe == ASSUME Init PROVE SafeInv
<1>1. Typed
  BY InitType
<1>2. PageInv
  BY UnsentType DEF Init, FreshCard, PageInv, DialogsHaveCards, OneOfAKind, UntouchedFollow
<1>3. ServerInv
  <2>1. \A c \in Calls : calls[c] = Unsent
    BY DEF Init
  <2>2. \A p \in Projects : rows[p] # None => p <= projects
    BY DEF Init
  <2>3. \A a \in Admins : home[a] = "unknown"
    BY DEF Init
  <2>. QED
    BY <2>1, <2>2, <2>3, UnsentType
       DEF ServerInv, ProjectComesFirst, HomeExists, CountedIsDelete, CountedNone
<1>. QED
  BY <1>1, <1>2, <1>3 DEF SafeInv

LEMMA AdminSafe ==
  ASSUME SafeInv, NEW a \in Admins, Admin(a)
  PROVE  SafeInv' /\ UNCHANGED server
<1>0. Typed /\ PageInv /\ ServerInv /\ DialogsHaveCards /\ HomeExists
  BY DEF SafeInv, PageInv, ServerInv
<1>1. CASE ProjectsArrive(a) \/ ProjectsFail(a) \/ Poll(a) \/ Read(a) \/ FetchFails(a)
  <2>1. Typed' /\ DataKept
    BY <1>0, <1>1, FetchType DEF DataKept
  <2>2. UNCHANGED <<server, card, calls>>
    BY <1>1 DEF ProjectsArrive, ProjectsFail, Poll, Read, FetchFails
  <2>3. UNCHANGED home \/ HomeExists'
    <3>1. CASE ProjectsArrive(a)
      <4>1. home' = [home EXCEPT ![a] = IF projects = 0 THEN "none" ELSE "first"] /\ projects' = projects
        BY <3>1 DEF ProjectsArrive, server
      <4>2. projects \in Nat /\ home \in [Admins -> {"unknown", "none", "first"}]
        BY <1>0, AdminsAssumption DEF Typed, ServerOK, PageOK
      <4>3. projects # 0 => 1 \in 1..projects
        BY <4>2
      <4>. QED
        BY <1>0, <4>1, <4>2, <4>3 DEF HomeExists
    <3>2. CASE ~ ProjectsArrive(a)
      BY <1>1, <3>2 DEF ProjectsFail, Poll, Read, FetchFails
    <3>. QED
      BY <3>1, <3>2
  <2>4. ServerInv'
    BY <1>0, <2>2, <2>3, SameServer
  <2>5. FewerWaited /\ CardQuiet
    BY <2>2, SameCards DEF FewerWaited
  <2>. QED
    BY <1>0, <2>1, <2>2, <2>4, <2>5, QuietPage DEF SafeInv
<1>2. CASE Arrive(a)
  <2>1. Typed' /\ PageInv'
    BY <1>0, <1>2, ArrivePage
  <2>2. UNCHANGED <<server, home>>
    BY <1>2 DEF Arrive
  <2>3. \A c \in Calls : calls'[c] = calls[c] \/ calls'[c] = [calls[c] EXCEPT !.mine = FALSE]
    BY <1>0, <1>2, ArriveEffect
  <2>4. ServerInv'
    BY <1>0, <2>2, <2>3, SameServer
  <2>. QED
    BY <2>1, <2>2, <2>4 DEF SafeInv
<1>3. CASE TogglePause(a) \/ Save(a) \/ Delete(a) \/ Create(a)
  <2>1. Typed' /\ UNCHANGED <<server, client>> /\ \E c \in Calls : NewCall(c)
    BY <1>0, <1>3, SendEffect
  <2>2. UNCHANGED <<home, list, card>>
    BY <2>1 DEF client
  <2>3. ServerInv'
    BY <1>0, <2>1, <2>2, NewCallServer
  <2>. QED
    BY <1>0, <2>1, <2>2, <2>3, QuietPage, SameCards, SameLists DEF SafeInv
<1>4. CASE \/ OpenEdit(a) \/ CloseEdit(a) \/ EditField(a) \/ OpenDelete(a) \/ CloseDelete(a)
           \/ OpenCreate(a) \/ OpenDefault(a) \/ CloseCreate(a) \/ FillCreate(a)
  <2>1. Typed' /\ UNCHANGED <<server, calls>> /\ CardQuiet /\ DataKept
    BY <1>0, <1>4, DialogEffect
  <2>2. UNCHANGED home
    BY <1>4 DEF OpenEdit, CloseEdit, EditField, OpenDelete, CloseDelete, OpenCreate, OpenDefault,
       CloseCreate, FillCreate
  <2>3. ServerInv' /\ FewerWaited
    BY <1>0, <2>1, <2>2, SameServer DEF FewerWaited
  <2>. QED
    BY <1>0, <2>1, <2>3, QuietPage DEF SafeInv
<1>. QED
  BY <1>1, <1>2, <1>3, <1>4 DEF Admin

LEMMA NextSafe == ASSUME SafeInv, [Next]_vars PROVE SafeInv'
<1>0. Typed /\ PageInv /\ ServerInv /\ ProjectComesFirst /\ CountedIsDelete
  BY DEF SafeInv, ServerInv
<1>1. ASSUME NEW a \in Admins, Admin(a)
      PROVE  SafeInv'
  BY <1>1, AdminSafe
<1>2. ASSUME NEW c \in Calls, Api(c)
      PROVE  SafeInv'
  <2>1. PICK s \in Stages, p \in 0..MaxProjects : Typed' /\ ApiStep(c, s, p)
    BY <1>0, <1>2, ServeEffect
  <2>2. ServerInv' /\ FewerWaited /\ CardQuiet /\ DataKept
    BY <1>0, <2>1, ApiServer
  <2>. QED
    BY <1>0, <2>1, <2>2, QuietPage DEF SafeInv
<1>3. ASSUME NEW c \in Calls, Answer(c)
      PROVE  SafeInv'
  <2>1. Typed' /\ AnswerStep(c)
    BY <1>0, <1>3, AnswerEffect
  <2>2. ServerInv' /\ FewerWaited
    BY <1>0, <2>1, AnswerServer
  <2>. QED
    BY <1>0, <2>1, <2>2, QuietPage DEF SafeInv, AnswerStep
<1>4. ASSUME NEW j \in Jobs, SubmitJob(j) \/ FinishJob(j) \/ RequeueJob(j)
      PROVE  SafeInv'
  <2>1. Typed' /\ JobStep
    BY <1>0, <1>4, JobEffect
  <2>2. ServerInv' /\ FewerWaited /\ CardQuiet /\ DataKept
    BY <1>0, <2>1, JobServer
  <2>. QED
    BY <1>0, <2>1, <2>2, QuietPage DEF SafeInv
<1>5. CASE UNCHANGED vars
  <2>1. UNCHANGED <<projects, rows, made, jobs, home, asking, list, card, create, blank, calls, clicks>>
    BY <1>5 DEF vars, server, client
  <2>2. Typed'
    BY <1>0, <2>1 DEF Typed, ServerOK, PageOK, CallsOK, ClicksOK
  <2>3. UNCHANGED server /\ CardQuiet /\ DataKept /\ FewerWaited
    BY <2>1, SameCards, SameLists DEF server, FewerWaited
  <2>. QED
    BY <1>0, <2>1, <2>2, <2>3, QuietPage, SameServer DEF SafeInv
<1>. QED
  BY <1>1, <1>2, <1>3, <1>4, <1>5 DEF Next

LEMMA AlwaysSafe == Spec => []SafeInv
<1>1. Init => SafeInv
  BY InitSafe
<1>2. SafeInv /\ [Next]_vars => SafeInv'
  BY NextSafe
<1>. QED
  BY <1>1, <1>2, PTL DEF Spec

\* Whichever answers come late or never and whatever is closed, replaced or deleted
\* meanwhile: dialogs belong to cards, a component waits for one mutation of a kind,
\* and a queue is sent only after its project (createMutation, Queues.tsx:59).
THEOREM AdminInvHolds == Spec => []AdminInv
<1>1. SafeInv => AdminInv
  BY TypedIsTypeOK DEF SafeInv, AdminInv, PageInv, ServerInv
<1>. QED
  BY <1>1, AlwaysSafe, PTL

\* A save writes back what was typed and what the last poll showed, nothing older
\* (QueueCard.tsx:51): for any number of administrators, fields and values.
THEOREM UntouchedFollows == Spec => []UntouchedFollow
<1>1. SafeInv => UntouchedFollow
  BY DEF SafeInv, PageInv
<1>. QED
  BY <1>1, AlwaysSafe, PTL

\* Who changes the rows.
LEMMA RowsChange ==
  ASSUME SafeInv, [Next]_vars, rows' # rows
  PROVE  \E c \in Calls : ServePause(c) \/ ServeSave(c) \/ ServeDelete(c) \/ ServeCreate(c)
<1>1. CASE \E a \in Admins : Admin(a)
  BY <1>1, AdminSafe DEF server
<1>2. CASE \E c \in Calls : Answer(c)
  BY <1>2 DEF Answer, Succeed, Refused, Invalid, CallLost, ProjectCreated, server
<1>3. CASE \E j \in Jobs : SubmitJob(j) \/ FinishJob(j) \/ RequeueJob(j)
  BY <1>3 DEF SubmitJob, FinishJob, RequeueJob
<1>4. CASE UNCHANGED vars
  BY <1>4 DEF vars, server
<1>5. CASE \E c \in Calls : Api(c)
  BY <1>5 DEF Api, ServeGone, ServeCount, ServeProject, server
<1>. QED
  BY <1>1, <1>2, <1>3, <1>4, <1>5 DEF Next

\* Only a "resume" makes a paused queue run again.
THEOREM PausedStays == Spec => PausedStaysPaused
<1>. DEFINE Resumed(p) == \E c \in Calls : /\ calls[c].kind = "resume"
                                           /\ calls[c].queue = Value(rows[p]).id
                                           /\ calls[c].stage = "sent" /\ calls'[c].stage = "done"
            Wakes(p) == /\ rows[p] # None /\ rows'[p] # None
                        /\ Value(rows[p]).id = Value(rows'[p]).id
                        /\ Value(rows[p]).paused /\ ~ Value(rows'[p]).paused
<1>1. ASSUME SafeInv, [Next]_vars, NEW p \in Projects, Wakes(p)
      PROVE  Resumed(p)
  <2>0. /\ ServerOK /\ CallsOK /\ rows \in [Projects -> Rows] /\ 1 \in Projects
        /\ Value(rows[p]) \in Row
    <3>1. ServerOK /\ CallsOK
      BY <1>1 DEF SafeInv, Typed
    <3>. QED
      BY <1>1, <3>1, RowType, AdminsAssumption DEF ServerOK, Projects
  <2>1. rows' # rows
    BY <1>1
  <2>2. PICK c \in Calls : ServePause(c) \/ ServeSave(c) \/ ServeDelete(c) \/ ServeCreate(c)
    BY <1>1, <2>1, RowsChange
  <2>3. CASE ServePause(c)
    <3>. DEFINE paused == calls[c].kind = "pause"
                row == [Value(rows[1]) EXCEPT !.paused = paused]
    <3>1. /\ rows' = [rows EXCEPT ![1] = Some(row)] /\ Served(c, "done")
          /\ calls[c].kind \in {"pause", "resume"} /\ calls[c].stage = "sent"
          /\ Value(rows[1]).id = calls[c].queue
      BY <2>3 DEF ServePause, There
    <3>2. p = 1
      BY <2>0, <1>1, <3>1
    <3>3. Value(rows'[1]) = row
      BY <2>0, <3>1, OptionFacts
    <3>. HIDE DEF paused
    <3>4. row.paused = paused
      BY <2>0, <3>2 DEF Row
    <3>5. ~ paused
      BY <1>1, <3>2, <3>3, <3>4
    <3>6. calls[c].kind = "resume"
      BY <3>1, <3>5 DEF paused
    <3>7. calls'[c].stage = "done"
      BY <2>0, <3>1, ServedEffect DEF Staged, Stages
    <3>. QED
      BY <3>1, <3>2, <3>6, <3>7
  <2>4. CASE ServeSave(c)
    <3>. DEFINE row == Saved(Value(rows[1]), c)
    <3>1. rows' = [rows EXCEPT ![1] = Some(row)]
      BY <2>1, <2>4 DEF ServeSave
    <3>2. p = 1
      BY <2>0, <1>1, <3>1
    <3>3. Value(rows'[1]) = row
      BY <2>0, <3>1, OptionFacts
    <3>4. row.paused = Value(rows[1]).paused
      BY <2>0, <3>2 DEF Saved, Row
    <3>. QED
      BY <1>1, <3>2, <3>3, <3>4
  <2>5. CASE ServeDelete(c)
    <3>1. rows' = [rows EXCEPT ![1] = None]
      BY <2>1, <2>5 DEF ServeDelete
    <3>. QED
      BY <1>1, <2>0, <3>1
  <2>6. CASE ServeCreate(c)
    <3>1. /\ rows[calls[c].into] = None
          /\ \E o : rows' = [rows EXCEPT ![calls[c].into] = o]
      BY <2>1, <2>6 DEF ServeCreate
    <3>. QED
      BY <1>1, <2>0, <3>1
  <2>. QED
    BY <2>2, <2>3, <2>4, <2>5, <2>6
<1>2. SafeInv /\ [Next]_vars =>
     [\A p \in Projects :
        rows[p] # None /\ rows'[p] # None /\ Value(rows[p]).id = Value(rows'[p]).id
           /\ Value(rows[p]).paused /\ ~Value(rows'[p]).paused
        => \E c \in Calls : calls[c].kind = "resume" /\ calls[c].queue = Value(rows[p]).id
                            /\ calls[c].stage = "sent" /\ calls'[c].stage = "done"]_vars
  BY <1>1
<1>. QED
  BY <1>2, AlwaysSafe, PTL DEF Spec, PausedStaysPaused

\* A queue goes only by a delete that was clicked on its own card; the active jobs that
\* go with it, unless it was forced, came after the count (queue_service.py:165).
THEOREM DeletesAreCounted == Spec => DeletedAsCounted
<1>. DEFINE Goes == rows[1] # None /\ rows'[1] = None
            Takes(c) == /\ calls[c].kind \in {"delete", "force"} /\ calls[c].stage = "counted"
                        /\ calls'[c].stage = "done" /\ calls[c].queue = Value(rows[1]).id
                        /\ calls[c].kind = "delete" => Active \subseteq calls[c].late
<1>1. ASSUME SafeInv, [Next]_vars, Goes
      PROVE  \E c \in Calls : Takes(c)
  <2>0. /\ ServerOK /\ CallsOK /\ rows \in [Projects -> Rows] /\ 1 \in Projects
        /\ CountedIsDelete /\ CountedNone
    BY <1>1, AdminsAssumption DEF SafeInv, Typed, ServerInv, ServerOK, Projects
  <2>1. rows' # rows
    BY <1>1
  <2>2. PICK c \in Calls : ServePause(c) \/ ServeSave(c) \/ ServeDelete(c) \/ ServeCreate(c)
    BY <1>1, <2>1, RowsChange
  <2>3. CASE ServeDelete(c)
    <3>1. /\ calls[c].stage = "counted" /\ Served(c, "done")
          /\ calls[c].queue = Value(rows[1]).id
      BY <2>1, <2>3 DEF ServeDelete, There
    <3>2. calls'[c].stage = "done"
      BY <2>0, <3>1, ServedEffect DEF Staged, Stages
    <3>3. Takes(c)
      BY <2>0, <3>1, <3>2 DEF CountedIsDelete, CountedNone
    <3>. QED
      BY <3>3
  <2>4. CASE ServePause(c) \/ ServeSave(c) \/ ServeCreate(c)
    <3>1. \E p, r : rows' = [rows EXCEPT ![p] = Some(r)]
      BY <2>1, <2>4 DEF ServePause, ServeSave, ServeCreate
    <3>. QED
      BY <1>1, <2>0, <3>1, OptionFacts
  <2>. QED
    BY <2>2, <2>3, <2>4
<1>2. SafeInv /\ [Next]_vars =>
     [rows[1] # None /\ rows'[1] = None =>
        \E c \in Calls :
           /\ calls[c].kind \in {"delete", "force"} /\ calls[c].stage = "counted"
           /\ calls'[c].stage = "done" /\ calls[c].queue = Value(rows[1]).id
           /\ calls[c].kind = "delete" => Active \subseteq calls[c].late]_vars
  BY <1>1
<1>. QED
  BY <1>2, AlwaysSafe, PTL DEF Spec, DeletedAsCounted
=============================================================================
