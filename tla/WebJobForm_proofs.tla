--------------------------- MODULE WebJobForm_proofs ---------------------------
(***************************************************************************)
(* Proofs about WebJobForm: for any number of queues, submissions, clicks  *)
(* and faults, a visit of the page sends one submission at a time, no      *)
(* click makes two jobs, and the cron expression repeats as it is shown.    *)
(***************************************************************************)
EXTENDS WebJobForm, FiniteSetTheorems, TLAPS

FormType ==
    [queue : Queues \union {NoQueue}, timing : Timings, payload : BOOLEAN,
     numbers : BOOLEAN, date : {"none", "past", "future"},
     value : Int \union {NoValue}, unit : Units, expr : Crons]

LEMMA ExprIsCron ==
    ASSUME NEW u \in Units, NEW v \in Int \union {NoValue}
    PROVE  ExprOf(u, v) \in Crons /\ ExprOf(u, v).unit = u
  BY FormAssumption DEF ExprOf, Cron, Crons

LEMMA PresetsAreBuilt ==
    ASSUME NEW p \in Presets
    PROVE  /\ p.value \in Int /\ p.unit \in Units /\ p.expr \in Crons
           /\ \/ p.expr = ExprOf(p.unit, p.value)
              \/ p.unit = "hours" /\ p.value = 24 /\ p.expr = Cron("days", 1)
  BY FormAssumption DEF Presets, Preset, Cron, Crons, Units, ExprOf

LEMMA FreshIsForm == Fresh \in FormType
  BY DEF Fresh, FormType, Timings, Units, Crons, Cron

\* The effect selects a known queue and changes no other field.
LEMMA AutoSelects ==
    ASSUME NEW f \in FormType, NEW known \in SUBSET Queues, NEW g \in AutoSelected(f, known)
    PROVE  /\ g \in FormType
           /\ g.value = f.value /\ g.unit = f.unit /\ g.expr = f.expr
  BY DEF AutoSelected, FormType

-----------------------------------------------------------------------------
(* JobFormInv is inductive.                                                *)

LEMMA InitHolds == Init => JobFormInv
  <1> SUFFICES ASSUME Init PROVE JobFormInv
    OBVIOUS
  <1> USE FormAssumption DEF Init
  <1>1. Unsent \in [stage : {"off", "sent", "made", "missing", "invalid", "over"}, ask : Asks]
    BY DEF Unsent, Asks, Timings, Crons, Cron, Units
  <1>2. TypeOK
    BY <1>1, FreshIsForm DEF TypeOK, Closed, FormType
  <1>3. UnderWay = {}
    BY DEF UnderWay, Unsent
  <1>4. SecondAfterReport /\ GoneIsIdle
    BY <1>3 DEF SecondAfterReport, GoneIsIdle
  <1>5. MadeIsCounted
    BY DEF MadeIsCounted, Unsent
  <1> QED
    BY <1>2, <1>4, <1>5 DEF JobFormInv

LEMMA Clicks ==
    ASSUME TypeOK, Click
    PROVE  clicks' \in 0..ClickBudget
  BY FormAssumption DEF TypeOK, Click

LEMMA EditStep ==
    ASSUME JobFormInv, NEW f \in FormType, Edit(f)
    PROVE  JobFormInv'
  <1> USE DEF JobFormInv, Edit
  <1>1. TypeOK'
    BY Clicks DEF TypeOK, FormType
  <1>2. SecondAfterReport' /\ GoneIsIdle' /\ MadeIsCounted'
    BY DEF SecondAfterReport, UnderWay, GoneIsIdle, MadeIsCounted
  <1> QED
    BY <1>1, <1>2

\* Every edit leaves a form behind.
LEMMA EditSteps ==
    ASSUME TypeOK,
           \/ SelectQueue \/ EditPayload \/ EditNumbers \/ SetTiming \/ EditDate
           \/ SetValue \/ SetUnit \/ ChoosePreset
    PROVE  \E f \in FormType : Edit(f)
  <1>1. form \in FormType /\ listed \subseteq Queues
    BY DEF TypeOK, FormType
  <1>2. CASE SelectQueue \/ EditPayload \/ EditNumbers \/ SetTiming \/ EditDate
    BY <1>1, <1>2 DEF SelectQueue, EditPayload, EditNumbers, SetTiming, EditDate, FormType
  <1>3. CASE SetValue
    <2>1. PICK v \in Values \union {NoValue} :
             Edit([form EXCEPT !.value = v, !.expr = ExprOf(form.unit, v)])
      BY <1>3 DEF SetValue
    <2>2. v \in Int \union {NoValue} /\ ExprOf(form.unit, v) \in Crons
      BY <1>1, ExprIsCron, FormAssumption DEF FormType
    <2> QED
      BY <1>1, <2>1, <2>2 DEF FormType
  <1>4. CASE SetUnit
    <2>1. PICK u \in Units : Edit([form EXCEPT !.unit = u, !.expr = ExprOf(u, form.value)])
      BY <1>4 DEF SetUnit
    <2>2. ExprOf(u, form.value) \in Crons
      BY <1>1, ExprIsCron DEF FormType
    <2> QED
      BY <1>1, <2>1, <2>2 DEF FormType
  <1>5. CASE ChoosePreset
    <2>1. PICK p \in Presets :
             Edit([form EXCEPT !.value = p.value, !.unit = p.unit, !.expr = p.expr])
      BY <1>5 DEF ChoosePreset
    <2> QED
      BY <1>1, <2>1, PresetsAreBuilt DEF FormType
  <1> QED
    BY <1>2, <1>3, <1>4, <1>5

\* Entering, leaving, opening and closing.
LEMMA PageSteps ==
    ASSUME JobFormInv, EnterPage \/ LeavePage \/ ListArrives \/ OpenDialog \/ CloseDialog
    PROVE  JobFormInv'
  <1> USE FormAssumption DEF JobFormInv
  <1>0. form \in FormType /\ listed \subseteq Queues /\ queues \subseteq Queues
    BY DEF TypeOK, FormType
  <1>1. CASE EnterPage
    <2>1. listed' \subseteq Queues /\ form' \in FormType
      BY <1>0, <1>1, FreshIsForm, AutoSelects DEF EnterPage
    <2>2. TypeOK'
      BY <1>1, <2>1, Clicks DEF TypeOK, EnterPage, Closed, FormType
    <2>3. UnderWay' = UnderWay /\ UNCHANGED <<pending, mine, requests, jobs>> /\ page' = "here"
      BY <1>1 DEF EnterPage, UnderWay
    <2>4. SecondAfterReport' /\ GoneIsIdle' /\ MadeIsCounted'
      BY <2>3 DEF SecondAfterReport, GoneIsIdle, MadeIsCounted
    <2> QED
      BY <2>2, <2>4
  <1>2. CASE LeavePage
    <2>1. TypeOK'
      BY <1>2, FreshIsForm, Clicks DEF TypeOK, LeavePage, Closed, FormType
    <2> QED
      BY <1>2, <2>1 DEF LeavePage, SecondAfterReport, UnderWay, GoneIsIdle, MadeIsCounted, Closed
  <1>3. CASE ListArrives
    <2>1. listed' \subseteq Queues /\ form' \in FormType
      BY <1>0, <1>3, AutoSelects DEF ListArrives
    <2>2. TypeOK'
      BY <1>3, <2>1 DEF TypeOK, ListArrives, FormType
    <2> QED
      BY <1>3, <2>2 DEF ListArrives, SecondAfterReport, UnderWay, GoneIsIdle, MadeIsCounted
  <1>4. CASE OpenDialog \/ CloseDialog
    <2>1. dialog' \in [open : BOOLEAN, error : BOOLEAN]
      <3>1. dialog \in [open : BOOLEAN, error : BOOLEAN]
        BY DEF TypeOK
      <3>2. CASE OpenDialog
        BY <3>2 DEF OpenDialog
      <3>3. CASE CloseDialog
        BY <3>1, <3>3 DEF CloseDialog
      <3> QED
        BY <1>4, <3>2, <3>3
    <2>2. /\ UNCHANGED <<page, form, pending, mine, listed, requests, jobs, queues, submits, faults>>
          /\ clicks' \in 0..ClickBudget
      BY <1>4, Clicks DEF OpenDialog, CloseDialog
    <2>3. TypeOK'
      BY <2>1, <2>2 DEF TypeOK
    <2> QED
      BY <1>4, <2>2, <2>3 DEF OpenDialog, CloseDialog, SecondAfterReport, UnderWay,
                              GoneIsIdle, MadeIsCounted
  <1> QED
    BY <1>1, <1>2, <1>3, <1>4

LEMMA SubmitStep ==
    ASSUME JobFormInv, Submit
    PROVE  JobFormInv'
  <1> USE FormAssumption DEF JobFormInv
  <1>1. CASE Complaint
    <2>1. /\ dialog' = [dialog EXCEPT !.error = TRUE]
          /\ UNCHANGED <<pending, mine, requests, submits, page, form, listed, jobs, queues, faults>>
      BY <1>1 DEF Submit
    <2>2. TypeOK'
      BY <2>1, Clicks DEF TypeOK, Submit
    <2> QED
      BY <2>1, <2>2 DEF Submit, CanSubmit, SecondAfterReport, UnderWay, GoneIsIdle, MadeIsCounted
  <1>2. CASE ~Complaint
    <2>1. PICK r \in Requests :
             /\ requests[r].stage = "off"
             /\ requests' = [requests EXCEPT ![r] = [stage |-> "sent", ask |-> Asked]]
             /\ pending' = r
             /\ mine' = mine \union {r}
      BY <1>2 DEF Submit
    <2>2. /\ page = "here" /\ pending = Nobody /\ form.queue # NoQueue
          /\ submits' = submits + 1
          /\ UNCHANGED <<dialog, page, form, listed, jobs, queues, faults>>
      BY <1>2 DEF Submit, CanSubmit
    <2>3. Asked \in Asks
      BY <2>2 DEF Asked, Asks, TypeOK
    <2>4. TypeOK'
      BY <2>1, <2>2, <2>3, Clicks DEF TypeOK, Submit
    <2>5. UnderWay' = UnderWay \union {r}
      BY <2>1 DEF UnderWay, TypeOK
    <2>6. SecondAfterReport'
      BY <2>1, <2>2, <2>5 DEF SecondAfterReport
    <2>7. GoneIsIdle' /\ MadeIsCounted'
      BY <2>1, <2>2 DEF GoneIsIdle, MadeIsCounted, TypeOK
    <2> QED
      BY <2>4, <2>6, <2>7
  <1> QED
    BY <1>1, <1>2

LEMMA ReceiveStep ==
    ASSUME JobFormInv, NEW r \in Requests, Receive(r)
    PROVE  JobFormInv'
  <1> USE DEF JobFormInv
  <1>1. PICK stage \in {"missing", "made", "invalid"} :
           /\ requests' = [requests EXCEPT ![r].stage = stage]
           /\ jobs' = IF stage = "made" THEN [jobs EXCEPT ![r] = @ + 1] ELSE jobs
    BY DEF Receive
  <1>2. /\ requests[r].stage = "sent"
        /\ UNCHANGED <<page, dialog, form, pending, mine, listed, queues, clicks, submits, faults>>
    BY DEF Receive
  <1>3. TypeOK'
    BY <1>1, <1>2 DEF TypeOK
  <1>4. UnderWay' = UnderWay
    BY <1>1, <1>2 DEF UnderWay, TypeOK
  <1>5. SecondAfterReport' /\ GoneIsIdle'
    BY <1>2, <1>4 DEF SecondAfterReport, GoneIsIdle
  <1>6. MadeIsCounted'
    BY <1>1, <1>2 DEF MadeIsCounted, TypeOK
  <1> QED
    BY <1>3, <1>5, <1>6

\* An answer, or its absence, ends a request; only a page that waits for it notices.
LEMMA EndStep ==
    ASSUME JobFormInv, NEW r \in Requests, requests[r].stage \notin {"off", "over"},
           NEW shown \in [open : BOOLEAN, error : BOOLEAN], Ends(r, shown),
           shown.open => dialog.open,
           UNCHANGED <<listed, jobs, queues, clicks, submits>>,
           faults' \in 0..FaultBudget,
           \/ UNCHANGED <<page, form, mine>>
           \/ /\ pending = r /\ page' = "blank" /\ form' = Fresh /\ mine' = {}
              /\ ~shown.open
    PROVE  JobFormInv'
  <1> USE DEF JobFormInv
  <1>1. requests' = [requests EXCEPT ![r].stage = "over"]
    BY DEF Ends
  <1>2. TypeOK'
    BY <1>1, FreshIsForm DEF TypeOK, Ends, FormType
  <1>3. UnderWay' = UnderWay \ {r}
    BY <1>1 DEF UnderWay, TypeOK
  <1>4. SecondAfterReport'
    BY <1>3 DEF SecondAfterReport, Ends
  <1>5. GoneIsIdle'
    BY DEF GoneIsIdle, Ends
  <1>6. MadeIsCounted'
    BY <1>1 DEF MadeIsCounted, TypeOK
  <1> QED
    BY <1>2, <1>4, <1>5, <1>6

LEMMA AnswerSteps ==
    ASSUME JobFormInv, NEW r \in Requests, Answered(r) \/ Missing(r) \/ Rejected(r) \/ Lost(r)
    PROVE  JobFormInv'
  <1>1. /\ dialog \in [open : BOOLEAN, error : BOOLEAN]
        /\ Closed \in [open : BOOLEAN, error : BOOLEAN] /\ ~Closed.open
        /\ [dialog EXCEPT !.error = TRUE] \in [open : BOOLEAN, error : BOOLEAN]
        /\ [dialog EXCEPT !.error = TRUE].open = dialog.open
        /\ faults \in 0..FaultBudget
    BY DEF JobFormInv, TypeOK, Closed
  <1>2. CASE Answered(r)
    BY <1>1, <1>2, EndStep DEF Answered
  <1>3. CASE Missing(r)
    BY <1>1, <1>3, EndStep DEF Missing
  <1>4. CASE Rejected(r)
    <2>1. CASE pending = r /\ dialog.open
      <3>1. /\ Ends(r, Closed) /\ page' = "blank" /\ form' = Fresh /\ mine' = {}
            /\ UNCHANGED <<listed, jobs, queues, clicks, submits, faults>>
            /\ requests[r].stage = "invalid"
        BY <1>4, <2>1 DEF Rejected
      <3> QED
        BY <1>1, <2>1, <3>1, EndStep
    <2>2. CASE ~(pending = r /\ dialog.open)
      <3>1. /\ Ends(r, [dialog EXCEPT !.error = TRUE]) /\ UNCHANGED <<page, form, mine>>
            /\ UNCHANGED <<listed, jobs, queues, clicks, submits, faults>>
            /\ requests[r].stage = "invalid"
        BY <1>4, <2>2 DEF Rejected
      <3> QED
        BY <1>1, <3>1, EndStep
    <2> QED
      BY <2>1, <2>2
  <1>5. CASE Lost(r)
    <2>1. faults' \in 0..FaultBudget
      BY <1>1, <1>5, FormAssumption DEF Lost
    <2> QED
      BY <1>1, <1>5, <2>1, EndStep DEF Lost
  <1> QED
    BY <1>2, <1>3, <1>4, <1>5

LEMMA OutsideSteps ==
    ASSUME JobFormInv, TimePasses \/ DeleteQueue
    PROVE  JobFormInv'
  <1> USE FormAssumption DEF JobFormInv
  <1>1. CASE TimePasses
    <2>1. \A r \in Requests : /\ requests'[r] \in [stage : {"off", "sent", "made", "missing",
                                                           "invalid", "over"}, ask : Asks]
                              /\ requests'[r].stage = requests[r].stage
      <3> SUFFICES ASSUME NEW r \in Requests
                   PROVE  /\ requests'[r] \in [stage : {"off", "sent", "made", "missing",
                                                       "invalid", "over"}, ask : Asks]
                          /\ requests'[r].stage = requests[r].stage
        OBVIOUS
      <3>1. requests[r] \in [stage : {"off", "sent", "made", "missing", "invalid", "over"},
                             ask : Asks]
        BY DEF TypeOK
      <3>2. requests'[r] = IF requests[r].stage = "sent"
                           THEN [requests[r] EXCEPT !.ask = [@ EXCEPT !.late = TRUE]]
                           ELSE requests[r]
        BY <1>1 DEF TimePasses
      <3>3. [requests[r].ask EXCEPT !.late = TRUE] \in Asks
        BY <3>1 DEF Asks
      <3> QED
        BY <3>1, <3>2, <3>3
    <2>2. TypeOK'
      BY <1>1, <2>1 DEF TimePasses, TypeOK
    <2>3. UnderWay' = UnderWay /\ UNCHANGED <<page, dialog, pending, mine, jobs>>
      BY <1>1, <2>1 DEF TimePasses, UnderWay
    <2>4. SecondAfterReport' /\ GoneIsIdle'
      BY <2>3 DEF SecondAfterReport, GoneIsIdle
    <2>5. MadeIsCounted'
      BY <2>1, <2>3 DEF MadeIsCounted
    <2> QED
      BY <2>2, <2>4, <2>5
  <1>2. CASE DeleteQueue
    <2>1. TypeOK'
      BY <1>2 DEF DeleteQueue, TypeOK
    <2> QED
      BY <1>2, <2>1 DEF DeleteQueue, SecondAfterReport, UnderWay, GoneIsIdle, MadeIsCounted
  <1> QED
    BY <1>1, <1>2

LEMMA StepKeeps == JobFormInv /\ [Next]_vars => JobFormInv'
  <1> SUFFICES ASSUME JobFormInv, [Next]_vars PROVE JobFormInv'
    OBVIOUS
  <1>1. CASE UserStep
    <2>1. TypeOK
      BY DEF JobFormInv
    <2> QED
      BY <1>1, <2>1, EditStep, EditSteps, PageSteps, SubmitStep DEF UserStep
  <1>2. CASE ListArrives \/ TimePasses \/ DeleteQueue
    BY <1>2, PageSteps, OutsideSteps
  <1>3. ASSUME NEW r \in Requests, Outside(r) PROVE JobFormInv'
    BY <1>3, ReceiveStep, AnswerSteps DEF Outside
  <1>4. CASE UNCHANGED vars
    BY <1>4 DEF vars, JobFormInv, TypeOK, SecondAfterReport, UnderWay, GoneIsIdle, MadeIsCounted
  <1> QED
    BY <1>1, <1>2, <1>3, <1>4 DEF Next

\* JobFormInv: whatever is opened, closed, left, lost or deleted, a visit of the job
\* explorer has at most the submission under way that its button waits for.
THEOREM JobFormInvHolds == Spec => []JobFormInv
  BY InitHolds, StepKeeps, PTL DEF Spec

-----------------------------------------------------------------------------
(* The cron builder.                                                       *)

\* All presets but one write what their number and unit would.
Built ==
    /\ form.value \in Numbers
    /\ \/ form.expr = ExprOf(form.unit, form.value)
       \/ form.unit = "hours" /\ form.value = 24 /\ form.expr = Cron("days", 1)

(* Division, with a symbolic divisor.                                        *)

LEMMA Division ==
    ASSUME NEW t \in Int, NEW p \in Int, p > 0
    PROVE  /\ t = (t \div p) * p + (t % p)
           /\ t \div p \in Int /\ t % p \in 0..(p - 1)
  <1>1. t = (t \div p) * p + (t % p)
    OBVIOUS
  <1>2. t \div p \in Int /\ t % p \in 0..(p - 1)
    OBVIOUS
  <1> QED
    BY <1>1, <1>2

LEMMA DivMod ==
    ASSUME NEW t \in Int, NEW p \in Int, p > 0, NEW q \in Int, NEW r \in 0..(p - 1),
           t = q * p + r
    PROVE  t % p = r /\ t \div p = q
  <1> DEFINE k == t \div p  s == t % p
  <1>1. k \in Int /\ s \in 0..(p - 1) /\ k * p + s = q * p + r
    BY Division
  <1> HIDE DEF k, s
  <1>2. (k - q) * p = r - s
    BY <1>1
  <1>3. CASE k - q >= 1
    <2>1. (k - q) * p >= p
      BY <1>1, <1>3
    <2> QED
      BY <1>1, <1>2, <2>1
  <1>4. CASE k - q <= 0 - 1
    <2>1. (k - q) * p <= 0 - p
      BY <1>1, <1>4
    <2> QED
      BY <1>1, <1>2, <2>1
  <1>5. CASE k = q
    BY <1>1, <1>5 DEF k, s
  <1> QED
    BY <1>1, <1>3, <1>4, <1>5

\* From one multiple of n to the next there is no other.
LEMMA BetweenMultiples ==
    ASSUME NEW n \in Int, n > 0, NEW m \in Int, m % n = 0, NEW e \in 1..(n - 1)
    PROVE  (m + e) % n # 0
  <1> DEFINE a == m \div n
  <1>1. a \in Int /\ m = a * n
    BY Division
  <1> HIDE DEF a
  <1>2. m + e = a * n + e
    BY <1>1
  <1> QED
    BY <1>1, <1>2, DivMod

LEMMA NextMultiple ==
    ASSUME NEW n \in Int, n > 0, NEW m \in Int, m % n = 0
    PROVE  (m + n) % n = 0
  <1> DEFINE a == m \div n
  <1>1. a \in Int /\ m = a * n
    BY Division
  <1> HIDE DEF a
  <1>2. m + n = (a + 1) * n + 0
    BY <1>1
  <1> QED
    BY <1>1, <1>2, DivMod

LEMMA ZeroIsMultiple ==
    ASSUME NEW n \in Int, n > 0
    PROVE  0 % n = 0
  <1>1. 0 = 0 * n + 0
    OBVIOUS
  <1> QED
    BY <1>1, DivMod

(* What each kind of expression repeats.                                     *)

LEMMA MinutesRepeat ==
    ASSUME NEW n \in Int, n > 0, NEW v, Period("minutes", v) = n
    PROVE  Repeats(Cron("minutes", n), "minutes", v)
  <1> DEFINE c == Cron("minutes", n)
  <1>1. \A t \in Nat : Matches(c, t) <=> (t % 60) % n = 0
    BY DEF Matches, Cron
  <1>2. Matches(c, 0)
    BY <1>1, ZeroIsMultiple
  <1>3. ASSUME NEW t \in Month, Matches(c, t)
        PROVE  LET next == NextRun("minutes", n, t) IN
               /\ \A u \in (t + 1)..(next - 1) : ~Matches(c, u)
               /\ next \in Month => Matches(c, next)
    <2> DEFINE h == t \div 60  m == t % 60  next == NextRun("minutes", n, t)
    <2>1. t \in Nat /\ h \in Int /\ m \in 0..59 /\ t = h * 60 + m /\ m % n = 0
      <3>1. t \in Nat
        BY DEF Month
      <3>2. m % n = 0
        BY <1>1, <1>3, <3>1
      <3>3. h \in Int /\ m \in 0..59 /\ t = h * 60 + m
        BY <3>1
      <3> QED
        BY <3>1, <3>2, <3>3
    <2>2. next = IF t + n < (h + 1) * 60 THEN t + n ELSE (h + 1) * 60
      BY DEF NextRun, CycleMinutes
    <2> HIDE DEF h, m, next
    <2>3. ASSUME NEW u \in (t + 1)..(next - 1) PROVE ~Matches(c, u)
      <3> DEFINE e == u - t
      <3>1. e \in 1..(n - 1) /\ m + e \in 0..59 /\ u = h * 60 + (m + e) /\ u \in Nat
        BY <2>1, <2>2
      <3> HIDE DEF e
      <3>2. u % 60 = m + e
        BY <2>1, <3>1, DivMod
      <3>3. (m + e) % n # 0
        <4>1. m \in Int /\ m % n = 0 /\ e \in 1..(n - 1)
          BY <2>1, <3>1
        <4> QED
          BY <4>1, BetweenMultiples
      <3> QED
        BY <1>1, <2>1, <3>2, <3>3
    <2>4. Matches(c, next)
      <3>1. CASE t + n < (h + 1) * 60
        <4>1. next = h * 60 + (m + n) /\ m + n \in 0..59
          BY <2>1, <2>2, <3>1
        <4>2. next % 60 = m + n
          BY <2>1, <4>1, DivMod
        <4>3. (m + n) % n = 0
          BY <2>1, NextMultiple
        <4> QED
          BY <1>1, <2>1, <2>2, <3>1, <4>2, <4>3
      <3>2. CASE ~(t + n < (h + 1) * 60)
        <4>1. next = (h + 1) * 60 /\ next \in Nat
          BY <2>1, <2>2, <3>2
        <4>2. next % 60 = 0
          BY <2>1, <4>1
        <4> QED
          BY <1>1, <4>1, <4>2, ZeroIsMultiple
      <3> QED
        BY <3>1, <3>2
    <2> QED
      BY <2>3, <2>4 DEF next
  <1> QED
    BY <1>2, <1>3 DEF Repeats

LEMMA HoursRepeat ==
    ASSUME NEW n \in Int, n > 0, NEW v, Period("hours", v) = 60 * n
    PROVE  Repeats(Cron("hours", n), "hours", v)
  <1> DEFINE c == Cron("hours", n)
  <1>1. \A t \in Nat : Matches(c, t) <=> t % 60 = 0 /\ ((t \div 60) % 24) % n = 0
    BY DEF Matches, Cron
  <1>2. Matches(c, 0)
    BY <1>1, ZeroIsMultiple
  <1>3. ASSUME NEW t \in Month, Matches(c, t)
        PROVE  LET next == NextRun("hours", 60 * n, t) IN
               /\ \A u \in (t + 1)..(next - 1) : ~Matches(c, u)
               /\ next \in Month => Matches(c, next)
    <2> DEFINE h == t \div 60  d == h \div 24  g == h % 24
               next == NextRun("hours", 60 * n, t)
    <2>1. /\ t \in Nat /\ h \in Int /\ t = h * 60
          /\ d \in Int /\ g \in 0..23 /\ h = d * 24 + g /\ g % n = 0
      <3>1. t \in Nat
        BY DEF Month
      <3>2. t % 60 = 0 /\ g % n = 0
        BY <1>1, <1>3, <3>1
      <3>3. h \in Int /\ t = h * 60
        BY <3>1, <3>2
      <3> HIDE DEF h
      <3>4. d \in Int /\ g \in 0..23 /\ h = d * 24 + g
        BY <3>3
      <3> QED
        BY <3>1, <3>2, <3>3, <3>4
    <2>2. t \div 1440 = d
      BY <2>1
    <2>3. next = IF t + 60 * n < (d + 1) * 1440 THEN t + 60 * n ELSE (d + 1) * 1440
      BY <2>2 DEF NextRun, CycleMinutes
    <2> HIDE DEF h, d, g, next
    <2>4. ASSUME NEW u \in (t + 1)..(next - 1), Matches(c, u) PROVE FALSE
      <3> DEFINE k == u \div 60
      <3>1. u \in Nat /\ k \in Int /\ u = k * 60 /\ (k % 24) % n = 0
        BY <1>1, <2>1, <2>3, <2>4
      <3> DEFINE e == k - h
      <3> HIDE DEF k
      <3>2. e \in 1..(n - 1) /\ g + e \in 0..23 /\ k = d * 24 + (g + e)
        BY <2>1, <2>3, <3>1
      <3> HIDE DEF e
      <3>3. k % 24 = g + e
        BY <2>1, <3>1, <3>2, DivMod
      <3>4. (g + e) % n # 0
        BY <2>1, <3>2, BetweenMultiples
      <3> QED
        BY <3>1, <3>3, <3>4
    <2>5. Matches(c, next)
      <3>1. CASE t + 60 * n < (d + 1) * 1440
        <4>1. next = (h + n) * 60 /\ next \in Nat /\ h + n = d * 24 + (g + n) /\ g + n \in 0..23
          BY <2>1, <2>3, <3>1
        <4>2. next % 60 = 0 /\ next \div 60 = h + n
          BY <2>1, <4>1
        <4>3. (h + n) % 24 = g + n
          BY <2>1, <4>1, DivMod
        <4>4. (g + n) % n = 0
          BY <2>1, NextMultiple
        <4> QED
          BY <1>1, <4>1, <4>2, <4>3, <4>4
      <3>2. CASE ~(t + 60 * n < (d + 1) * 1440)
        <4>1. next = (d + 1) * 1440 /\ next \in Nat
          BY <2>1, <2>3, <3>2
        <4>2. next % 60 = 0 /\ next \div 60 = (d + 1) * 24
          BY <2>1, <4>1
        <4>3. ((d + 1) * 24) % 24 = 0
          BY <2>1
        <4> QED
          BY <1>1, <4>1, <4>2, <4>3, ZeroIsMultiple
      <3> QED
        BY <3>1, <3>2
    <2> QED
      BY <2>4, <2>5 DEF next
  <1> QED
    BY <1>2, <1>3 DEF Repeats

LEMMA DaysRepeat ==
    ASSUME NEW n \in Int, n > 0, NEW v, Period("days", v) = 1440 * n
    PROVE  Repeats(Cron("days", n), "days", v)
  <1> DEFINE c == Cron("days", n)
  <1>1. \A t \in Nat : Matches(c, t) <=> t % 1440 = 0 /\ (t \div 1440) % n = 0
    BY DEF Matches, Cron
  <1>2. Matches(c, 0)
    BY <1>1, ZeroIsMultiple
  <1>3. ASSUME NEW t \in Month, Matches(c, t)
        PROVE  LET next == NextRun("days", 1440 * n, t) IN
               /\ \A u \in (t + 1)..(next - 1) : ~Matches(c, u)
               /\ next \in Month => Matches(c, next)
    <2> DEFINE d == t \div 1440  next == NextRun("days", 1440 * n, t)
    <2>1. t \in Nat /\ t < 44640 /\ d \in Int /\ t = d * 1440 /\ d % n = 0
      <3>1. t \in Nat /\ t < 44640
        BY DEF Month
      <3>2. t % 1440 = 0 /\ d % n = 0
        BY <1>1, <1>3, <3>1
      <3>3. d \in Int /\ t = d * 1440
        BY <3>1, <3>2
      <3> QED
        BY <3>1, <3>2, <3>3
    <2>2. (t \div 44640 + 1) * 44640 = 44640
      BY <2>1
    <2>3. next = IF t + 1440 * n < 44640 THEN t + 1440 * n ELSE 44640
      BY <2>2 DEF NextRun, CycleMinutes
    <2> HIDE DEF d, next
    <2>4. ASSUME NEW u \in (t + 1)..(next - 1), Matches(c, u) PROVE FALSE
      <3> DEFINE k == u \div 1440
      <3>1. u \in Nat /\ k \in Int /\ u = k * 1440 /\ k % n = 0
        BY <1>1, <2>1, <2>3, <2>4
      <3> DEFINE e == k - d
      <3> HIDE DEF k
      <3>2. e \in 1..(n - 1) /\ k = d + e
        BY <2>1, <2>3, <3>1
      <3> HIDE DEF e
      <3> QED
        BY <2>1, <3>1, <3>2, BetweenMultiples
    <2>5. ASSUME next \in Month PROVE Matches(c, next)
      <3>0. next < 44640
        BY <2>5 DEF Month
      <3>1. next = (d + n) * 1440 /\ next \in Nat
        BY <2>1, <2>3, <3>0
      <3>2. next % 1440 = 0 /\ next \div 1440 = d + n
        BY <2>1, <3>1
      <3>3. (d + n) % n = 0
        BY <2>1, NextMultiple
      <3> QED
        BY <1>1, <3>1, <3>2, <3>3
    <2> QED
      BY <2>4, <2>5 DEF next
  <1> QED
    BY <1>2, <1>3 DEF Repeats

\* "0 0 * * *" repeats every 24 hours.
LEMMA DayIsHours ==
    ASSUME NEW v, Period("hours", v) = 1440
    PROVE  Repeats(Cron("days", 1), "hours", v)
  <1> DEFINE c == Cron("days", 1)
  <1>1. \A t \in Nat : Matches(c, t) <=> t % 1440 = 0
    BY DEF Matches, Cron
  <1>2. Matches(c, 0)
    BY <1>1
  <1>3. ASSUME NEW t \in Month, Matches(c, t)
        PROVE  LET next == NextRun("hours", 1440, t) IN
               /\ \A u \in (t + 1)..(next - 1) : ~Matches(c, u)
               /\ next \in Month => Matches(c, next)
    <2>1. t \in Nat /\ t % 1440 = 0
      BY <1>1, <1>3 DEF Month
    <2>2. NextRun("hours", 1440, t) = t + 1440
      BY <2>1 DEF NextRun, CycleMinutes
    <2>3. (t + 1440) % 1440 = 0 /\ \A u \in (t + 1)..(t + 1439) : u % 1440 # 0
      BY <2>1
    <2> QED
      BY <1>1, <2>1, <2>2, <2>3
  <1> QED
    BY <1>2, <1>3 DEF Repeats

LEMMA CronRepeats ==
    ASSUME NEW u \in Units, NEW n \in Int, n > 0, NEW v,
           Period(u, v) = UnitMinutes[u] * n
    PROVE  Repeats(Cron(u, n), u, v)
  <1>1. CASE u = "minutes"
    <2>1. Period("minutes", v) = n
      BY <1>1 DEF UnitMinutes
    <2> QED
      BY <1>1, <2>1, MinutesRepeat
  <1>2. CASE u = "hours"
    <2>1. Period("hours", v) = 60 * n
      BY <1>2 DEF UnitMinutes
    <2> QED
      BY <1>2, <2>1, HoursRepeat
  <1>3. CASE u = "days"
    <2>1. Period("days", v) = 1440 * n
      BY <1>3 DEF UnitMinutes
    <2> QED
      BY <1>3, <2>1, DaysRepeat
  <1> QED
    BY <1>1, <1>2, <1>3 DEF Units

LEMMA PresetNumbers ==
    /\ \A p \in Presets : p.value \in Numbers
    /\ 5 \in Numbers /\ 24 \in Numbers /\ 1 \in Numbers
  <1>1. /\ Preset(5, "minutes", Cron("minutes", 5)) \in Presets
        /\ Preset(24, "hours", Cron("days", 1)) \in Presets
        /\ Preset(1, "hours", Cron("hours", 1)) \in Presets
    BY DEF Presets
  <1> QED
    BY <1>1 DEF Numbers, Preset

LEMMA InitBuilt == Init => Built
  BY FormAssumption, PresetNumbers DEF Init, Built, Fresh, ExprOf, Cron

LEMMA StepBuilt ==
    ASSUME TypeOK, Built, [Next]_vars
    PROVE  Built'
  <1> USE FormAssumption
  <1>0. form \in FormType /\ listed \subseteq Queues /\ queues \subseteq Queues
    BY DEF TypeOK, FormType
  <1>1. /\ Fresh \in FormType /\ Fresh.expr = ExprOf(Fresh.unit, Fresh.value)
        /\ Fresh.value \in Numbers
    BY FreshIsForm, PresetNumbers DEF Fresh, ExprOf, Cron
  <1>2. CASE EnterPage
    <2>1. form' \in AutoSelected(Fresh, listed') /\ listed' \subseteq Queues
      BY <1>0, <1>2 DEF EnterPage
    <2> QED
      BY <1>1, <2>1, AutoSelects DEF Built
  <1>3. CASE ListArrives
    <2>1. form' \in AutoSelected(form, queues)
      BY <1>3 DEF ListArrives
    <2> QED
      BY <1>0, <2>1, AutoSelects DEF Built
  <1>4. CASE form' = Fresh
    BY <1>1, <1>4 DEF Built
  <1>5. CASE SelectQueue \/ EditPayload \/ EditNumbers \/ SetTiming \/ EditDate \/ TimePasses
    <2>1. /\ form'.value = form.value /\ form'.unit = form.unit /\ form'.expr = form.expr
      BY <1>0, <1>5 DEF SelectQueue, EditPayload, EditNumbers, SetTiming, EditDate, TimePasses,
                        Edit, FormType
    <2> QED
      BY <2>1 DEF Built
  <1>6. CASE SetValue \/ SetUnit
    <2>1. CASE SetValue
      <3>1. PICK v \in Values \union {NoValue} :
               form' = [form EXCEPT !.value = v, !.expr = ExprOf(form.unit, v)]
        BY <2>1 DEF SetValue, Edit
      <3>2. form'.value = v /\ form'.unit = form.unit /\ form'.expr = ExprOf(form.unit, v)
        BY <1>0, <3>1 DEF FormType
      <3> QED
        BY <3>2 DEF Built, Numbers
    <2>2. CASE SetUnit
      <3>1. PICK u \in Units :
               form' = [form EXCEPT !.unit = u, !.expr = ExprOf(u, form.value)]
        BY <2>2 DEF SetUnit, Edit
      <3>2. form'.value = form.value /\ form'.unit = u /\ form'.expr = ExprOf(u, form.value)
        BY <1>0, <3>1 DEF FormType
      <3> QED
        BY <3>2 DEF Built
    <2> QED
      BY <1>6, <2>1, <2>2
  <1>7. CASE ChoosePreset
    <2>1. PICK p \in Presets :
             form' = [form EXCEPT !.value = p.value, !.unit = p.unit, !.expr = p.expr]
      BY <1>7 DEF ChoosePreset, Edit
    <2>2. form'.value = p.value /\ form'.unit = p.unit /\ form'.expr = p.expr
      BY <1>0, <2>1 DEF FormType
    <2> QED
      BY <2>2, PresetsAreBuilt, PresetNumbers DEF Built
  <1>8. CASE UNCHANGED form
    BY <1>8 DEF Built
  <1>9. \/ EnterPage \/ ListArrives \/ SetValue \/ SetUnit \/ ChoosePreset
        \/ SelectQueue \/ EditPayload \/ EditNumbers \/ SetTiming \/ EditDate \/ TimePasses
        \/ form' = Fresh \/ UNCHANGED form
    BY DEF Next, UserStep, Outside, vars, LeavePage, OpenDialog, CloseDialog, Submit, Receive,
           Answered, Missing, Rejected, Lost, DeleteQueue
  <1> QED
    BY <1>2, <1>3, <1>4, <1>5, <1>6, <1>7, <1>8, <1>9

LEMMA StepIsNumber ==
    ASSUME NEW v \in Numbers, NEW u \in Units
    PROVE  /\ ExprOf(u, v).unit = u /\ ExprOf(u, v).step \in Numbers
           /\ ExprOf(u, v).step \in Int /\ ExprOf(u, v).step > 0
           /\ Period(u, v) = UnitMinutes[u] * ExprOf(u, v).step
           /\ Period(u, ExprOf(u, v).step) = UnitMinutes[u] * ExprOf(u, v).step
  <1> DEFINE n == IF v = NoValue THEN 1 ELSE IF v <= 1 THEN 1 ELSE v
  <1>1. v \in Int \/ v = NoValue
    BY FormAssumption, PresetsAreBuilt DEF Numbers
  <1>2. n \in Numbers /\ n \in Int /\ n > 0 /\ n # NoValue
    BY <1>1, PresetNumbers, FormAssumption
  <1>3. ExprOf(u, v) = Cron(u, n)
    BY DEF ExprOf
  <1>4. n = IF v = NoValue \/ v < 1 THEN 1 ELSE v
    <2>1. CASE v = NoValue
      BY <2>1
    <2>2. CASE v # NoValue
      BY <1>1, <2>2
    <2> QED
      BY <2>1, <2>2
  <1> HIDE DEF n
  <1>5. ExprOf(u, v).unit = u /\ ExprOf(u, v).step = n
    BY <1>3 DEF Cron
  <1>6. Period(u, v) = UnitMinutes[u] * n /\ Period(u, n) = UnitMinutes[u] * n
    BY <1>2, <1>4 DEF Period
  <1> QED
    BY <1>2, <1>5, <1>6

LEMMA SaysWhatRepeats ==
    ASSUME NEW c \in Written, NEW u \in Units, NEW v \in Numbers, Repeats(c, u, v)
    PROVE  Says(u, v, c)
  <1> DEFINE y == [expr |-> c, unit |-> u, value |-> v]
  <1>1. y \in Saying /\ y.expr = c /\ y.unit = u /\ y.value = v
    BY DEF Saying
  <1> HIDE DEF y
  <1>2. y \in {x \in Saying : Repeats(x.expr, x.unit, x.value)}
    BY <1>1
  <1> QED
    BY <1>1, <1>2 DEF Says, Truthful

LEMMA BuiltRuns ==
    ASSUME TypeOK, Built
    PROVE  RunsAsShown
  <1> DEFINE c == form.expr  s == Description(c)
  <1>1. /\ form.unit \in Units /\ form.value \in Numbers
        /\ "hours" \in Units /\ "days" \in Units
    BY DEF TypeOK, Built, Units
  <1>2. Cron("days", 1) = ExprOf("days", 1) /\ Cron("days", 1) \in Written
    <2>1. Cron("days", 1) = ExprOf("days", 1)
      BY FormAssumption DEF ExprOf
    <2> QED
      BY <1>1, <2>1, PresetNumbers DEF Written
  <1>3. Period("hours", 24) = 1440 /\ Period("days", 1) = 1440
    BY FormAssumption DEF Period, UnitMinutes
  <1>4. Repeats(Cron("days", 1), "hours", 24)
    BY <1>3, DayIsHours
  <1>5. CASE c = ExprOf(form.unit, form.value)
    <2> DEFINE n == c.step
    <2>1. /\ c \in Written /\ c = Cron(form.unit, n)
          /\ n \in Int /\ n > 0 /\ n \in Numbers
          /\ Period(form.unit, form.value) = UnitMinutes[form.unit] * n
          /\ Period(form.unit, n) = UnitMinutes[form.unit] * n
      <3>1. c \in Written
        BY <1>1, <1>5 DEF Written
      <3>2. c = Cron(form.unit, c.step)
        BY <1>5 DEF ExprOf, Cron
      <3> QED
        BY <1>1, <1>5, <3>1, <3>2, StepIsNumber
    <2> HIDE DEF n
    <2>2. Repeats(c, form.unit, form.value) /\ Repeats(c, form.unit, n)
      BY <1>1, <2>1, CronRepeats
    <2>3. Says(form.unit, form.value, c) /\ Says(form.unit, n, c)
      BY <1>1, <2>1, <2>2, SaysWhatRepeats
    <2>4. CASE c = Cron("days", 1)
      <3>1. s.unit = "hours" /\ s.step = 24
        BY <2>4 DEF Description, Cron
      <3> QED
        BY <1>1, <1>2, <1>4, <2>3, <2>4, <3>1, PresetNumbers, SaysWhatRepeats DEF RunsAsShown
    <2>5. CASE c # Cron("days", 1)
      <3>1. s.unit = form.unit /\ s.step = n
        BY <2>1, <2>5 DEF Description, Cron, n
      <3> QED
        BY <2>3, <3>1 DEF RunsAsShown
    <2> QED
      BY <2>4, <2>5
  <1>6. CASE form.unit = "hours" /\ form.value = 24 /\ c = Cron("days", 1)
    <2>1. Says("hours", 24, Cron("days", 1))
      BY <1>1, <1>2, <1>4, PresetNumbers, SaysWhatRepeats
    <2>2. s.unit = "hours" /\ s.step = 24
      BY <1>6 DEF Description, Cron
    <2> QED
      BY <1>6, <2>1, <2>2 DEF RunsAsShown
  <1> QED
    BY <1>5, <1>6 DEF Built

\* RunsAsShown: for every number, unit and preset, in any order, the expression that
\* a submission would send is due just when the fields and the summary announce.
THEOREM RunsAsShownHolds == Spec => []RunsAsShown
  <1>1. JobFormInv => TypeOK
    BY DEF JobFormInv
  <1>2. Init => JobFormInv /\ Built
    BY InitHolds, InitBuilt
  <1>3. JobFormInv /\ Built /\ [Next]_vars => (JobFormInv /\ Built)'
    BY <1>1, StepKeeps, StepBuilt
  <1>4. JobFormInv /\ Built => RunsAsShown
    BY <1>1, BuiltRuns
  <1> QED
    BY <1>2, <1>3, <1>4, PTL DEF Spec

-----------------------------------------------------------------------------
(* One job for a click.                                                    *)

SentOnes == {r \in Requests : requests[r].stage # "off"}

Counted ==
    /\ \A r \in Requests : jobs[r] <= 1
    /\ Cardinality(SentOnes) <= submits

LEMMA SentIsFinite == IsFiniteSet(SentOnes) /\ Cardinality(SentOnes) \in Nat
  BY FormAssumption, FS_Subset, FS_CardinalityType DEF SentOnes

LEMMA InitCounted == Init => Counted
  <1> SUFFICES ASSUME Init PROVE Counted
    OBVIOUS
  <1>1. SentOnes = {}
    BY DEF Init, SentOnes, Unsent
  <1> QED
    BY <1>1, FS_EmptySet DEF Init, Counted

\* Only a click sends a request that was not sent before.
LEMMA NothingSent ==
    ASSUME Counted, UNCHANGED submits, SentOnes' = SentOnes, UNCHANGED jobs
    PROVE  Counted'
  BY DEF Counted

LEMMA StepCounted ==
    ASSUME JobFormInv, Counted, [Next]_vars
    PROVE  Counted'
  <1>0. TypeOK /\ MadeIsCounted
    BY DEF JobFormInv
  <1>1. CASE Submit /\ ~Complaint
    <2>1. PICK r \in Requests :
             /\ requests[r].stage = "off"
             /\ requests' = [requests EXCEPT ![r] = [stage |-> "sent", ask |-> Asked]]
      BY <1>1 DEF Submit
    <2>2. submits' = submits + 1 /\ UNCHANGED jobs
      BY <1>1 DEF Submit
    <2>3. SentOnes' = SentOnes \union {r}
      BY <1>0, <2>1 DEF SentOnes, TypeOK
    <2>4. r \notin SentOnes
      BY <2>1 DEF SentOnes
    <2>5. Cardinality(SentOnes') = Cardinality(SentOnes) + 1
      BY <2>3, <2>4, SentIsFinite, FS_AddElement
    <2> QED
      BY <1>0, <2>2, <2>5, SentIsFinite DEF Counted, TypeOK
  <1>2. ASSUME NEW r \in Requests, Receive(r) PROVE Counted'
    <2>1. PICK stage \in {"missing", "made", "invalid"} :
             /\ requests' = [requests EXCEPT ![r].stage = stage]
             /\ jobs' = IF stage = "made" THEN [jobs EXCEPT ![r] = @ + 1] ELSE jobs
      BY <1>2 DEF Receive
    <2>2. requests[r].stage = "sent" /\ UNCHANGED submits
      BY <1>2 DEF Receive
    <2>3. SentOnes' = SentOnes
      BY <1>0, <2>1, <2>2 DEF SentOnes, TypeOK
    <2>4. jobs[r] = 0
      BY <1>0, <2>2 DEF MadeIsCounted
    <2>5. \A s \in Requests : jobs'[s] <= 1
      BY <1>0, <2>1, <2>4 DEF TypeOK, Counted
    <2> QED
      BY <2>2, <2>3, <2>5 DEF Counted
  <1>3. ASSUME NEW r \in Requests, Answered(r) \/ Missing(r) \/ Rejected(r) \/ Lost(r)
        PROVE  Counted'
    <2>1. /\ requests' = [requests EXCEPT ![r].stage = "over"]
          /\ requests[r].stage # "off" /\ UNCHANGED <<jobs, submits>>
      BY <1>3 DEF Answered, Missing, Rejected, Lost, Ends
    <2>2. SentOnes' = SentOnes
      BY <1>0, <2>1 DEF SentOnes, TypeOK
    <2> QED
      BY <2>1, <2>2, NothingSent
  <1>4. CASE TimePasses
    <2>1. \A r \in Requests : requests'[r].stage = requests[r].stage
      BY <1>0, <1>4 DEF TimePasses, TypeOK
    <2>2. SentOnes' = SentOnes
      BY <2>1 DEF SentOnes
    <2> QED
      BY <1>4, <2>2, NothingSent DEF TimePasses
  <1>5. CASE UNCHANGED <<requests, jobs, submits>>
    BY <1>5, NothingSent DEF SentOnes
  <1>6. \/ Submit /\ ~Complaint
        \/ \E r \in Requests : Receive(r)
        \/ \E r \in Requests : Answered(r) \/ Missing(r) \/ Rejected(r) \/ Lost(r)
        \/ TimePasses
        \/ UNCHANGED <<requests, jobs, submits>>
    BY DEF Next, UserStep, Outside, vars, EnterPage, LeavePage, OpenDialog, CloseDialog, Submit,
           SelectQueue, EditPayload, EditNumbers, SetTiming, EditDate, SetValue, SetUnit,
           ChoosePreset, Edit, ListArrives, DeleteQueue
  <1> QED
    BY <1>1, <1>2, <1>3, <1>4, <1>5, <1>6

LEMMA CountedSuffices ==
    ASSUME JobFormInv, Counted
    PROVE  OneJobPerClick
  <1> DEFINE S == {r \in Requests : jobs[r] > 0} \union UnderWay
  <1>1. TypeOK /\ MadeIsCounted
    BY DEF JobFormInv
  <1>2. S \subseteq SentOnes
    BY <1>1 DEF SentOnes, UnderWay, MadeIsCounted
  <1>3. IsFiniteSet(S) /\ Cardinality(S) <= Cardinality(SentOnes) /\ Cardinality(S) \in Nat
    BY <1>2, SentIsFinite, FS_Subset, FS_CardinalityType
  <1> QED
    BY <1>1, <1>3, SentIsFinite DEF Counted, OneJobPerClick, TypeOK

\* OneJobPerClick: without an Idempotency-Key, and whatever gets lost, no click on
\* the button makes two jobs.
THEOREM OneJobPerClickHolds == Spec => []OneJobPerClick
  <1>1. Init => JobFormInv /\ Counted
    BY InitHolds, InitCounted
  <1>2. JobFormInv /\ Counted /\ [Next]_vars => (JobFormInv /\ Counted)'
    BY StepKeeps, StepCounted
  <1>3. JobFormInv /\ Counted => OneJobPerClick
    BY CountedSuffices
  <1> QED
    BY <1>1, <1>2, <1>3, PTL DEF Spec
=============================================================================
