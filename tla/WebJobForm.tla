------------------------------ MODULE WebJobForm ------------------------------
(***************************************************************************)
(* The dialog of the job explorer that submits a job: its fields, the cron *)
(* builder, and the requests it sends.                                     *)
(*                                                                         *)
(*   frontend/src/pages/Jobs.tsx      the dialog and createJobMutation     *)
(*   frontend/src/api/jobs.ts         submitJob, without Idempotency-Key   *)
(*   app/schemas/job.py, endpoints/jobs.py   what the API refuses          *)
(*                                                                         *)
(* The page may be left and entered again while a request is under way:    *)
(* the request goes on, its page is gone.  A text, the two number fields   *)
(* and the chosen date are reduced to whether they are acceptable; a cron  *)
(* expression is a unit and a step.                                        *)
(***************************************************************************)
EXTENDS Integers, FiniteSets

CONSTANTS
    Queues,      \* queues of the project
    Requests,    \* submissions that may be sent: bounds them
    Values,      \* numbers that may be typed under "Repeat Every"
    ClickBudget, \* bound on the steps of the user
    FaultBudget, \* bound on lost answers and deleted queues
    NoQueue,     \* nothing is selected
    NoValue,     \* an empty number field
    Nobody       \* no request of the page is under way

ASSUME FormAssumption ==
    /\ IsFiniteSet(Requests) /\ Nobody \notin Requests
    /\ Queues # {} /\ NoQueue \notin Queues
    /\ Values \subseteq Int /\ NoValue \notin Int
    /\ ClickBudget \in Nat /\ FaultBudget \in Nat

Timings == {"immediate", "future", "cron"}
Units == {"minutes", "hours", "days"}

-----------------------------------------------------------------------------
(* The cron builder.                                                       *)

\* "*/5 * * * *" is every fifth minute, "0 */6 * * *" every sixth hour and
\* "0 0 * * *" every first day.
Cron(unit, step) == [unit |-> unit, step |-> step]

\* What the two fields "Repeat Every" and "Unit" write.
ExprOf(unit, value) ==
    Cron(unit, IF value = NoValue THEN 1 ELSE IF value <= 1 THEN 1 ELSE value)

Preset(value, unit, expr) == [value |-> value, unit |-> unit, expr |-> expr]
Presets ==
    {Preset(n, "minutes", Cron("minutes", n)) : n \in {5, 15}}
        \union {Preset(1, "hours", Cron("hours", 1)),
                Preset(12, "hours", Cron("hours", 12)),
                Preset(24, "hours", Cron("days", 1))}

\* The summary under the presets: "Every <step> <unit>".
Description(c) == IF c = Cron("days", 1) THEN Cron("hours", 24) ELSE c

\* The numbers and the expressions that these controls can bring about.
Numbers == Values \union {NoValue} \union {p.value : p \in Presets}
Written == {ExprOf(unit, n) : unit \in Units, n \in Numbers} \union {p.expr : p \in Presets}

\* Is a job with this expression due in minute t of a month (croniter)?
Matches(c, t) ==
    \/ c.unit = "minutes" /\ (t % 60) % c.step = 0
    \/ c.unit = "hours" /\ t % 60 = 0 /\ ((t \div 60) % 24) % c.step = 0
    \/ c.unit = "days" /\ t % 1440 = 0 /\ (t \div 1440) % c.step = 0

\* CronValidator is a library: it accepts a step inside the range of its field.
Ranges == [minutes |-> 59, hours |-> 23, days |-> 31]
Verdicts(c) == IF c.step <= Ranges[c.unit] THEN {TRUE} ELSE BOOLEAN

-----------------------------------------------------------------------------
(* State.                                                                  *)

VARIABLES
    page,     \* "here", "away" (another page) or "blank" (rendering has failed)
    dialog,   \* is it open, and does it show an error
    form,     \* the fields
    pending,  \* the request that the page waits for (isPending)
    mine,     \* history: the requests that the mounted page has sent
    listed,   \* the queues that the last answer named
    requests, \* every submission: its stage and what it asks for
    jobs,     \* how many jobs each submission has created
    queues,   \* the queues that exist
    clicks,   \* steps of the user so far
    submits,  \* clicks on the button that passed the checks
    faults    \* faults so far

vars == <<page, dialog, form, pending, mine, listed, requests, jobs, queues, clicks, submits, faults>>

Crons == [unit : Units, step : Nat \ {0}]
Asks == [queue : Queues, timing : Timings, numbers : BOOLEAN, late : BOOLEAN, expr : Crons]

\* The defaults of the fields; the first number is 5 minutes.
Fresh ==
    [queue |-> NoQueue, timing |-> "immediate", payload |-> TRUE, numbers |-> TRUE,
     date |-> "none", value |-> 5, unit |-> "minutes", expr |-> Cron("minutes", 5)]

Closed == [open |-> FALSE, error |-> FALSE]

\* The effect that selects the first queue, if none is selected and one is known.
AutoSelected(f, known) ==
    IF f.queue = NoQueue /\ known # {} THEN {[f EXCEPT !.queue = q] : q \in known} ELSE {f}

Unsent == [stage |-> "off", ask |-> [queue |-> CHOOSE q \in Queues : TRUE,
           timing |-> "immediate", numbers |-> TRUE, late |-> FALSE, expr |-> Cron("minutes", 1)]]

Init ==
    /\ page = "here" /\ dialog = Closed /\ form = Fresh
    /\ pending = Nobody /\ mine = {} /\ listed = {}
    /\ requests = [r \in Requests |-> Unsent]
    /\ jobs = [r \in Requests |-> 0]
    /\ queues = Queues
    /\ clicks = 0 /\ submits = 0 /\ faults = 0

-----------------------------------------------------------------------------
(* The page.                                                               *)

Click == clicks < ClickBudget /\ clicks' = clicks + 1

\* The page is mounted with its default fields; the answer to the queues query is
\* still cached, unless the document was loaded again.
EnterPage ==
    /\ page # "here"
    /\ Click
    /\ page' = "here"
    /\ listed' = IF page = "blank" THEN {} ELSE listed
    /\ form' \in AutoSelected(Fresh, listed')
    /\ dialog' = Closed
    /\ UNCHANGED <<pending, mine, requests, jobs, queues, submits, faults>>

\* Its state is gone; a request that it waits for goes on.
LeavePage ==
    /\ page = "here"
    /\ Click
    /\ page' = "away"
    /\ pending' = Nobody
    /\ mine' = {}
    /\ dialog' = Closed
    /\ form' = Fresh
    /\ UNCHANGED <<listed, requests, jobs, queues, submits, faults>>

ListArrives ==
    /\ page = "here"
    /\ listed' = queues
    /\ form' \in AutoSelected(form, queues)
    /\ UNCHANGED <<page, dialog, pending, mine, requests, jobs, queues, clicks, submits, faults>>

\* The button "Schedule Job".
OpenDialog ==
    /\ page = "here" /\ ~dialog.open
    /\ Click
    /\ dialog' = [open |-> TRUE, error |-> FALSE]
    /\ UNCHANGED <<page, form, pending, mine, listed, requests, jobs, queues, submits, faults>>

\* "Cancel" or a click beside it; a request under way is not cancelled.
CloseDialog ==
    /\ page = "here" /\ dialog.open
    /\ Click
    /\ dialog' = [dialog EXCEPT !.open = FALSE]
    /\ UNCHANGED <<page, form, pending, mine, listed, requests, jobs, queues, submits, faults>>

Edit(f) ==
    /\ page = "here" /\ dialog.open
    /\ Click
    /\ form' = f
    /\ UNCHANGED <<page, dialog, pending, mine, listed, requests, jobs, queues, submits, faults>>

SelectQueue == \E q \in listed \ {form.queue} : Edit([form EXCEPT !.queue = q])
EditPayload == Edit([form EXCEPT !.payload = ~@])
EditNumbers == Edit([form EXCEPT !.numbers = ~@])
SetTiming == \E t \in Timings \ {form.timing} : Edit([form EXCEPT !.timing = t])

EditDate ==
    /\ form.timing = "future"
    /\ \E d \in {"none", "past", "future"} \ {form.date} : Edit([form EXCEPT !.date = d])

SetValue ==
    /\ form.timing = "cron"
    /\ \E v \in Values \union {NoValue} :
          Edit([form EXCEPT !.value = v, !.expr = ExprOf(form.unit, v)])

\* Mutant: the unit is noted and the expression is not written again.
SetUnitOnly ==
    /\ form.timing = "cron"
    /\ \E u \in Units \ {form.unit} : Edit([form EXCEPT !.unit = u])

SetUnit ==
    /\ form.timing = "cron"
    /\ \E u \in Units \ {form.unit} :
          Edit([form EXCEPT !.unit = u, !.expr = ExprOf(u, form.value)])

ChoosePreset ==
    /\ form.timing = "cron"
    /\ \E p \in Presets :
          Edit([form EXCEPT !.value = p.value, !.unit = p.unit, !.expr = p.expr])

-----------------------------------------------------------------------------
(* Submitting.                                                             *)

\* The checks of mutationFn, in its order: text, queue (the button is disabled
\* without one), date; the expression is never empty.
Complaint == ~form.payload \/ (form.timing = "future" /\ form.date # "future")

Asked ==
    [queue |-> form.queue, timing |-> form.timing, numbers |-> form.numbers,
     late |-> FALSE, expr |-> form.expr]

\* Mutant: the button is not disabled while a request is under way.
CanSubmitAgain == page = "here" /\ dialog.open /\ form.queue # NoQueue

CanSubmit == page = "here" /\ dialog.open /\ form.queue # NoQueue /\ pending = Nobody

Submit ==
    /\ CanSubmit
    /\ Click
    /\ \/ /\ Complaint
          /\ dialog' = [dialog EXCEPT !.error = TRUE]
          /\ UNCHANGED <<pending, mine, requests, submits>>
       \/ /\ ~Complaint
          /\ \E r \in Requests :
                /\ requests[r].stage = "off"
                /\ requests' = [requests EXCEPT ![r] = [stage |-> "sent", ask |-> Asked]]
                /\ pending' = r
                /\ mine' = mine \union {r}
          /\ submits' = submits + 1
          /\ UNCHANGED dialog
    /\ UNCHANGED <<page, form, listed, jobs, queues, faults>>

\* The API: an unknown queue is refused first, then what the schema rejects.
Receive(r) ==
    /\ requests[r].stage = "sent"
    /\ \E good \in Verdicts(requests[r].ask.expr) :
          LET ask == requests[r].ask
              valid == /\ ask.numbers
                       /\ ~(ask.timing = "future" /\ ask.late)
                       /\ ask.timing = "cron" => good
              stage == IF ask.queue \notin queues THEN "missing"
                       ELSE IF valid THEN "made" ELSE "invalid"
          IN  /\ requests' = [requests EXCEPT ![r].stage = stage]
              /\ jobs' = IF stage = "made" THEN [jobs EXCEPT ![r] = @ + 1] ELSE jobs
    /\ UNCHANGED <<page, dialog, form, pending, mine, listed, queues, clicks, submits, faults>>

\* The answer reaches the page that sent the request, if it is still there.
Ends(r, shown) ==
    /\ requests' = [requests EXCEPT ![r].stage = "over"]
    /\ IF pending = r
       THEN pending' = Nobody /\ dialog' = shown
       ELSE UNCHANGED <<pending, dialog>>

\* onSuccess: the dialog closes, also if it was closed and opened again meanwhile.
Answered(r) ==
    /\ requests[r].stage = "made"
    /\ Ends(r, Closed)
    /\ UNCHANGED <<page, form, mine, listed, jobs, queues, clicks, submits, faults>>

\* onError, 404: the detail is a text.
Missing(r) ==
    /\ requests[r].stage = "missing"
    /\ Ends(r, [dialog EXCEPT !.error = TRUE])
    /\ UNCHANGED <<page, form, mine, listed, jobs, queues, clicks, submits, faults>>

\* onError, 422: the detail is a list of objects, and an open dialog cannot render it.
Rejected(r) ==
    /\ requests[r].stage = "invalid"
    /\ LET breaks == pending = r /\ dialog.open
       IN  /\ Ends(r, IF breaks THEN Closed ELSE [dialog EXCEPT !.error = TRUE])
           /\ page' = IF breaks THEN "blank" ELSE page
           /\ form' = IF breaks THEN Fresh ELSE form
           /\ mine' = IF breaks THEN {} ELSE mine
    /\ UNCHANGED <<listed, jobs, queues, clicks, submits, faults>>

\* Mutant: the client sends a submission again when its answer is lost.
LostResends(r) ==
    /\ faults < FaultBudget
    /\ requests[r].stage \notin {"off", "over"}
    /\ faults' = faults + 1
    /\ requests' = [requests EXCEPT ![r].stage = "sent"]
    /\ UNCHANGED <<page, dialog, form, pending, mine, listed, jobs, queues, clicks, submits>>

\* onError without an answer: the request or its answer is lost.
Lost(r) ==
    /\ faults < FaultBudget
    /\ requests[r].stage \notin {"off", "over"}
    /\ faults' = faults + 1
    /\ Ends(r, [dialog EXCEPT !.error = TRUE])
    /\ UNCHANGED <<page, form, mine, listed, jobs, queues, clicks, submits>>

-----------------------------------------------------------------------------
(* Outside the page.                                                       *)

\* The chosen moment passes, for the form and for a request on its way.
TimePasses ==
    /\ form.date = "future" \/ \E r \in Requests : requests[r].stage = "sent" /\ ~requests[r].ask.late
    /\ form' = [form EXCEPT !.date = IF @ = "future" THEN "past" ELSE @]
    /\ requests' = [r \in Requests |-> IF requests[r].stage = "sent"
                                       THEN [requests[r] EXCEPT !.ask.late = TRUE] ELSE requests[r]]
    /\ UNCHANGED <<page, dialog, pending, mine, listed, jobs, queues, clicks, submits, faults>>

\* Somebody deletes a queue; the form may still have it selected.
DeleteQueue ==
    /\ faults < FaultBudget
    /\ \E q \in queues : queues' = queues \ {q}
    /\ faults' = faults + 1
    /\ UNCHANGED <<page, dialog, form, pending, mine, listed, requests, jobs, clicks, submits>>

UserStep ==
    \/ EnterPage \/ LeavePage \/ OpenDialog \/ CloseDialog
    \/ SelectQueue \/ EditPayload \/ EditNumbers \/ SetTiming
    \/ EditDate \/ SetValue \/ SetUnit \/ ChoosePreset \/ Submit

Outside(r) == Receive(r) \/ Answered(r) \/ Missing(r) \/ Rejected(r) \/ Lost(r)

Next ==
    \/ UserStep
    \/ ListArrives
    \/ \E r \in Requests : Outside(r)
    \/ TimePasses \/ DeleteQueue

Spec == Init /\ [][Next]_vars
-----------------------------------------------------------------------------
(* Properties.                                                             *)

TypeOK ==
    /\ page \in {"here", "away", "blank"}
    /\ dialog \in [open : BOOLEAN, error : BOOLEAN]
    /\ form \in [queue : Queues \union {NoQueue}, timing : Timings, payload : BOOLEAN,
                 numbers : BOOLEAN, date : {"none", "past", "future"},
                 value : Int \union {NoValue}, unit : Units, expr : Crons]
    /\ pending \in Requests \union {Nobody}
    /\ mine \subseteq Requests
    /\ listed \subseteq Queues
    /\ requests \in [Requests -> [stage : {"off", "sent", "made", "missing", "invalid", "over"},
                                  ask : Asks]]
    /\ jobs \in [Requests -> Nat]
    /\ queues \subseteq Queues
    /\ clicks \in 0..ClickBudget /\ submits \in Nat /\ faults \in 0..FaultBudget

UnderWay == {r \in Requests : requests[r].stage \notin {"off", "over"}}

\* The page waits for the only request of its own that is under way: it sends a
\* second submission only when the outcome of the first was shown.
SecondAfterReport ==
    /\ pending # Nobody => pending \in UnderWay
    /\ mine \intersect UnderWay = {pending} \ {Nobody}

\* A page that is gone or blank waits for nothing and shows no dialog.
GoneIsIdle == page # "here" => pending = Nobody /\ mine = {} /\ ~dialog.open

\* Only a submission that reached an existing queue has a job.
MadeIsCounted ==
    \A r \in Requests :
        /\ requests[r].stage = "made" => jobs[r] > 0
        /\ requests[r].stage \in {"off", "sent", "missing", "invalid"} => jobs[r] = 0

\* createJobMutation and its button (923-942): a visit of the page sends one
\* submission at a time, whatever is closed, opened and left meanwhile.
JobFormInv == TypeOK /\ SecondAfterReport /\ GoneIsIdle /\ MadeIsCounted

(* What "every <value> <unit>" means to a reader of the dialog, in minutes and *)
(* without any cron field: the job is due at the start, and from then on each  *)
(* time the period has passed, or the hour, the day or the month is over and   *)
(* the count begins again.                                                     *)
Month == 0..(31 * 1440 - 1)
UnitMinutes == [minutes |-> 1, hours |-> 60, days |-> 1440]
CycleMinutes == [minutes |-> 60, hours |-> 1440, days |-> 31 * 1440]

Period(unit, value) == UnitMinutes[unit] * (IF value = NoValue \/ value < 1 THEN 1 ELSE value)

NextRun(unit, period, t) ==
    LET over == (t \div CycleMinutes[unit] + 1) * CycleMinutes[unit]
    IN  IF t + period < over THEN t + period ELSE over

Repeats(c, unit, value) ==
    /\ Matches(c, 0)
    /\ \A t \in Month : Matches(c, t) =>
          LET next == NextRun(unit, Period(unit, value), t) IN
          /\ \A u \in (t + 1)..(next - 1) : ~Matches(c, u)
          /\ next \in Month => Matches(c, next)

\* A constant, and an image rather than a filter: TLC evaluates it once.
Saying == [expr : Written, unit : Units, value : Numbers]
Truthful == {<<x.expr, x.unit, x.value>> :
                x \in {y \in Saying : Repeats(y.expr, y.unit, y.value)}}

Says(unit, value, c) == <<c, unit, value>> \in Truthful

\* The cron builder: whichever of number, unit and preset came last, the hidden
\* expression, the only thing that is sent, makes the job due in just the minutes
\* that the two fields announce, and in those that the summary announces.
RunsAsShown ==
    /\ Says(form.unit, form.value, form.expr)
    /\ LET summary == Description(form.expr)
       IN  Says(summary.unit, summary.step, form.expr)

\* submitJob sends no Idempotency-Key, so a submission must never be sent twice:
\* lost answers and pages left included, there is at most one job per click.
OneJobPerClick ==
    /\ \A r \in Requests : jobs[r] <= 1
    /\ Cardinality({r \in Requests : jobs[r] > 0} \union UnderWay) <= submits
=============================================================================
