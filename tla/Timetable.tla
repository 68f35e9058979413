----------------------------- MODULE Timetable -----------------------------
(***************************************************************************)
(* What the scheduler promises to whoever delays a job or writes a cron    *)
(* template, with no processes, no lock and no sweeps in sight:            *)
(*                                                                         *)
(*   - a delayed job is queued once its time has come, and one that failed *)
(*     waits for a later time; a job that a worker took is left alone;     *)
(*   - a template is entered with an occurrence of its own, and from then  *)
(*     on fires the occurrence it is at, once, not before its time;        *)
(*   - it then moves on, past the occurrences that were missed: to the     *)
(*     next one after some moment since that occurrence;                   *)
(*   - a template that was withdrawn neither fires nor moves.              *)
(*                                                                         *)
(* One step may queue several jobs, or enter and fire several templates:   *)
(* a sweep commits a batch.                                                *)
(***************************************************************************)
EXTENDS Integers

CONSTANTS Jobs, Templates, NextRun, Horizon

VARIABLES
    now,        \* the clock
    next,       \* the occurrence each template is at
    fired,      \* how often each occurrence of a template has fired
    withdrawn,  \* templates that are gone
    status,     \* delayed jobs: scheduled, queued, claimed or completed
    at          \* ... and the time they wait for

timetableVars == <<now, next, fired, withdrawn, status, at>>

NotEntered == 0

Moments == 0..Horizon

TimetableInit ==
    /\ now = 0
    /\ next = [t \in Templates |-> NotEntered]
    /\ fired = [t \in Templates |-> [x \in Moments |-> 0]]
    /\ withdrawn = {}
    /\ status = [j \in Jobs |-> "scheduled"]
    /\ at \in [Jobs -> Nat]

\* Template t moves on to the occurrence after one of these moments.
MovesOn(t, moments) == \E x \in moments : next'[t] = NextRun[t][x]

Enter(t) ==
    /\ t \notin withdrawn
    /\ next[t] = NotEntered
    /\ MovesOn(t, 0..now)
    /\ fired'[t] = fired[t]

Fire(t) ==
    /\ t \notin withdrawn
    /\ next[t] # NotEntered
    /\ next[t] <= now
    /\ MovesOn(t, next[t]..now)
    /\ fired'[t] = [fired[t] EXCEPT ![next[t]] = @ + 1]

Rest(t) == next'[t] = next[t] /\ fired'[t] = fired[t]

ServeTemplates ==
    /\ next' \in [Templates -> Nat]
    /\ fired' \in [Templates -> [Moments -> Nat]]
    /\ \A t \in Templates : Enter(t) \/ Fire(t) \/ Rest(t)
    /\ UNCHANGED <<now, withdrawn, status, at>>

Withdraw(t) ==
    /\ withdrawn' = withdrawn \union {t}
    /\ UNCHANGED <<now, next, fired, status, at>>

QueueJobs ==
    /\ \E due \in SUBSET {j \in Jobs : status[j] = "scheduled" /\ at[j] <= now} :
         status' = [j \in Jobs |-> IF j \in due THEN "queued" ELSE status[j]]
    /\ UNCHANGED <<now, next, fired, withdrawn, at>>

Moves(j, from, to) == status[j] = from /\ status' = [status EXCEPT ![j] = to]

Take(j) == Moves(j, "queued", "claimed") /\ at' = at

End(j) == Moves(j, "claimed", "completed") /\ at' = at

Delay(j) ==
    /\ Moves(j, "claimed", "scheduled")
    /\ at' \in [Jobs -> Nat]
    /\ at'[j] > now
    /\ \A i \in Jobs \ {j} : at'[i] = at[i]

WorkJob(j) ==
    /\ Take(j) \/ End(j) \/ Delay(j)
    /\ UNCHANGED <<now, next, fired, withdrawn>>

Advance ==
    /\ now < Horizon
    /\ now' = now + 1
    /\ UNCHANGED <<next, fired, withdrawn, status, at>>

TimetableNext ==
    \/ ServeTemplates
    \/ \E t \in Templates : Withdraw(t)
    \/ QueueJobs
    \/ \E j \in Jobs : WorkJob(j)
    \/ Advance

TimetableSpec == TimetableInit /\ [][TimetableNext]_timetableVars
=============================================================================
