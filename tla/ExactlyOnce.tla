----------------------------- MODULE ExactlyOnce -----------------------------
(***************************************************************************)
(* What an Idempotency-Key promises: a submission with a key that no job   *)
(* carries creates a job, and as long as that job exists every other       *)
(* submission with the key is given the same job.  Each submission takes   *)
(* effect in one step.                                                     *)
(***************************************************************************)
CONSTANTS
    Requests,  \* submissions; the job that a submission creates has its name
    Keys,      \* idempotency keys
    NoKey,     \* a submission without a key
    NoJob      \* no job, yet

VARIABLES
    asked,     \* the key of each submission
    holder,    \* the job that carries each key
    outcome    \* the job that each submission made or was given

vars == <<asked, holder, outcome>>

Init ==
    /\ asked = [r \in Requests |-> NoKey]
    /\ holder = [k \in Keys |-> NoJob]
    /\ outcome = [r \in Requests |-> NoJob]

Ask(r) ==
    /\ outcome[r] = NoJob
    /\ \E k \in Keys : asked' = [asked EXCEPT ![r] = k]
    /\ UNCHANGED <<holder, outcome>>

Create(r) ==
    /\ outcome[r] = NoJob
    /\ \/ asked[r] = NoKey /\ holder' = holder
       \/ /\ asked[r] \in Keys
          /\ holder[asked[r]] = NoJob
          /\ holder' = [holder EXCEPT ![asked[r]] = r]
    /\ outcome' = [outcome EXCEPT ![r] = r]
    /\ UNCHANGED asked

Return(r) ==
    /\ outcome[r] = NoJob
    /\ asked[r] \in Keys
    /\ holder[asked[r]] # NoJob
    /\ outcome' = [outcome EXCEPT ![r] = holder[asked[r]]]
    /\ UNCHANGED <<asked, holder>>

\* Jobs are deleted, with the queue they are in.
Delete ==
    /\ \E lost \in SUBSET Keys :
         holder' = [k \in Keys |-> IF k \in lost THEN NoJob ELSE holder[k]]
    /\ UNCHANGED <<asked, outcome>>

Next == Delete \/ \E r \in Requests : Ask(r) \/ Create(r) \/ Return(r)

Spec == Init /\ [][Next]_vars
=============================================================================
