-------------------------- MODULE Submission_proofs --------------------------
(***************************************************************************)
(* Proofs about Submission, for every set of requests, keys and queues and *)
(* every disturbance.                                                      *)
(***************************************************************************)
EXTENDS Submission, TLAPS

\* What IdsAreTrue says of request r in a given state.
TrueIds(state) ==
    \A j \in {state.cached, state.job} \ {NoJob} :
        row[j] # "none" /\ request[j].key = state.key

\* What RowsAreMade says of request r in a given state.
MadeRow(r, state) ==
    /\ row[r] # "none" <=> state.job = r
    /\ state.pc \in {"idle", "get", "cached", "find", "check", "insert"} =>
          state.job = NoJob /\ state.status = "none"
    /\ state.pc = "refresh" => state.job = r /\ state.status = "none"
    /\ state.pc = "store" =>
          /\ state.job # NoJob
          /\ state.status \in {"200", "201"}
          /\ state.key # NoKey
    /\ state.pc \in {"get", "cached", "find"} => state.key # NoKey
    /\ state.pc = "idle" => state = Idle
    /\ state.pc = "cached" => state.cached # NoJob
    /\ state.pc = "done" /\ state.status \in {"200", "201"} => state.job # NoJob

\* The invariant, request by request.
LEMMA Locally ==
    ASSUME SubmissionInv, NEW r \in Requests
    PROVE  /\ request[r] \in RequestState
           /\ TrueIds(request[r])
           /\ MadeRow(r, request[r])
<1>1. request[r] \in RequestState
  BY DEF SubmissionInv, TypeOK
<1>2. TrueIds(request[r])
  BY DEF SubmissionInv, IdsAreTrue, TrueIds
<1>3. MadeRow(r, request[r])
  BY DEF SubmissionInv, RowsAreMade, MadeRow
<1> QED
  BY <1>1, <1>2, <1>3

\* The initial state satisfies the invariant.
LEMMA InitInv == Init => SubmissionInv
<1> SUFFICES ASSUME Init PROVE SubmissionInv
  OBVIOUS
<1> USE SubmissionAssumption DEF Init, Idle
<1>1. TypeOK
  BY DEF TypeOK, RequestState
<1>2. OneJobPerKey
  BY DEF OneJobPerKey, Carries, Present
<1>3. IdsAreTrue
  BY DEF IdsAreTrue
<1>4. RowsAreMade
  BY DEF RowsAreMade
<1>5. JobsHaveQueues
  BY DEF JobsHaveQueues, Present
<1> QED
  BY <1>1, <1>2, <1>3, <1>4, <1>5 DEF SubmissionInv

\* A step of request r that writes no row: the invariant holds afterwards if it holds
\* of r in its new state and of the new cache.
LEMMA RequestStep ==
    ASSUME SubmissionInv, NEW r \in Requests, NEW state \in RequestState,
           Becomes(r, state),
           TrueIds(state), MadeRow(r, state),
           \/ state.key = request[r].key /\ state.queue = request[r].queue
           \/ row[r] = "none",
           UNCHANGED <<row, queues>>,
           redis' \in [Keys -> Requests \union {NoJob}],
           \A k \in Keys : redis'[k] # NoJob =>
               row[redis'[k]] # "none" /\ request[redis'[k]].key = k,
           faultsLeft' \in Nat
    PROVE  SubmissionInv'
<1> USE DEF SubmissionInv
<1>1. /\ request' \in [Requests -> RequestState]
      /\ request'[r] = state
      /\ \A s \in Requests : s # r => request'[s] = request[s]
  BY DEF Becomes, TypeOK
<1>2. \A j \in Requests : row[j] # "none" => request'[j].key = request[j].key
  BY <1>1
<1>3. \A s \in Requests : TrueIds(request[s])
  BY Locally
<1>4. \A s \in Requests : request[s] \in RequestState
  BY DEF TypeOK
<1>5. TypeOK'
  BY <1>1 DEF TypeOK
<1>6. OneJobPerKey'
  BY <1>2 DEF OneJobPerKey, Carries, Present
<1>7. IdsAreTrue'
  <2>1. ASSUME NEW s \in Requests PROVE TrueIds(request'[s])
    BY <1>1, <1>3
  <2>2. ASSUME NEW s \in Requests,
               NEW j \in {request'[s].cached, request'[s].job} \ {NoJob}
        PROVE  row'[j] # "none" /\ request'[j].key = request'[s].key
    <3>1. j \in Requests
      BY <1>1 DEF RequestState
    <3>2. row[j] # "none" /\ request[j].key = request'[s].key
      BY <2>1 DEF TrueIds
    <3> QED
      BY <1>2, <3>1, <3>2
  <2>3. \A k \in Keys : redis'[k] # NoJob =>
            row'[redis'[k]] # "none" /\ request'[redis'[k]].key = k
    BY <1>2
  <2> QED
    BY <2>2, <2>3 DEF IdsAreTrue
<1>8. RowsAreMade'
  <2>1. \A s \in Requests : MadeRow(s, request'[s])
    BY <1>1, Locally
  <2> QED
    BY <2>1 DEF RowsAreMade, MadeRow
<1>9. JobsHaveQueues'
  <2>1. \A j \in Requests : row[j] # "none" => request'[j].queue = request[j].queue
    BY <1>1
  <2> QED
    BY <2>1 DEF JobsHaveQueues, Present
<1> QED
  BY <1>5, <1>6, <1>7, <1>8, <1>9

\* The steps of a request before and after its insert keep the invariant.
LEMMA LookupStep ==
    ASSUME SubmissionInv, NEW r \in Requests,
           \/ Arrive(r) \/ GetCached(r) \/ GetFails(r) \/ FindCached(r) \/ FindByKey(r)
           \/ CheckParent(r) \/ InsertRefused(r) \/ Refresh(r)
           \/ StoreKey(r) \/ StoreFails(r) \/ DatabaseFails(r) \/ Crash(r)
    PROVE  SubmissionInv'
<1> DEFINE q == request[r]
<1> USE SubmissionAssumption
<1>0. /\ q \in RequestState /\ TrueIds(q) /\ MadeRow(r, q)
      /\ TypeOK /\ IdsAreTrue
  BY Locally DEF SubmissionInv
<1>1. /\ redis \in [Keys -> Requests \union {NoJob}]
      /\ \A k \in Keys : redis[k] # NoJob => row[redis[k]] # "none" /\ request[redis[k]].key = k
      /\ faultsLeft \in Nat
  BY <1>0 DEF TypeOK, IdsAreTrue
<1>2. ASSUME NEW kind, Fault(kind) PROVE faultsLeft' \in Nat
  BY <1>1, <1>2 DEF Fault
<1>3. CASE Arrive(r)
  <2>1. PICK key \in Keys \union {NoKey}, queue \in Queues, parent \in Requests \union {NoJob} :
          Becomes(r, [q EXCEPT !.key = key, !.queue = queue, !.parent = parent,
             !.status = IF queue \in queues THEN "none" ELSE "404",
             !.pc = IF queue \notin queues THEN "done"
                    ELSE IF key = NoKey THEN "check" ELSE "get"])
    BY <1>3 DEF Arrive
  <2> DEFINE n == [q EXCEPT !.key = key, !.queue = queue, !.parent = parent,
             !.status = IF queue \in queues THEN "none" ELSE "404",
             !.pc = IF queue \notin queues THEN "done"
                    ELSE IF key = NoKey THEN "check" ELSE "get"]
  <2>2. q = Idle /\ row[r] = "none"
    <3>1. q.pc = "idle"
      BY <1>3 DEF Arrive
    <3>2. q = Idle
      BY <1>0, <3>1, Zenon DEF MadeRow
    <3>3. q.job = NoJob
      BY <1>0, <3>1 DEF MadeRow
    <3>4. row[r] = "none"
      BY <1>0, <3>3 DEF MadeRow
    <3> QED
      BY <3>2, <3>4
  <2>3. q.cached = NoJob /\ q.job = NoJob
    BY <2>2 DEF Idle
  <2>4. /\ n \in RequestState /\ n.key = key
        /\ n.status = IF queue \in queues THEN "none" ELSE "404"
        /\ n.pc = IF queue \notin queues THEN "done"
                  ELSE IF key = NoKey THEN "check" ELSE "get"
        /\ n.cached = NoJob /\ n.job = NoJob
    <3>1. CASE queue \notin queues
      <4>1. n = [q EXCEPT !.key = key, !.queue = queue, !.parent = parent,
                          !.status = "404", !.pc = "done"]
        BY <3>1
      <4> QED
        BY <1>0, <2>3, <3>1, <4>1 DEF RequestState
    <3>2. CASE queue \in queues /\ key = NoKey
      <4>1. n = [q EXCEPT !.key = key, !.queue = queue, !.parent = parent,
                          !.status = "none", !.pc = "check"]
        BY <3>2
      <4> QED
        BY <1>0, <2>3, <3>2, <4>1 DEF RequestState
    <3>3. CASE queue \in queues /\ key # NoKey
      <4>1. n = [q EXCEPT !.key = key, !.queue = queue, !.parent = parent,
                          !.status = "none", !.pc = "get"]
        BY <3>3
      <4> QED
        BY <1>0, <2>3, <3>3, <4>1 DEF RequestState
    <3> QED
      BY <3>1, <3>2, <3>3
  <2>5. TrueIds(n)
    BY <2>4 DEF TrueIds
  <2>6. n.pc \in {"done", "check", "get"} /\ n.status \in {"none", "404"}
        /\ (n.status = "404" => n.pc = "done") /\ (n.pc = "get" => n.key # NoKey)
        /\ (n.pc = "done" => n.status = "404")
    BY <2>4
  <2>7. MadeRow(r, n)
    BY <2>2, <2>4, <2>6 DEF MadeRow
  <2> QED
    BY <1>1, <1>3, <2>1, <2>2, <2>4, <2>5, <2>7, RequestStep DEF Arrive
<1>4. CASE GetCached(r)
  <2> DEFINE entry == redis[q.key]
             n == [q EXCEPT !.cached = entry,
                            !.pc = IF entry = NoJob THEN "find" ELSE "cached"]
  <2>1. q.key \in Keys /\ Becomes(r, n)
    BY <1>0, <1>4 DEF GetCached, MadeRow, RequestState
  <2>2. n \in RequestState
    BY <1>0, <1>1, <2>1 DEF RequestState
  <2>3. /\ n.cached = entry /\ n.job = q.job /\ n.key = q.key /\ n.queue = q.queue /\ n.status = q.status
        /\ n.pc \in {"find", "cached"} /\ (n.pc = "cached" => entry # NoJob)
    BY <1>0 DEF RequestState
  <2>4. TrueIds(n)
    BY <1>0, <1>1, <2>1, <2>3 DEF TrueIds
  <2>5. MadeRow(r, n)
    BY <1>0, <1>4, <2>3 DEF MadeRow, GetCached
  <2> QED
    BY <1>1, <1>4, <2>1, <2>2, <2>3, <2>4, <2>5, RequestStep DEF GetCached
<1>5. CASE GetFails(r)
  <2> DEFINE n == [q EXCEPT !.pc = "find"]
  <2>1. n \in RequestState /\ TrueIds(n)
    BY <1>0 DEF RequestState, TrueIds
  <2>2. MadeRow(r, n)
    BY <1>0, <1>5 DEF GetFails, RequestState, MadeRow
  <2>3. n.key = q.key /\ n.queue = q.queue
    BY <1>0 DEF RequestState
  <2> QED
    BY <1>1, <1>2, <1>5, <2>1, <2>2, <2>3, RequestStep DEF GetFails
<1>6. CASE FindCached(r)
  <2>1. CASE q.cached \in Present
    <3> DEFINE n == [Answered(r, "200") EXCEPT !.job = q.cached]
    <3>1. /\ n \in RequestState /\ n.pc = "done" /\ n.status = "200"
          /\ n.job = q.cached /\ n.cached = q.cached /\ n.key = q.key /\ n.queue = q.queue
      BY <1>0 DEF RequestState, Answered
    <3>2. q.cached # NoJob /\ q.cached # r /\ row[r] = "none"
      BY <1>0, <1>6, <2>1 DEF FindCached, MadeRow, Present, TypeOK
    <3>3. TrueIds(n) /\ MadeRow(r, n)
      BY <1>0, <3>1, <3>2 DEF TrueIds, MadeRow
    <3>4. Becomes(r, n)
      BY <1>6, <2>1 DEF FindCached
    <3> QED
      BY <1>1, <1>6, <3>1, <3>3, <3>4, RequestStep DEF FindCached
  <2>2. CASE q.cached \notin Present
    <3> DEFINE n == [q EXCEPT !.pc = "find"]
    <3>1. n \in RequestState /\ TrueIds(n) /\ n.key = q.key /\ n.queue = q.queue
      BY <1>0 DEF RequestState, TrueIds
    <3>2. MadeRow(r, n)
      BY <1>0, <1>6 DEF FindCached, RequestState, MadeRow
    <3>3. Becomes(r, n)
      BY <1>6, <2>2 DEF FindCached
    <3> QED
      BY <1>1, <1>6, <3>1, <3>2, <3>3, RequestStep DEF FindCached
  <2> QED
    BY <2>1, <2>2
<1>7. CASE FindByKey(r)
  <2>1. ASSUME NEW j \in Requests, Carries(j, q.key),
               Becomes(r, [q EXCEPT !.pc = "store", !.job = j, !.status = "200"])
        PROVE  SubmissionInv'
    <3> DEFINE n == [q EXCEPT !.pc = "store", !.job = j, !.status = "200"]
    <3>1. /\ n \in RequestState /\ n.pc = "store" /\ n.status = "200"
          /\ n.job = j /\ n.cached = q.cached /\ n.key = q.key /\ n.queue = q.queue
      BY <1>0 DEF RequestState
    <3>2. row[r] = "none" /\ j # r /\ j # NoJob
      BY <1>0, <1>7, <2>1 DEF FindByKey, MadeRow, Carries, Present, TypeOK
    <3>3. TrueIds(n) /\ MadeRow(r, n)
      BY <1>0, <1>7, <2>1, <3>1, <3>2
      DEF FindByKey, TrueIds, MadeRow, Carries, Present
    <3> QED
      BY <1>1, <1>7, <2>1, <3>1, <3>3, RequestStep DEF FindByKey
  <2>2. ASSUME Becomes(r, [q EXCEPT !.pc = "check"]) PROVE SubmissionInv'
    <3> DEFINE n == [q EXCEPT !.pc = "check"]
    <3>1. n \in RequestState /\ TrueIds(n) /\ n.key = q.key /\ n.queue = q.queue
      BY <1>0 DEF RequestState, TrueIds
    <3>2. MadeRow(r, n)
      BY <1>0, <1>7 DEF FindByKey, RequestState, MadeRow
    <3> QED
      BY <1>1, <1>7, <2>2, <3>1, <3>2, RequestStep DEF FindByKey
  <2> QED
    BY <1>7, <2>1, <2>2 DEF FindByKey
<1>8. CASE CheckParent(r)
  <2>1. ASSUME NEW n \in {[q EXCEPT !.pc = "insert"], Answered(r, "400")}, Becomes(r, n)
        PROVE  SubmissionInv'
    <3>1. /\ n \in RequestState /\ n.pc \in {"insert", "done"}
          /\ n.cached = q.cached /\ n.job = q.job /\ n.key = q.key /\ n.queue = q.queue
          /\ n.pc = "done" => n.status = "400"
          /\ n.pc = "insert" => n.status = q.status
      BY <1>0 DEF RequestState, Answered
    <3>2. q.job = NoJob /\ row[r] = "none" /\ q.status = "none"
      BY <1>0, <1>8 DEF CheckParent, MadeRow, TypeOK
    <3>3. TrueIds(n) /\ MadeRow(r, n)
      BY <1>0, <3>1, <3>2 DEF TrueIds, MadeRow
    <3> QED
      BY <1>1, <1>8, <2>1, <3>1, <3>3, RequestStep DEF CheckParent
  <2> QED
    BY <1>8, <2>1 DEF CheckParent
<1>9. CASE InsertRefused(r)
  <2> DEFINE n == Answered(r, "500")
  <2>1. /\ n \in RequestState /\ n.pc = "done" /\ n.status = "500"
        /\ n.cached = q.cached /\ n.job = q.job /\ n.key = q.key /\ n.queue = q.queue
    BY <1>0 DEF RequestState, Answered
  <2>2. q.job = NoJob /\ row[r] = "none"
    BY <1>0, <1>9 DEF InsertRefused, MadeRow, TypeOK
  <2>3. TrueIds(n) /\ MadeRow(r, n)
    BY <1>0, <2>1, <2>2 DEF TrueIds, MadeRow
  <2> QED
    BY <1>1, <1>9, <2>1, <2>3, RequestStep DEF InsertRefused
<1>10. CASE Refresh(r)
  <2>0. q.job = r /\ r # NoJob
    BY <1>0, <1>10 DEF Refresh, MadeRow
  <2>1. ASSUME NEW n \in RequestState, Becomes(r, n),
               n.cached = q.cached, n.job = q.job, n.key = q.key, n.queue = q.queue,
               \/ n.pc = "done" /\ n.status = "500" /\ r \notin Present
               \/ n.pc = "done" /\ n.status = "201"
               \/ n.pc = "store" /\ n.status = "201" /\ q.key # NoKey
        PROVE  SubmissionInv'
    <3>1. TrueIds(n) /\ MadeRow(r, n)
      BY <1>0, <2>0, <2>1 DEF TrueIds, MadeRow, Present
    <3> QED
      BY <1>1, <1>10, <2>1, <3>1, RequestStep DEF Refresh
  <2>2. CASE r \notin Present
    <3> DEFINE n == Answered(r, "500")
    <3>1. /\ n \in RequestState /\ n.pc = "done" /\ n.status = "500"
          /\ n.cached = q.cached /\ n.job = q.job /\ n.key = q.key /\ n.queue = q.queue
      BY <1>0 DEF RequestState, Answered
    <3>2. Becomes(r, n)
      BY <1>10, <2>2 DEF Refresh
    <3> QED
      BY <2>1, <2>2, <3>1, <3>2
  <2>3. CASE r \in Present /\ q.key = NoKey
    <3> DEFINE n == Answered(r, "201")
    <3>1. /\ n \in RequestState /\ n.pc = "done" /\ n.status = "201"
          /\ n.cached = q.cached /\ n.job = q.job /\ n.key = q.key /\ n.queue = q.queue
      BY <1>0 DEF RequestState, Answered
    <3>2. Becomes(r, n)
      BY <1>10, <2>3 DEF Refresh
    <3> QED
      BY <2>1, <3>1, <3>2
  <2>4. CASE r \in Present /\ q.key # NoKey
    <3> DEFINE n == [q EXCEPT !.pc = "store", !.status = "201"]
    <3>1. /\ n \in RequestState /\ n.pc = "store" /\ n.status = "201"
          /\ n.cached = q.cached /\ n.job = q.job /\ n.key = q.key /\ n.queue = q.queue
      BY <1>0 DEF RequestState
    <3>2. Becomes(r, n)
      BY <1>10, <2>4 DEF Refresh
    <3> QED
      BY <2>1, <2>4, <3>1, <3>2
  <2> QED
    BY <2>2, <2>3, <2>4
<1>11. CASE StoreKey(r) \/ StoreFails(r)
  <2> DEFINE n == Answered(r, q.status)
  <2>1. /\ n \in RequestState /\ n.pc = "done" /\ n.status = q.status
        /\ n.cached = q.cached /\ n.job = q.job /\ n.key = q.key /\ n.queue = q.queue
    BY <1>0 DEF RequestState, Answered
  <2>2. /\ q.job # NoJob /\ q.job \in Requests /\ q.key \in Keys
        /\ q.status \in {"200", "201"}
    BY <1>0, <1>11 DEF StoreKey, StoreFails, MadeRow, RequestState
  <2>3. TrueIds(n) /\ MadeRow(r, n)
    BY <1>0, <2>1, <2>2 DEF TrueIds, MadeRow
  <2>4. Becomes(r, n) /\ UNCHANGED <<row, queues>> /\ faultsLeft' \in Nat
    BY <1>1, <1>2, <1>11 DEF StoreKey, StoreFails
  <2>5. row[q.job] # "none" /\ request[q.job].key = q.key
    BY <1>0, <2>2 DEF TrueIds
  <2>6. /\ redis' \in [Keys -> Requests \union {NoJob}]
        /\ \A k \in Keys : redis'[k] # NoJob =>
               row[redis'[k]] # "none" /\ request[redis'[k]].key = k
    <3>1. CASE UNCHANGED redis
      BY <1>1, <3>1
    <3>2. CASE redis' = [redis EXCEPT ![q.key] = IF @ = NoJob THEN q.job ELSE @]
      BY <1>1, <2>2, <2>5, <3>2
    <3> QED
      BY <1>11, <3>1, <3>2 DEF StoreKey, StoreFails
  <2> QED
    BY <2>1, <2>3, <2>4, <2>6, RequestStep
<1>12. CASE DatabaseFails(r)
  <2> DEFINE n == Answered(r, "500")
  <2>1. /\ n \in RequestState /\ n.pc = "done" /\ n.status = "500"
        /\ n.cached = q.cached /\ n.job = q.job /\ n.key = q.key /\ n.queue = q.queue
    BY <1>0 DEF RequestState, Answered
  <2>2. TrueIds(n) /\ MadeRow(r, n)
    BY <1>0, <2>1 DEF TrueIds, MadeRow
  <2> QED
    BY <1>1, <1>2, <1>12, <2>1, <2>2, RequestStep DEF DatabaseFails
<1>13. CASE Crash(r)
  <2> DEFINE n == Answered(r, "lost")
  <2>1. /\ n \in RequestState /\ n.pc = "done" /\ n.status = "lost"
        /\ n.cached = q.cached /\ n.job = q.job /\ n.key = q.key /\ n.queue = q.queue
    BY <1>0 DEF RequestState, Answered
  <2>2. TrueIds(n) /\ MadeRow(r, n)
    BY <1>0, <2>1 DEF TrueIds, MadeRow
  <2> QED
    BY <1>1, <1>2, <1>13, <2>1, <2>2, RequestStep DEF Crash
<1> QED
  BY <1>3, <1>4, <1>5, <1>6, <1>7, <1>8, <1>9, <1>10, <1>11, <1>12, <1>13

\* The insert keeps the invariant: no row carries the key.
LEMMA InsertStep ==
    ASSUME SubmissionInv, NEW r \in Requests, Insert(r)
    PROVE  SubmissionInv'
<1> DEFINE q == request[r]
           n == [q EXCEPT !.pc = "refresh", !.job = r]
<1> USE SubmissionAssumption
<1>0. /\ q \in RequestState /\ TrueIds(q) /\ MadeRow(r, q) /\ TypeOK /\ IdsAreTrue
  BY Locally DEF SubmissionInv
<1>1. /\ request' = [request EXCEPT ![r] = n]
      /\ row' = [row EXCEPT ![r] = "present"]
      /\ UNCHANGED <<redis, queues, faultsLeft>>
  BY DEF Insert, Becomes
<1>2. q.job = NoJob /\ q.status = "none" /\ row[r] = "none"
  BY <1>0 DEF Insert, MadeRow
<1>3. /\ n \in RequestState /\ n.pc = "refresh" /\ n.job = r
      /\ n.cached = q.cached /\ n.key = q.key /\ n.queue = q.queue /\ n.status = q.status
  BY <1>0 DEF RequestState
<1>4. /\ request' \in [Requests -> RequestState]
      /\ row' \in [Requests -> {"none", "present", "deleted"}]
      /\ request'[r] = n /\ row'[r] = "present"
      /\ \A s \in Requests : s # r => request'[s] = request[s] /\ row'[s] = row[s]
  BY <1>0, <1>1, <1>3 DEF TypeOK
<1>5. \A s \in Requests : request'[s].key = request[s].key
  BY <1>3, <1>4
<1>6. TypeOK'
  BY <1>0, <1>1, <1>4 DEF TypeOK
<1>7. OneJobPerKey'
  <2> SUFFICES ASSUME NEW i \in Requests, NEW j \in Requests, NEW k \in Keys,
                      Carries(i, k)', Carries(j, k)'
               PROVE  i = j
    BY DEF OneJobPerKey
  <2>1. \A s \in Requests : s # r /\ Carries(s, k)' => Carries(s, k)
    BY <1>4 DEF Carries, Present
  <2>2. Carries(r, k)' => q.key = k
    BY <1>5 DEF Carries
  <2>3. \A s \in Requests : ~Carries(s, q.key)
    BY DEF Insert, Accepted
  <2> QED
    BY <2>1, <2>2, <2>3 DEF SubmissionInv, OneJobPerKey
<1>8. IdsAreTrue'
  <2>1. \A k \in Keys : redis'[k] # NoJob =>
            row'[redis'[k]] # "none" /\ request'[redis'[k]].key = k
    BY <1>0, <1>1, <1>4, <1>5 DEF IdsAreTrue, TypeOK
  <2>2. ASSUME NEW s \in Requests,
               NEW j \in {request'[s].cached, request'[s].job} \ {NoJob}
        PROVE  row'[j] # "none" /\ request'[j].key = request'[s].key
    <3>1. j \in Requests
      BY <1>4 DEF RequestState
    <3>2. CASE j = r /\ s = r
      BY <1>4, <3>2
    <3>3. CASE ~(j = r /\ s = r)
      <4>1. j \in {request[s].cached, request[s].job} \ {NoJob}
        <5>1. CASE s # r
          <6>1. request'[s] = request[s]
            BY <1>4, <5>1
          <6> QED
            BY <6>1
        <5>2. CASE s = r
          <6>1. request'[s].cached = q.cached /\ request'[s].job = r
            BY <1>3, <1>4, <5>2
          <6>2. j = q.cached /\ j # NoJob
            BY <2>2, <3>3, <5>2, <6>1
          <6> QED
            BY <5>2, <6>2
        <5> QED
          BY <5>1, <5>2
      <4>2. row[j] # "none" /\ request[j].key = request[s].key
        BY <1>0, <4>1 DEF IdsAreTrue
      <4> QED
        BY <1>4, <1>5, <3>1, <4>2
    <3> QED
      BY <3>2, <3>3
  <2> QED
    BY <2>1, <2>2 DEF IdsAreTrue
<1>9. RowsAreMade'
  <2>1. MadeRow(r, n)'
    BY <1>2, <1>3, <1>4 DEF MadeRow
  <2>2. ASSUME NEW s \in Requests PROVE MadeRow(s, request[s])'
    <3>1. CASE s = r
      BY <1>2, <1>3, <1>4, <3>1 DEF MadeRow
    <3>2. CASE s # r
      BY <1>4, <3>2, Locally DEF MadeRow
    <3> QED
      BY <3>1, <3>2
  <2> QED
    BY <2>2 DEF RowsAreMade, MadeRow
<1>10. JobsHaveQueues'
  <2>1. q.queue \in queues /\ n.queue = q.queue
    BY <1>0 DEF Insert, Accepted, RequestState
  <2> QED
    BY <1>1, <1>4, <2>1 DEF SubmissionInv, JobsHaveQueues, Present
<1> QED
  BY <1>6, <1>7, <1>8, <1>9, <1>10 DEF SubmissionInv

\* A forgotten entry of the cache keeps the invariant.
LEMMA ExpireStep ==
    ASSUME SubmissionInv, NEW k \in Keys, Expire(k)
    PROVE  SubmissionInv'
<1>1. /\ TypeOK' /\ OneJobPerKey' /\ RowsAreMade' /\ JobsHaveQueues'
  BY DEF SubmissionInv, Expire, Fault, TypeOK, OneJobPerKey, Carries, Present,
         RowsAreMade, JobsHaveQueues
<1>2. IdsAreTrue'
  BY DEF SubmissionInv, TypeOK, Expire, IdsAreTrue
<1> QED
  BY <1>1, <1>2 DEF SubmissionInv

\* The deletion of a queue keeps the invariant: a row that is gone is not forgotten.
LEMMA DeleteStep ==
    ASSUME SubmissionInv, NEW u \in Queues, DeleteQueue(u)
    PROVE  SubmissionInv'
<1>0. TypeOK /\ OneJobPerKey /\ IdsAreTrue /\ RowsAreMade /\ JobsHaveQueues
  BY DEF SubmissionInv
<1>1. /\ UNCHANGED <<request, redis>>
      /\ \A j \in Requests : /\ row'[j] \in {row[j], "deleted"}
                             /\ row'[j] = "none" <=> row[j] = "none"
      /\ row' \in [Requests -> {"none", "present", "deleted"}]
  BY <1>0 DEF DeleteQueue, TypeOK, Present
<1>2. TypeOK'
  BY <1>0, <1>1 DEF TypeOK, DeleteQueue, Fault
<1>3. OneJobPerKey'
  BY <1>0, <1>1 DEF OneJobPerKey, Carries, Present
<1>4. IdsAreTrue'
  BY <1>0, <1>1 DEF IdsAreTrue, TypeOK, RequestState
<1>5. RowsAreMade'
  BY <1>0, <1>1 DEF RowsAreMade
<1>6. JobsHaveQueues'
  BY <1>0, <1>1 DEF JobsHaveQueues, Present, DeleteQueue
<1> QED
  BY <1>2, <1>3, <1>4, <1>5, <1>6 DEF SubmissionInv

\* The invariant holds in every reachable state: ids are never confused, no key has
\* two rows, and no job is without its queue.
THEOREM SubmissionInvHolds == Spec => []SubmissionInv
<1>1. SubmissionInv /\ UNCHANGED vars => SubmissionInv'
  BY DEF SubmissionInv, vars, TypeOK, OneJobPerKey, Carries, Present, IdsAreTrue,
         RowsAreMade, JobsHaveQueues
<1>2. SubmissionInv /\ Next => SubmissionInv'
  BY LookupStep, InsertStep, ExpireStep, DeleteStep DEF Next, Serve
<1> QED
  BY <1>1, <1>2, InitInv, PTL DEF Spec

\* Two answers for one key name one job, or a job that was deleted.
THEOREM AnswersAgreeHolds == Spec => []AnswersAgree
<1>1. ASSUME SubmissionInv PROVE AnswersAgree
  <2> SUFFICES ASSUME NEW r \in Requests, NEW s \in Requests,
                      request[r].status \in {"200", "201"}, request[r].pc = "done",
                      request[s].status \in {"200", "201"}, request[s].pc = "done",
                      request[r].key = request[s].key, request[r].key # NoKey,
                      request[r].job # request[s].job
               PROVE  \E j \in {request[r].job, request[s].job} : row[j] = "deleted"
    BY DEF AnswersAgree
  <2> DEFINE i == request[r].job
             j == request[s].job
             k == request[r].key
  <2>1. i \in Requests /\ j \in Requests /\ k \in Keys
    BY <1>1, Locally DEF MadeRow, RequestState
  <2>2. /\ row[i] # "none" /\ request[i].key = k
        /\ row[j] # "none" /\ request[j].key = k
    BY <1>1, <2>1, Locally, SubmissionAssumption DEF TrueIds
  <2>3. ~(row[i] = "present" /\ row[j] = "present")
    BY <1>1, <2>1, <2>2 DEF SubmissionInv, OneJobPerKey, Carries, Present
  <2>4. row[i] \in {"none", "present", "deleted"} /\ row[j] \in {"none", "present", "deleted"}
    BY <1>1, <2>1 DEF SubmissionInv, TypeOK
  <2> QED
    BY <2>2, <2>3, <2>4
<1> QED
  BY <1>1, SubmissionInvHolds, PTL

\* A submission that failed after its commit is found again by its key.
THEOREM RetriesFindTheJobHolds == Spec => []RetriesFindTheJob
<1>1. ASSUME SubmissionInv PROVE RetriesFindTheJob
  <2> SUFFICES ASSUME NEW r \in Requests, NEW s \in Requests,
                      LeftBehind(r), request[r].key # NoKey,
                      request[s].pc = "done", request[s].status \in {"200", "201"},
                      request[s].key = request[r].key
               PROVE  request[s].job = r \/ row[request[s].job] = "deleted"
    BY DEF RetriesFindTheJob
  <2> DEFINE j == request[s].job
             k == request[r].key
  <2>1. j \in Requests /\ k \in Keys
    BY <1>1, Locally DEF MadeRow, RequestState
  <2>2. row[j] # "none" /\ request[j].key = k
    BY <1>1, <2>1, Locally, SubmissionAssumption DEF TrueIds
  <2>3. row[j] = "present" => j = r
    BY <1>1, <2>1, <2>2 DEF SubmissionInv, OneJobPerKey, Carries, Present, LeftBehind
  <2>4. row[j] \in {"none", "present", "deleted"}
    BY <1>1, <2>1 DEF SubmissionInv, TypeOK
  <2> QED
    BY <2>2, <2>3, <2>4
<1> QED
  BY <1>1, SubmissionInvHolds, PTL

-----------------------------------------------------------------------------
(* Submission implements ExactlyOnce.                                      *)

\* The holder of a key is the job that carries it.
LEMMA HolderIs ==
    ASSUME OneJobPerKey, NEW k \in Keys
    PROVE  /\ \A j \in Requests : Carries(j, k) => Holder[k] = j
           /\ (\A j \in Requests : ~Carries(j, k)) => Holder[k] = NoJob
<1>1. ASSUME NEW j \in Requests, Carries(j, k) PROVE Holder[k] = j
  <2>1. Holder[k] = CHOOSE i \in Requests : Carries(i, k)
    BY <1>1 DEF Holder
  <2>2. Holder[k] \in Requests /\ Carries(Holder[k], k)
    BY <1>1, <2>1
  <2> QED
    BY <1>1, <2>2 DEF OneJobPerKey
<1>2. ASSUME \A j \in Requests : ~Carries(j, k) PROVE Holder[k] = NoJob
  BY <1>2 DEF Holder
<1> QED
  BY <1>1, <1>2

\* A step that leaves the rows, and the keys of the jobs in the table, alone leaves
\* the holders alone.
LEMMA HolderSame ==
    ASSUME UNCHANGED row,
           \A j \in Requests : row[j] = "present" => request'[j].key = request[j].key
    PROVE  Holder' = Holder
<1>1. \A j \in Requests, k \in Keys : Carries(j, k)' <=> Carries(j, k)
  BY DEF Carries, Present
<1> QED
  BY <1>1 DEF Holder

\* What becomes of the mapped variables when request r goes on.
LEMMA MappedStep ==
    ASSUME TypeOK, NEW r \in Requests, NEW state \in RequestState, Becomes(r, state)
    PROVE  /\ [s \in Requests |-> request'[s].key] =
                [[s \in Requests |-> request[s].key] EXCEPT ![r] = state.key]
           /\ [s \in Requests |-> request'[s].job] =
                [[s \in Requests |-> request[s].job] EXCEPT ![r] = state.job]
           /\ \A s \in Requests : s # r => request'[s] = request[s]
           /\ request'[r] = state
BY DEF TypeOK, Becomes

\* A step of request r that neither asks nor finds a job is invisible.
LEMMA InvisibleStep ==
    ASSUME TypeOK, NEW r \in Requests, NEW state \in RequestState, Becomes(r, state),
           state.key = request[r].key, state.job = request[r].job, UNCHANGED row
    PROVE  UNCHANGED Contract!vars
<1>1. \A s \in Requests : request'[s].key = request[s].key /\ request'[s].job = request[s].job
  BY MappedStep
<1>2. Holder' = Holder
  BY <1>1, HolderSame
<1> QED
  BY <1>1, <1>2 DEF Contract!vars

\* A request that finds a job with its key returns it.
LEMMA ReturnStep ==
    ASSUME SubmissionInv, NEW r \in Requests, NEW state \in RequestState, Becomes(r, state),
           request[r].job = NoJob, request[r].key \in Keys, state.key = request[r].key,
           state.job \in Requests, Carries(state.job, request[r].key), UNCHANGED row
    PROVE  Contract!Return(r)
<1> USE SubmissionAssumption
<1>0. TypeOK /\ OneJobPerKey
  BY DEF SubmissionInv
<1>1. Holder[request[r].key] = state.job /\ state.job # NoJob
  BY <1>0, HolderIs
<1>2. \A s \in Requests : request'[s].key = request[s].key
  BY <1>0, MappedStep
<1>3. Holder' = Holder
  BY <1>2, HolderSame
<1>4. [s \in Requests |-> request'[s].job] =
        [[s \in Requests |-> request[s].job] EXCEPT ![r] = state.job]
  BY <1>0, MappedStep
<1>5. [s \in Requests |-> request'[s].key] = [s \in Requests |-> request[s].key]
  BY <1>2
<1> QED
  BY <1>1, <1>3, <1>4, <1>5 DEF Contract!Return

\* An insert creates a job that holds its key.
LEMMA CreateStep ==
    ASSUME SubmissionInv, NEW r \in Requests, Insert(r)
    PROVE  Contract!Create(r)
<1> DEFINE q == request[r]
           n == [q EXCEPT !.pc = "refresh", !.job = r]
<1> USE SubmissionAssumption
<1>0. TypeOK /\ OneJobPerKey /\ OneJobPerKey' /\ q \in RequestState /\ MadeRow(r, q)
  BY InsertStep, Locally DEF SubmissionInv
<1>1. n \in RequestState /\ n.key = q.key /\ n.job = r /\ Becomes(r, n)
  BY <1>0 DEF RequestState, Insert
<1>2. q.job = NoJob /\ row[r] = "none"
  BY <1>0 DEF Insert, MadeRow
<1>3. \A s \in Requests : request'[s].key = request[s].key
  BY <1>0, <1>1, MappedStep
<1>4. /\ row'[r] = "present"
      /\ \A s \in Requests : s # r => row'[s] = row[s]
  BY <1>0 DEF TypeOK, Insert
<1>5. \A j \in Requests, k \in Keys :
        Carries(j, k)' <=> Carries(j, k) \/ (j = r /\ k = q.key)
  BY <1>2, <1>3, <1>4 DEF Carries, Present
<1>6. \A j \in Requests : ~Carries(j, q.key)
  BY DEF Insert, Accepted
<1>7. \A k \in Keys : k # q.key => Holder'[k] = Holder[k]
  BY <1>5 DEF Holder
<1>8. ASSUME NEW k \in Keys, k = q.key
      PROVE  Holder[k] = NoJob /\ Holder'[k] = r
  <2>1. Holder[k] = NoJob
    BY <1>0, <1>6, <1>8, HolderIs
  <2>2. \A j \in Requests : Carries(j, k)' <=> j = r
    BY <1>5, <1>6, <1>8
  <2>3. Holder'[k] = CHOOSE j \in Requests : Carries(j, k)'
    BY <2>2 DEF Holder
  <2> QED
    BY <2>1, <2>2, <2>3
<1>9. Holder' = IF q.key \in Keys THEN [Holder EXCEPT ![q.key] = r] ELSE Holder
  <2>1. Holder = [k \in Keys |-> Holder[k]] /\ Holder' = [k \in Keys |-> Holder'[k]]
    BY DEF Holder
  <2> QED
    BY <1>7, <1>8, <2>1
<1>10. q.key \in Keys \/ q.key = NoKey
  BY <1>0 DEF RequestState
<1>11. [s \in Requests |-> request'[s].job] =
         [[s \in Requests |-> request[s].job] EXCEPT ![r] = r]
  <2>1. request'[r] = n /\ \A s \in Requests : s # r => request'[s] = request[s]
    BY <1>0, <1>1, MappedStep
  <2>2. \A s \in Requests : request'[s].job = IF s = r THEN r ELSE request[s].job
    BY <1>1, <2>1
  <2> QED
    BY <2>2
<1>12. [s \in Requests |-> request'[s].key] = [s \in Requests |-> request[s].key]
  BY <1>3
<1> QED
  BY <1>2, <1>8, <1>9, <1>10, <1>11, <1>12 DEF Contract!Create

\* A request that arrives asks for its key.
LEMMA AskStep ==
    ASSUME SubmissionInv, SubmissionInv', NEW r \in Requests, Arrive(r)
    PROVE  Contract!Ask(r) \/ UNCHANGED Contract!vars
<1> DEFINE q == request[r]
<1>0. TypeOK /\ TypeOK' /\ MadeRow(r, q) /\ q \in RequestState
  BY Locally DEF SubmissionInv
<1>1. PICK key \in Keys \union {NoKey}, queue \in Queues, parent \in Requests \union {NoJob} :
        Becomes(r, [q EXCEPT !.key = key, !.queue = queue, !.parent = parent,
           !.status = IF queue \in queues THEN "none" ELSE "404",
           !.pc = IF queue \notin queues THEN "done"
                  ELSE IF key = NoKey THEN "check" ELSE "get"])
  BY DEF Arrive
<1> DEFINE n == [q EXCEPT !.key = key, !.queue = queue, !.parent = parent,
           !.status = IF queue \in queues THEN "none" ELSE "404",
           !.pc = IF queue \notin queues THEN "done"
                  ELSE IF key = NoKey THEN "check" ELSE "get"]
<1>2. request'[r] = n
  BY <1>0, <1>1 DEF TypeOK, Becomes
<1>3. n \in RequestState /\ n.key = key /\ n.job = q.job
  <2>1. n \in RequestState
    BY <1>0, <1>2 DEF TypeOK
  <2> QED
    BY <1>0, <2>1 DEF RequestState
<1>4. q.pc = "idle" /\ UNCHANGED row
  BY DEF Arrive
<1>5. q = Idle
  BY <1>0, <1>4, Zenon DEF MadeRow
<1>6. q.job = NoJob /\ q.key = NoKey
  BY <1>5 DEF Idle
<1>7. row[r] = "none"
  BY <1>0, <1>6, SubmissionAssumption DEF MadeRow
<1>8. /\ \A s \in Requests : s # r => request'[s] = request[s]
      /\ [s \in Requests |-> request'[s].key] =
            [[s \in Requests |-> request[s].key] EXCEPT ![r] = key]
      /\ [s \in Requests |-> request'[s].job] = [s \in Requests |-> request[s].job]
  <2>1. \A s \in Requests : s # r => request'[s] = request[s]
    BY <1>0, <1>1, <1>3, MappedStep
  <2>2. /\ \A s \in Requests : request'[s].key = IF s = r THEN key ELSE request[s].key
        /\ \A s \in Requests : request'[s].job = request[s].job
    BY <1>2, <1>3, <2>1
  <2> QED
    BY <2>1, <2>2
<1>9. Holder' = Holder
  BY <1>4, <1>7, <1>8, HolderSame
<1>10. CASE key \in Keys
  BY <1>6, <1>8, <1>9, <1>10 DEF Contract!Ask
<1>11. CASE key = NoKey
  <2>1. \A s \in Requests : request'[s].key = request[s].key
    BY <1>2, <1>3, <1>6, <1>8, <1>11
  <2> QED
    BY <1>8, <1>9, <2>1 DEF Contract!vars
<1> QED
  BY <1>10, <1>11

\* A deleted queue takes the keys of its jobs with it.
LEMMA DropStep ==
    ASSUME SubmissionInv, SubmissionInv', NEW u \in Queues, DeleteQueue(u)
    PROVE  Contract!Delete
<1>0. OneJobPerKey /\ OneJobPerKey' /\ UNCHANGED request
  BY DEF SubmissionInv, DeleteQueue
<1>1. \A j \in Requests, k \in Keys : Carries(j, k)' => Carries(j, k)
  BY DEF DeleteQueue, Carries, Present
<1> DEFINE lost == {k \in Keys : \A j \in Requests : ~Carries(j, k)'}
<1>2. ASSUME NEW k \in lost PROVE Holder'[k] = NoJob
  BY <1>2 DEF Holder
<1>3. ASSUME NEW k \in Keys \ lost PROVE Holder'[k] = Holder[k]
  <2>1. PICK j \in Requests : Carries(j, k)'
    BY <1>3
  <2>2. Carries(j, k) /\ Holder[k] = j
    BY <1>0, <1>1, <2>1, HolderIs
  <2>3. \A i \in Requests : Carries(i, k)' <=> i = j
    BY <1>0, <2>1 DEF OneJobPerKey
  <2>4. Holder'[k] = CHOOSE i \in Requests : Carries(i, k)'
    BY <2>1 DEF Holder
  <2> QED
    BY <2>2, <2>3, <2>4
<1>4. Holder' = [k \in Keys |-> IF k \in lost THEN NoJob ELSE Holder[k]]
  <2>1. Holder' = [k \in Keys |-> Holder'[k]]
    BY DEF Holder
  <2> QED
    BY <1>2, <1>3, <2>1
<1>5. lost \in SUBSET Keys
  OBVIOUS
<1> QED
  BY <1>0, <1>4, <1>5 DEF Contract!Delete

\* The other steps of a request find a job with its key or are invisible.
LEMMA ServeStep ==
    ASSUME SubmissionInv, NEW r \in Requests,
           \/ GetCached(r) \/ GetFails(r) \/ FindCached(r) \/ FindByKey(r)
           \/ CheckParent(r) \/ InsertRefused(r) \/ Refresh(r)
           \/ StoreKey(r) \/ StoreFails(r) \/ DatabaseFails(r) \/ Crash(r)
    PROVE  Contract!Return(r) \/ UNCHANGED Contract!vars
<1> DEFINE q == request[r]
<1> USE SubmissionAssumption
<1>0. /\ q \in RequestState /\ TrueIds(q) /\ MadeRow(r, q) /\ TypeOK
      /\ redis \in [Keys -> Requests \union {NoJob}]
  BY Locally DEF SubmissionInv, TypeOK
<1>1. UNCHANGED row
  BY DEF GetCached, GetFails, FindCached, FindByKey, CheckParent, InsertRefused,
         Refresh, StoreKey, StoreFails, DatabaseFails, Crash
<1>2. \A st \in {"200", "201", "400", "500", "lost"} :
        /\ Answered(r, st) \in RequestState
        /\ Answered(r, st).key = q.key /\ Answered(r, st).job = q.job
  BY <1>0 DEF Answered, RequestState
<1>3. \A p \in {"find", "check", "insert"} :
        /\ [q EXCEPT !.pc = p] \in RequestState
        /\ [q EXCEPT !.pc = p].key = q.key /\ [q EXCEPT !.pc = p].job = q.job
  BY <1>0 DEF RequestState
<1>4. CASE GetCached(r)
  <2> DEFINE entry == redis[q.key]
             n == [q EXCEPT !.cached = entry,
                            !.pc = IF entry = NoJob THEN "find" ELSE "cached"]
  <2>1. q.key \in Keys /\ Becomes(r, n)
    BY <1>0, <1>4 DEF GetCached, MadeRow, RequestState
  <2>2. n \in RequestState /\ n.key = q.key /\ n.job = q.job
    BY <1>0, <2>1 DEF RequestState
  <2> QED
    BY <1>0, <1>1, <2>1, <2>2, InvisibleStep
<1>5. CASE GetFails(r)
  BY <1>0, <1>1, <1>3, <1>5, InvisibleStep DEF GetFails
<1>6. CASE FindCached(r)
  <2>1. CASE q.cached \in Present
    <3> DEFINE n == [Answered(r, "200") EXCEPT !.job = q.cached]
    <3>1. n \in RequestState /\ n.job = q.cached /\ n.key = q.key
      BY <1>0 DEF RequestState, Answered
    <3>2. q.job = NoJob /\ q.key \in Keys /\ q.cached \in Requests
      BY <1>0, <1>6, <2>1 DEF FindCached, MadeRow, RequestState, Present
    <3>3. Carries(q.cached, q.key)
      BY <1>0, <2>1, <3>2 DEF TrueIds, Carries
    <3>4. Becomes(r, n)
      BY <1>6, <2>1 DEF FindCached
    <3> QED
      BY <1>1, <3>1, <3>2, <3>3, <3>4, ReturnStep
  <2>2. CASE q.cached \notin Present
    BY <1>0, <1>1, <1>3, <1>6, <2>2, InvisibleStep DEF FindCached
  <2> QED
    BY <2>1, <2>2
<1>7. CASE FindByKey(r)
  <2>1. ASSUME NEW j \in Requests, Carries(j, q.key),
               Becomes(r, [q EXCEPT !.pc = "store", !.job = j, !.status = "200"])
        PROVE  Contract!Return(r)
    <3> DEFINE n == [q EXCEPT !.pc = "store", !.job = j, !.status = "200"]
    <3>1. n \in RequestState /\ n.job = j /\ n.key = q.key
      BY <1>0 DEF RequestState
    <3>2. q.job = NoJob /\ q.key \in Keys
      BY <1>0, <1>7 DEF FindByKey, MadeRow, RequestState
    <3> QED
      BY <1>1, <2>1, <3>1, <3>2, ReturnStep
  <2>2. CASE Becomes(r, [q EXCEPT !.pc = "check"])
    BY <1>0, <1>1, <1>3, <2>2, InvisibleStep
  <2> QED
    BY <1>7, <2>1, <2>2 DEF FindByKey
<1>8. CASE CheckParent(r)
  BY <1>0, <1>1, <1>2, <1>3, <1>8, InvisibleStep DEF CheckParent
<1>9. CASE InsertRefused(r)
  BY <1>0, <1>1, <1>2, <1>9, InvisibleStep DEF InsertRefused
<1>10. CASE Refresh(r)
  <2>1. [q EXCEPT !.pc = "store", !.status = "201"] \in RequestState
        /\ [q EXCEPT !.pc = "store", !.status = "201"].key = q.key
        /\ [q EXCEPT !.pc = "store", !.status = "201"].job = q.job
    BY <1>0 DEF RequestState
  <2> QED
    BY <1>0, <1>1, <1>2, <1>10, <2>1, InvisibleStep DEF Refresh
<1>11. CASE StoreKey(r) \/ StoreFails(r)
  <2>1. q.status \in {"200", "201"} /\ Becomes(r, Answered(r, q.status))
    BY <1>0, <1>11 DEF StoreKey, StoreFails, MadeRow
  <2> QED
    BY <1>0, <1>1, <1>2, <2>1, InvisibleStep
<1>12. CASE DatabaseFails(r)
  BY <1>0, <1>1, <1>2, <1>12, InvisibleStep DEF DatabaseFails
<1>13. CASE Crash(r)
  BY <1>0, <1>1, <1>2, <1>13, InvisibleStep DEF Crash
<1> QED
  BY <1>4, <1>5, <1>6, <1>7, <1>8, <1>9, <1>10, <1>11, <1>12, <1>13

\* Submissions with an Idempotency-Key are exactly once, whatever Redis does, however
\* many requests run at once, die on the way or find their queue gone.
THEOREM SubmissionsExactlyOnce == Spec => ImplementsExactlyOnce
<1>1. Init => Contract!Init
  BY SubmissionAssumption DEF Init, Idle, Contract!Init, Holder, Carries, Present
<1>2. SubmissionInv /\ SubmissionInv' /\ [Next]_vars => [Contract!Next]_(Contract!vars)
  <2> SUFFICES ASSUME SubmissionInv, SubmissionInv', [Next]_vars
               PROVE  Contract!Next \/ UNCHANGED Contract!vars
    OBVIOUS
  <2>1. CASE UNCHANGED vars \/ \E k \in Keys : Expire(k)
    <3>1. UNCHANGED <<request, row>>
      BY <2>1 DEF vars, Expire
    <3> QED
      BY <3>1 DEF Contract!vars, Holder, Carries, Present
  <2>2. ASSUME NEW r \in Requests, Serve(r) \/ Crash(r)
        PROVE  Contract!Ask(r) \/ Contract!Create(r) \/ Contract!Return(r)
               \/ UNCHANGED Contract!vars
    BY <2>2, AskStep, CreateStep, ServeStep DEF Serve
  <2>3. ASSUME NEW u \in Queues, DeleteQueue(u) PROVE Contract!Delete
    BY <2>3, DropStep
  <2> QED
    BY <2>1, <2>2, <2>3 DEF Next, Contract!Next
<1> QED
  BY <1>1, <1>2, SubmissionInvHolds, PTL DEF Spec, ImplementsExactlyOnce, Contract!Spec
=============================================================================
