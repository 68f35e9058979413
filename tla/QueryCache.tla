------------------------------ MODULE QueryCache ------------------------------
(***************************************************************************)
(* What the pages use of TanStack Query (a library): the cache entry of a  *)
(* query key.  An entry keeps the last data while a fetch is under way; at *)
(* most one fetch of a key is.  A fetch is "sent", then "read" when the    *)
(* API has taken its snapshot, and its answer replaces the data when it    *)
(* arrives.                                                                *)
(***************************************************************************)

None == <<>>
Some(v) == <<v>>
Option(S) == {None} \union {Some(v) : v \in S}
Value(o) == o[1]

Entry(S) == [data : Option(S), fetch : {"off", "sent", "read"}, answer : Option(S)]

Blank == [data |-> None, fetch |-> "off", answer |-> None]

\* A component mounts or the interval has passed: a fetch under way is joined.
Begun(e) == IF e.fetch = "off" THEN [e EXCEPT !.fetch = "sent"] ELSE e

\* Mutant: an invalidation joins the fetch that is under way.
RestartedJoined(e) == Begun(e)

\* An invalidation or a refetch on demand: a fetch under way is dropped and a new
\* one sent, except for a first fetch, which is joined.
Restarted(e) ==
    IF e.data = None THEN Begun(e) ELSE [e EXCEPT !.fetch = "sent", !.answer = None]

Answered(e, v) == [e EXCEPT !.fetch = "read", !.answer = Some(v)]
Arrived(e) == [data |-> e.answer, fetch |-> "off", answer |-> None]

\* The retry has failed as well: the data stays.
Failed(e) == [e EXCEPT !.fetch = "off", !.answer = None]

\* isLoading: nothing to show yet and a fetch under way.
Loading(e) == e.data = None /\ e.fetch # "off"
=============================================================================
