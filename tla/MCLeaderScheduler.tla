-------------------------- MODULE MCLeaderScheduler --------------------------
(* Instances of LeaderScheduler for TLC.                                   *)
EXTENDS LeaderTimetable

CONSTANTS t1, t2

\* Template t1 fires at every tick of the clock, t2 at every second one.
TwoPaces ==
    LET every(p) == [x \in Times |-> (x \div p + 1) * p]
    IN  [t \in Templates |-> IF t = t1 THEN every(1) ELSE every(2)]
=============================================================================

