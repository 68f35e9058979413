-------------------------- MODULE LeaderTimetable --------------------------
(***************************************************************************)
(* LeaderScheduler implements Timetable as long as the connection of the   *)
(* lock is not lost: however the processes crash, fail and take over from  *)
(* each other, templates are fired and jobs are queued as if by one hand.  *)
(* scheduled_at of a template is the occurrence it is at, and its children *)
(* are what has fired.                                                     *)
(***************************************************************************)
EXTENDS LeaderScheduler

statusOf == [j \in Jobs |-> job[j].status]

atOf == [j \in Jobs |-> job[j].at]

Promise ==
    INSTANCE Timetable WITH next <- nextRun, fired <- children, withdrawn <- deleted,
                            status <- statusOf, at <- atOf

\* The scheduler processes together keep what the timetable promises.
ImplementsTimetable == Promise!TimetableSpec
=============================================================================
