------------------------------ MODULE MCWebViews ------------------------------
(* Instances of WebViews for TLC: two jobs, one of which failed.           *)
EXTENDS WebViews

OneFailed(f) == IF f = "" THEN 2 ELSE 1
=============================================================================
