----------------------------- MODULE MCWebSession -----------------------------
(* Instances of WebSession for TLC: tokens for two accounts.               *)
EXTENDS WebSession

CONSTANTS t1, t2, u1, u2, k1, k2

TokenAccount(k) == IF k = k2 THEN u2 ELSE u1
=============================================================================
