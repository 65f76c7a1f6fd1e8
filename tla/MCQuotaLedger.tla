---------------------------- MODULE MCQuotaLedger ---------------------------
(* Instances of QuotaLedger for TLC.                                        *)
EXTENDS QuotaLedger, TLC

CONSTANTS p1, p2, t1, t2

\* Two gateway processes on one database file, one coroutine each.
TwoProcesses == (t1 :> p1) @@ (t2 :> p2)
=============================================================================
