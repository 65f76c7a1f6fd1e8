--------------------------- MODULE MCLatticeLease ---------------------------
(* Two tasks on one event loop and one on another.                         *)
EXTENDS LatticeLease, TLC
CONSTANTS t1, t2, t3, loopA, loopB

MCTasks == {t1, t2, t3}
MCLoops == {loopA, loopB}
MCLoopOf == (t1 :> loopA) @@ (t2 :> loopA) @@ (t3 :> loopB)
=============================================================================
