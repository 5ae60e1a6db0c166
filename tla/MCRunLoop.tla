------------------------------ MODULE MCRunLoop ------------------------------
(* Values for the constants of RunLoop that a .cfg cannot write.            *)
EXTENDS RunLoop, TLC

AllEnds == DrainOutcomes
NoStops == {"ok", "error"}
NoFaults == {}
AllFaults == {"transient", "refused"}
NoMoves == {}
AllMoves == {"settle", "ask", "queue", "console"}
QueueOnly == {"queue"}
Zero == {0}
ZeroOne == {0, 1}
ZeroTwo == {0, 2}

TaskSymmetry == Permutations(Tasks)
=============================================================================
