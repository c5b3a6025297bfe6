---------------------------- MODULE MCTcpForward ----------------------------
(* Bounds of the run of TcpForward: two chunks one way, so that one can    *)
(* overtake, replace or be lost before the other, and one the other way.   *)
EXTENDS TcpForward

MCMaxChunks == [d \in {"up", "down"} |-> IF d = "up" THEN 2 ELSE 1]
=============================================================================
