----------------------------- MODULE MCTraffic -----------------------------
(* Bounds of the runs of Traffic.  Clients share nothing but the copiers,  *)
(* so one is enough; it starts from server.yaml and may be removed and     *)
(* created again by the API.                                               *)
EXTENDS Traffic, TLC

MCSeed == [c \in Clients |-> 2]

CopierSymmetry == Permutations(Copiers)
=============================================================================
