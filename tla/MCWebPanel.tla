---------------------------- MODULE MCWebPanel ----------------------------
(* Bounds of the runs of WebPanel.  The settings that are posted differ    *)
(* from the defaults in all three values: a longer timeout (clamped from   *)
(* above), a lower limit and a shorter lock (clamped from below).          *)
EXTENDS WebPanel, TLC

MCDefault == [timeout |-> 1, max |-> 2, lock |-> 2]
MCSettings == {[timeout |-> 3, max |-> 1, lock |-> 0]}
MCSymmetry == Permutations(Requests) \cup Permutations(SessionIDs)
=============================================================================
