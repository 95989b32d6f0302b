----------------------------- MODULE MCEventLists -----------------------------
EXTENDS EventLists

(* The signals, and the processes without static sensitivity, have the same  *)
(* part in every action.                                                     *)
Symmetry == Permutations(Signal) \cup Permutations(Plain)
=============================================================================
