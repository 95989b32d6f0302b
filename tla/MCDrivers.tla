------------------------------ MODULE MCDrivers ------------------------------
(***************************************************************************)
(* Instances of Drivers for TLC.  Signal a has the single driver da; r is  *)
(* resolved (wired and) with a driver dr and a direct driver dx; n has no   *)
(* driver.                                                                  *)
(***************************************************************************)
EXTENDS Drivers

CONSTANTS a, n, r, da, dr, dx

MC_Resolve == [S \in SUBSET Value |-> IF 0 \in S THEN 0 ELSE 1]

MC_Signal_Of == [d \in Driver |-> IF d = da THEN a ELSE r]

MC_No_Overrides == {}

(* The requests of either mode on s; a release has no value.                 *)
Requests(s, kinds, modes) ==
  [Kind : kinds \ {"release"}, Mode : modes, Sig : {s}, Val : Value]
    \cup [Kind : kinds \cap {"release"}, Mode : modes, Sig : {s}, Val : {0}]

MC_Force_Resolved ==
  Requests(r, Force_Kind, {"driving"}) \cup Requests(n, Force_Kind, {"effective"})
=============================================================================
