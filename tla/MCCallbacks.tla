----------------------------- MODULE MCCallbacks -----------------------------
(***************************************************************************)
(* Instances of Callbacks for TLC.                                         *)
(***************************************************************************)
EXTENDS Callbacks

CONSTANTS c1, c2
=============================================================================
