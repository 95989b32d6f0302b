----------------------------- MODULE MCProcesses -----------------------------
(***************************************************************************)
(* Instances of Processes for TLC.  p is a plain process, z a sensitized    *)
(* one, q a postponed process.                                              *)
(***************************************************************************)
EXTENDS Processes

CONSTANTS p, q, r, z, s

MC_Static == [x \in {z} |-> {s}]
=============================================================================
