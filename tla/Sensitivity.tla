----------------------------- MODULE Sensitivity -----------------------------
(***************************************************************************)
(* What the event lists of signals promise: an event on a signal resumes   *)
(* the processes that are sensitive to it, statically or by the wait they  *)
(* are in, and no other.  Processes.tla uses sensitivities in this form.   *)
(***************************************************************************)
EXTENDS Naturals

CONSTANTS Signal, Process

VARIABLES
  static,     \* the sensitivities that last for ever: [proc, sig]
  waits,      \* the signals each process waits for
  resumed     \* the processes to be run

vars == <<static, waits, resumed>>

Sensitive(s) == {p \in Process : s \in waits[p] \/ [proc |-> p, sig |-> s] \in static}

Init ==
  /\ static = {} /\ waits = [p \in Process |-> {}] /\ resumed = {}

Register(p, s) ==
  /\ static' = static \cup {[proc |-> p, sig |-> s]}
  /\ UNCHANGED <<waits, resumed>>

Wait_On(p, s) ==
  /\ waits' = [waits EXCEPT ![p] = @ \cup {s}]
  /\ UNCHANGED <<static, resumed>>

Event(s) ==
  /\ resumed' = resumed \cup Sensitive(s)
  /\ UNCHANGED <<static, waits>>

(* Resumed for another reason: at the initialization or by a timeout.        *)
Wake(P) ==
  /\ P # {}
  /\ \A p \in P : waits[p] = {} \/ P = {p}
  /\ resumed' = resumed \cup P
  /\ UNCHANGED <<static, waits>>

Run(p) ==
  /\ p \in resumed
  /\ resumed' = resumed \ {p}
  /\ UNCHANGED <<static, waits>>

Continue(p) ==
  /\ p \notin resumed
  /\ waits' = [waits EXCEPT ![p] = {}]
  /\ UNCHANGED <<static, resumed>>

Next ==
  \/ \E p \in Process, s \in Signal : Register(p, s) \/ Wait_On(p, s)
  \/ \E s \in Signal : Event(s)
  \/ \E P \in SUBSET Process : Wake(P)
  \/ \E p \in Process : Run(p) \/ Continue(p)

Spec == Init /\ [][Next]_vars
=============================================================================
