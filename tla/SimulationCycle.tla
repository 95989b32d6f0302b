--------------------------- MODULE SimulationCycle ---------------------------
(***************************************************************************)
(* What the scheduler of GRT promises to the processes of a VHDL design:   *)
(* the simulation cycle and the wait statement of the language reference   *)
(* manual, as the comments of Simulation_Cycle quote it (LRM08 14.7.5.3)   *)
(* and as grt-processes.ads describes the wait protocol.  It has no        *)
(* timeout chain, no cached first timeout and no table: a process is       *)
(* sensitive to signals, may have a deadline, and runs when it is resumed. *)
(***************************************************************************)
EXTENDS Integers

CONSTANTS
  Proc, Postponed, Signal, Last_Time,
  Initial_Sensitivity, \* the signals of each process before the first cycle
  End_Of_Time_Step,    \* callbacks may be called at the end of a time step
  No_Process

Never == Last_Time + 1   \* the deadline of a process that has none

VARIABLES
  now,        \* the current simulation time
  elab,       \* the initialization phase is not over
  settled,    \* no nonpostponed process runs any more at this time
  running,    \* the process that has control
  resumed,    \* the processes that must run
  sens,       \* the signals each process is sensitive to
  deadline,   \* when each waiting process times out
  expired     \* the processes whose wait statement timed out

vars == <<now, elab, settled, running, resumed, sens, deadline, expired>>

Init ==
  /\ now = 0 /\ elab = TRUE /\ settled = FALSE
  /\ running = No_Process
  /\ resumed = Proc
  /\ sens = Initial_Sensitivity
  /\ deadline = [p \in Proc |-> Never]
  /\ expired = {}

(* An event occurs on a signal the process is sensitive to.                  *)
Event(p) ==
  /\ ~settled /\ ~elab /\ running = No_Process
  /\ sens[p] # {}
  /\ resumed' = resumed \cup {p}
  /\ UNCHANGED <<now, elab, settled, running, sens, deadline, expired>>

(* The timeout clause of a waiting process expires, exactly at its deadline. *)
Expire(p) ==
  /\ ~settled /\ ~elab /\ running = No_Process
  /\ deadline[p] = now
  /\ deadline' = [deadline EXCEPT ![p] = Never]
  /\ resumed' = resumed \cup {p}
  /\ expired' \in {expired, expired \cup {p}}
  /\ UNCHANGED <<now, elab, settled, running, sens>>

(* A resumed process gets control: the postponed ones after all others.      *)
Execute(p) ==
  /\ running = No_Process
  /\ p \in resumed
  /\ p \in Postponed <=> settled
  /\ running' = p
  /\ resumed' = resumed \ {p}
  /\ UNCHANGED <<now, elab, settled, sens, deadline, expired>>

(* The running process leaves its wait statement.                            *)
Complete(p) ==
  /\ running = p
  /\ sens' = [sens EXCEPT ![p] = {}]
  /\ deadline' = [deadline EXCEPT ![p] = Never]
  /\ expired' = expired \ {p}
  /\ UNCHANGED <<now, elab, settled, running, resumed>>

(* It executes a new wait statement; with neither signals nor deadline it    *)
(* never runs again.                                                         *)
Wait(p, s, d) ==
  /\ running = p /\ sens[p] = {} /\ deadline[p] = Never /\ p \notin expired
  /\ d >= now
  /\ sens' = [sens EXCEPT ![p] = s]
  /\ deadline' = [deadline EXCEPT ![p] = d]
  /\ running' = No_Process
  /\ UNCHANGED <<now, elab, settled, resumed, expired>>

(* It waits again as before: its condition is false, or it is sensitized.    *)
(* A timeout always ends the wait.                                           *)
Wait_Again(p) ==
  /\ running = p /\ p \notin expired
  /\ running' = No_Process
  /\ UNCHANGED <<now, elab, settled, resumed, sens, deadline, expired>>

(* The time step (or the nonpostponed part of the initialization) is over.   *)
Settle ==
  /\ ~settled /\ running = No_Process
  /\ resumed \subseteq Postponed
  /\ settled' = TRUE
  /\ UNCHANGED <<now, elab, running, resumed, sens, deadline, expired>>

(* After the initialization, the first cycle may be at the same time.        *)
Initialized ==
  /\ elab /\ settled /\ running = No_Process /\ resumed = {}
  /\ elab' = FALSE
  /\ settled' \in BOOLEAN
  /\ UNCHANGED <<now, running, resumed, sens, deadline, expired>>

(* Time advances, never past the deadline of a process, and only when every  *)
(* resumed process has run.                                                  *)
Advance(t) ==
  /\ settled /\ ~elab /\ running = No_Process /\ resumed = {}
  /\ t > now
  /\ \A p \in Proc : t <= deadline[p]
  /\ now' = t
  /\ settled' = FALSE
  /\ UNCHANGED <<elab, running, resumed, sens, deadline, expired>>

(* A callback called at the end of the time step schedules a signal for the  *)
(* same time.  The language calls it an error; GRT goes on with another      *)
(* cycle.                                                                    *)
Reopen ==
  /\ End_Of_Time_Step
  /\ settled /\ ~elab /\ running = No_Process /\ resumed = {}
  /\ settled' = FALSE
  /\ UNCHANGED <<now, elab, running, resumed, sens, deadline, expired>>

Next ==
  \/ \E p \in Proc :
       \/ Event(p) \/ Expire(p) \/ Execute(p) \/ Complete(p) \/ Wait_Again(p)
       \/ \E s \in SUBSET Signal, d \in 0 .. Never : Wait(p, s, d)
  \/ Settle \/ Initialized \/ Reopen
  \/ \E t \in 0 .. Last_Time : Advance(t)

Spec == Init /\ [][Next]_vars
=============================================================================
