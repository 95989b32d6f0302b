------------------------------ MODULE Processes ------------------------------
(***************************************************************************)
(* The process scheduler of GRT, the GHDL run time                         *)
(* (src/src/grt/grt-processes.adb): the state of each process, the wait    *)
(* primitives called by compiled code, the timeout chain with the cached   *)
(* Process_First_Timeout, the two resume tables, and the control flow of   *)
(* Initialization_Phase, Simulation_Cycle and Simulation_Main_Loop.        *)
(*                                                                         *)
(* Signals are the environment here: which signals have an event in a      *)
(* cycle, and when the next driver becomes active, are chosen freely.      *)
(* The loops over the timeout chain, over the event lists and over the     *)
(* resume tables are taken one element at a time.  The chain and the       *)
(* sensitivity lists are sets (their link structure has its own modules);  *)
(* walking one visits its elements in any order.  The resume tables keep   *)
(* their order and their length, because they are arrays allocated for     *)
(* exactly the number of registered processes.                             *)
(***************************************************************************)
EXTENDS Integers, Sequences, FiniteSets

CONSTANTS
  Proc,         \* the processes of Process_Table
  Postponed,    \* those registered as postponed
  Sensitized,   \* those registered in State_Sensitized
  Signal,       \* signals that can resume a process
  Static_Sensitivity, \* Ghdl_Process_Add_Sensitivity: sensitized process -> its signals
  Delays,       \* delays that appear in wait statements (a bound of the instance)
  Last_Time,    \* Std_Time'Last
  Stop_Time,    \* --stop-time, Std_Time'Last by default
  Stop_Delta,   \* --stop-delta
  End_Of_Time_Step, \* Has_Callbacks (Cb_End_Of_Time_Step) may be true
  No_Process    \* no process is running

ASSUME ProcAssumption ==
  /\ IsFiniteSet(Proc)
  /\ Postponed \subseteq Proc
  /\ Sensitized \subseteq Proc
  /\ No_Process \notin Proc
  /\ Static_Sensitivity \in [Sensitized -> SUBSET Signal]

ASSUME TimeAssumption ==
  /\ Last_Time \in Nat \ {0}
  /\ Delays \subseteq 0 .. Last_Time
  /\ Stop_Time \in 0 .. Last_Time
  /\ Stop_Delta \in Nat

ASSUME CallbackAssumption == End_Of_Time_Step \in BOOLEAN

VARIABLES
  Current_Time, Next_Time,
  Current_Delta, \* delta cycles since the time last advanced
  State,        \* Process_Type.State
  Timeout,      \* Process_Type.Timeout
  Sensitivity,  \* Process_Type.Sensitivity: the signals of the pending wait
  Process_Timeout_Chain,
  Process_First_Timeout,
  Resumed,      \* Process_Type.Resumed
  Resume_Process_Table,
  Postponed_Resume_Process_Table,
  phase,        \* where Simulation_Init or Simulation_Cycle is
  elab,         \* TRUE during Initialization_Phase
  Current_Process,
  table,        \* what is left of the table Run_Processes walks
  walk,         \* what is left of the list or chain being walked
  events,       \* signals whose event of this cycle is not yet handled
  Tn,           \* local of Simulation_Cycle
  Status        \* "Run_None" or "Run_Resumed", as Run_Processes returned it

timeVars  == <<Current_Time, Next_Time, Current_Delta>>
waitVars  == <<State, Timeout, Sensitivity, Process_Timeout_Chain,
               Process_First_Timeout>>
tableVars == <<Resumed, Resume_Process_Table, Postponed_Resume_Process_Table>>
runVars   == <<Current_Process, table, Status>>
vars == <<timeVars, waitVars, tableVars, runVars, phase, elab, walk, events, Tn>>

Bad_Time == -1            \* Std_Time'First: no delay or time is negative
Time == 0 .. Last_Time

Nonpostponed == Proc \ Postponed

ProcessState ==
  {"Sensitized", "Ready", "Delayed", "Wait", "Timeout", "Dead"}

Phase == {"elab", "update", "wake", "run", "next", "postponed", "next2",
          "limit", "cycle", "stopped", "finished", "error", "internal_error"}

(* The simulation is over: Run_Finished, Run_Limit, Error, Internal_Error.   *)
Stopped == {"stopped", "finished", "error", "internal_error"}

(* The processes that an event on a signal resumes. *)
Event_List(sig) == {p \in Proc : sig \in Sensitivity[p]}

(* The earliest element of a nonempty set of times. *)
Earliest(S) == CHOOSE t \in S : \A u \in S : t <= u

-----------------------------------------------------------------------------
(* Process_Register and Processes.Init: every process of the table exists,   *)
(* with its static sensitivity, and no simulation cycle has started.         *)
Init ==
  /\ Current_Time = 0 /\ Next_Time = 0 /\ Current_Delta = 0
  /\ State = [p \in Proc |-> IF p \in Sensitized THEN "Sensitized" ELSE "Ready"]
  /\ Timeout = [p \in Proc |-> Bad_Time]
  /\ Sensitivity = [p \in Proc |->
                     IF p \in Sensitized THEN Static_Sensitivity[p] ELSE {}]
  /\ Process_Timeout_Chain = {}
  /\ Process_First_Timeout = Last_Time
  /\ Resumed = [p \in Proc |-> FALSE]
  /\ Resume_Process_Table = << >>
  /\ Postponed_Resume_Process_Table = << >>
  /\ phase = "elab" /\ elab = TRUE
  /\ Current_Process = No_Process
  /\ table = << >> /\ walk = Proc /\ events = {}
  /\ Tn = Last_Time /\ Status = "Run_None"

-----------------------------------------------------------------------------
(* Seeded fault: the Resumed flag is not tested.                             *)
Resume_Process_Twice(p) ==
  /\ Resumed' = [Resumed EXCEPT ![p] = TRUE]
  /\ IF p \in Postponed
     THEN /\ Postponed_Resume_Process_Table' = Append(Postponed_Resume_Process_Table, p)
          /\ UNCHANGED Resume_Process_Table
     ELSE /\ Resume_Process_Table' = Append(Resume_Process_Table, p)
          /\ UNCHANGED Postponed_Resume_Process_Table

(* Put a process on the table that Run_Processes will take, once.            *)
Resume_Process(p) ==
  /\ Resumed' = [Resumed EXCEPT ![p] = TRUE]
  /\ Resume_Process_Table' =
       IF ~Resumed[p] /\ p \notin Postponed
       THEN Append(Resume_Process_Table, p) ELSE Resume_Process_Table
  /\ Postponed_Resume_Process_Table' =
       IF ~Resumed[p] /\ p \in Postponed
       THEN Append(Postponed_Resume_Process_Table, p)
       ELSE Postponed_Resume_Process_Table

(* Entry of Run_Processes for nonpostponed processes: take the table.        *)
Take_Table ==
  /\ phase' = "run"
  /\ table' = Resume_Process_Table
  /\ Resume_Process_Table' = << >>
  /\ Status' = IF Resume_Process_Table = << >> THEN "Run_None" ELSE "Run_Resumed"
  /\ UNCHANGED <<Resumed, Postponed_Resume_Process_Table, Current_Process>>

(* Entry of Run_Processes for postponed processes.                           *)
Take_Postponed_Table ==
  /\ phase' = "postponed"
  /\ table' = Postponed_Resume_Process_Table
  /\ Postponed_Resume_Process_Table' = << >>
  /\ Status' = IF Postponed_Resume_Process_Table = << >>
               THEN "Run_None" ELSE "Run_Resumed"
  /\ UNCHANGED <<Resumed, Resume_Process_Table, Current_Process>>

-----------------------------------------------------------------------------
(* Initialization_Phase: resume every process, then run the nonpostponed.    *)
Elab_Resume(p) ==
  /\ phase = "elab" /\ p \in walk
  /\ Resume_Process(p)
  /\ walk' = walk \ {p}
  /\ UNCHANGED <<timeVars, waitVars, runVars, phase, elab, events, Tn>>

Elab_Run ==
  /\ phase = "elab" /\ walk = {}
  /\ Take_Table
  /\ UNCHANGED <<timeVars, waitVars, elab, walk, events, Tn>>

-----------------------------------------------------------------------------
(* Seeded fault: the delta cycles are counted from zero in each cycle.       *)
Start_Cycle_Recount(evs) ==
  /\ phase = "cycle"
  /\ Current_Time' = Next_Time
  /\ Current_Delta' = 0
  /\ events' = evs
  /\ phase' = "update"
  /\ UNCHANGED <<Next_Time, waitVars, tableVars, runVars, elab, walk, Tn>>

(* Simulation_Cycle, first half: time advances, signals are updated (the     *)
(* environment chooses which have an event), and the processes sensitive to  *)
(* an event are resumed.                                                     *)
Start_Cycle(evs) ==
  /\ phase = "cycle"
  /\ Current_Time' = Next_Time
  /\ events' = evs
  /\ phase' = "update"
  /\ UNCHANGED <<Next_Time, Current_Delta, waitVars, tableVars, runVars, elab,
                 walk, Tn>>

(* Set_Effective_Value finds a new value and walks the event list.           *)
Signal_Event(sig) ==
  /\ phase = "update" /\ walk = {} /\ sig \in events
  /\ events' = events \ {sig}
  /\ walk' = Event_List(sig)
  /\ UNCHANGED <<timeVars, waitVars, tableVars, runVars, phase, elab, Tn>>

Event_Resume(p) ==
  /\ phase = "update" /\ p \in walk
  /\ Resume_Process(p)
  /\ walk' = walk \ {p}
  /\ UNCHANGED <<timeVars, waitVars, runVars, phase, elab, events, Tn>>

(* All signals are updated.  If Process_First_Timeout is now, the timeout    *)
(* chain is walked; otherwise the resumed processes run at once.             *)
Start_Wake ==
  /\ phase = "update" /\ walk = {} /\ events = {}
  /\ Current_Time = Process_First_Timeout
  /\ phase' = "wake" /\ walk' = Process_Timeout_Chain /\ Tn' = Last_Time
  /\ UNCHANGED <<timeVars, waitVars, tableVars, runVars, elab, events>>

No_Wake ==
  /\ phase = "update" /\ walk = {} /\ events = {}
  /\ Current_Time # Process_First_Timeout
  /\ Take_Table
  /\ UNCHANGED <<timeVars, waitVars, elab, walk, events, Tn>>

-----------------------------------------------------------------------------
(* The loop of Simulation_Cycle over Process_Timeout_Chain.                  *)

(* State_Delayed at its timeout: leave the chain and run.                    *)
Wake_Delayed(p) ==
  /\ phase = "wake" /\ p \in walk
  /\ State[p] = "Delayed" /\ Timeout[p] = Current_Time
  /\ Timeout' = [Timeout EXCEPT ![p] = Bad_Time]
  /\ State' = [State EXCEPT ![p] = "Ready"]
  /\ Process_Timeout_Chain' = Process_Timeout_Chain \ {p}
  /\ Resume_Process(p)
  /\ walk' = walk \ {p}
  /\ UNCHANGED <<timeVars, Sensitivity, Process_First_Timeout, runVars, phase,
                 elab, events, Tn>>

(* State_Wait at its timeout: run, but stay in the chain until Wait_Close.   *)
Wake_Wait(p) ==
  /\ phase = "wake" /\ p \in walk
  /\ State[p] = "Wait" /\ Timeout[p] = Current_Time
  /\ Timeout' = [Timeout EXCEPT ![p] = Bad_Time]
  /\ State' = [State EXCEPT ![p] = "Timeout"]
  /\ Resume_Process(p)
  /\ walk' = walk \ {p}
  /\ UNCHANGED <<timeVars, Sensitivity, Process_Timeout_Chain,
                 Process_First_Timeout, runVars, phase, elab, events, Tn>>

(* A later timeout (or none) only competes for the next first timeout.       *)
Wake_Skip(p) ==
  /\ phase = "wake" /\ p \in walk
  /\ State[p] \in {"Delayed", "Wait", "Sensitized", "Dead"}
  /\ State[p] \in {"Delayed", "Wait"} => Timeout[p] # Current_Time
  /\ Tn' = IF State[p] \in {"Delayed", "Wait"} /\ Timeout[p] > 0 /\ Timeout[p] < Tn
           THEN Timeout[p] ELSE Tn
  /\ walk' = walk \ {p}
  /\ UNCHANGED <<timeVars, waitVars, tableVars, runVars, phase, elab, events>>

(* Internal_Error ("process in timeout").                                    *)
Wake_Error(p) ==
  /\ phase = "wake" /\ p \in walk
  /\ State[p] \in {"Timeout", "Ready"}
  /\ phase' = "internal_error"
  /\ UNCHANGED <<timeVars, waitVars, tableVars, runVars, elab, walk, events, Tn>>

End_Wake ==
  /\ phase = "wake" /\ walk = {}
  /\ Process_First_Timeout' = Tn
  /\ Take_Table
  /\ UNCHANGED <<timeVars, State, Timeout, Sensitivity, Process_Timeout_Chain,
                 elab, walk, events, Tn>>

-----------------------------------------------------------------------------
(* Run_Processes: call the next process of the table.                        *)
Call_Process ==
  /\ phase \in {"run", "postponed"} /\ Current_Process = No_Process
  /\ table # << >>
  /\ Current_Process' = Head(table)
  /\ table' = Tail(table)
  /\ Resumed' = [Resumed EXCEPT ![Head(table)] = FALSE]
  /\ phase' = IF Resumed[Head(table)] THEN phase ELSE "internal_error"
  /\ UNCHANGED <<timeVars, waitVars, Resume_Process_Table,
                 Postponed_Resume_Process_Table, Status, elab, walk, events, Tn>>

(* The current process gives control back to Run_Processes.                  *)
Suspend ==
  /\ Current_Process' = No_Process
  /\ UNCHANGED <<timeVars, tableVars, table, Status, phase, elab, walk, events, Tn>>

Running(p) == phase \in {"run", "postponed"} /\ Current_Process = p

(* Seeded fault: the first timeout is overwritten by a later one.            *)
Update_Process_First_Timeout_Last(p, t) ==
  /\ Timeout' = [Timeout EXCEPT ![p] = t]
  /\ Process_Timeout_Chain' = Process_Timeout_Chain \cup {p}
  /\ Process_First_Timeout' = t

(* Link the process in the chain under its new timeout.                      *)
Update_Process_First_Timeout(p, t) ==
  /\ Timeout' = [Timeout EXCEPT ![p] = t]
  /\ Process_Timeout_Chain' = Process_Timeout_Chain \cup {p}
  /\ Process_First_Timeout' = IF t < Process_First_Timeout
                              THEN t ELSE Process_First_Timeout

(* Seeded fault: the overflow check is off by one.                           *)
Overflows_Late(d) == Current_Time > Last_Time - d + 1

(* Current_Time + D is beyond Std_Time'Last.                                 *)
Overflows(d) == Current_Time > Last_Time - d

(* wait for D: beyond Std_Time'Last the process is never put in the chain.   *)
Ghdl_Process_Wait_Timeout(p, d) ==
  /\ Running(p) /\ State[p] = "Ready"
  /\ State' = [State EXCEPT ![p] = "Delayed"]
  /\ IF Overflows(d)
     THEN /\ Timeout' = [Timeout EXCEPT ![p] = Last_Time]
          /\ UNCHANGED <<Process_Timeout_Chain, Process_First_Timeout>>
     ELSE Update_Process_First_Timeout(p, Current_Time + d)
  /\ Suspend
  /\ UNCHANGED Sensitivity

(* Ghdl_Process_Wait_Set_Timeout.                                            *)
Set_Timeout(p, d) ==
  IF Overflows(d)
  THEN UNCHANGED <<Timeout, Process_Timeout_Chain, Process_First_Timeout>>
  ELSE Update_Process_First_Timeout(p, Current_Time + d)

(* A wait statement with a sensitivity list: the calls set_timeout (if it    *)
(* has a timeout), add_sensitivity for each signal, and suspend, which       *)
(* compiled code makes in this order and without interruption.               *)
Wait_On(p, sigs) ==
  /\ Running(p) /\ State[p] = "Ready"
  /\ State' = [State EXCEPT ![p] = "Wait"]
  /\ Sensitivity' = [Sensitivity EXCEPT ![p] = sigs]
  /\ Suspend
  /\ UNCHANGED <<Timeout, Process_Timeout_Chain, Process_First_Timeout>>

Wait_On_For(p, sigs, d) ==
  /\ Running(p) /\ State[p] = "Ready"
  /\ State' = [State EXCEPT ![p] = "Wait"]
  /\ Sensitivity' = [Sensitivity EXCEPT ![p] = sigs]
  /\ Set_Timeout(p, d)
  /\ Suspend

(* wait: the process is dead.                                                *)
Ghdl_Process_Wait_Exit(p) ==
  /\ Running(p) /\ State[p] = "Ready"
  /\ State' = [State EXCEPT ![p] = "Dead"]
  /\ Suspend
  /\ UNCHANGED <<Timeout, Sensitivity, Process_Timeout_Chain, Process_First_Timeout>>

(* A sensitized process runs to its end and returns.                         *)
Sensitized_Return(p) ==
  /\ Running(p) /\ State[p] = "Sensitized"
  /\ Suspend
  /\ UNCHANGED waitVars

(* Seeded fault: Ghdl_Process_Wait_Timed_Out is not called, the condition is  *)
(* evaluated after a timeout too.                                            *)
Condition_False_Timeout(p) ==
  /\ Running(p) /\ State[p] \in {"Wait", "Timeout"}
  /\ State' = [State EXCEPT ![p] = "Wait"]
  /\ Suspend
  /\ UNCHANGED <<Timeout, Sensitivity, Process_Timeout_Chain, Process_First_Timeout>>

(* A process woken by an event evaluates its condition, finds it false, and  *)
(* suspends again with the same sensitivity and the same timeout.            *)
Condition_False(p) ==
  /\ Running(p) /\ State[p] = "Wait"
  /\ Suspend
  /\ UNCHANGED waitVars

(* Seeded fault: Wait_Close looks only for processes in State_Wait.          *)
Pending_Timeouts_Wait(p) ==
  {Timeout[q] : q \in {r \in Process_Timeout_Chain \ {p} :
                         State[r] = "Wait" /\ Timeout[r] > 0}}

(* The timeouts that Wait_Close still finds in the chain without p.          *)
Pending_Timeouts(p) ==
  {Timeout[q] : q \in {r \in Process_Timeout_Chain \ {p} :
                         State[r] \in {"Delayed", "Wait"} /\ Timeout[r] > 0}}

(* Seeded fault: the process is unlinked only if its timeout is still to     *)
(* come, not when it has expired.                                            *)
Ghdl_Process_Wait_Close_Linked(p) ==
  /\ Running(p) /\ State[p] \in {"Wait", "Timeout"}
  /\ Sensitivity' = [Sensitivity EXCEPT ![p] = {}]
  /\ Process_Timeout_Chain' = IF State[p] = "Wait" THEN Process_Timeout_Chain \ {p}
                              ELSE Process_Timeout_Chain
  /\ Process_First_Timeout' =
       IF Process_First_Timeout = Timeout[p]
       THEN Earliest(Pending_Timeouts(p) \cup {Last_Time})
       ELSE Process_First_Timeout
  /\ Timeout' = [Timeout EXCEPT ![p] = Bad_Time]
  /\ State' = [State EXCEPT ![p] = "Ready"]
  /\ UNCHANGED <<timeVars, tableVars, runVars, phase, elab, walk, events, Tn>>

(* The wait statement ends: the condition holds, there is none, or the       *)
(* timeout has expired.                                                      *)
Ghdl_Process_Wait_Close(p) ==
  /\ Running(p) /\ State[p] \in {"Wait", "Timeout"}
  /\ Sensitivity' = [Sensitivity EXCEPT ![p] = {}]
  /\ Process_Timeout_Chain' = Process_Timeout_Chain \ {p}
  /\ Process_First_Timeout' =
       IF Process_First_Timeout = Timeout[p]
       THEN Earliest(Pending_Timeouts(p) \cup {Last_Time})
       ELSE Process_First_Timeout
  /\ Timeout' = [Timeout EXCEPT ![p] = Bad_Time]
  /\ State' = [State EXCEPT ![p] = "Ready"]
  /\ UNCHANGED <<timeVars, tableVars, runVars, phase, elab, walk, events, Tn>>

Process_Step(p) ==
  \/ \E d \in Delays : Ghdl_Process_Wait_Timeout(p, d)
  \/ \E sigs \in SUBSET Signal : Wait_On(p, sigs)
  \/ \E sigs \in SUBSET Signal, d \in Delays : Wait_On_For(p, sigs, d)
  \/ Ghdl_Process_Wait_Exit(p)
  \/ Sensitized_Return(p)
  \/ Condition_False(p)
  \/ Ghdl_Process_Wait_Close(p)

-----------------------------------------------------------------------------
(* Run_Processes returns: the initialization phase goes on with the          *)
(* postponed processes, both then compute the next time.                     *)
Elab_Run_Postponed ==
  /\ phase = "run" /\ Current_Process = No_Process /\ table = << >> /\ elab
  /\ Take_Postponed_Table
  /\ UNCHANGED <<timeVars, waitVars, elab, walk, events, Tn>>

End_Run ==
  /\ \/ phase = "run" /\ ~elab /\ phase' = "next"
     \/ phase = "postponed" /\ phase' = "next2"
  /\ Current_Process = No_Process /\ table = << >>
  /\ UNCHANGED <<timeVars, waitVars, tableVars, runVars, elab, walk, events, Tn>>

(* Compute_Next_Time: the first timeout or the next activity of a driver,    *)
(* which Find_Next_Time looks for only if no process resumes right now.      *)
Compute_Next_Time(sigTime) ==
  IF Process_First_Timeout <= sigTime THEN Process_First_Timeout ELSE sigTime

(* End of Initialization_Phase.                                              *)
Elab_Next_Time(sigTime) ==
  /\ phase = "next2" /\ elab
  /\ Next_Time' = Compute_Next_Time(sigTime)
  /\ phase' = "cycle" /\ elab' = FALSE
  /\ Current_Delta' = 0
  /\ UNCHANGED <<Current_Time, waitVars, tableVars, runVars, walk, events, Tn>>

(* End of Simulation_Cycle when the next cycle is a delta cycle; at the end  *)
(* of time with nothing to run, Run_Finished.                                *)
Delta_Cycle(sigTime) ==
  /\ phase = "next"
  /\ Tn' = Compute_Next_Time(sigTime)
  /\ Tn' = Current_Time
  /\ IF Current_Time = Last_Time /\ Status = "Run_None"
     THEN phase' = "finished" /\ UNCHANGED Current_Delta
     ELSE phase' = "limit" /\ Current_Delta' = Current_Delta + 1
  /\ UNCHANGED <<Current_Time, Next_Time, waitVars, tableVars, runVars, elab,
                 walk, events>>

(* Seeded fault: after the callbacks only the drivers are looked at.         *)
Finish_Time_Step_Drivers(tn) ==
  /\ \/ Tn' = tn
     \/ End_Of_Time_Step /\ \E t \in Current_Time .. Last_Time : Tn' = t
  /\ Next_Time' = Tn'
  /\ Current_Delta' = 0
  /\ phase' = "limit"
  /\ UNCHANGED <<Current_Time, waitVars, tableVars, runVars, elab, walk, events>>

(* Run_Resumed: the time step is over and tn is the time of the next one,    *)
(* unless callbacks Cb_End_Of_Time_Step are called: the next time is then    *)
(* computed once more, after what they have scheduled, and it is not         *)
(* compared with the current time again.                                     *)
Finish_Time_Step(tn) ==
  /\ \/ Tn' = tn
     \/ /\ End_Of_Time_Step
        /\ \E t \in Current_Time .. Last_Time : Tn' = Compute_Next_Time(t)
  /\ Next_Time' = Tn'
  /\ Current_Delta' = 0
  /\ phase' = "limit"
  /\ UNCHANGED <<Current_Time, waitVars, tableVars, runVars, elab, walk, events>>

(* Seeded fault: postponed processes are left for the next time step.        *)
End_Time_Step_Early(sigTime) ==
  /\ phase = "next"
  /\ Compute_Next_Time(sigTime) # Current_Time
  /\ Finish_Time_Step(Compute_Next_Time(sigTime))

(* The time step ends without postponed processes.                           *)
End_Time_Step(sigTime) ==
  /\ phase = "next"
  /\ Compute_Next_Time(sigTime) # Current_Time
  /\ Postponed_Resume_Process_Table = << >>
  /\ Finish_Time_Step(Compute_Next_Time(sigTime))

(* The time step ends: run the resumed postponed processes.                  *)
Run_Postponed(sigTime) ==
  /\ phase = "next"
  /\ Tn' = Compute_Next_Time(sigTime)
  /\ Tn' # Current_Time
  /\ Postponed_Resume_Process_Table # << >>
  /\ Take_Postponed_Table
  /\ UNCHANGED <<timeVars, waitVars, elab, walk, events>>

(* ... and compute the next time again: postponed processes must not cause   *)
(* a delta cycle.                                                            *)
End_Postponed(sigTime) ==
  /\ phase = "next2" /\ ~elab
  /\ Compute_Next_Time(sigTime) # Current_Time
  /\ Finish_Time_Step(Compute_Next_Time(sigTime))

Postponed_Delta_Error(sigTime) ==
  /\ phase = "next2" /\ ~elab
  /\ Tn' = Compute_Next_Time(sigTime)
  /\ Tn' = Current_Time
  /\ phase' = "error"
  /\ UNCHANGED <<timeVars, waitVars, tableVars, runVars, elab, walk, events>>

-----------------------------------------------------------------------------
(* Simulation_Main_Loop: after each cycle, stop or go on.                    *)
Has_Simulation_Timeout ==
  \/ Next_Time > Stop_Time /\ Next_Time # Last_Time
  \/ Current_Time >= Stop_Time /\ Next_Time # Current_Time
  \/ Current_Delta >= Stop_Delta

Main_Loop ==
  /\ phase = "limit"
  /\ phase' = IF Has_Simulation_Timeout THEN "stopped" ELSE "cycle"
  /\ UNCHANGED <<timeVars, waitVars, tableVars, runVars, elab, walk, events, Tn>>

-----------------------------------------------------------------------------
Kernel_Step ==
  \/ \E p \in Proc : Elab_Resume(p)
  \/ Elab_Run
  \/ \E evs \in SUBSET Signal : Start_Cycle(evs)
  \/ \E sig \in Signal : Signal_Event(sig)
  \/ \E p \in Proc : Event_Resume(p)
  \/ Start_Wake \/ No_Wake
  \/ \E p \in Proc : Wake_Delayed(p)
  \/ \E p \in Proc : Wake_Wait(p)
  \/ \E p \in Proc : Wake_Skip(p)
  \/ \E p \in Proc : Wake_Error(p)
  \/ End_Wake
  \/ Call_Process
  \/ Elab_Run_Postponed
  \/ End_Run
  \/ \E t \in Current_Time .. Last_Time : Elab_Next_Time(t)
  \/ \E t \in Current_Time .. Last_Time : Delta_Cycle(t)
  \/ \E t \in Current_Time .. Last_Time : End_Time_Step(t)
  \/ \E t \in Current_Time .. Last_Time : Run_Postponed(t)
  \/ \E t \in Current_Time .. Last_Time : End_Postponed(t)
  \/ \E t \in Current_Time .. Last_Time : Postponed_Delta_Error(t)
  \/ Main_Loop

Next == Kernel_Step \/ \E p \in Proc : Process_Step(p)

(* The simulator is one thread that runs until it stops, and every call of   *)
(* a process returns: compiled code always reaches a wait or its end.        *)
Spec == Init /\ [][Next]_vars

FairSpec == Spec /\ WF_vars(Next)

-----------------------------------------------------------------------------
(* Properties.                                                               *)

(* The type of every variable.                                               *)
TypeOK ==
  /\ Current_Time \in Time /\ Next_Time \in Time
  /\ Current_Delta \in Nat
  /\ State \in [Proc -> ProcessState]
  /\ Timeout \in [Proc -> Time \cup {Bad_Time}]
  /\ Sensitivity \in [Proc -> SUBSET Signal]
  /\ Process_Timeout_Chain \subseteq Proc
  /\ Process_First_Timeout \in Time
  /\ Resumed \in [Proc -> BOOLEAN]
  /\ Resume_Process_Table \in Seq(Nonpostponed)
  /\ Postponed_Resume_Process_Table \in Seq(Postponed)
  /\ table \in Seq(Proc)
  /\ phase \in Phase /\ elab \in BOOLEAN
  /\ Current_Process \in Proc \cup {No_Process}
  /\ walk \subseteq Proc /\ events \subseteq Signal
  /\ Tn \in Time /\ Status \in {"Run_None", "Run_Resumed"}

(* A process whose timeout is still to come.                                 *)
Pending(p) == State[p] \in {"Delayed", "Wait"} /\ p \in Process_Timeout_Chain

(* The timeout chain holds the processes with a timeout to come and those    *)
(* that timed out but have not executed their Wait_Close yet, and no other:  *)
(* a process that is ready to execute a new wait statement is never still    *)
(* linked, so Update_Process_First_Timeout cannot link it twice.             *)
TimeoutChainSound ==
  \A p \in Proc :
    /\ State[p] = "Timeout" => p \in Process_Timeout_Chain
    /\ p \in Process_Timeout_Chain => State[p] \in {"Delayed", "Wait", "Timeout"}
    /\ Pending(p) => Timeout[p] # Bad_Time
    /\ State[p] = "Wait" /\ Timeout[p] # Bad_Time => p \in Process_Timeout_Chain

(* Process_First_Timeout, which Set_Timeout, Wait_Timeout, Wait_Close and    *)
(* the wake loop each maintain in their own way, is the earliest pending     *)
(* timeout whenever Simulation_Cycle or Compute_Next_Time reads it.          *)
FirstTimeoutExact ==
  phase \notin {"wake", "internal_error"} =>
    Process_First_Timeout =
      Earliest({Timeout[p] : p \in {q \in Proc : Pending(q)}} \cup {Last_Time})

(* No deadline is ever passed: simulation time, even the time already chosen *)
(* for the next cycle, never goes beyond a pending timeout.                  *)
NoMissedDeadline ==
  \A p \in Proc : Pending(p) =>
    Current_Time <= Timeout[p] /\ (phase = "cycle" => Next_Time <= Timeout[p])

(* The entries of a table are distinct.                                      *)
Distinct(s) == \A i, j \in 1 .. Len(s) : s[i] = s[j] => i = j

Entries(s) == {s[i] : i \in 1 .. Len(s)}

(* A process is flagged Resumed exactly when it is in one of the tables      *)
(* still to be run, and then in one place only: no resumption is lost, no    *)
(* process runs twice for one resumption.                                    *)
ResumeTablesSound ==
  /\ Distinct(Resume_Process_Table)
  /\ Distinct(Postponed_Resume_Process_Table)
  /\ Distinct(table)
  /\ Entries(table) \cap Entries(Resume_Process_Table) = {}
  /\ Entries(table) \cap Entries(Postponed_Resume_Process_Table) = {}
  /\ \A p \in Proc :
       Resumed[p] <=> p \in Entries(table) \cup Entries(Resume_Process_Table)
                            \cup Entries(Postponed_Resume_Process_Table)

(* Resume_Process never writes past the end of a table: Initialization_Phase *)
(* allocates each for the number of registered processes of its kind.        *)
TablesFit ==
  /\ Len(Resume_Process_Table) <= Cardinality(Nonpostponed)
  /\ Len(Postponed_Resume_Process_Table) <= Cardinality(Postponed)

(* The processes behave as the language says: see SimulationCycle.  A        *)
(* process waits for the deadline it asked for, is resumed by an event or at *)
(* its deadline, runs in the time step in which it is resumed, postponed     *)
(* processes run last, and time advances only when nothing is left to run.   *)
(* What the language calls an error, a cycle at the same time after the end  *)
(* of the time step, is a step of SimulationCycle only when End_Of_Time_Step *)
(* says that callbacks are called there.                                     *)
LRM == INSTANCE SimulationCycle WITH
  now <- Current_Time,
  settled <- phase \in {"postponed", "next2", "error"} \/ Next_Time # Current_Time,
  running <- Current_Process,
  resumed <- {p \in Proc : phase = "elab" \/ Resumed[p]},
  sens <- Sensitivity,
  deadline <- [p \in Proc |-> IF Pending(p) THEN Timeout[p] ELSE Last_Time + 1],
  expired <- {p \in Proc : State[p] = "Timeout"},
  Initial_Sensitivity <- [p \in Proc |->
                           IF p \in Sensitized THEN Static_Sensitivity[p] ELSE {}]

ImplementsLRM == LRM!Spec

(* A callback of the end of the time step brings a cycle at the same time.   *)
Reopened == phase = "limit" /\ Current_Delta = 0 /\ Next_Time = Current_Time

(* The simulation always ends, unless callbacks of the end of the time step  *)
(* bring cycles at one time for ever: every cycle is finite, time cannot     *)
(* advance for ever, and Simulation_Main_Loop stops after Stop_Delta "delta  *)
(* cycles in the same current time", as Simulation.rst says of --stop-delta. *)
(* It does not count the cycles that such callbacks bring.                   *)
Terminates == <>[]~Reopened => <>(phase \in Stopped)

(* Internal_Error is never called: no process of the chain is found in       *)
(* State_Timeout or State_Ready ("This state is transcient", says            *)
(* grt-processes.ads of State_Timeout), and no process is run unresumed.     *)
NoInternalError == phase # "internal_error"
=============================================================================
