------------------------------ MODULE Drivers --------------------------------
(***************************************************************************)
(* The drivers of user signals in GRT (src/src/grt/grt-signals.adb): the   *)
(* projected waveform of each driver, the chain of the signals active in   *)
(* the next cycle, the list of signals with a projected waveform, force,   *)
(* deposit and release, Update_Signals, Find_Next_Time with its side       *)
(* effect, and Flush_Active_Chain.  The cycle is the one of                *)
(* Simulation_Cycle (grt-processes.adb), as far as it calls these.         *)
(*                                                                         *)
(* Processes are the environment: while they run, any assignment of one of *)
(* their drivers may occur, and TIME, the time at which the next process   *)
(* resumes or the next delayed callback is called, is chosen freely.       *)
(* Signals have no port and no implicit signal depends on them (nets have  *)
(* no propagation), so that a signal is updated from its own drivers.      *)
(***************************************************************************)
EXTENDS Integers, Sequences, FiniteSets

CONSTANTS
  Signal,      \* user signals
  Driver,      \* their drivers, each of one process
  Signal_Of,   \* the signal of a driver
  Resolved,    \* signals with a resolution function
  Direct,      \* drivers whose next value compiled code writes in place
  Started,     \* those also assigned through Ghdl_Signal_Start_Assign
  Postponed,   \* drivers of postponed processes
  Activity,    \* signals whose activity is required (Has_Active from the RTI)
  Value,       \* the values of signals
  Resolve,     \* the resolution function, on the set of the driving values
  Delays,      \* delays and rejection limits in assignments (a bound)
  Last_Time,   \* Std_Time'Last
  Callbacks,   \* registered callbacks, out of "last_known" and "end_step"
  Overrides,   \* force, deposit and release requests that may be made
  Max_Overrides, \* most requests pending at once (a bound)
  No_Driver    \* no assignment is being extended

Force_Mode == {"driving", "effective"}
Force_Kind == {"force", "deposite", "release"}

Drivers_Of(s) == {d \in Driver : Signal_Of[d] = s}

ASSUME DriverAssumption ==
  /\ Signal_Of \in [Driver -> Signal]
  /\ Resolved \subseteq Signal /\ Activity \subseteq Signal
  /\ Direct \subseteq Driver /\ Postponed \subseteq Driver
  /\ Started \subseteq Direct
  /\ No_Driver \notin Driver
  /\ Resolve \in [SUBSET Value -> Value]
  /\ \A c, d \in Driver :
       Signal_Of[c] = Signal_Of[d] /\ Signal_Of[c] \notin Resolved => c = d
  /\ \A s \in Resolved : Drivers_Of(s) # {}

ASSUME BoundAssumption ==
  /\ Last_Time \in Nat \ {0}
  /\ Delays \subseteq 0 .. Last_Time
  /\ Max_Overrides \in Nat

ASSUME OverrideAssumption ==
  Overrides \subseteq [Kind : Force_Kind, Mode : Force_Mode, Sig : Signal, Val : Value]

VARIABLES
  Current_Time, Next_Time,
  Tn,                  \* local of Simulation_Cycle
  phase,               \* where Simulation_Cycle is
  First_Trans,         \* Driver_Type.First_Trans: the value of the driver
  Waveform,            \* First_Trans.Next and on, to Last_Trans
  Direct_Value,        \* what Val_Ptr of a direct driver points to
  assigning,           \* the driver of the last Ghdl_Signal_Start_Assign
  Signal_Active_Chain,
  Future_List,
  Is_Direct_Active,    \* signals with this flag
  Driving_Value,
  Value_Ptr,           \* the effective value
  Forced,              \* Is_Drv_Forced and Is_Eff_Forced: (signal, mode)
  Deposited,           \* Is_Drv_Deposit and Is_Eff_Deposit
  Saved_Forced,        \* the list Saved_Forced_Head
  Release_Chain, Force_Chain, Deposite_Chain,
  Override_Present

timeVars     == <<Current_Time, Next_Time, Tn>>
driverVars   == <<First_Trans, Waveform, Direct_Value>>
chainVars    == <<Signal_Active_Chain, Future_List, Is_Direct_Active>>
valueVars    == <<Driving_Value, Value_Ptr>>
forcedVars   == <<Forced, Deposited, Saved_Forced>>
overrideVars == <<Release_Chain, Force_Chain, Deposite_Chain, Override_Present>>
vars == <<timeVars, phase, driverVars, assigning, chainVars, valueVars,
          forcedVars, overrideVars>>

Time == 0 .. Last_Time
Transaction == [Time : Time, Val : Value]

Phase == {"elab", "elab_postponed", "elab_last_known", "run", "last_known",
          "postponed_test", "postponed", "end_step", "cycle", "start",
          "override", "update", "finished", "error", "internal_error"}

(* The kind of net that Order_All_Signals gives to a signal without port.    *)
Net(s) ==
  IF s \in Resolved THEN "One_Resolved"
  ELSE IF Drivers_Of(s) = {} THEN "No_Net"
  ELSE IF Drivers_Of(s) \subseteq Direct THEN "One_Direct"
  ELSE "One_Driver"

(* Seeded fault: the activity of resolved signals is not required.           *)
Has_Active_Rti(s) == s \in Activity

(* Init_Signals requires the activity of every resolved signal.              *)
Has_Active(s) == s \in Activity \cup Resolved

(* The resolution function of a signal, given the value of each driver.      *)
Compute_Resolved_Signal(s, val) == Resolve[{val[d] : d \in Drivers_Of(s)}]

-----------------------------------------------------------------------------
(* Elaboration and Init_Signals: drivers, without transaction, and the       *)
(* values they give to signals.  Then processes run for the first time.      *)
Init ==
  /\ Current_Time = 0 /\ Next_Time = 0 /\ Tn = 0
  /\ phase = "elab"
  /\ \E v \in Value :
       /\ First_Trans = [d \in Driver |-> v]
       /\ Direct_Value = [d \in Direct |-> v]
       /\ Driving_Value = [s \in Signal |->
            IF s \in Resolved
            THEN Compute_Resolved_Signal(s, First_Trans) ELSE v]
       /\ Value_Ptr = Driving_Value
  /\ Waveform = [d \in Driver |-> << >>]
  /\ assigning = No_Driver
  /\ Signal_Active_Chain = {} /\ Future_List = {} /\ Is_Direct_Active = {}
  /\ Forced = {} /\ Deposited = {} /\ Saved_Forced = {}
  /\ Release_Chain = << >> /\ Force_Chain = << >> /\ Deposite_Chain = << >>
  /\ Override_Present = FALSE

-----------------------------------------------------------------------------
(* Signal assignments, executed by the processes that run.                   *)

(* How many transactions at the front of W are projected before time t.      *)
Before(W, t) ==
  CHOOSE n \in 0 .. Len(W) :
    /\ \A i \in 1 .. n : W[i].Time < t
    /\ n < Len(W) => W[n + 1].Time >= t

(* Old transactions at or after the time of the new one are deleted.         *)
Preempt(W, t) == SubSeq(W, 1, Before(W, t))

(* Seeded fault: the old transactions of the pulse rejection interval are    *)
(* deleted from its beginning on, whatever their values are.                 *)
Reject_Pulses_All(W, reject, t, val) == SubSeq(W, 1, Before(W, t - reject))

(* Inertial delay: delete ]PREV;NEXT] for each NEXT of the rejection         *)
(* interval whose value is not the new one; PREV is the last transaction     *)
(* before the interval.                                                      *)
Reject_Pulses(W, reject, t, val) ==
  LET prev == Before(W, t - reject)
      differ == {i \in (prev + 1) .. Len(W) : W[i].Val # val}
      next == IF differ = {} THEN prev
              ELSE CHOOSE i \in differ : \A j \in differ : j <= i
  IN  SubSeq(W, 1, prev) \o SubSeq(W, next + 1, Len(W))

(* The waveform once the new transaction is appended.                        *)
Project(W, reject, t, val) ==
  Append(IF reject > 0 THEN Reject_Pulses(Preempt(W, t), reject, t, val)
         ELSE Preempt(W, t),
         [Time |-> t, Val |-> val])

(* Seeded fault: a direct assignment of another driver is not considered.    *)
Has_Transaction_In_Next_Delta_Nodirect(s, wave) ==
  \E d \in Drivers_Of(s) \ Direct :
    wave[d] # << >> /\ wave[d][1].Time = Current_Time

(* The signal will be active in the next delta cycle.                        *)
Has_Transaction_In_Next_Delta(s, wave) ==
  \/ s \in Is_Direct_Active
  \/ \E d \in Drivers_Of(s) \ Direct :
       wave[d] # << >> /\ wave[d][1].Time = Current_Time

(* The processes of the driver are running.                                  *)
May_Assign(d) ==
  IF d \in Postponed THEN phase \in {"postponed", "elab_postponed"}
  ELSE phase \in {"run", "elab"}

(* Seeded fault: the end of time is missed by one.                           *)
Beyond_Late(after) == Current_Time + after > Last_Time + 1

(* The assignment is beyond the end of time.                                 *)
Beyond(after) == Current_Time + after > Last_Time

(* Seeded fault: only an empty list takes a signal.                          *)
Insert_Future_List_Empty(s) ==
  Future_List' = IF Future_List = {} THEN {s} ELSE Future_List

(* Find_Next_Time looks at the signals of this list; none is ever removed.   *)
Insert_Future_List(s) == Future_List' = Future_List \cup {s}

(* Ghdl_Signal_Start_Assign of a normal driver: the first element of a       *)
(* waveform.  The signal leaves the active chain if rejection removed what   *)
(* made it active.  It is an error, found before pulses are rejected, that   *)
(* REJECT exceeds AFTER.                                                     *)
Start_Assign(d, reject, after, val) ==
  LET s == Signal_Of[d]
      chain == IF after = 0 THEN Signal_Active_Chain \cup {s}
               ELSE Signal_Active_Chain
  IN  /\ May_Assign(d) /\ d \notin Direct
      /\ assigning' = d
      /\ IF after = 0 THEN UNCHANGED Future_List ELSE Insert_Future_List(s)
      /\ IF Beyond(after)
         THEN /\ Signal_Active_Chain' = chain
              /\ UNCHANGED <<Waveform, phase>>
         ELSE /\ Waveform' = [Waveform EXCEPT ![d] =
                               Project(@, IF reject > after THEN 0 ELSE reject,
                                       Current_Time + after, val)]
              /\ Signal_Active_Chain' =
                   IF reject \in 1 .. after /\ ~Has_Transaction_In_Next_Delta(s, Waveform')
                   THEN chain \ {s} ELSE chain
              /\ phase' = IF reject > after THEN "error" ELSE phase
      /\ UNCHANGED <<timeVars, First_Trans, Direct_Value, Is_Direct_Active,
                     valueVars, forcedVars, overrideVars>>

(* Seeded fault: the signal is not put on the active chain.                  *)
Start_Assign_Direct_Unlinked(d, val) ==
  /\ May_Assign(d) /\ d \in Started
  /\ Direct_Value' = [Direct_Value EXCEPT ![d] = val]
  /\ assigning' = No_Driver
  /\ UNCHANGED <<timeVars, phase, First_Trans, Waveform, chainVars, valueVars,
                 forcedVars, overrideVars>>

(* Ghdl_Signal_Start_Assign of a direct driver, for a statement with a delay *)
(* mechanism or an aggregate target: the value is written in place, and the  *)
(* signal is on the active chain but not flagged Is_Direct_Active.  Only     *)
(* drivers that are never assigned with a delay are direct, and any other    *)
(* delay is an internal error.                                               *)
Start_Assign_Direct(d, val) ==
  /\ May_Assign(d) /\ d \in Started
  /\ Direct_Value' = [Direct_Value EXCEPT ![d] = val]
  /\ Signal_Active_Chain' = Signal_Active_Chain \cup {Signal_Of[d]}
  /\ assigning' = No_Driver
  /\ UNCHANGED <<timeVars, phase, First_Trans, Waveform, Future_List,
                 Is_Direct_Active, valueVars, forcedVars, overrideVars>>

(* Driver.Last_Trans.Time; the current transaction is not in the future.     *)
Last_Trans_Time(d) ==
  IF Waveform[d] = << >> THEN Current_Time ELSE Waveform[d][Len(Waveform[d])].Time

(* Ghdl_Signal_Next_Assign: the following elements of the waveform.          *)
Next_Assign(d, after, val) ==
  /\ May_Assign(d) /\ assigning = d
  /\ IF Beyond(after) \/ Current_Time + after <= Last_Trans_Time(d)
     THEN phase' = "error" /\ UNCHANGED <<Waveform, Future_List>>
     ELSE /\ Waveform' = [Waveform EXCEPT ![d] =
                           Append(@, [Time |-> Current_Time + after, Val |-> val])]
          /\ Insert_Future_List(Signal_Of[d])
          /\ UNCHANGED phase
  /\ UNCHANGED <<timeVars, First_Trans, Direct_Value, assigning,
                 Signal_Active_Chain, Is_Direct_Active, valueVars, forcedVars,
                 overrideVars>>

(* An assignment through a direct driver: compiled code writes the value,    *)
(* then calls Ghdl_Signal_Direct_Assign if the signal has to be active or    *)
(* the value is not the driving one.                                         *)
Direct_Assign(d, val) ==
  LET s == Signal_Of[d]
      active == Has_Active(s) \/ Driving_Value[s] # val
  IN  /\ May_Assign(d) /\ d \in Direct
      /\ Direct_Value' = [Direct_Value EXCEPT ![d] = val]
      /\ Signal_Active_Chain' = IF active THEN Signal_Active_Chain \cup {s}
                                ELSE Signal_Active_Chain
      /\ Is_Direct_Active' = IF active THEN Is_Direct_Active \cup {s}
                             ELSE Is_Direct_Active
      /\ assigning' = No_Driver
      /\ UNCHANGED <<timeVars, phase, First_Trans, Waveform, Future_List,
                     valueVars, forcedVars, overrideVars>>

(* Seeded fault: a transaction that is already projected is forgotten.       *)
Simple_Assign_Skips_Pending(d, val) ==
  /\ Net(Signal_Of[d]) = "One_Driver" /\ ~Has_Active(Signal_Of[d])
  /\ val = Value_Ptr[Signal_Of[d]]

(* Ghdl_Signal_Simple_Assign_B1 and the others return at once when the value *)
(* of the signal is not changed by the assignment.                           *)
Simple_Assign_Skips(d, val) ==
  /\ Net(Signal_Of[d]) = "One_Driver" /\ ~Has_Active(Signal_Of[d])
  /\ val = Value_Ptr[Signal_Of[d]]
  /\ Waveform[d] = << >>

(* Force, deposit and release statements, and vpi_put_value in a callback:   *)
(* Append_Force_Value.                                                       *)
Append_Force_Value(f) ==
  /\ phase \in {"elab", "elab_postponed", "elab_last_known", "run", "last_known",
                "postponed", "start"}
  /\ Len(Release_Chain) + Len(Force_Chain) + Len(Deposite_Chain) < Max_Overrides
  /\ Release_Chain' = IF f.Kind = "release" THEN Append(Release_Chain, f)
                      ELSE Release_Chain
  /\ Force_Chain' = IF f.Kind = "force" THEN Append(Force_Chain, f)
                    ELSE Force_Chain
  /\ Deposite_Chain' = IF f.Kind = "deposite" THEN Append(Deposite_Chain, f)
                       ELSE Deposite_Chain
  /\ Override_Present' = TRUE
  /\ assigning' = No_Driver
  /\ UNCHANGED <<timeVars, phase, driverVars, chainVars, valueVars, forcedVars>>

-----------------------------------------------------------------------------
(* Compute_Next_Time and Find_Next_Time: the time of the next cycle and, as  *)
(* a side effect, the signals active in it.  TN is the time of the next      *)
(* process or delayed callback.                                              *)

(* The signals of Future_List whose first transaction is at time t.          *)
Projected_At(t) ==
  {s \in Future_List :
     \E d \in Drivers_Of(s) \ Direct : Waveform[d] # << >> /\ Waveform[d][1].Time = t}

(* Seeded fault: TN hides the transactions that occur at the same time.      *)
Find_Next_Time_After(tn, chain) ==
  LET times == {t \in Time : t < tn /\ Projected_At(t) # {}}
      res == IF times = {} THEN tn ELSE CHOOSE t \in times : \A u \in times : t <= u
  IN  IF chain # {} \/ Override_Present
      THEN [time |-> Current_Time, chain |-> chain]
      ELSE [time |-> res, chain |-> IF times = {} THEN {} ELSE Projected_At(res)]

Find_Next_Time(tn, chain) ==
  LET times == {t \in Time : t <= tn /\ Projected_At(t) # {}} \cup {tn}
      res == CHOOSE t \in times : \A u \in times : t <= u
  IN  IF chain # {} \/ Override_Present
      THEN [time |-> Current_Time, chain |-> chain]
      ELSE [time |-> res, chain |-> Projected_At(res)]

Compute_Next_Time(tn, chain) ==
  IF tn = Current_Time THEN [time |-> tn, chain |-> chain]
  ELSE Find_Next_Time(tn, chain)

(* Compute the next time; a signal must not be found active right now when   *)
(* the active chain is empty: Internal_Error ("find_next_time(2)").          *)
Compute(tn, chain, delta, later) ==
  LET next == Compute_Next_Time(tn, chain)
  IN  /\ Tn' = next.time
      /\ Signal_Active_Chain' = next.chain
      /\ phase' \in IF next.time > Current_Time THEN later
                    ELSE IF tn # Current_Time /\ chain = {} /\ ~Override_Present
                    THEN {"internal_error"} ELSE delta
      /\ assigning' = No_Driver
      /\ UNCHANGED <<driverVars, Future_List, Is_Direct_Active, valueVars,
                     forcedVars, overrideVars>>

(* Initialization_Phase.                                                     *)
Elab_Postponed ==
  /\ phase = "elab"
  /\ phase' = "elab_postponed" /\ assigning' = No_Driver
  /\ UNCHANGED <<timeVars, driverVars, chainVars, valueVars, forcedVars,
                 overrideVars>>

Elab_Next_Time(tn) ==
  /\ phase = "elab_postponed"
  /\ Compute(tn, Signal_Active_Chain, {"cycle"},
             {IF "last_known" \in Callbacks THEN "elab_last_known" ELSE "cycle"})
  /\ Next_Time' = Tn'
  /\ UNCHANGED Current_Time

Elab_Last_Known(tn) ==
  /\ phase = "elab_last_known"
  /\ Compute(tn, {}, {"cycle"}, {"cycle"})
  /\ Next_Time' = Tn'
  /\ UNCHANGED Current_Time

(* Simulation_Cycle once nonpostponed processes have run: a delta cycle      *)
(* follows, or the time step ends; at the end of time, if no process has     *)
(* run, the simulation is finished.                                          *)
Delta == IF Current_Time = Last_Time THEN {"cycle", "finished"} ELSE {"cycle"}

End_Run(tn) ==
  /\ phase = "run"
  /\ Compute(tn, Signal_Active_Chain, Delta,
             {IF "last_known" \in Callbacks THEN "last_known" ELSE "postponed_test"})
  /\ UNCHANGED <<Current_Time, Next_Time>>

(* The callbacks of the last known delta have been called: recompute, from   *)
(* an empty active chain.                                                    *)
End_Last_Known(tn) ==
  /\ phase = "last_known"
  /\ Compute(tn, {}, Delta, {"postponed_test"})
  /\ UNCHANGED <<Current_Time, Next_Time>>

(* No postponed process has resumed.                                         *)
No_Postponed ==
  /\ phase = "postponed_test"
  /\ IF "end_step" \in Callbacks
     THEN phase' = "end_step" /\ UNCHANGED Next_Time
     ELSE phase' = "cycle" /\ Next_Time' = Tn
  /\ UNCHANGED <<Current_Time, Tn, driverVars, assigning, chainVars, valueVars,
                 forcedVars, overrideVars>>

(* Postponed processes run, with an empty active chain.                      *)
Run_Postponed ==
  /\ phase = "postponed_test"
  /\ phase' = "postponed"
  /\ Signal_Active_Chain' = {}
  /\ UNCHANGED <<timeVars, driverVars, assigning, Future_List, Is_Direct_Active,
                 valueVars, forcedVars, overrideVars>>

End_Postponed(tn) ==
  /\ phase = "postponed"
  /\ Compute(tn, Signal_Active_Chain, {"error"},
             {IF "end_step" \in Callbacks THEN "end_step" ELSE "cycle"})
  /\ Next_Time' = IF phase' = "cycle" THEN Tn' ELSE Next_Time
  /\ UNCHANGED Current_Time

(* The callbacks of the end of the time step have been called: recompute.    *)
End_Of_Time_Step(tn) ==
  /\ phase = "end_step"
  /\ Compute(tn, Signal_Active_Chain, {"cycle"}, {"cycle"})
  /\ Next_Time' = Tn'
  /\ UNCHANGED Current_Time

-----------------------------------------------------------------------------
(* Update_Signals.                                                           *)

Start_Cycle ==
  /\ phase = "cycle"
  /\ Current_Time' = Next_Time /\ Tn' = 0
  /\ phase' = "start"
  /\ UNCHANGED <<Next_Time, driverVars, assigning, chainVars, valueVars,
                 forcedVars, overrideVars>>

Update_Signals ==
  /\ phase = "start"
  /\ phase' = IF Override_Present THEN "override" ELSE "update"
  /\ assigning' = No_Driver
  /\ UNCHANGED <<timeVars, driverVars, chainVars, valueVars, forcedVars,
                 overrideVars>>

(* Set_Effective_Value or an assignment of Driving_Value, according to mode. *)
Set_Value(f, val) ==
  /\ Driving_Value' = IF f.Mode = "driving"
                      THEN [Driving_Value EXCEPT ![f.Sig] = val] ELSE Driving_Value
  /\ Value_Ptr' = IF f.Mode = "effective"
                  THEN [Value_Ptr EXCEPT ![f.Sig] = val] ELSE Value_Ptr

Mark_Force_Active(s) == Signal_Active_Chain' = Signal_Active_Chain \cup {s}

(* The first request of Release_Chain.  Get_Forced_Old_Value.                *)
Apply_Release ==
  /\ phase = "override" /\ Release_Chain # << >>
  /\ LET f == Head(Release_Chain)
     IN  /\ IF <<f.Sig, f.Mode>> \in Forced
            THEN \E old \in Saved_Forced :
                   /\ old.Sig = f.Sig /\ old.Mode = f.Mode
                   /\ Set_Value(f, old.Val)
                   /\ Saved_Forced' = Saved_Forced \ {old}
                   /\ Forced' = Forced \ {<<f.Sig, f.Mode>>}
            ELSE UNCHANGED <<valueVars, Saved_Forced, Forced>>
         /\ Mark_Force_Active(f.Sig)
  /\ Release_Chain' = Tail(Release_Chain)
  /\ UNCHANGED <<timeVars, phase, driverVars, assigning, Future_List,
                 Is_Direct_Active, Deposited, Force_Chain, Deposite_Chain,
                 Override_Present>>

(* The value to restore on release.                                          *)
Old_Value(f) == IF f.Mode = "driving" THEN Driving_Value[f.Sig] ELSE Value_Ptr[f.Sig]

(* Seeded fault: the value is saved again when the force is repeated.        *)
Save_Forced_Value_Again(f) ==
  Saved_Forced' =
    Saved_Forced \cup {[Sig |-> f.Sig, Mode |-> f.Mode, Val |-> Old_Value(f)]}

Save_Forced_Value(f) ==
  Saved_Forced' =
    IF <<f.Sig, f.Mode>> \in Forced THEN Saved_Forced
    ELSE Saved_Forced \cup {[Sig |-> f.Sig, Mode |-> f.Mode, Val |-> Old_Value(f)]}

(* The first request of Force_Chain.                                         *)
Apply_Force ==
  /\ phase = "override" /\ Release_Chain = << >> /\ Force_Chain # << >>
  /\ LET f == Head(Force_Chain)
     IN  /\ Save_Forced_Value(f)
         /\ Forced' = Forced \cup {<<f.Sig, f.Mode>>}
         /\ Set_Value(f, f.Val)
         /\ Mark_Force_Active(f.Sig)
  /\ Force_Chain' = Tail(Force_Chain)
  /\ UNCHANGED <<timeVars, phase, driverVars, assigning, Future_List,
                 Is_Direct_Active, Deposited, Release_Chain, Deposite_Chain,
                 Override_Present>>

(* The first request of Deposite_Chain: like a force that lasts until the    *)
(* end of Update_Signals, discarded if the signal is forced.                 *)
Apply_Deposite ==
  /\ phase = "override" /\ Release_Chain = << >> /\ Force_Chain = << >>
  /\ Deposite_Chain # << >>
  /\ LET f == Head(Deposite_Chain)
         sm == <<f.Sig, f.Mode>>
     IN  IF sm \notin Forced \/ sm \in Deposited
         THEN /\ Forced' = Forced \cup {sm}
              /\ Deposited' = Deposited \cup {sm}
              /\ Set_Value(f, f.Val)
              /\ Mark_Force_Active(f.Sig)
         ELSE UNCHANGED <<Forced, Deposited, valueVars, Signal_Active_Chain>>
  /\ Deposite_Chain' = Tail(Deposite_Chain)
  /\ UNCHANGED <<timeVars, phase, driverVars, assigning, Future_List,
                 Is_Direct_Active, Saved_Forced, Release_Chain, Force_Chain,
                 Override_Present>>

End_Override ==
  /\ phase = "override"
  /\ Release_Chain = << >> /\ Force_Chain = << >> /\ Deposite_Chain = << >>
  /\ Override_Present' = FALSE
  /\ phase' = "update"
  /\ UNCHANGED <<timeVars, driverVars, assigning, chainVars, valueVars,
                 forcedVars, Release_Chain, Force_Chain, Deposite_Chain>>

(* Seeded fault: every driver of a resolved signal takes a transaction.      *)
Takes_Any(d) == Waveform[d] # << >>

(* The driver of an active signal takes its first transaction.  The time of  *)
(* the transaction is looked at only for resolved signals.                   *)
Takes(d) ==
  /\ Waveform[d] # << >>
  /\ Net(Signal_Of[d]) = "One_Resolved" => Waveform[d][1].Time = Current_Time

(* Seeded fault: only a deposit keeps the effective value.                   *)
Is_Eff_Deposit(s) == <<s, "effective">> \in Deposited

Is_Eff_Forced(s) == <<s, "effective">> \in Forced
Is_Drv_Forced(s) == <<s, "driving">> \in Forced

(* Update_A_Signal: drivers, then the driving value, then the effective one. *)
Update_A_Signal(s) ==
  LET own == Drivers_Of(s)
      taking == {d \in own \ Direct : Takes(d)}
      driving == IF Is_Drv_Forced(s) \/ Net(s) = "No_Net"
                    \/ (Net(s) = "One_Driver" /\ taking = {})
                 THEN Driving_Value[s]
                 ELSE IF Net(s) = "One_Resolved"
                 THEN Compute_Resolved_Signal(s, First_Trans')
                 ELSE First_Trans'[CHOOSE d \in own : TRUE]
  IN  /\ phase = "update" /\ s \in Signal_Active_Chain
      /\ Signal_Active_Chain' = Signal_Active_Chain \ {s}
      /\ Is_Direct_Active' = Is_Direct_Active \ {s}
      /\ First_Trans' = [d \in Driver |->
                          IF d \in own \cap Direct THEN Direct_Value[d]
                          ELSE IF d \in taking THEN Waveform[d][1].Val
                          ELSE First_Trans[d]]
      /\ Waveform' = [d \in Driver |-> IF d \in taking THEN Tail(Waveform[d])
                                       ELSE Waveform[d]]
      /\ Driving_Value' = [Driving_Value EXCEPT ![s] = driving]
      /\ Value_Ptr' = IF Is_Eff_Forced(s) THEN Value_Ptr
                      ELSE [Value_Ptr EXCEPT ![s] = driving]
      /\ UNCHANGED <<timeVars, phase, Direct_Value, assigning, Future_List,
                     forcedVars, overrideVars>>

(* No active signal is left: deposits are over, processes run.               *)
End_Update ==
  /\ phase = "update" /\ Signal_Active_Chain = {}
  /\ Forced' = Forced \ Deposited
  /\ Deposited' = {}
  /\ phase' = "run"
  /\ UNCHANGED <<timeVars, driverVars, assigning, chainVars, valueVars,
                 Saved_Forced, overrideVars>>

-----------------------------------------------------------------------------
Assignment(d) ==
  \/ \E reject, after \in Delays, val \in Value : Start_Assign(d, reject, after, val)
  \/ \E val \in Value : Start_Assign_Direct(d, val)
  \/ \E after \in Delays, val \in Value : Next_Assign(d, after, val)
  \/ \E val \in Value : Direct_Assign(d, val)

Cycle_Step(tn) ==
  \/ Elab_Next_Time(tn)
  \/ Elab_Last_Known(tn)
  \/ End_Run(tn)
  \/ End_Last_Known(tn)
  \/ End_Postponed(tn)
  \/ End_Of_Time_Step(tn)

Update_Step ==
  \/ Start_Cycle
  \/ Update_Signals
  \/ Apply_Release \/ Apply_Force \/ Apply_Deposite \/ End_Override
  \/ \E s \in Signal : Update_A_Signal(s)
  \/ End_Update

Next ==
  \/ \E d \in Driver : Assignment(d)
  \/ \E f \in Overrides : Append_Force_Value(f)
  \/ Elab_Postponed
  \/ \E tn \in Current_Time .. Last_Time : Cycle_Step(tn)
  \/ No_Postponed \/ Run_Postponed
  \/ Update_Step

Spec == Init /\ [][Next]_vars

-----------------------------------------------------------------------------
(* Properties.                                                               *)

(* The list of transactions of a driver, cut and appended to by assignments  *)
(* and taken from by updates, stays in strictly ascending order of time, as  *)
(* the search loops of Ghdl_Signal_Start_Assign take for granted.            *)
WaveformAscending ==
  \A d \in Driver : \A i, j \in 1 .. Len(Waveform[d]) :
    i < j => Waveform[d][i].Time < Waveform[d][j].Time

(* The type of every variable; a list of transactions is ascending.          *)
TypeOK ==
  /\ Current_Time \in Time /\ Next_Time \in Time /\ Tn \in Time
  /\ phase \in Phase
  /\ First_Trans \in [Driver -> Value]
  /\ Waveform \in [Driver -> Seq(Transaction)] /\ WaveformAscending
  /\ Direct_Value \in [Direct -> Value]
  /\ assigning \in Driver \cup {No_Driver}
  /\ Signal_Active_Chain \subseteq Signal
  /\ Future_List \subseteq Signal
  /\ Is_Direct_Active \subseteq Signal
  /\ Driving_Value \in [Signal -> Value]
  /\ Value_Ptr \in [Signal -> Value]
  /\ Forced \subseteq Signal \X Force_Mode
  /\ Deposited \subseteq Forced
  /\ Saved_Forced \subseteq [Sig : Signal, Mode : Force_Mode, Val : Value]
  /\ Release_Chain \in Seq(Overrides)
  /\ Force_Chain \in Seq(Overrides)
  /\ Deposite_Chain \in Seq(Overrides)
  /\ Override_Present \in BOOLEAN

(* No transaction is overdue: simulation time, even the time chosen for the  *)
(* next cycle, never passes a transaction that has not been taken, and a     *)
(* signal with a transaction in the future is where Find_Next_Time looks.    *)
NoOverdueTransaction ==
  \A d \in Driver : \A i \in 1 .. Len(Waveform[d]) :
    LET t == Waveform[d][i].Time
    IN  /\ t >= Current_Time
        /\ phase = "cycle" => t >= Next_Time
        /\ t > Current_Time => Signal_Of[d] \in Future_List

(* Signal s has a transaction at time t, or its direct driver is active.     *)
Active_At(s, t) ==
  \/ s \in Is_Direct_Active
  \/ \E d \in Drivers_Of(s) \ Direct :
       Waveform[d] # << >> /\ Waveform[d][1].Time = t

(* The time at which the signals of the active chain will be active.         *)
Active_Time ==
  IF phase = "cycle" THEN Next_Time
  ELSE IF phase \in {"elab_last_known", "last_known", "postponed_test", "end_step"}
  THEN Tn
  ELSE Current_Time

(* A direct driver of s may have been assigned in place, without the flag.   *)
Started_At(s, t) == Drivers_Of(s) \cap Started # {} /\ t = Current_Time

(* The active chain is exactly the signals that will be active in the next   *)
(* cycle, whatever assignments, rejections, flushes and computations of the  *)
(* next time came before.  A missing signal loses a transaction; a signal in *)
(* excess takes one too early.  In the next delta cycle only, the chain may  *)
(* also hold signals whose direct drivers are assigned through               *)
(* Ghdl_Signal_Start_Assign.                                                 *)
ActiveChainExact ==
  phase \notin {"override", "update", "finished", "error", "internal_error"} =>
    \A s \in Signal :
      /\ Active_At(s, Active_Time) => s \in Signal_Active_Chain
      /\ s \in Signal_Active_Chain =>
           Active_At(s, Active_Time) \/ Started_At(s, Active_Time)

(* Signals on which a force, deposit or release may be made.                 *)
Overridable == {f.Sig : f \in Overrides}

(* A normal driver of s has a transaction, which will update s.              *)
Pending(s) == \E d \in Drivers_Of(s) \ Direct : Waveform[d] # << >>

(* Outside of Update_Signals, a signal has the value that its drivers give   *)
(* it, and a direct driver has given it its last value or will in the next   *)
(* cycle.  A value written through Ghdl_Signal_Start_Assign may come later,  *)
(* if the pulse rejection of another driver takes the signal off the active  *)
(* chain, but then it comes with a transaction of a driver of the signal.    *)
DriverValueVisible ==
  phase \notin {"override", "update"} =>
    \A s \in Signal \ Overridable : Net(s) # "No_Net" =>
      /\ Value_Ptr[s] = IF s \in Resolved THEN Compute_Resolved_Signal(s, First_Trans)
                        ELSE First_Trans[CHOOSE d \in Drivers_Of(s) : TRUE]
      /\ \A d \in Drivers_Of(s) \cap Direct : First_Trans[d] # Direct_Value[d] =>
           s \in Signal_Active_Chain \/ (d \in Started /\ Pending(s))

(* The early return of Ghdl_Signal_Simple_Assign loses nothing: the driver   *)
(* has the value already and no transaction is to be deleted.                *)
SkipHarmless ==
  \A d \in Driver, val \in Value :
    d \notin Direct /\ Signal_Of[d] \notin Overridable /\ May_Assign(d)
      /\ Simple_Assign_Skips(d, val)
    => First_Trans[d] = val /\ Preempt(Waveform[d], Current_Time) = Waveform[d]

(* A value is saved exactly for what is forced and not deposited, once: a    *)
(* release finds one (the assertion of Get_Forced_Old_Value).                *)
ForcedIsSaved ==
  \A s \in Signal, m \in Force_Mode :
    Cardinality({v \in Saved_Forced : v.Sig = s /\ v.Mode = m}) =
      IF <<s, m>> \in Forced \ Deposited THEN 1 ELSE 0

(* While a signal is forced no driver changes its value: only the requests   *)
(* that Update_Signals handles do.                                           *)
ForceHolds ==
  [][\A s \in Signal :
       /\ <<s, "effective">> \in Forced /\ Value_Ptr'[s] # Value_Ptr[s]
            => phase = "override"
       /\ <<s, "driving">> \in Forced /\ Driving_Value'[s] # Driving_Value[s]
            => phase = "override"]_vars

(* Waveforms are modified as the language says: see module Waveforms.        *)
(* Pulses are rejected by its marking rules, a transaction takes effect at   *)
(* its time, never earlier or later.                                         *)
LRM == INSTANCE Waveforms WITH
  Driver <- Driver \ Direct,
  Horizon <- Last_Time,
  now <- Current_Time,
  wave <- [d \in Driver \ Direct |-> {Waveform[d][i] : i \in 1 .. Len(Waveform[d])}],
  current <- [d \in Driver \ Direct |-> First_Trans[d]]

ImplementsWaveforms == LRM!Spec

(* "If there is signals in the active list, then next cycle is a delta       *)
(* cycle" (Find_Next_Time): in a delta cycle, every signal of the active     *)
(* chain has a transaction for the current time, or has a direct driver that *)
(* was assigned in place.                                                    *)
ActiveMeansDelta ==
  phase = "cycle" /\ Next_Time = Current_Time =>
    \A s \in Signal_Active_Chain :
      Active_At(s, Current_Time) \/ Started_At(s, Current_Time)

(* A driver takes a transaction only when its time has come.                 *)
TakenOnTime ==
  [][\A d \in Driver :
       phase = "update" /\ Waveform'[d] # Waveform[d] =>
         Waveform[d][1].Time = Current_Time]_vars

=============================================================================
