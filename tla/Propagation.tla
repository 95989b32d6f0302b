----------------------------- MODULE Propagation -----------------------------
(***************************************************************************)
(* The update of the signals that are connected to others: resolved        *)
(* signals, ports and implicit signals (grt-signals.adb, Run_Propagation,  *)
(* Update_Signals and Find_Next_Time).  Signals that stand alone, forces   *)
(* and direct drivers are in Drivers.                                      *)
(*                                                                         *)
(* The chain of active signals and that of updated nets share a link, so a *)
(* signal is on at most one of them; they are sequences here, the head     *)
(* first.  Processes are the environment: each time they run, any drivers  *)
(* are assigned in any order.                                              *)
(***************************************************************************)
EXTENDS Nets

CONSTANTS
  Designs,    \* sets of signals: [table, delays], delays of the assignments
  Resolve,    \* the resolution function, on the set of driving values
  Last_Time   \* a bound

ASSUME BoundAssumption ==
  /\ Last_Time \in Nat
  /\ \A d \in Designs : d.delays \subseteq 0 .. Last_Time
  /\ Resolve \in [SUBSET BOOLEAN -> BOOLEAN]

VARIABLES
  design, Net,
  Table,          \* Propagation
  Current_Time,
  phase,          \* "run" or "update"
  kernel,         \* what an update changes, see Kernel
  Future_List,
  history         \* for the properties, see Initial_History

designVars == <<design, Net, Table>>
vars == <<designVars, Current_Time, phase, kernel, Future_List, history>>

Sig_Table == design.table
Signal == DOMAIN Sig_Table
Time == 0 .. Last_Time
Never == -1

(* A waveform: the current transaction, then the projected ones.             *)
Due(w) == Len(w) > 1 /\ w[2].Time = Current_Time

Guard_Func(k, s) == \A p \in ToSet(Sig_Table[s].ports) : k.Value_Ptr[p]

(* Compute_Resolved_Signal calls the function on drivers and ports.          *)
Resolved_Value(k, s) ==
  Resolve[{w[1].Val : w \in ToSet(k.Wave[s])}
            \cup {k.Driving_Value[p] : p \in ToSet(Sig_Table[s].ports)}]

-----------------------------------------------------------------------------
(* Operations on signals.                                                    *)

Linked(k, s) == Contains(k.Signal_Active_Chain \o k.Update_Clear_Chain, s)

(* Seeded fault: whether the signal is already on a chain is not tested.     *)
Insert_Active_Chain_Again(k, s) == [k EXCEPT !.Signal_Active_Chain = <<s>> \o @]

Insert_Active_Chain(k, s) ==
  IF Linked(k, s) THEN k ELSE [k EXCEPT !.Signal_Active_Chain = <<s>> \o @]

Insert_Update_Clear_Chain(k, s) ==
  IF Linked(k, s) THEN k ELSE [k EXCEPT !.Update_Clear_Chain = <<s>> \o @]

Mark_Active(k, s) == [k EXCEPT !.Active = @ \cup {s}]

Set_Effective_Value(k, s, v) ==
  IF k.Value_Ptr[s] = v THEN k
  ELSE [k EXCEPT !.Value_Ptr[s] = v, !.Event = @ \cup {s}]

Drive(k, s, v) == [Mark_Active(k, s) EXCEPT !.Driving_Value[s] = v]

(* The projected transactions that are due become the current ones.          *)
Take_Due(k, s) ==
  [k EXCEPT !.Wave[s] = [j \in DOMAIN @ |-> IF Due(@[j]) THEN Tail(@[j]) ELSE @[j]]]

Any_Active(k, ports) == \E p \in ToSet(ports) : p \in k.Active

Get_Resolved_Activity(k, s) ==
  Any_Active(k, Sig_Table[s].ports) \/ \E w \in ToSet(k.Wave[s]) : Due(w)

-----------------------------------------------------------------------------
(* Run_Propagation: for each cell first the driving value.                   *)

Propagate_Driving(k, cell) ==
  LET s == cell.sig
      sig == Sig_Table[s]
  IN CASE cell.kind \in {"driver", "delayed"} /\ Due(k.Wave[s][1]) ->
            Drive(Take_Due(k, s), s, k.Wave[s][1][2].Val)
       [] cell.kind = "resolved" /\ Get_Resolved_Activity(k, s) ->
            LET taken == Take_Due(k, s) IN Drive(taken, s, Resolved_Value(taken, s))
       [] cell.kind = "port" /\ Any_Active(k, sig.ports) ->
            Drive(k, s, k.Driving_Value[Head(sig.ports)])
       [] cell.kind = "actual" /\ sig.effective \in k.Active /\ s \notin k.Active ->
            Mark_Active(k, s)
       [] cell.kind = "forward" -> Insert_Active_Chain(k, cell.targ)
       [] OTHER -> k

(* Set when the signal is active again in the next cycle.                    *)
Keep_Active(k, s) ==
  IF Sig_Table[s].time = 0 THEN [k EXCEPT !.Implicit_Active_Next = @ \cup {s}] ELSE k

(* FALSE now, and TRUE after the time of the attribute, instead of what was  *)
(* projected before.                                                         *)
Disturb(k, s) ==
  LET driven == Drive(k, s, FALSE)
      true == [Time |-> Current_Time + Sig_Table[s].time, Val |-> TRUE]
  IN Keep_Active(Set_Effective_Value([driven EXCEPT !.Wave[s][1] = <<Head(@), true>>], s, FALSE), s)

(* Seeded fault: S'Stable is disturbed by activity without event.            *)
Disturbed_Active(k, s) == Any_Active(k, Sig_Table[s].ports)

(* S'Stable is disturbed by an event on S, S'Quiet by activity.              *)
Disturbed(k, s) ==
  \E p \in ToSet(Sig_Table[s].ports) :
    p \in IF Sig_Table[s].mode = "stable" THEN k.Event ELSE k.Active

Update_Stable_Quiet(k, s) ==
  IF Disturbed(k, s) THEN Disturb(k, s)
  ELSE IF Due(k.Wave[s][1])
  THEN Set_Effective_Value(Drive(Take_Due(k, s), s, k.Wave[s][1][2].Val), s, k.Wave[s][1][2].Val)
  ELSE k

(* The transaction goes last; it replaces one of the same time.              *)
Project(w, trans) ==
  IF Last(w).Time = trans.Time THEN Append(Front(w), trans) ELSE Append(w, trans)

Delayed_Implicit_Process(k, s) ==
  LET Pfx == Head(Sig_Table[s].ports)
      Ntime == Current_Time + Sig_Table[s].time
      projected == [k EXCEPT !.Wave[s][1] =
                      Project(@, [Time |-> Ntime, Val |-> k.Value_Ptr[Pfx]])]
  IN IF Pfx \in k.Event THEN Keep_Active(projected, s) ELSE k

Update_Guard(k, s) ==
  IF Any_Active(k, Sig_Table[s].ports)
  THEN Set_Effective_Value(Drive(k, s, Guard_Func(k, s)), s, Guard_Func(k, s))
  ELSE k

(* Then the effective value.                                                 *)
Propagate_Effective(k, cell) ==
  LET s == cell.sig
      sig == Sig_Table[s]
      driven == IF s \in k.Active THEN Set_Effective_Value(k, s, k.Driving_Value[s]) ELSE k
  IN CASE cell.kind \in {"driver", "resolved", "port"} /\ cell.eff -> driven
       [] cell.kind = "actual" /\ s \in k.Active ->
            Set_Effective_Value(k, s, k.Value_Ptr[sig.effective])
       [] cell.kind = "guard" -> Update_Guard(k, s)
       [] cell.kind \in {"stable", "quiet"} -> Update_Stable_Quiet(k, s)
       [] cell.kind = "transaction" /\ Any_Active(k, sig.ports) ->
            Set_Effective_Value(Mark_Active(k, s), s, ~k.Value_Ptr[s])
       [] cell.kind = "delayed" -> Delayed_Implicit_Process(driven, s)
       [] OTHER -> k

(* The cells of a net, in the order of the table: the one of a forward is on *)
(* the net of the prefix.                                                    *)
Cells_Of(n) == SelectSeq(Table, LAMBDA cell : Net[cell.sig] = n)

(* A net is propagated once in a cycle, when its first signal is updated.    *)
Run_Propagation(k, s) ==
  LET first == Insert_Update_Clear_Chain([k EXCEPT !.Updated = @ \cup {Net[s]}], s)
  IN IF Net[s] \in k.Updated THEN k
     ELSE FoldLeft(LAMBDA a, cell : Propagate_Effective(Propagate_Driving(a, cell), cell),
                   first, Cells_Of(Net[s]))

-----------------------------------------------------------------------------
(* Initial values: Run_Propagation_Init.                                     *)

Init_Cell(k, cell, table) ==
  LET s == cell.sig
      sig == table[s]
      Value_Of(f) == {f[p] : p \in ToSet(sig.ports)}
      driving ==
        CASE cell.kind = "resolved" /\ sig.ports # << >> ->
               Resolve[{w[1].Val : w \in ToSet(k.Wave[s])} \cup Value_Of(k.Driving_Value)]
          [] cell.kind \in {"port", "delayed"} -> k.Driving_Value[Head(sig.ports)]
          [] cell.kind = "guard" -> FALSE \notin Value_Of(k.Value_Ptr)
          [] OTHER -> k.Driving_Value[s]
      value == IF cell.kind = "actual" THEN k.Value_Ptr[sig.effective] ELSE driving
  IN IF cell.kind \in {"forward", "stable", "quiet", "transaction"} THEN k
     ELSE [k EXCEPT !.Driving_Value[s] = driving,
                    !.Value_Ptr[s] = IF cell.eff THEN value ELSE @]

(* Each user signal and its drivers have the declared value; 'Delayed that   *)
(* of its prefix, and the other implicit signals are true.                   *)
Declared(table, given, s) ==
  LET mode == table[s].mode
  IN IF mode = "delayed" THEN given[Head(table[s].ports)]
     ELSE mode \in Implicit_Modes \/ given[s]

Initial_Kernel(table, cells, given) ==
  LET S == DOMAIN table
      value == [s \in S |-> Declared(table, given, s)]
      waves(s) == IF table[s].mode \in Forward_Modes THEN 1 ELSE table[s].drivers
  IN FoldLeft(LAMBDA k, cell : Init_Cell(k, cell, table),
       [Driving_Value |-> value, Value_Ptr |-> value, Active |-> {}, Event |-> {},
        Wave |-> [s \in S |-> [j \in 1 .. waves(s) |-> <<[Time |-> 0, Val |-> value[s]]>>]],
        Implicit_Active_Next |-> {}, Signal_Active_Chain |-> << >>,
        Update_Clear_Chain |-> << >>, Updated |-> {}], cells)

(* What the implicit signals of some modes and delays look at.               *)
Looked_At(modes, times) ==
  UNION {ToSet(sig.ports) : sig \in {x \in ToSet(Sig_Table) : x.mode \in modes /\ x.time \in times}}

Toggles == {s \in Signal : Sig_Table[s].mode = "transaction"}
Watched == Toggles \cup Looked_At({"delayed"}, {0})

(* The values in the last cycle, those at the end of each time, and the last *)
(* times of an event and of activity.                                        *)
Initial_History ==
  [previous |-> [s \in Watched |-> kernel.Value_Ptr[s]],
   past |-> [t \in Never .. Last_Time |-> [p \in Looked_At({"delayed"}, Nat \ {0}) |-> kernel.Value_Ptr[p]]],
   event |-> [p \in Looked_At({"stable"}, Nat \ {0}) |-> Never],
   active |-> [p \in Looked_At({"quiet"}, Nat \ {0}) |-> Never]]

Updated_History ==
  LET last(h, S) == [p \in DOMAIN h |-> IF p \in S THEN Current_Time ELSE h[p]]
  IN [history EXCEPT
        !.past = [t \in DOMAIN @ |->
                    IF t < Current_Time THEN @[t]
                    ELSE [p \in DOMAIN @[t] |-> kernel.Value_Ptr[p]]],
        !.event = last(@, kernel.Event), !.active = last(@, kernel.Active)]

Init ==
  /\ design \in Designs
  /\ Table = Order_All_Signals(Sig_Table)
  /\ Net = Create_Nets(Sig_Table, Table)
  /\ Current_Time = 0 /\ phase = "run"
  /\ \E given \in [Signal -> BOOLEAN] :
       /\ \A s \in Signal : Sig_Table[s].mode \in Implicit_Modes => given[s]
       /\ kernel = Initial_Kernel(Sig_Table, Table, given)
  /\ Future_List = Reverse(SelectSeq([s \in Signal |-> s], LAMBDA s : Sig_Table[s].time > 0))
  /\ history = Initial_History

-----------------------------------------------------------------------------
(* Processes run.  A bound: a driver is assigned again only when what it had *)
(* projected is not before, so that it has one projected transaction.        *)

Insert_Future_List(s) == IF Contains(Future_List, s) THEN Future_List ELSE <<s>> \o Future_List

Ghdl_Signal_Start_Assign(s, j, v, after) ==
  /\ phase = "run" /\ Current_Time + after <= Last_Time
  /\ j \in DOMAIN kernel.Wave[s] /\ Sig_Table[s].mode \notin Implicit_Modes
  /\ LET w == kernel.Wave[s][j]
         assigned == [kernel EXCEPT !.Wave[s][j] =
                        <<w[1], [Time |-> Current_Time + after, Val |-> v]>>]
     IN /\ Len(w) > 1 => w[2].Time >= Current_Time + after
        /\ kernel' = IF after = 0 THEN Insert_Active_Chain(assigned, s) ELSE assigned
  /\ Future_List' = IF after = 0 THEN Future_List ELSE Insert_Future_List(s)
  /\ UNCHANGED <<designVars, Current_Time, phase, history>>

(* Reset_Active_Flag, at the start of Update_Signals.                        *)
Begin_Update(k) ==
  /\ kernel' = [k EXCEPT !.Active = {}, !.Event = {}]
  /\ history' = [history EXCEPT !.previous = [s \in Watched |-> kernel.Value_Ptr[s]]]
  /\ phase' = "update"
  /\ UNCHANGED <<designVars, Future_List>>

Delta_Cycle ==
  /\ phase = "run" /\ kernel.Signal_Active_Chain # << >>
  /\ Begin_Update(kernel)
  /\ UNCHANGED Current_Time

(* Find_Next_Time: the time is that of the first transaction, or Tn, when a  *)
(* process resumes; signals become active in the order of Future_List.       *)
Projected(s) == {w[2].Time : w \in {x \in ToSet(kernel.Wave[s]) : Len(x) > 1}}

Next_Time(Tn) ==
  LET times == {Tn} \cup UNION {Projected(s) : s \in ToSet(Future_List)}
  IN CHOOSE t \in times : \A u \in times : t <= u

Time_Step(Tn) ==
  /\ phase = "run" /\ kernel.Signal_Active_Chain = << >>
  /\ Tn > Current_Time
  /\ Current_Time' = Next_Time(Tn)
  /\ Begin_Update(FoldLeft(Insert_Active_Chain, kernel,
                           SelectSeq(Future_List, LAMBDA s : Next_Time(Tn) \in Projected(s))))

(* One round of Update_Signals.                                              *)
Update_A_Signal ==
  /\ phase = "update" /\ kernel.Signal_Active_Chain # << >>
  /\ kernel' = Run_Propagation([kernel EXCEPT !.Signal_Active_Chain = Tail(@)],
                               Head(kernel.Signal_Active_Chain))
  /\ UNCHANGED <<designVars, Current_Time, phase, Future_List, history>>

(* Seeded fault: an implicit signal stays out of the next cycle.             *)
Unmark_Only(k, s) ==
  [k EXCEPT !.Update_Clear_Chain = Tail(@), !.Updated = @ \ {Net[s]},
            !.Implicit_Active_Next = @ \ {s}]

(* An updated net is unmarked, and its signal maybe put on the active chain. *)
Unmark(k, s) ==
  LET out == [k EXCEPT !.Update_Clear_Chain = Tail(@), !.Updated = @ \ {Net[s]}]
  IN IF s \in k.Implicit_Active_Next
     THEN Insert_Active_Chain([out EXCEPT !.Implicit_Active_Next = @ \ {s}], s)
     ELSE out

End_Update ==
  /\ phase = "update" /\ kernel.Signal_Active_Chain = << >>
  /\ kernel' = FoldLeft(Unmark, kernel, kernel.Update_Clear_Chain)
  /\ phase' = "run"
  /\ history' = Updated_History
  /\ UNCHANGED <<designVars, Current_Time, Future_List>>

Next ==
  \/ \E s \in Signal, j \in 1 .. 2, v \in BOOLEAN, after \in design.delays :
       Ghdl_Signal_Start_Assign(s, j, v, after)
  \/ Delta_Cycle
  \/ \E Tn \in Time : Time_Step(Tn)
  \/ Update_A_Signal \/ End_Update

Spec == Init /\ [][Next]_vars

-----------------------------------------------------------------------------
(* Type invariant of the signals and chains (grt-signals.ads:270).           *)
TypeOK ==
  /\ Net \in [Signal -> Nat] /\ Current_Time \in Time /\ phase \in {"run", "update"}
  /\ kernel.Value_Ptr \in [Signal -> BOOLEAN] /\ kernel.Driving_Value \in [Signal -> BOOLEAN]
  /\ kernel.Active \cup kernel.Event \cup kernel.Implicit_Active_Next \subseteq Signal
  /\ IsInjective(kernel.Signal_Active_Chain \o kernel.Update_Clear_Chain)
  /\ ToSet(kernel.Signal_Active_Chain \o kernel.Update_Clear_Chain) \subseteq Signal
  /\ kernel.Updated \subseteq Range(Net) \ {No_Signal_Net}
  /\ \A s \in Signal : \A w \in ToSet(kernel.Wave[s]) :
       w # << >> /\ w \in Seq([Time : Nat, Val : BOOLEAN])
  /\ Future_List \in Seq(Signal) /\ IsInjective(Future_List)

(* Whatever is projected takes place: in the next cycle the signal is on the *)
(* active chain, or it is known to have a transaction in the future; nothing *)
(* is left from the update (grt-signals.adb:4014, 3296, 3596).               *)
ActivityScheduled ==
  phase = "run" =>
    /\ kernel.Update_Clear_Chain = << >> /\ kernel.Updated = {}
    /\ kernel.Implicit_Active_Next = {}
    /\ \A s \in Signal : \A w \in ToSet(kernel.Wave[s]) : Len(w) > 1 =>
         IF w[2].Time = Current_Time THEN Contains(kernel.Signal_Active_Chain, s)
         ELSE w[2].Time > Current_Time /\ Contains(Future_List, s)

(* After an update connected signals agree, whatever the order in which they *)
(* became active: the driving value is that of the sources, the effective    *)
(* value that of the actual (LRM 12.6.2, grt-signals.adb:3386).              *)
NetsSettled ==
  phase = "run" =>
    \A s \in Signal :
      LET sig == Sig_Table[s]
      IN sig.mode \notin Implicit_Modes =>
           /\ ~No_Source(sig) => kernel.Driving_Value[s] = Resolved_Value(kernel, s)
           /\ kernel.Value_Ptr[s] = IF sig.effective # 0 THEN kernel.Value_Ptr[sig.effective]
                                    ELSE kernel.Driving_Value[s]

(* Whether the last time was in this cycle, or less than the time T ago.     *)
Recent(p, now, last, T) ==
  \/ p \in now
  \/ T > 0 /\ last[p] # Never /\ Current_Time < last[p] + T

Expected(s) ==
  LET sig == Sig_Table[s]
      ports == ToSet(sig.ports)
  IN CASE sig.mode = "stable" ->
            ~\E p \in ports : Recent(p, kernel.Event, history.event, sig.time)
       [] sig.mode = "quiet" ->
            ~\E p \in ports : Recent(p, kernel.Active, history.active, sig.time)
       [] sig.mode = "transaction" ->
            (ports \cap kernel.Active # {}) # history.previous[s]
       [] sig.mode = "guard" -> Guard_Func(kernel, s)
       [] sig.mode = "delayed" /\ sig.time = 0 -> history.previous[Head(sig.ports)]
       [] sig.mode = "delayed" /\ sig.time > 0 ->
            history.past[IF sig.time > Current_Time THEN Never ELSE Current_Time - sig.time][Head(sig.ports)]

(* While processes run, each implicit signal is what its prefix makes it:    *)
(* S'Stable(T) and S'Quiet(T) are false from an event, or activity, on S for *)
(* the time T; S'Delayed(T) is S as it was T ago; S'Transaction toggles when *)
(* S is active; a guard is its expression (grt-signals.adb:3253, 3573).      *)
ImplicitExact ==
  phase = "run" =>
    \A s \in Signal : Sig_Table[s].mode \in Implicit_Modes => kernel.Value_Ptr[s] = Expected(s)
=============================================================================
