------------------------------ MODULE EventLists ------------------------------
(***************************************************************************)
(* The cells that tell which processes an event on a signal resumes        *)
(* (grt-processes.adb, grt-signals.adb, Action_List in grt-signals.ads).   *)
(*                                                                         *)
(* A cell is on the event list of a signal.  Those of the static           *)
(* sensitivities have a next link only and stay.  The dynamic ones, of a   *)
(* wait, are linked both ways and also on the sensitivity list of their    *)
(* process (chain); when the wait is over, they are unlinked and recycled. *)
(* A cell is its number in the order of allocation; 0 is null.             *)
(***************************************************************************)
EXTENDS Integers, Sequences, FiniteSets, SequencesExt, Functions

CONSTANTS
  Signal,
  Plain,            \* the processes with waits
  Sensitized,       \* those with a static sensitivity
  Max_Sensitivity   \* of one wait (a bound)

ASSUME SensitivityAssumption ==
  /\ Max_Sensitivity \in Nat /\ IsFiniteSet(Plain)
  /\ Plain \cap Sensitized = {} /\ "none" \notin Plain

Process == Plain \cup Sensitized

VARIABLES
  cells,            \* [dynamic, proc, sig, next, prev, chain]
  Event_List,       \* of each signal
  Proc_Sensitivity, \* of each process
  Old_Action_List,  \* cells to be recycled
  state,            \* of each process: "ready", "wait", "timeout" or "dead"
  resumed,          \* the resumed processes
  phase,            \* "elaboration", "update" or "run"
  Current_Process   \* that runs, or "none"

listVars == <<cells, Event_List, Proc_Sensitivity, Old_Action_List>>
vars == <<listVars, state, resumed, phase, Current_Process>>

(* The cells from c on, along a link, as far as there are cells.             *)
Along(link, c) ==
  LET from[n \in 0 .. Len(link)] ==
        [d \in 0 .. Len(link) |->
           IF n = 0 \/ d = 0 THEN << >> ELSE <<d>> \o from[n - 1][link[d]]]
  IN  from[Len(link)][c]

Next_Links(cs) == [c \in 1 .. Len(cs) |-> cs[c].next]
Chain_Links(cs) == [c \in 1 .. Len(cs) |-> cs[c].chain]

(* The event list of a signal, the sensitivity list of a process, and the    *)
(* list of recycled cells.                                                   *)
Events(s) == Along(Next_Links(cells), Event_List[s])
Waiting(p) == Along(Chain_Links(cells), Proc_Sensitivity[p])
Recycled == Along(Next_Links(cells), Old_Action_List)

Init ==
  /\ cells = << >> /\ Event_List = [s \in Signal |-> 0]
  /\ Proc_Sensitivity = [p \in Process |-> 0] /\ Old_Action_List = 0
  /\ state = [p \in Process |-> "ready"] /\ resumed = {}
  /\ phase = "elaboration" /\ Current_Process = "none"

(* Resume_Process_If_Event, for the sensitivity list of a process or the     *)
(* process of an implicit signal.  A bound: once for a process and a signal. *)
Ghdl_Process_Add_Sensitivity(p, s) ==
  /\ phase = "elaboration" /\ p \in Sensitized
  /\ \A c \in DOMAIN cells : <<cells[c].proc, cells[c].sig>> # <<p, s>>
  /\ cells' = Append(cells, [dynamic |-> FALSE, proc |-> p, sig |-> s,
                             next |-> Event_List[s], prev |-> 0, chain |-> 0])
  /\ Event_List' = [Event_List EXCEPT ![s] = Len(cells')]
  /\ UNCHANGED <<Proc_Sensitivity, Old_Action_List, state, resumed, phase, Current_Process>>

(* Initialization_Phase: every process runs once.                            *)
End_Elaboration ==
  /\ phase = "elaboration"
  /\ phase' = "run" /\ resumed' = Process
  /\ UNCHANGED <<listVars, state, Current_Process>>

-----------------------------------------------------------------------------
(* Signals change, and timeouts come.                                        *)

Set_Effective_Value(s) ==
  /\ phase = "update"
  /\ resumed' = resumed \cup {cells[c].proc : c \in ToSet(Events(s))}
  /\ UNCHANGED <<listVars, state, phase, Current_Process>>

Timed_Out(p) ==
  /\ phase = "update" /\ state[p] = "wait"
  /\ state' = [state EXCEPT ![p] = "timeout"]
  /\ resumed' = resumed \cup {p}
  /\ UNCHANGED <<listVars, phase, Current_Process>>

Start_Run ==
  /\ phase = "update"
  /\ phase' = "run"
  /\ UNCHANGED <<listVars, state, resumed, Current_Process>>

-----------------------------------------------------------------------------
(* Processes run, one after the other.                                       *)

Run_Process(p) ==
  /\ phase = "run" /\ Current_Process = "none" /\ p \in resumed
  /\ resumed' = resumed \ {p}
  /\ Current_Process' = IF p \in Sensitized THEN "none" ELSE p
  /\ UNCHANGED <<listVars, state, phase>>

(* Seeded fault: the second cell of a signal is not linked back.             *)
Link_Forward(cs, el, first) == [cs EXCEPT ![el].next = first]

(* The cell el becomes the first of an event list that began with first.     *)
Link_First(cs, el, first) ==
  LET linked == [cs EXCEPT ![el].next = first]
  IN IF first # 0 /\ cs[first].dynamic THEN [linked EXCEPT ![first].prev = el] ELSE linked

(* Seeded fault: a recycled cell stays on the list.                          *)
Take_Cell_New(cell) ==
  /\ cells' = Link_First(Append(cells, cell), Len(cells) + 1, Event_List[cell.sig])
  /\ Event_List' = [Event_List EXCEPT ![cell.sig] = Len(cells) + 1]
  /\ Proc_Sensitivity' = [Proc_Sensitivity EXCEPT ![cell.proc] = Len(cells) + 1]
  /\ UNCHANGED Old_Action_List

(* A cell is taken from the recycled ones or allocated, and put first on     *)
(* both of its lists.                                                        *)
Take_Cell(cell) ==
  LET El == IF Old_Action_List = 0 THEN Len(cells) + 1 ELSE Old_Action_List
      with == IF Old_Action_List = 0 THEN Append(cells, cell) ELSE [cells EXCEPT ![El] = cell]
  IN /\ Old_Action_List' = IF Old_Action_List = 0 THEN 0 ELSE cells[El].next
     /\ cells' = Link_First(with, El, Event_List[cell.sig])
     /\ Event_List' = [Event_List EXCEPT ![cell.sig] = El]
     /\ Proc_Sensitivity' = [Proc_Sensitivity EXCEPT ![cell.proc] = El]

Ghdl_Process_Wait_Add_Sensitivity(p, s) ==
  /\ Current_Process = p /\ state[p] = "ready"
  /\ Len(Waiting(p)) < Max_Sensitivity
  /\ Take_Cell([dynamic |-> TRUE, proc |-> p, sig |-> s, next |-> 0, prev |-> 0,
                chain |-> Proc_Sensitivity[p]])
  /\ UNCHANGED <<state, resumed, phase, Current_Process>>

(* At the start of a wait, or again when its condition is false.             *)
Ghdl_Process_Wait_Suspend(p) ==
  /\ Current_Process = p /\ state[p] \in {"ready", "wait"}
  /\ state' = [state EXCEPT ![p] = "wait"]
  /\ Current_Process' = "none"
  /\ UNCHANGED <<listVars, resumed, phase>>

(* Seeded fault: the cell after the one unlinked still has it as previous.   *)
Unlink_Forward(lists, El) ==
  LET el == lists.cells[El]
  IN [event |-> IF el.prev = 0 THEN [lists.event EXCEPT ![el.sig] = el.next] ELSE lists.event,
      cells |-> IF el.prev = 0 THEN lists.cells
                ELSE [lists.cells EXCEPT ![el.prev].next = el.next],
      old   |-> lists.old]

(* The cell El leaves the event list of its signal.                          *)
Unlink(lists, El) ==
  LET el == lists.cells[El]
      before == IF el.prev = 0 THEN lists.cells
                ELSE [lists.cells EXCEPT ![el.prev].next = el.next]
  IN [event |-> IF el.prev = 0 THEN [lists.event EXCEPT ![el.sig] = el.next] ELSE lists.event,
      cells |-> IF el.next # 0 /\ before[el.next].dynamic
                THEN [before EXCEPT ![el.next].prev = el.prev] ELSE before,
      old   |-> lists.old]

(* A cell to be recycled: its other fields are set before they are read.     *)
Old_Cell(next) ==
  [dynamic |-> TRUE, proc |-> "none", sig |-> "none", next |-> next, prev |-> 0, chain |-> 0]

(* Seeded fault: only the last cell is recycled.                             *)
Recycle_Last(lists, El) ==
  [lists EXCEPT !.cells = [@ EXCEPT ![El] = Old_Cell(0)], !.old = El]

Recycle(lists, El) ==
  [event |-> lists.event, old |-> El,
   cells |-> [lists.cells EXCEPT ![El] = Old_Cell(lists.old)]]

(* The loop over the sensitivity list of a process.                          *)
Unlink_All(lists, list) ==
  LET after[i \in 0 .. Len(list)] ==
        IF i = 0 THEN lists ELSE Recycle(Unlink(after[i - 1], list[i]), list[i])
  IN  after[Len(list)]

(* The wait is over: its condition is true or it timed out.                  *)
Ghdl_Process_Wait_Close(p) ==
  /\ Current_Process = p /\ state[p] \in {"wait", "timeout"}
  /\ LET lists == Unlink_All([cells |-> cells, event |-> Event_List,
                               old |-> Old_Action_List], Waiting(p))
     IN /\ cells' = lists.cells
        /\ Event_List' = lists.event
        /\ Old_Action_List' = lists.old
  /\ Proc_Sensitivity' = [Proc_Sensitivity EXCEPT ![p] = 0]
  /\ state' = [state EXCEPT ![p] = "ready"]
  /\ UNCHANGED <<resumed, phase, Current_Process>>

Ghdl_Process_Wait_Exit(p) ==
  /\ Current_Process = p /\ state[p] = "ready" /\ Proc_Sensitivity[p] = 0
  /\ state' = [state EXCEPT ![p] = "dead"]
  /\ Current_Process' = "none"
  /\ UNCHANGED <<listVars, resumed, phase>>

End_Run ==
  /\ phase = "run" /\ Current_Process = "none" /\ resumed = {}
  /\ phase' = "update"
  /\ UNCHANGED <<listVars, state, resumed, Current_Process>>

Next ==
  \/ \E p \in Process, s \in Signal : Ghdl_Process_Add_Sensitivity(p, s)
  \/ End_Elaboration
  \/ \E s \in Signal : Set_Effective_Value(s)
  \/ \E p \in Plain : Timed_Out(p)
  \/ Start_Run \/ End_Run
  \/ \E p \in Process : Run_Process(p)
  \/ \E p \in Plain :
       \/ \E s \in Signal : Ghdl_Process_Wait_Add_Sensitivity(p, s)
       \/ Ghdl_Process_Wait_Suspend(p) \/ Ghdl_Process_Wait_Close(p)
       \/ Ghdl_Process_Wait_Exit(p)

Spec == Init /\ [][Next]_vars

-----------------------------------------------------------------------------
(* Type invariant of the cells and lists (grt-signals.ads:110).  Cells are   *)
(* recycled: there are never more than the waits can use at once.            *)
TypeOK ==
  /\ cells \in Seq([dynamic : BOOLEAN, proc : Process \cup {"none"},
                    sig : Signal \cup {"none"},
                    next : 0 .. Len(cells), prev : 0 .. Len(cells),
                    chain : 0 .. Len(cells)])
  /\ Cardinality({c \in 1 .. Len(cells) : cells[c].dynamic}) <= Max_Sensitivity * Cardinality(Plain)
  /\ Event_List \in [Signal -> 0 .. Len(cells)]
  /\ Proc_Sensitivity \in [Process -> 0 .. Len(cells)]
  /\ Old_Action_List \in 0 .. Len(cells)
  /\ state \in [Process -> {"ready", "wait", "timeout", "dead"}]
  /\ resumed \subseteq Process
  /\ phase \in {"elaboration", "update", "run"}
  /\ Current_Process \in Plain \cup {"none"}

(* Each event list has its dynamic cells first, each with the one before as  *)
(* prev, then its static ones: what Wait_Add_Sensitivity and Wait_Close rely *)
(* on and assert (grt-processes.adb:359, 451-459).                           *)
EventListsSound ==
  \A s \in Signal :
    LET list == Events(s)
    IN \A i \in DOMAIN list :
         /\ cells[list[i]].sig = s
         /\ cells[list[i]].dynamic =>
              /\ cells[list[i]].prev = IF i = 1 THEN 0 ELSE list[i - 1]
              /\ i > 1 => cells[list[i - 1]].dynamic

(* Every dynamic cell is either recycled, once, or on the sensitivity list of*)
(* its process and the event list of its signal: none is lost, none is on a  *)
(* list twice or on one of another process (grt-processes.adb:336-478).      *)
CellsAccountedFor ==
  /\ IsInjective(Recycled)
  /\ \A c \in DOMAIN cells : cells[c].dynamic =>
       \/ Contains(Recycled, c)
       \/ /\ ~Contains(Recycled, c) /\ cells[c].proc \in Process
          /\ Contains(Waiting(cells[c].proc), c)
          /\ Contains(Events(cells[c].sig), c)
  /\ \A p \in Process : \A c \in ToSet(Waiting(p)) :
       cells[c].dynamic /\ cells[c].proc = p
  /\ \A s \in Signal : ToSet(Events(s)) \cap ToSet(Recycled) = {}

-----------------------------------------------------------------------------
Abstract ==
  INSTANCE Sensitivity WITH
    static <- {[proc |-> c.proc, sig |-> c.sig] :
                 c \in {d \in ToSet(cells) : ~d.dynamic}},
    waits <- [p \in Process |->
                {cells[c].sig : c \in ToSet(Waiting(p))}]

(* An event resumes the processes that are sensitive to the signal at that   *)
(* moment, whatever waits began and ended before (grt-signals.adb:3356).     *)
ImplementsSensitivity == Abstract!Spec
=============================================================================
