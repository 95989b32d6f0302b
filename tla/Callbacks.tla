------------------------------ MODULE Callbacks ------------------------------
(***************************************************************************)
(* The callback lists of GRT (src/src/grt/grt-callbacks.adb): a list that  *)
(* is called as a whole (Cb_Last_Known_Delta and the others of grt-hooks)  *)
(* and the list of callbacks at a time (Cb_After_Delay), as linked cells   *)
(* that are recycled.  Both share Recycled_Handles.                        *)
(*                                                                         *)
(* The users are VPI (src/src/grt/grt-vpi.adb: vpi_register_cb,            *)
(* vpi_remove_cb) and the dumpers.  They register and remove callbacks     *)
(* when processes run, between two calls of a list, and also inside of a   *)
(* callback, while the list is walked.  A one-shot or timed callback does  *)
(* not remove itself while it is called: Call_Callback asserts it.         *)
(***************************************************************************)
EXTENDS Integers, Sequences, Subsequence

CONSTANTS
  Callback,   \* what users register: a procedure and its argument
  Nop,        \* Nop_Callback
  Nobody,     \* no callback is being called
  Max_Cells,  \* cells that may be allocated (a bound)
  Last_Time   \* Std_Time'Last

ASSUME CallbackAssumption ==
  /\ Nop \notin Callback /\ Nobody \notin Callback /\ Nop # Nobody
  /\ Max_Cells \in Nat \ {0} /\ Last_Time \in Nat \ {0}

Cell == 1 .. Max_Cells
Null == 0
Handle == Cell \cup {Null}
Time == 0 .. Last_Time

VARIABLES
  Current_Time,
  Cb,                        \* the fields T, Mode and Proc of each Cb_Cell
  Next_Cell,                 \* its field Next
  allocated,                 \* cells 1 .. allocated are no longer fresh
  Recycled_Handles,
  First, Last,               \* the Callback_List
  Time_First, First_Timeout, \* the Callback_Time_List
  handle,                    \* the Callback_Handle that each user holds
  walk,                      \* "none", "list" (Call_Callbacks) or "time"
  Cur, Prev, Final,          \* its locals Cell, Prev_Cell and Last
  running                    \* the callback being called

linkVars == <<Next_Cell, Recycled_Handles>>
listVars == <<First, Last>>
timeListVars == <<Time_First, First_Timeout>>
walkVars == <<walk, Cur, Prev, Final, running>>
vars == <<Current_Time, Cb, linkVars, allocated, listVars, timeListVars, handle,
          walkVars>>

Cb_Cell == [T : Time, Mode : {"Timed", "Repeat", "Oneshot"}, Proc : Callback \cup {Nop}]

(* The cells from c on, along the links next, as far as there are cells.     *)
Follow(next, c) ==
  LET from[n \in 0 .. Max_Cells + 1] ==
        [h \in Handle |-> IF n = 0 \/ h = Null THEN << >>
                          ELSE <<h>> \o from[n - 1][next[h]]]
  IN  from[Max_Cells + 1][c]

Chain(c) == Follow(Next_Cell, c)

Cells_Of(c) == {Chain(c)[i] : i \in 1 .. Len(Chain(c))}

Init ==
  /\ Current_Time = 0
  /\ Cb = [c \in Cell |-> [T |-> 0, Mode |-> "Timed", Proc |-> Nop]]
  /\ Next_Cell = [c \in Cell |-> Null]
  /\ allocated = 0 /\ Recycled_Handles = Null
  /\ First = Null /\ Last = Null
  /\ Time_First = Null /\ First_Timeout = Last_Time
  /\ handle = [c \in Callback |-> Null]
  /\ walk = "none" /\ Cur = Null /\ Prev = Null /\ Final = Null
  /\ running = Nobody

(* Free_Handle: h is recycled, and prev, if it is a cell, is linked to next. *)
Free_Handle(h, prev, next) ==
  /\ Next_Cell' = [x \in Cell |-> IF x = h THEN Recycled_Handles
                                  ELSE IF x = prev THEN next ELSE Next_Cell[x]]
  /\ Recycled_Handles' = h

-----------------------------------------------------------------------------
(* Users.                                                                    *)

User_Code == walk = "none" \/ running # Nobody

(* The cell that Allocate_Handle returns.                                    *)
New_Handle == IF Recycled_Handles = Null THEN allocated + 1 ELSE Recycled_Handles

(* Register callback c in a new cell, between prev (or Null) and next.       *)
Allocate_Handle(c, cell, prev, next) ==
  /\ User_Code
  /\ handle[c] = Null /\ c # running
  /\ New_Handle \in Cell
  /\ allocated' = IF Recycled_Handles = Null THEN New_Handle ELSE allocated
  /\ Recycled_Handles' = IF Recycled_Handles = Null THEN Null
                         ELSE Next_Cell[Recycled_Handles]
  /\ Cb' = [Cb EXCEPT ![New_Handle] = cell]
  /\ Next_Cell' = [x \in Cell |-> IF x = New_Handle THEN next
                                  ELSE IF x = prev THEN New_Handle ELSE Next_Cell[x]]
  /\ handle' = [handle EXCEPT ![c] = New_Handle]

(* Append to the list.                                                       *)
Register_Callback(c, mode) ==
  /\ Allocate_Handle(c, [T |-> 0, Mode |-> mode, Proc |-> c], Last, Null)
  /\ First' = IF First = Null THEN New_Handle ELSE First
  /\ Last' = New_Handle
  /\ UNCHANGED <<Current_Time, timeListVars, walkVars>>

(* Seeded fault: the new cell goes before those of the same time.            *)
Before_Same_Time(t, i) ==
  LET list == Chain(Time_First)
  IN  /\ \A j \in 1 .. i : Cb[list[j]].T < t
      /\ i < Len(list) => Cb[list[i + 1]].T >= t

(* The loop over the time list stops behind cell i: up to it the timeouts    *)
(* are before (<=) t, the next one is after t.                               *)
Insert_After(t, i) ==
  LET list == Chain(Time_First)
  IN  /\ \A j \in 1 .. i : Cb[list[j]].T <= t
      /\ i < Len(list) => Cb[list[i + 1]].T > t

Register_Callback_At(c, t) ==
  /\ t >= Current_Time
  /\ \E i \in 0 .. Len(Chain(Time_First)) :
       /\ Insert_After(t, i)
       /\ LET prev == IF i = 0 THEN Null ELSE Chain(Time_First)[i]
          IN  Allocate_Handle(c, [T |-> t, Mode |-> "Timed", Proc |-> c], prev,
                              IF i = 0 THEN Time_First ELSE Next_Cell[prev])
       /\ Time_First' = IF i = 0 THEN New_Handle ELSE Time_First
       /\ First_Timeout' = IF i = 0 THEN t ELSE First_Timeout
  /\ UNCHANGED <<Current_Time, listVars, walkVars>>

(* A user removes a callback that is registered; if it is running it is one  *)
(* that will be called again.                                                *)
May_Remove(c) ==
  /\ User_Code
  /\ handle[c] # Null
  /\ c = running => walk = "list" /\ Cb[handle[c]].Mode = "Repeat"

(* The callback is only marked: the cell is removed when it would be called. *)
(* VPI uses it for a timed cell too (cbReadWriteSynch with a delay).         *)
Delete_Callback(c) ==
  /\ May_Remove(c)
  /\ Cb' = [Cb EXCEPT ![handle[c]].Proc = Nop,
                      ![handle[c]].Mode = IF @ = "Repeat" THEN "Oneshot" ELSE @]
  /\ handle' = [handle EXCEPT ![c] = Null]
  /\ UNCHANGED <<Current_Time, linkVars, allocated, listVars, timeListVars, walkVars>>

(* The cell leaves the time list and is recycled.                            *)
Unregister_Callback_At(c) ==
  LET h == handle[c]
      prev == {x \in Cells_Of(Time_First) : Next_Cell[x] = h}
  IN  /\ May_Remove(c) /\ Cb[h].Mode = "Timed"
      /\ Time_First' = IF Time_First = h THEN Next_Cell[h] ELSE Time_First
      /\ Free_Handle(h, IF prev = {} THEN Null ELSE CHOOSE x \in prev : TRUE,
                     Next_Cell[h])
      /\ handle' = [handle EXCEPT ![c] = Null]
      /\ UNCHANGED <<Current_Time, Cb, allocated, listVars, First_Timeout, walkVars>>

-----------------------------------------------------------------------------
(* Call_Callbacks.                                                           *)

Start_Callbacks ==
  /\ walk = "none" /\ First # Null
  /\ walk' = "list" /\ Cur' = First /\ Prev' = Null /\ Final' = Last
  /\ UNCHANGED <<Current_Time, Cb, linkVars, allocated, listVars, timeListVars,
                 handle, running>>

Call_Callback ==
  /\ walk = "list" /\ running = Nobody /\ Cb[Cur].Proc # Nop
  /\ running' = Cb[Cur].Proc
  /\ UNCHANGED <<Current_Time, Cb, linkVars, allocated, listVars, timeListVars,
                 handle, walk, Cur, Prev, Final>>

(* Seeded fault: the walk goes on to the end of the list.                    *)
Is_Final_Cell_Null(next) == next = Null

(* Newly appended cells are not executed.                                    *)
Is_Final_Cell(next) == Cur = Final

(* Seeded fault: Last is not updated when the last cell leaves.              *)
New_Last_Kept(next) == Last

New_Last(next) == IF next = Null THEN Prev ELSE Last

(* The callback (or Nop_Callback) has returned: a one-shot cell leaves the   *)
(* list, and the walk goes on until it has treated the final cell.           *)
Next_Callback ==
  LET next == Next_Cell[Cur]
      end == Is_Final_Cell(next)
  IN  /\ walk = "list" /\ (running = Nobody => Cb[Cur].Proc = Nop)
      /\ IF Cb[Cur].Mode = "Oneshot"
         THEN /\ First' = IF Prev = Null THEN next ELSE First
              /\ Last' = New_Last(next)
              /\ Free_Handle(Cur, Prev, next)
              /\ Prev' = IF end THEN Null ELSE Prev
              /\ handle' = [c \in Callback |-> IF c = running THEN Null ELSE handle[c]]
         ELSE /\ Prev' = IF end THEN Null ELSE Cur
              /\ UNCHANGED <<listVars, linkVars, handle>>
      /\ running' = Nobody
      /\ walk' = IF end THEN "none" ELSE "list"
      /\ Cur' = IF end THEN Null ELSE next
      /\ Final' = IF end THEN Null ELSE Final
      /\ UNCHANGED <<Current_Time, Cb, allocated, timeListVars>>

-----------------------------------------------------------------------------
(* Call_Time_Callbacks, at the start of a simulation cycle.                  *)

Start_Time_Callbacks ==
  /\ walk = "none" /\ Current_Time = First_Timeout
  /\ walk' = "time"
  /\ UNCHANGED <<Current_Time, Cb, linkVars, allocated, listVars, timeListVars,
                 handle, Cur, Prev, Final, running>>

(* The first cell is recycled, then its callback is called.                  *)
Call_Time_Callback ==
  LET h == Time_First
  IN  /\ walk = "time" /\ running = Nobody
      /\ h # Null /\ Cb[h].T <= Current_Time
      /\ Time_First' = Next_Cell[h]
      /\ Free_Handle(h, Null, Null)
      /\ running' = IF Cb[h].Proc = Nop THEN Nobody ELSE Cb[h].Proc
      /\ UNCHANGED <<Current_Time, Cb, allocated, listVars, First_Timeout, handle,
                     walk, Cur, Prev, Final>>

(* It returns; VPI frees its handle.                                         *)
Return_Time_Callback ==
  /\ walk = "time" /\ running # Nobody
  /\ handle' = [handle EXCEPT ![running] = Null]
  /\ running' = Nobody
  /\ UNCHANGED <<Current_Time, Cb, linkVars, allocated, listVars, timeListVars,
                 walk, Cur, Prev, Final>>

(* Seeded fault: an empty list has no (a negative) time.                     *)
First_Time_Negative == IF Time_First = Null THEN -1 ELSE Cb[Time_First].T

First_Time == IF Time_First = Null THEN Last_Time ELSE Cb[Time_First].T

(* No more callbacks for the current time.                                   *)
End_Time_Callbacks ==
  /\ walk = "time" /\ running = Nobody
  /\ Time_First # Null => Cb[Time_First].T > Current_Time
  /\ First_Timeout' = First_Time
  /\ walk' = "none"
  /\ UNCHANGED <<Current_Time, Cb, linkVars, allocated, listVars, Time_First,
                 handle, Cur, Prev, Final, running>>

(* The simulation cycle advances the time, to Get_First_Time at most.        *)
Advance(t) ==
  /\ walk = "none"
  /\ Current_Time' = t
  /\ UNCHANGED <<Cb, linkVars, allocated, listVars, timeListVars, handle, walkVars>>

-----------------------------------------------------------------------------
User_Step ==
  \E c \in Callback :
    \/ \E mode \in {"Repeat", "Oneshot"} : Register_Callback(c, mode)
    \/ \E t \in Time : Register_Callback_At(c, t)
    \/ Delete_Callback(c)
    \/ Unregister_Callback_At(c)

Walk_Step == Call_Callback \/ Next_Callback

Next ==
  \/ User_Step
  \/ Start_Callbacks \/ Walk_Step
  \/ Start_Time_Callbacks \/ Call_Time_Callback \/ Return_Time_Callback
  \/ End_Time_Callbacks
  \/ \E t \in (Current_Time + 1) .. First_Timeout : Advance(t)

Spec == Init /\ [][Next]_vars

(* Every callback returns to the loop that called it, which goes on.         *)
FairSpec == Spec /\ WF_vars(Walk_Step)

-----------------------------------------------------------------------------
(* Properties.                                                               *)

(* The type of every variable.                                               *)
TypeOK ==
  /\ Current_Time \in Time /\ First_Timeout \in Time
  /\ Cb \in [Cell -> Cb_Cell] /\ Next_Cell \in [Cell -> Handle]
  /\ allocated \in 0 .. Max_Cells
  /\ {Recycled_Handles, First, Last, Time_First, Cur, Prev, Final} \subseteq Handle
  /\ handle \in [Callback -> Handle]
  /\ walk \in {"none", "list", "time"}
  /\ running \in Callback \cup {Nobody}

(* Register_Callback and Call_Callbacks agree on where the list ends; the    *)
(* cell at which a walk stops is still ahead of it, Prev_Cell right behind.  *)
ListEnds ==
  LET list == Chain(First)
  IN  /\ Last = IF list = << >> THEN Null ELSE list[Len(list)]
      /\ walk = "list" =>
           \E i, j \in 1 .. Len(list) :
             /\ list[i] = Cur /\ list[j] = Final /\ i <= j
             /\ Prev = IF i = 1 THEN Null ELSE list[i - 1]

(* Every cell ever allocated is on exactly one of the two lists or on the    *)
(* list of recycled cells, once: no link is lost, no cell is freed twice and *)
(* none is on a list while it is free, although callbacks append and remove  *)
(* cells of the very list that is walked; and the ends of the list are right.*)
HeapSound ==
  LET all == Chain(First) \o Chain(Time_First) \o Chain(Recycled_Handles)
  IN  /\ {all[i] : i \in 1 .. Len(all)} = 1 .. allocated
      /\ Len(all) = allocated
      /\ ListEnds

(* A cell marked as deleted is not a callback any more, nor is the one-shot  *)
(* cell whose callback is running.                                           *)
Live ==
  {x \in Cell : Cb[x].Proc # Nop
                  /\ ~(running # Nobody /\ x = Cur /\ Cb[x].Mode = "Oneshot")}

Queue(s) ==
  LET live == Only(s, Live)
  IN  [i \in 1 .. Len(live) |->
        [cb |-> Cb[live[i]].Proc, once |-> Cb[live[i]].Mode = "Oneshot"]]

Timed_Queue(s) ==
  LET live == Only(s, Live)
  IN  [i \in 1 .. Len(live) |-> [cb |-> Cb[live[i]].Proc, at |-> Cb[live[i]].T]]

(* The cells of the walk whose callbacks are still to be called.             *)
To_Call ==
  LET list == Chain(First)
      at(c) == CHOOSE i \in 1 .. Len(list) : list[i] = c
  IN  IF walk # "list" THEN << >>
      ELSE SubSeq(list, IF running = Nobody THEN at(Cur) ELSE at(Cur) + 1, at(Final))

(* Users see the queues of CallbackQueue: each callback is called in order,  *)
(* in the calls of the list that begin after its registration, once if it is *)
(* one-shot, at its time if it is timed, and never after its removal.        *)
Promise == INSTANCE CallbackQueue WITH
  Horizon <- Last_Time,
  now <- Current_Time,
  queue <- Queue(Chain(First)),
  todo <- Queue(To_Call),
  timed <- Timed_Queue(Chain(Time_First))

ImplementsQueue == Promise!Spec

(* A call of the list comes to its end even if every callback registers      *)
(* another one.                                                              *)
WalkEnds == walk = "list" ~> walk # "list"
=============================================================================
