--------------------------- MODULE ProcessesProofs ---------------------------
(***************************************************************************)
(* Theorems about the scheduler of Processes, for any set of processes,    *)
(* any delays and any signal activity: its invariants, and that it         *)
(* implements SimulationCycle.                                             *)
(***************************************************************************)
EXTENDS Processes, TLAPS, WellFoundedInduction, FiniteSetTheorems, SequenceTheorems

(* Sets of times have an earliest element.                                   *)
LEMMA EarliestProperty ==
  ASSUME NEW S \in SUBSET Nat, S # {}
  PROVE  /\ Earliest(S) \in S
         /\ \A u \in S : Earliest(S) <= u
<1>. DEFINE R == {ss \in Nat \X Nat : ss[1] < ss[2]}
<1>1. IsWellFoundedOn(R, Nat)
  BY NatLessThanWellFounded DEF OpToRel
<1>2. \E n \in S : \A m \in S : ~ (<<m, n>> \in R)
  BY <1>1, WFMin, Zenon
<1>3. \E n \in S : \A m \in S : n <= m
  <2>1. PICK n \in S : \A m \in S : ~ (<<m, n>> \in R)
    BY <1>2
  <2>2. ASSUME NEW m \in S PROVE n <= m
    <3>1. n \in Nat /\ m \in Nat
      OBVIOUS
    <3>2. m < n => <<m, n>> \in R
      BY <3>1
    <3>. QED
      BY <2>1, <3>1, <3>2
  <2>. QED
    BY <2>2
<1>. QED
  BY <1>3 DEF Earliest

(* The timeouts that Wait_Close compares are times.                          *)
LEMMA PendingTimeoutsAreTimes ==
  ASSUME TypeOK, NEW p \in Proc
  PROVE  /\ Pending_Timeouts(p) \cup {Last_Time} \in SUBSET Time
         /\ Earliest(Pending_Timeouts(p) \cup {Last_Time}) \in Time
<1>1. Pending_Timeouts(p) \cup {Last_Time} \in SUBSET Time
  BY TimeAssumption DEF TypeOK, Pending_Timeouts, Time, Bad_Time
<1>2. Pending_Timeouts(p) \cup {Last_Time} \in SUBSET Nat
  BY <1>1, TimeAssumption DEF Time
<1>. QED
  BY <1>1, <1>2, EarliestProperty

(* Resume_Process keeps the types of the tables.                             *)
LEMMA ResumeType ==
  ASSUME TypeOK, NEW p \in Proc, Resume_Process(p)
  PROVE  /\ Resumed' \in [Proc -> BOOLEAN]
         /\ Resume_Process_Table' \in Seq(Nonpostponed)
         /\ Postponed_Resume_Process_Table' \in Seq(Postponed)
  BY DEF TypeOK, Resume_Process, Nonpostponed

(* A timeout that does not overflow is a time, and keeps the types.          *)
LEMMA TimeoutType ==
  ASSUME TypeOK, NEW p \in Proc, NEW d \in Delays, ~Overflows(d),
         Update_Process_First_Timeout(p, Current_Time + d)
  PROVE  /\ Current_Time + d \in Time
         /\ Timeout' \in [Proc -> Time \cup {Bad_Time}]
         /\ Process_Timeout_Chain' \subseteq Proc
         /\ Process_First_Timeout' \in Time
<1>1. Current_Time + d \in Time
  BY TimeAssumption DEF TypeOK, Overflows, Time
<1>. QED
  BY <1>1 DEF TypeOK, Update_Process_First_Timeout

(* TypeOK is inductive, one step per action of the kernel and of a process.  *)
LEMMA TypeInit == Init => TypeOK
<1>1. 0 \in Time /\ Last_Time \in Time
  BY TimeAssumption DEF Time
<1>2. << >> \in Seq(Proc) /\ << >> \in Seq(Nonpostponed) /\ << >> \in Seq(Postponed)
  OBVIOUS
<1>. QED
  BY <1>1, <1>2, ProcAssumption DEF Init, TypeOK, ProcessState, Phase

LEMMA TypeKernel == TypeOK /\ Kernel_Step => TypeOK'
<1>. SUFFICES ASSUME TypeOK, Kernel_Step PROVE TypeOK'
  OBVIOUS
<1>. USE DEF timeVars, waitVars, tableVars, runVars, Phase, ProcessState
<1>0. /\ Last_Time \in Time
      /\ << >> \in Seq(Proc) /\ << >> \in Seq(Nonpostponed) /\ << >> \in Seq(Postponed)
      /\ Nonpostponed \subseteq Proc /\ Postponed \subseteq Proc
  BY TimeAssumption, ProcAssumption DEF Time, Nonpostponed
<1>1. ASSUME NEW p \in Proc, Elab_Resume(p) PROVE TypeOK'
  BY <1>1, ResumeType DEF Elab_Resume, TypeOK
<1>2. CASE Elab_Run
  BY <1>2, <1>0, SeqMonotonic DEF Elab_Run, Take_Table, TypeOK
<1>3. ASSUME NEW evs \in SUBSET Signal, Start_Cycle(evs) PROVE TypeOK'
  BY <1>3 DEF Start_Cycle, TypeOK
<1>4. ASSUME NEW sig \in Signal, Signal_Event(sig) PROVE TypeOK'
  BY <1>4 DEF Signal_Event, Event_List, TypeOK
<1>5. ASSUME NEW p \in Proc, Event_Resume(p) PROVE TypeOK'
  BY <1>5, ResumeType DEF Event_Resume, TypeOK
<1>6. CASE Start_Wake
  BY <1>6, <1>0 DEF Start_Wake, TypeOK
<1>7. CASE No_Wake
  BY <1>7, <1>0, SeqMonotonic DEF No_Wake, Take_Table, TypeOK
<1>8. ASSUME NEW p \in Proc, Wake_Delayed(p) PROVE TypeOK'
  BY <1>8, ResumeType DEF Wake_Delayed, TypeOK
<1>9. ASSUME NEW p \in Proc, Wake_Wait(p) PROVE TypeOK'
  BY <1>9, ResumeType DEF Wake_Wait, TypeOK
<1>10. ASSUME NEW p \in Proc, Wake_Skip(p) PROVE TypeOK'
  <2>1. Tn' \in Time
    BY <1>10 DEF Wake_Skip, TypeOK, Bad_Time
  <2>. QED
    BY <1>10, <2>1 DEF Wake_Skip, TypeOK
<1>11. ASSUME NEW p \in Proc, Wake_Error(p) PROVE TypeOK'
  BY <1>11 DEF Wake_Error, TypeOK
<1>12. CASE End_Wake
  BY <1>12, <1>0, SeqMonotonic DEF End_Wake, Take_Table, TypeOK
<1>13. CASE Call_Process
  <2>1. Head(table) \in Proc /\ Tail(table) \in Seq(Proc)
    BY <1>13, HeadTailProperties DEF Call_Process, TypeOK
  <2>. QED
    BY <1>13, <2>1 DEF Call_Process, TypeOK
<1>14. CASE Elab_Run_Postponed
  BY <1>14, <1>0, SeqMonotonic DEF Elab_Run_Postponed, Take_Postponed_Table, TypeOK
<1>15. CASE End_Run
  BY <1>15 DEF End_Run, TypeOK
<1>16. ASSUME NEW t \in Current_Time .. Last_Time
       PROVE  t \in Time /\ Compute_Next_Time(t) \in Time
  BY TimeAssumption DEF TypeOK, Time, Compute_Next_Time
<1>17. ASSUME NEW t \in Current_Time .. Last_Time, Elab_Next_Time(t) PROVE TypeOK'
  BY <1>16, <1>17 DEF Elab_Next_Time, TypeOK
<1>18. ASSUME NEW t \in Current_Time .. Last_Time, Delta_Cycle(t) PROVE TypeOK'
  BY <1>16, <1>18 DEF Delta_Cycle, TypeOK
<1>19. ASSUME NEW t \in Current_Time .. Last_Time, End_Time_Step(t) PROVE TypeOK'
  <2>1. Tn' \in Time
    BY <1>16, <1>19 DEF End_Time_Step, Finish_Time_Step
  <2>. QED
    BY <1>19, <2>1 DEF End_Time_Step, Finish_Time_Step, TypeOK
<1>20. ASSUME NEW t \in Current_Time .. Last_Time, Run_Postponed(t) PROVE TypeOK'
  BY <1>16, <1>20, <1>0, SeqMonotonic DEF Run_Postponed, Take_Postponed_Table, TypeOK
<1>21. ASSUME NEW t \in Current_Time .. Last_Time, End_Postponed(t) PROVE TypeOK'
  <2>1. Tn' \in Time
    BY <1>16, <1>21 DEF End_Postponed, Finish_Time_Step
  <2>. QED
    BY <1>21, <2>1 DEF End_Postponed, Finish_Time_Step, TypeOK
<1>22. ASSUME NEW t \in Current_Time .. Last_Time, Postponed_Delta_Error(t) PROVE TypeOK'
  BY <1>16, <1>22 DEF Postponed_Delta_Error, TypeOK
<1>23. CASE Main_Loop
  BY <1>23 DEF Main_Loop, TypeOK
<1>. QED
  BY <1>1, <1>2, <1>3, <1>4, <1>5, <1>6, <1>7, <1>8, <1>9, <1>10, <1>11, <1>12,
     <1>13, <1>14, <1>15, <1>17, <1>18, <1>19, <1>20, <1>21, <1>22, <1>23
     DEF Kernel_Step

LEMMA TypeProcess ==
  ASSUME TypeOK, NEW p \in Proc, Process_Step(p)
  PROVE  TypeOK'
<1>. USE DEF timeVars, waitVars, tableVars, runVars, ProcessState
<1>1. ASSUME NEW d \in Delays, Ghdl_Process_Wait_Timeout(p, d) PROVE TypeOK'
  <2>1. CASE Overflows(d)
    <3>1. Last_Time \in Time
      BY TimeAssumption DEF Time
    <3>. QED
      BY <1>1, <2>1, <3>1 DEF Ghdl_Process_Wait_Timeout, Suspend, TypeOK
  <2>2. CASE ~Overflows(d)
    BY <1>1, <2>2, TimeoutType DEF Ghdl_Process_Wait_Timeout, Suspend, TypeOK
  <2>. QED
    BY <2>1, <2>2
<1>2. ASSUME NEW sigs \in SUBSET Signal, Wait_On(p, sigs) PROVE TypeOK'
  BY <1>2 DEF Wait_On, Suspend, TypeOK
<1>3. ASSUME NEW sigs \in SUBSET Signal, NEW d \in Delays, Wait_On_For(p, sigs, d)
      PROVE  TypeOK'
  <2>1. CASE Overflows(d)
    BY <1>3, <2>1 DEF Wait_On_For, Set_Timeout, Suspend, TypeOK
  <2>2. CASE ~Overflows(d)
    BY <1>3, <2>2, TimeoutType DEF Wait_On_For, Set_Timeout, Suspend, TypeOK
  <2>. QED
    BY <2>1, <2>2
<1>4. CASE Ghdl_Process_Wait_Exit(p)
  BY <1>4 DEF Ghdl_Process_Wait_Exit, Suspend, TypeOK
<1>5. CASE Sensitized_Return(p) \/ Condition_False(p)
  BY <1>5 DEF Sensitized_Return, Condition_False, Suspend, TypeOK
<1>6. CASE Ghdl_Process_Wait_Close(p)
  BY <1>6, PendingTimeoutsAreTimes DEF Ghdl_Process_Wait_Close, TypeOK
<1>. QED
  BY <1>1, <1>2, <1>3, <1>4, <1>5, <1>6 DEF Process_Step

LEMMA TypeStep == TypeOK /\ [Next]_vars => TypeOK'
<1>. SUFFICES ASSUME TypeOK, [Next]_vars PROVE TypeOK'
  OBVIOUS
<1>1. CASE UNCHANGED vars
  BY <1>1 DEF vars, timeVars, waitVars, tableVars, runVars, TypeOK
<1>. QED
  BY <1>1, TypeKernel, TypeProcess DEF Next

(* Every variable keeps its type: in particular every time the scheduler     *)
(* computes, however close to Std_Time'Last, is a time.                      *)
THEOREM TypeCorrect == Spec => []TypeOK
  BY TypeInit, TypeStep, PTL DEF Spec
-----------------------------------------------------------------------------
(* Lemmas about tables, which are sequences without repetition.              *)
LEMMA EmptyTable == Distinct(<< >>) /\ Entries(<< >>) = {}
  BY DEF Distinct, Entries

LEMMA AppendTable ==
  ASSUME NEW S, NEW s \in Seq(S), NEW x \in S, Distinct(s), x \notin Entries(s)
  PROVE  /\ Distinct(Append(s, x))
         /\ Entries(Append(s, x)) = Entries(s) \cup {x}
<1>1. /\ Len(Append(s, x)) = Len(s) + 1 /\ Len(s) \in Nat
      /\ Append(s, x)[Len(s) + 1] = x
      /\ \A i \in 1 .. Len(s) : Append(s, x)[i] = s[i]
  OBVIOUS
<1>2. Entries(Append(s, x)) = Entries(s) \cup {x}
  <2>1. ASSUME NEW y \in Entries(s) PROVE y \in Entries(Append(s, x))
    BY <1>1 DEF Entries
  <2>2. x \in Entries(Append(s, x))
    BY <1>1 DEF Entries
  <2>3. ASSUME NEW y \in Entries(Append(s, x)) PROVE y \in Entries(s) \cup {x}
    <3>1. PICK i \in 1 .. Len(s) + 1 : y = Append(s, x)[i]
      BY <1>1 DEF Entries
    <3>2. CASE i = Len(s) + 1
      BY <1>1, <3>1, <3>2
    <3>3. CASE i \in 1 .. Len(s)
      BY <1>1, <3>1, <3>3 DEF Entries
    <3>. QED
      BY <1>1, <3>2, <3>3
  <2>. QED
    BY <2>1, <2>2, <2>3
<1>3. Distinct(Append(s, x))
  BY <1>1 DEF Distinct, Entries
<1>. QED
  BY <1>2, <1>3

LEMMA TailTable ==
  ASSUME NEW S, NEW s \in Seq(S), s # << >>, Distinct(s)
  PROVE  /\ Distinct(Tail(s))
         /\ Head(s) \in Entries(s)
         /\ Entries(Tail(s)) = Entries(s) \ {Head(s)}
<1>1. /\ Len(s) \in Nat \ {0} /\ Len(Tail(s)) = Len(s) - 1
      /\ Head(s) = s[1]
      /\ \A i \in 1 .. Len(Tail(s)) : Tail(s)[i] = s[i + 1]
  BY HeadTailProperties, EmptySeq
<1>2. Distinct(Tail(s))
  BY <1>1 DEF Distinct
<1>3. Head(s) \in Entries(s)
  BY <1>1 DEF Entries
<1>4. ASSUME NEW y \in Entries(Tail(s)) PROVE y \in Entries(s) \ {Head(s)}
  <2>1. PICK i \in 1 .. Len(Tail(s)) : y = s[i + 1]
    BY <1>1 DEF Entries
  <2>2. i + 1 \in 1 .. Len(s) /\ i + 1 # 1 /\ 1 \in 1 .. Len(s)
    BY <1>1, <2>1
  <2>. QED
    BY <1>1, <2>1, <2>2 DEF Distinct, Entries
<1>5. ASSUME NEW y \in Entries(s) \ {Head(s)} PROVE y \in Entries(Tail(s))
  <2>1. PICK i \in 1 .. Len(s) : y = s[i]
    BY DEF Entries
  <2>2. i # 1 /\ i - 1 \in 1 .. Len(Tail(s)) /\ (i - 1) + 1 = i
    BY <1>1, <2>1
  <2>. QED
    BY <1>1, <2>1, <2>2 DEF Entries
<1>. QED
  BY <1>2, <1>3, <1>4, <1>5

(* A table without repetition is no longer than the number of processes.     *)
LEMMA TableLength ==
  ASSUME NEW S, IsFiniteSet(S), NEW s \in Seq(S), Distinct(s)
  PROVE  Len(s) <= Cardinality(S)
<1>1. Len(s) \in Nat /\ s \in [1 .. Len(s) -> S]
  BY LenProperties
<1>2. IsFiniteSet(1 .. Len(s)) /\ Cardinality(1 .. Len(s)) = Len(s)
  BY <1>1, FS_Interval
<1>3. s \in Injection(1 .. Len(s), S)
  BY <1>1 DEF Distinct, Injection, IsInjective
<1>. QED
  BY <1>2, <1>3, FS_Injection DEF ExistsInjection

-----------------------------------------------------------------------------
(* The inductive invariant of the resume tables: between two runs there is   *)
(* no table being walked and no current process, so that taking a table      *)
(* never drops what is left of another one.                                  *)
TablesInv ==
  /\ TypeOK
  /\ ResumeTablesSound
  /\ phase \notin {"run", "postponed", "internal_error"} =>
       table = << >> /\ Current_Process = No_Process

LEMMA TablesInit == Init => TablesInv
<1>. SUFFICES ASSUME Init PROVE TablesInv
  OBVIOUS
<1>1. TypeOK
  BY TypeInit
<1>2. ResumeTablesSound
  BY EmptyTable DEF Init, ResumeTablesSound
<1>. QED
  BY <1>1, <1>2 DEF Init, TablesInv

(* Resuming a process, whether it is resumed already or not.                 *)
LEMMA TablesResume ==
  ASSUME TypeOK, ResumeTablesSound, NEW p \in Proc, Resume_Process(p),
         UNCHANGED table
  PROVE  ResumeTablesSound'
<1>0. Resumed' = [Resumed EXCEPT ![p] = TRUE] /\ Resumed \in [Proc -> BOOLEAN]
  BY DEF Resume_Process, TypeOK
<1>1. CASE Resumed[p]
  <2>1. Resumed' = Resumed
    BY <1>0, <1>1
  <2>2. UNCHANGED <<Resume_Process_Table, Postponed_Resume_Process_Table>>
    BY <1>1 DEF Resume_Process
  <2>. QED
    BY <2>1, <2>2 DEF ResumeTablesSound
<1>2. CASE ~Resumed[p] /\ p \in Postponed
  <2>0. /\ Postponed_Resume_Process_Table' = Append(Postponed_Resume_Process_Table, p)
        /\ Resume_Process_Table' = Resume_Process_Table
        /\ Postponed_Resume_Process_Table \in Seq(Postponed)
    BY <1>2 DEF Resume_Process, TypeOK
  <2>1. p \notin Entries(Postponed_Resume_Process_Table) /\ p \notin Entries(table)
    BY <1>2 DEF ResumeTablesSound
  <2>2. /\ Distinct(Postponed_Resume_Process_Table')
        /\ Entries(Postponed_Resume_Process_Table')
             = Entries(Postponed_Resume_Process_Table) \cup {p}
    BY <1>2, <2>0, <2>1, AppendTable DEF ResumeTablesSound
  <2>. QED
    BY <1>0, <2>0, <2>1, <2>2 DEF ResumeTablesSound
<1>3. CASE ~Resumed[p] /\ p \notin Postponed
  <2>0. /\ Resume_Process_Table' = Append(Resume_Process_Table, p)
        /\ Postponed_Resume_Process_Table' = Postponed_Resume_Process_Table
        /\ Resume_Process_Table \in Seq(Nonpostponed) /\ p \in Nonpostponed
    BY <1>3 DEF Resume_Process, TypeOK, Nonpostponed
  <2>1. p \notin Entries(Resume_Process_Table) /\ p \notin Entries(table)
    BY <1>3 DEF ResumeTablesSound
  <2>2. /\ Distinct(Resume_Process_Table')
        /\ Entries(Resume_Process_Table') = Entries(Resume_Process_Table) \cup {p}
    BY <1>3, <2>0, <2>1, AppendTable DEF ResumeTablesSound
  <2>. QED
    BY <1>0, <2>0, <2>1, <2>2 DEF ResumeTablesSound
<1>. QED
  BY <1>1, <1>2, <1>3

(* Run_Processes takes a table when no other is being walked.                *)
LEMMA TablesTake ==
  ASSUME TypeOK, ResumeTablesSound, table = << >>,
         Take_Table \/ Take_Postponed_Table
  PROVE  ResumeTablesSound'
<1>0. Entries(Resume_Process_Table) \cap Entries(Postponed_Resume_Process_Table) = {}
  <2>1. Entries(Resume_Process_Table) \subseteq Nonpostponed
    BY ElementOfSeq DEF Entries, TypeOK
  <2>2. Entries(Postponed_Resume_Process_Table) \subseteq Postponed
    BY ElementOfSeq DEF Entries, TypeOK
  <2>. QED
    BY <2>1, <2>2 DEF Nonpostponed
<1>1. CASE Take_Table
  <2>1. /\ table' = Resume_Process_Table /\ Resume_Process_Table' = << >>
        /\ UNCHANGED <<Resumed, Postponed_Resume_Process_Table>>
    BY <1>1 DEF Take_Table
  <2>. QED
    BY <1>0, <2>1, EmptyTable DEF ResumeTablesSound
<1>2. CASE Take_Postponed_Table
  <2>1. /\ table' = Postponed_Resume_Process_Table
        /\ Postponed_Resume_Process_Table' = << >>
        /\ UNCHANGED <<Resumed, Resume_Process_Table>>
    BY <1>2 DEF Take_Postponed_Table
  <2>. QED
    BY <1>0, <2>1, EmptyTable DEF ResumeTablesSound
<1>. QED
  BY <1>1, <1>2

(* Run_Processes calls the next process of its table.                        *)
LEMMA TablesCall ==
  ASSUME TypeOK, ResumeTablesSound, Call_Process
  PROVE  ResumeTablesSound' /\ phase' = phase
<1>1. /\ table \in Seq(Proc) /\ table # << >> /\ Distinct(table)
      /\ table' = Tail(table)
      /\ Resumed' = [Resumed EXCEPT ![Head(table)] = FALSE]
      /\ Resumed \in [Proc -> BOOLEAN]
      /\ UNCHANGED <<Resume_Process_Table, Postponed_Resume_Process_Table>>
  BY DEF Call_Process, TypeOK, ResumeTablesSound
<1>2. /\ Distinct(table') /\ Head(table) \in Entries(table)
      /\ Entries(table') = Entries(table) \ {Head(table)}
  BY <1>1, TailTable
<1>3. Head(table) \in Proc /\ Resumed[Head(table)]
  BY <1>1, <1>2, HeadTailProperties DEF ResumeTablesSound
<1>4. ResumeTablesSound'
  BY <1>1, <1>2, <1>3 DEF ResumeTablesSound
<1>. QED
  BY <1>3, <1>4 DEF Call_Process

(* The steps of the kernel that neither fill, take nor walk a table.         *)
Quiet_Step ==
  \/ \E evs \in SUBSET Signal : Start_Cycle(evs)
  \/ \E sig \in Signal : Signal_Event(sig)
  \/ Start_Wake
  \/ \E p \in Proc : Wake_Skip(p) \/ Wake_Error(p)
  \/ End_Run
  \/ \E t \in Current_Time .. Last_Time :
       \/ Elab_Next_Time(t) \/ Delta_Cycle(t) \/ End_Time_Step(t)
       \/ End_Postponed(t) \/ Postponed_Delta_Error(t)
  \/ Main_Loop

LEMMA TablesStep == TablesInv /\ [Next]_vars => TablesInv'
<1>. SUFFICES ASSUME TablesInv, [Next]_vars PROVE TablesInv'
  OBVIOUS
<1>. USE DEF timeVars, waitVars, tableVars, runVars
<1>0. TypeOK /\ TypeOK' /\ ResumeTablesSound
  BY TypeStep DEF TablesInv
<1>. DEFINE Unchanged_Tables == UNCHANGED <<tableVars, table>>
<1>1. Unchanged_Tables => ResumeTablesSound'
  BY <1>0 DEF ResumeTablesSound
<1>2. CASE Quiet_Step
  <2>1. Unchanged_Tables /\ UNCHANGED Current_Process
    BY <1>2 DEF Quiet_Step, Start_Cycle, Signal_Event, Start_Wake, Wake_Skip,
                Wake_Error, End_Run, Elab_Next_Time, Delta_Cycle, End_Time_Step,
                End_Postponed, Finish_Time_Step, Postponed_Delta_Error, Main_Loop
  <2>2. \/ phase' \in {"run", "postponed", "internal_error"}
        \/ phase \notin {"run", "postponed", "internal_error"}
        \/ table = << >> /\ Current_Process = No_Process
    BY <1>2 DEF Quiet_Step, Start_Cycle, Signal_Event, Start_Wake, Wake_Skip,
                Wake_Error, End_Run, Elab_Next_Time, Delta_Cycle, End_Time_Step,
                End_Postponed, Postponed_Delta_Error, Main_Loop
  <2>. QED
    BY <1>0, <1>1, <2>1, <2>2 DEF TablesInv
<1>3. ASSUME NEW p \in Proc,
             Elab_Resume(p) \/ Event_Resume(p) \/ Wake_Delayed(p) \/ Wake_Wait(p)
      PROVE  TablesInv'
  <2>1. /\ Resume_Process(p) /\ UNCHANGED <<table, phase, Current_Process>>
    BY <1>3 DEF Elab_Resume, Event_Resume, Wake_Delayed, Wake_Wait
  <2>. QED
    BY <1>0, <2>1, TablesResume DEF TablesInv
<1>4. ASSUME \/ Elab_Run \/ No_Wake \/ End_Wake \/ Elab_Run_Postponed
             \/ \E t \in Current_Time .. Last_Time : Run_Postponed(t)
      PROVE  TablesInv'
  <2>1. /\ Take_Table \/ Take_Postponed_Table
        /\ \/ phase \in {"elab", "update", "wake", "next"}
           \/ table = << >>
    BY <1>4 DEF Elab_Run, No_Wake, End_Wake, Elab_Run_Postponed, Run_Postponed
  <2>2. table = << >>
    BY <2>1 DEF TablesInv
  <2>3. ResumeTablesSound'
    BY <1>0, <2>1, <2>2, TablesTake
  <2>. QED
    BY <1>0, <2>1, <2>3 DEF TablesInv, Take_Table, Take_Postponed_Table
<1>5. CASE Call_Process
  <2>1. phase \in {"run", "postponed"}
    BY <1>5 DEF Call_Process
  <2>. QED
    BY <1>0, <1>5, <2>1, TablesCall DEF TablesInv
<1>6. ASSUME NEW p \in Proc, Process_Step(p) PROVE TablesInv'
  <2>1. Unchanged_Tables /\ phase' = phase /\ phase \in {"run", "postponed"}
    BY <1>6 DEF Process_Step, Running, Suspend, Ghdl_Process_Wait_Timeout,
                Wait_On, Wait_On_For, Ghdl_Process_Wait_Exit, Sensitized_Return,
                Condition_False, Ghdl_Process_Wait_Close
  <2>. QED
    BY <1>0, <1>1, <2>1 DEF TablesInv
<1>7. CASE UNCHANGED vars
  BY <1>0, <1>1, <1>7 DEF TablesInv, vars
<1>. QED
  BY <1>2, <1>3, <1>4, <1>5, <1>6, <1>7 DEF Next, Kernel_Step, Quiet_Step

(* No resumption is lost or served twice: a process is flagged Resumed       *)
(* exactly when it is in one place of one table still to be run.             *)
THEOREM ResumeTablesCorrect == Spec => []ResumeTablesSound
<1>1. TablesInv => ResumeTablesSound
  BY DEF TablesInv
<1>. QED
  BY <1>1, TablesInit, TablesStep, PTL DEF Spec

(* The resume tables, which the code fills with all run-time checks          *)
(* suppressed, never overflow.                                               *)
THEOREM TablesNeverOverflow == Spec => []TablesFit
<1>1. TablesInv => TablesFit
  <2>1. IsFiniteSet(Nonpostponed) /\ IsFiniteSet(Postponed)
    BY ProcAssumption, FS_Subset DEF Nonpostponed
  <2>. QED
    BY <2>1, TableLength DEF TablesInv, TypeOK, ResumeTablesSound, TablesFit
<1>. QED
  BY <1>1, TablesInit, TablesStep, PTL DEF Spec
-----------------------------------------------------------------------------
(* The inductive invariant of the timeouts.  The cached first timeout can be *)
(* trusted outside the wake loop because Wait_Close recomputes it only for a *)
(* process whose own timeout is later than now: were it equal to now, the    *)
(* timeouts that other processes have just set to now would matter too.      *)

(* T is the earliest timeout of the pending processes in S, or Last_Time.    *)
IsFirst(t, S) ==
  /\ t \in Time
  /\ \A p \in S : Pending(p) => t <= Timeout[p]
  /\ t = Last_Time \/ \E p \in S : Pending(p) /\ t = Timeout[p]

NoTimeoutUnlessWaiting ==
  \A p \in Proc : State[p] \in {"Ready", "Timeout"} => Timeout[p] = Bad_Time

FirstIsFirst ==
  phase \notin {"wake", "internal_error"} => IsFirst(Process_First_Timeout, Proc)

WakeLoop ==
  phase = "wake" =>
    /\ Process_First_Timeout = Current_Time
    /\ walk \subseteq Process_Timeout_Chain
    /\ IsFirst(Tn, Proc \ walk)
    /\ \A p \in Proc \ walk : Pending(p) => Timeout[p] > Current_Time

NotPast == \A p \in Proc : Pending(p) => Current_Time <= Timeout[p]

NextTimeOK ==
  /\ phase \in {"elab", "update", "wake", "run", "next", "postponed", "next2"} =>
       Next_Time = Current_Time
  /\ phase \in {"limit", "cycle"} =>
       Current_Time <= Next_Time /\ Next_Time <= Process_First_Timeout

(* After the wake loop, a process that has yet to run has a later timeout.   *)
RunLater ==
  phase \in {"run", "next", "postponed", "next2"} =>
    \A p \in Proc : Pending(p) /\ (Resumed[p] \/ p = Current_Process) =>
                      Timeout[p] > Current_Time

TimeoutInv ==
  /\ TablesInv
  /\ TimeoutChainSound
  /\ NoTimeoutUnlessWaiting
  /\ FirstIsFirst
  /\ WakeLoop
  /\ NotPast
  /\ NextTimeOK
  /\ RunLater
  /\ phase = "elab" => Process_Timeout_Chain = {}
  /\ Current_Process \in Proc => ~Resumed[Current_Process]

(* A pending timeout is a time.                                              *)
LEMMA PendingTime ==
  ASSUME TypeOK, TimeoutChainSound, NEW p \in Proc, Pending(p)
  PROVE  Timeout[p] \in Time
  BY DEF TypeOK, TimeoutChainSound

(* IsFirst characterises the reference definition of FirstTimeoutExact.      *)
LEMMA FirstIsEarliest ==
  ASSUME TypeOK, TimeoutChainSound, NEW t, IsFirst(t, Proc)
  PROVE  t = Earliest({Timeout[p] : p \in {q \in Proc : Pending(q)}} \cup {Last_Time})
<1>. DEFINE S == {Timeout[p] : p \in {q \in Proc : Pending(q)}} \cup {Last_Time}
<1>1. S \in SUBSET Nat /\ Last_Time \in S
  BY PendingTime, TimeAssumption DEF Time
<1>2. Earliest(S) \in S /\ \A u \in S : Earliest(S) <= u
  <2>. HIDE DEF S
  <2>. QED
    BY <1>1, EarliestProperty
<1>3. t \in S /\ t \in Nat /\ \A u \in S : t <= u
  BY TimeAssumption DEF IsFirst, Time
<1>4. t <= Earliest(S) /\ Earliest(S) <= t /\ Earliest(S) \in Nat
  <2>. HIDE DEF S
  <2>. QED
    BY <1>1, <1>2, <1>3
<1>. QED
  BY <1>3, <1>4

LEMMA TimeoutInit == Init => TimeoutInv
<1>. SUFFICES ASSUME Init PROVE TimeoutInv
  OBVIOUS
<1>1. TablesInv /\ TypeOK
  BY TablesInit, TypeInit
<1>2. Last_Time \in Time
  BY TimeAssumption DEF Time
<1>. QED
  BY <1>1, <1>2, ProcAssumption
     DEF Init, TimeoutInv, TimeoutChainSound, NoTimeoutUnlessWaiting, FirstIsFirst,
         WakeLoop, NotPast, NextTimeOK, RunLater, Pending, IsFirst

(* Steps that leave the wait statements of all processes alone.              *)
LEMMA TimeoutQuiet ==
  ASSUME TimeoutInv, TablesInv', UNCHANGED waitVars
  PROVE  /\ TimeoutChainSound' /\ NoTimeoutUnlessWaiting'
         /\ \A p \in Proc : Pending(p)' = Pending(p)
         /\ \A t, S : IsFirst(t, S)' = IsFirst(t, S)
  BY DEF TimeoutInv, waitVars, TimeoutChainSound, NoTimeoutUnlessWaiting, Pending,
         IsFirst

(* Every step of the kernel outside the wake loop is one of those.           *)
LEMMA TimeoutKernelQuiet ==
  ASSUME TimeoutInv, TablesInv', Kernel_Step, ~End_Wake, UNCHANGED waitVars
  PROVE  TimeoutInv'
<1>. USE DEF timeVars, tableVars, runVars
<1>0. /\ TypeOK /\ TypeOK' /\ TablesInv /\ TimeoutChainSound
      /\ phase \notin {"run", "postponed", "internal_error"} =>
           Current_Process = No_Process
  BY DEF TimeoutInv, TablesInv
<1>1. /\ TimeoutChainSound' /\ NoTimeoutUnlessWaiting'
      /\ \A p \in Proc : Pending(p)' = Pending(p) /\ Timeout'[p] = Timeout[p]
      /\ \A t, S : IsFirst(t, S)' = IsFirst(t, S)
      /\ UNCHANGED <<Process_First_Timeout, Process_Timeout_Chain>>
  BY TimeoutQuiet DEF waitVars
<1>2. \A p \in Proc : Pending(p) => Timeout[p] \in Time
  BY <1>0, PendingTime
<1>. USE <1>0, <1>1 DEF TimeoutInv, FirstIsFirst, WakeLoop, NotPast, NextTimeOK, RunLater
<1>3. ASSUME NEW p \in Proc, Elab_Resume(p) PROVE TimeoutInv'
  BY <1>3, ProcAssumption DEF Elab_Resume
<1>4. CASE Elab_Run
  BY <1>4, ProcAssumption DEF Elab_Run, Take_Table, Pending
<1>5. ASSUME NEW evs \in SUBSET Signal, Start_Cycle(evs) PROVE TimeoutInv'
  <2>1. \A p \in Proc : Pending(p) => Next_Time <= Timeout[p]
    BY <1>2, <1>5 DEF Start_Cycle, IsFirst, Time, TypeOK
  <2>. QED
    BY <1>5, <2>1 DEF Start_Cycle
<1>6. ASSUME NEW sig \in Signal, Signal_Event(sig) PROVE TimeoutInv'
  BY <1>6 DEF Signal_Event
<1>7. ASSUME NEW p \in Proc, Event_Resume(p) PROVE TimeoutInv'
  BY <1>7, ProcAssumption DEF Event_Resume
<1>8. CASE Start_Wake
  <2>1. \A p \in Proc \ Process_Timeout_Chain : ~Pending(p)
    BY DEF Pending
  <2>2. IsFirst(Last_Time, Proc \ Process_Timeout_Chain)
    BY <2>1, TimeAssumption DEF IsFirst, Time
  <2>. QED
    BY <1>8, <2>1, <2>2 DEF Start_Wake
<1>9. CASE No_Wake
  <2>1. IsFirst(Process_First_Timeout, Proc) /\ Current_Time # Process_First_Timeout
    BY <1>9 DEF No_Wake
  <2>2. \A p \in Proc : Pending(p) => Timeout[p] > Current_Time
    <3>1. Current_Time \in Time /\ Process_First_Timeout \in Time
      BY DEF TypeOK
    <3>2. Current_Time < Process_First_Timeout
      BY <2>1, <3>1, TimeAssumption DEF IsFirst, Time
    <3>. QED
      BY <1>2, <2>1, <3>1, <3>2, TimeAssumption DEF IsFirst, Time
  <2>. QED
    BY <1>9, <2>2 DEF No_Wake, Take_Table
<1>10. ASSUME NEW p \in Proc, Wake_Skip(p) PROVE TimeoutInv'
  <2>0. /\ phase = "wake" /\ p \in walk /\ walk' = walk \ {p} /\ walk \subseteq Proc
        /\ Proc \ walk' = (Proc \ walk) \cup {p}
        /\ Tn \in Time /\ Current_Time \in Time
        /\ UNCHANGED <<timeVars, tableVars, runVars, phase, elab>>
    BY <1>10 DEF Wake_Skip, TypeOK
  <2>1. CASE Pending(p)
    <3>1. Timeout[p] \in Time /\ Timeout[p] > Current_Time /\ Timeout[p] > 0
      BY <1>2, <1>10, <2>0, <2>1, TimeAssumption DEF Wake_Skip, Pending, Time
    <3>2. Tn' = IF Timeout[p] < Tn THEN Timeout[p] ELSE Tn
      BY <1>10, <2>1, <3>1 DEF Wake_Skip, Pending
    <3>3. IsFirst(Tn', Proc \ walk')
      BY <1>2, <2>0, <2>1, <3>1, <3>2, TimeAssumption DEF IsFirst, Time
    <3>. QED
      BY <2>0, <3>1, <3>3
  <2>2. CASE ~Pending(p)
    <3>1. State[p] \in {"Delayed", "Wait"} => p \notin Process_Timeout_Chain
      BY <2>2 DEF Pending
    <3>2. Tn' = Tn
      BY <1>10, <2>0, <2>2, <3>1 DEF Wake_Skip, TimeoutChainSound
    <3>. QED
      BY <2>0, <2>2, <3>2 DEF IsFirst
  <2>. QED
    BY <2>1, <2>2
<1>11. ASSUME NEW p \in Proc, Wake_Error(p) PROVE TimeoutInv'
  BY <1>11 DEF Wake_Error
<1>12. CASE Call_Process
  <2>1. /\ table \in Seq(Proc) /\ table # << >> /\ ResumeTablesSound
        /\ phase \in {"run", "postponed"}
    BY <1>12 DEF Call_Process, TypeOK, TablesInv
  <2>2. Head(table) \in Proc /\ Resumed[Head(table)] /\ phase' = phase
    BY <1>12, <2>1, TablesCall, HeadTailProperties DEF Call_Process, ResumeTablesSound
  <2>3. /\ Resumed' = [Resumed EXCEPT ![Head(table)] = FALSE]
        /\ Current_Process' = Head(table) /\ Resumed \in [Proc -> BOOLEAN]
        /\ UNCHANGED <<timeVars, elab, walk, Tn>>
    BY <1>12 DEF Call_Process, TypeOK
  <2>. QED
    BY <2>1, <2>2, <2>3
<1>13. CASE Elab_Run_Postponed
  BY <1>13 DEF Elab_Run_Postponed, Take_Postponed_Table
<1>14. CASE End_Run
  BY <1>14 DEF End_Run
<1>15. ASSUME NEW t \in Current_Time .. Last_Time, phase \in {"next", "next2"}
       PROVE  /\ Compute_Next_Time(t) <= Process_First_Timeout
              /\ Current_Time <= Compute_Next_Time(t)
  <2>1. Current_Time <= Process_First_Timeout
    BY <1>2, <1>15, TimeAssumption DEF IsFirst, Time, TypeOK
  <2>. QED
    BY <1>15, <2>1, TimeAssumption DEF Compute_Next_Time, TypeOK, Time
<1>16. ASSUME NEW t \in Current_Time .. Last_Time, Elab_Next_Time(t) PROVE TimeoutInv'
  BY <1>15, <1>16 DEF Elab_Next_Time
<1>17. ASSUME NEW t \in Current_Time .. Last_Time, Delta_Cycle(t) PROVE TimeoutInv'
  BY <1>15, <1>17, TimeAssumption DEF Delta_Cycle, TypeOK, Time
<1>18. ASSUME NEW t \in Current_Time .. Last_Time, End_Time_Step(t) PROVE TimeoutInv'
  <2>1. Next_Time' <= Process_First_Timeout /\ Current_Time <= Next_Time'
    BY <1>15, <1>18 DEF End_Time_Step, Finish_Time_Step
  <2>. QED
    BY <1>18, <2>1 DEF End_Time_Step, Finish_Time_Step
<1>19. ASSUME NEW t \in Current_Time .. Last_Time, Run_Postponed(t) PROVE TimeoutInv'
  BY <1>19 DEF Run_Postponed, Take_Postponed_Table
<1>20. ASSUME NEW t \in Current_Time .. Last_Time, End_Postponed(t) PROVE TimeoutInv'
  <2>1. Next_Time' <= Process_First_Timeout /\ Current_Time <= Next_Time'
    BY <1>15, <1>20 DEF End_Postponed, Finish_Time_Step
  <2>. QED
    BY <1>20, <2>1 DEF End_Postponed, Finish_Time_Step
<1>21. ASSUME NEW t \in Current_Time .. Last_Time, Postponed_Delta_Error(t)
       PROVE  TimeoutInv'
  BY <1>21 DEF Postponed_Delta_Error
<1>22. CASE Main_Loop
  BY <1>22 DEF Main_Loop
<1>23. ASSUME NEW p \in Proc, Wake_Delayed(p) \/ Wake_Wait(p) PROVE FALSE
  BY <1>23 DEF Wake_Delayed, Wake_Wait, waitVars, TypeOK
<1>. QED
  BY <1>3, <1>4, <1>5, <1>6, <1>7, <1>8, <1>9, <1>10, <1>11, <1>12, <1>13, <1>14,
     <1>16, <1>17, <1>18, <1>19, <1>20, <1>21, <1>22, <1>23 DEF Kernel_Step

(* The loop of Simulation_Cycle wakes a process: it is no longer pending, so *)
(* what the loop has still to visit is unchanged.                            *)
LEMMA TimeoutWake ==
  ASSUME TimeoutInv, TablesInv', NEW p \in Proc, Wake_Delayed(p) \/ Wake_Wait(p)
  PROVE  TimeoutInv'
<1>. USE DEF timeVars, tableVars, runVars
<1>0. /\ TypeOK /\ TablesInv
      /\ phase = "wake" /\ p \in walk /\ State[p] \in {"Delayed", "Wait"}
      /\ State' = [State EXCEPT ![p] = IF @ = "Delayed" THEN "Ready" ELSE "Timeout"]
      /\ Timeout' = [Timeout EXCEPT ![p] = Bad_Time]
      /\ State[p] = "Delayed" => Process_Timeout_Chain' = Process_Timeout_Chain \ {p}
      /\ State[p] = "Wait" => Process_Timeout_Chain' = Process_Timeout_Chain
      /\ walk' = walk \ {p}
      /\ UNCHANGED <<timeVars, Process_First_Timeout, runVars, phase, Tn>>
      /\ State \in [Proc -> ProcessState] /\ Timeout \in [Proc -> Time \cup {Bad_Time}]
      /\ walk \subseteq Proc /\ Process_Timeout_Chain \subseteq Proc
  BY DEF TimeoutInv, TablesInv, TypeOK, Wake_Delayed, Wake_Wait
<1>1. /\ ~Pending(p)'
      /\ Timeout'[p] = Bad_Time
      /\ \A q \in Proc \ {p} : /\ Pending(q)' <=> Pending(q)
                               /\ Timeout'[q] = Timeout[q]
                               /\ State'[q] = State[q]
                               /\ q \in Process_Timeout_Chain' <=> q \in Process_Timeout_Chain
  BY <1>0 DEF Pending
<1>2. TimeoutChainSound' /\ NoTimeoutUnlessWaiting'
  BY <1>0, <1>1 DEF TimeoutInv, WakeLoop, TimeoutChainSound, NoTimeoutUnlessWaiting, Pending
<1>3. WakeLoop'
  <2>1. /\ IsFirst(Tn, Proc \ walk) /\ walk \subseteq Process_Timeout_Chain
        /\ \A q \in Proc \ walk : Pending(q) => Timeout[q] > Current_Time
        /\ Process_First_Timeout = Current_Time
    BY <1>0 DEF TimeoutInv, WakeLoop
  <2>2. Proc \ walk' = (Proc \ walk) \cup {p}
    BY <1>0
  <2>3. IsFirst(Tn, Proc \ walk)'
    BY <1>0, <1>1, <2>1, <2>2 DEF IsFirst
  <2>. QED
    BY <1>0, <1>1, <2>1, <2>2, <2>3 DEF WakeLoop
<1>4. NotPast' /\ NextTimeOK'
  BY <1>0, <1>1 DEF TimeoutInv, NotPast, NextTimeOK
<1>5. Current_Process \notin Proc
  BY <1>0, ProcAssumption DEF TablesInv
<1>. QED
  BY <1>0, <1>2, <1>3, <1>4, <1>5 DEF TimeoutInv, FirstIsFirst, RunLater

(* The end of the loop: all that is pending is later than now, and Tn is the *)
(* earliest of it.                                                           *)
LEMMA TimeoutEndWake ==
  ASSUME TimeoutInv, TablesInv', End_Wake
  PROVE  TimeoutInv'
<1>. USE DEF timeVars, tableVars, runVars
<1>0. /\ phase = "wake" /\ walk = {} /\ phase' = "run"
      /\ Process_First_Timeout' = Tn
      /\ UNCHANGED <<timeVars, State, Timeout, Process_Timeout_Chain, walk, Tn,
                     Current_Process, Resumed>>
  BY DEF End_Wake, Take_Table
<1>1. /\ IsFirst(Tn, Proc)
      /\ \A q \in Proc : Pending(q) => Timeout[q] > Current_Time
  BY <1>0 DEF TimeoutInv, WakeLoop
<1>2. \A q \in Proc : Pending(q)' <=> Pending(q)
  BY <1>0 DEF Pending
<1>3. TimeoutChainSound' /\ NoTimeoutUnlessWaiting'
  BY <1>0, <1>2 DEF TimeoutInv, TimeoutChainSound, NoTimeoutUnlessWaiting
<1>4. IsFirst(Process_First_Timeout, Proc)'
  BY <1>0, <1>1, <1>2 DEF IsFirst
<1>5. NotPast' /\ NextTimeOK' /\ RunLater'
  BY <1>0, <1>1, <1>2 DEF TimeoutInv, NotPast, NextTimeOK, RunLater
<1>. QED
  BY <1>0, <1>3, <1>4, <1>5 DEF TimeoutInv, FirstIsFirst, WakeLoop

(* A process leaves its wait statement.                                      *)
LEMMA TimeoutClose ==
  ASSUME TimeoutInv, TablesInv', NEW p \in Proc, Ghdl_Process_Wait_Close(p)
  PROVE  TimeoutInv'
<1>. USE DEF timeVars, tableVars, runVars
<1>0. /\ TypeOK /\ TablesInv /\ TimeoutChainSound
      /\ phase \in {"run", "postponed"} /\ Current_Process = p
      /\ State[p] \in {"Wait", "Timeout"}
      /\ Process_Timeout_Chain' = Process_Timeout_Chain \ {p}
      /\ Timeout' = [Timeout EXCEPT ![p] = Bad_Time]
      /\ State' = [State EXCEPT ![p] = "Ready"]
      /\ UNCHANGED <<timeVars, tableVars, runVars, phase, elab, walk, Tn>>
      /\ State \in [Proc -> ProcessState] /\ Timeout \in [Proc -> Time \cup {Bad_Time}]
      /\ Current_Time \in Time /\ Process_First_Timeout \in Time
  BY DEF TimeoutInv, TablesInv, TypeOK, Ghdl_Process_Wait_Close, Running
<1>1. /\ ~Pending(p)'
      /\ Timeout'[p] = Bad_Time /\ State'[p] = "Ready" /\ p \notin Process_Timeout_Chain'
      /\ \A q \in Proc \ {p} : /\ Pending(q)' <=> Pending(q)
                               /\ Timeout'[q] = Timeout[q]
                               /\ State'[q] = State[q]
                               /\ q \in Process_Timeout_Chain' <=> q \in Process_Timeout_Chain
  BY <1>0 DEF Pending
<1>2. TimeoutChainSound' /\ NoTimeoutUnlessWaiting'
  BY <1>0, <1>1 DEF TimeoutInv, TimeoutChainSound, NoTimeoutUnlessWaiting, Pending
<1>3. IsFirst(Process_First_Timeout, Proc) /\ \A q \in Proc : Pending(q) => Timeout[q] \in Time
  BY <1>0, PendingTime DEF TimeoutInv, FirstIsFirst
<1>4. IsFirst(Process_First_Timeout, Proc)'
  <2>1. CASE Process_First_Timeout # Timeout[p]
    <3>1. Process_First_Timeout' = Process_First_Timeout
      BY <2>1 DEF Ghdl_Process_Wait_Close
    <3>. QED
      BY <1>0, <1>1, <1>3, <2>1, <3>1 DEF IsFirst
  <2>2. CASE Process_First_Timeout = Timeout[p]
    <3>. DEFINE S == Pending_Timeouts(p) \cup {Last_Time}
    <3>1. Process_First_Timeout' = Earliest(S)
      BY <2>2 DEF Ghdl_Process_Wait_Close
    <3>2. S \in SUBSET Time /\ S \in SUBSET Nat /\ Last_Time \in S
      <4>1. S \in SUBSET Time
        BY <1>0, PendingTimeoutsAreTimes
      <4>2. Time \subseteq Nat
        BY TimeAssumption DEF Time
      <4>. QED
        BY <4>1, <4>2
    <3>3. Earliest(S) \in S /\ \A u \in S : Earliest(S) <= u
      <4>. HIDE DEF S
      <4>. QED
        BY <3>2, EarliestProperty
    <3>4. Pending(p) /\ Timeout[p] > Current_Time
      <4>1. Timeout[p] # Bad_Time /\ p \in Process_Timeout_Chain
        BY <1>0, <2>2, TimeAssumption
           DEF TimeoutInv, NoTimeoutUnlessWaiting, TimeoutChainSound, Time, Bad_Time
      <4>2. State[p] = "Wait"
        BY <1>0, <4>1 DEF TimeoutInv, NoTimeoutUnlessWaiting
      <4>. QED
        BY <1>0, <4>1, <4>2 DEF TimeoutInv, RunLater, Pending
    <3>5. \A q \in Proc : Pending(q) => Timeout[q] > 0
      BY <1>0, <1>3, <2>2, <3>4, TimeAssumption DEF IsFirst, Time
    <3>6. \A q \in Proc \ {p} : Pending(q) => Timeout[q] \in S
      BY <3>5 DEF Pending_Timeouts, Pending
    <3>7. \A u \in S : u = Last_Time \/ \E q \in Proc \ {p} : Pending(q) /\ u = Timeout[q]
      BY <1>0 DEF Pending_Timeouts, Pending, TypeOK
    <3>8. Earliest(S) \in Time
      BY <3>2, <3>3
    <3>. HIDE DEF S
    <3>. QED
      BY <1>1, <3>1, <3>3, <3>6, <3>7, <3>8 DEF IsFirst
  <2>. QED
    BY <2>1, <2>2
<1>5. NotPast' /\ NextTimeOK' /\ RunLater'
  BY <1>0, <1>1 DEF TimeoutInv, NotPast, NextTimeOK, RunLater
<1>. QED
  BY <1>0, <1>2, <1>4, <1>5 DEF TimeoutInv, FirstIsFirst, WakeLoop

(* A process executes a wait statement with a timeout that does not          *)
(* overflow: it is linked, and the first timeout is at most its own.         *)
LEMMA TimeoutSet ==
  ASSUME TimeoutInv, TablesInv', NEW p \in Proc, NEW d \in Delays, ~Overflows(d),
         Running(p), State[p] = "Ready", Suspend,
         State' = [State EXCEPT ![p] = "Delayed"] \/ State' = [State EXCEPT ![p] = "Wait"],
         Update_Process_First_Timeout(p, Current_Time + d)
  PROVE  TimeoutInv'
<1>. USE DEF timeVars, tableVars, runVars
<1>. DEFINE t == Current_Time + d
<1>0. /\ TypeOK /\ TablesInv /\ TimeoutChainSound
      /\ phase \in {"run", "postponed"} /\ Current_Process = p /\ ~Resumed[p]
      /\ t \in Time /\ Current_Time \in Time /\ t >= Current_Time
      /\ State \in [Proc -> ProcessState] /\ Timeout \in [Proc -> Time \cup {Bad_Time}]
      /\ UNCHANGED <<timeVars, tableVars, phase, elab, walk, Tn>>
      /\ Current_Process' = No_Process
  BY TimeoutType, TimeAssumption
     DEF TimeoutInv, TablesInv, TypeOK, Running, Suspend, Time
<1>1. /\ Pending(p)' /\ Timeout'[p] = t /\ ~Pending(p)
      /\ State'[p] \in {"Delayed", "Wait"} /\ p \in Process_Timeout_Chain'
      /\ \A q \in Proc \ {p} : /\ Pending(q)' <=> Pending(q)
                               /\ Timeout'[q] = Timeout[q]
                               /\ State'[q] = State[q]
                               /\ q \in Process_Timeout_Chain' <=> q \in Process_Timeout_Chain
  BY <1>0 DEF Pending, Update_Process_First_Timeout
<1>2. TimeoutChainSound' /\ NoTimeoutUnlessWaiting'
  <2>1. Bad_Time \notin Time
    BY DEF Bad_Time, Time
  <2>. QED
    BY <1>0, <1>1, <2>1 DEF TimeoutInv, TimeoutChainSound, NoTimeoutUnlessWaiting, Pending
<1>3. IsFirst(Process_First_Timeout, Proc)'
  <2>1. IsFirst(Process_First_Timeout, Proc)
    BY <1>0 DEF TimeoutInv, FirstIsFirst
  <2>2. Process_First_Timeout' = IF t < Process_First_Timeout THEN t
                                 ELSE Process_First_Timeout
    BY DEF Update_Process_First_Timeout
  <2>3. \A q \in Proc : Pending(q) => Timeout[q] \in Time
    BY <1>0, PendingTime
  <2>4. Process_First_Timeout \in Time
    BY <2>1 DEF IsFirst
  <2>. HIDE DEF t
  <2>5. CASE t < Process_First_Timeout
    BY <1>0, <1>1, <2>1, <2>2, <2>3, <2>4, <2>5, TimeAssumption DEF IsFirst, Time
  <2>6. CASE ~(t < Process_First_Timeout)
    BY <1>0, <1>1, <2>1, <2>2, <2>3, <2>4, <2>6, TimeAssumption DEF IsFirst, Time
  <2>. QED
    BY <2>5, <2>6
<1>4. NotPast' /\ NextTimeOK' /\ RunLater'
  BY <1>0, <1>1, ProcAssumption DEF TimeoutInv, NotPast, NextTimeOK, RunLater
<1>. QED
  BY <1>0, <1>2, <1>3, <1>4, ProcAssumption DEF TimeoutInv, FirstIsFirst, WakeLoop

(* A process suspends in another way: it is not linked in the chain.         *)
LEMMA TimeoutSuspend ==
  ASSUME TimeoutInv, TablesInv', NEW p \in Proc, Running(p), Suspend,
         UNCHANGED <<Process_Timeout_Chain, Process_First_Timeout>>,
         \/ UNCHANGED <<State, Timeout>>
         \/ /\ State[p] = "Ready"
            /\ \/ /\ State' = [State EXCEPT ![p] = "Delayed"]
                  /\ Timeout' = [Timeout EXCEPT ![p] = Last_Time]
               \/ /\ State' = [State EXCEPT ![p] = "Wait"] /\ UNCHANGED Timeout
               \/ /\ State' = [State EXCEPT ![p] = "Dead"] /\ UNCHANGED Timeout
  PROVE  TimeoutInv'
<1>. USE DEF timeVars, tableVars, runVars
<1>0. /\ TypeOK /\ TablesInv /\ TimeoutChainSound
      /\ phase \in {"run", "postponed"} /\ Current_Process = p
      /\ State \in [Proc -> ProcessState] /\ Timeout \in [Proc -> Time \cup {Bad_Time}]
      /\ UNCHANGED <<timeVars, tableVars, phase, elab, walk, Tn>>
      /\ Current_Process' = No_Process
  BY DEF TimeoutInv, TablesInv, TypeOK, Running, Suspend
<1>1. \A q \in Proc : /\ Pending(q)' <=> Pending(q)
                      /\ Pending(q) => Timeout'[q] = Timeout[q]
  BY <1>0 DEF Pending, TimeoutChainSound
<1>2. TimeoutChainSound' /\ NoTimeoutUnlessWaiting'
  <2>1. CASE UNCHANGED <<State, Timeout>>
    BY <1>0, <2>1 DEF TimeoutInv, TimeoutChainSound, NoTimeoutUnlessWaiting, Pending
  <2>2. CASE State[p] = "Ready" /\ p \notin Process_Timeout_Chain /\ Timeout[p] = Bad_Time
    BY <1>0, <2>2 DEF TimeoutInv, TimeoutChainSound, NoTimeoutUnlessWaiting, Pending
  <2>. QED
    BY <1>0, <2>1, <2>2 DEF TimeoutInv, TimeoutChainSound, NoTimeoutUnlessWaiting
<1>3. IsFirst(Process_First_Timeout, Proc)'
  BY <1>0, <1>1 DEF TimeoutInv, FirstIsFirst, IsFirst
<1>4. NotPast' /\ NextTimeOK' /\ RunLater'
  BY <1>0, <1>1, ProcAssumption DEF TimeoutInv, NotPast, NextTimeOK, RunLater
<1>. QED
  BY <1>0, <1>2, <1>3, <1>4, ProcAssumption DEF TimeoutInv, FirstIsFirst, WakeLoop

LEMMA TimeoutProcess ==
  ASSUME TimeoutInv, TablesInv', NEW p \in Proc, Process_Step(p)
  PROVE  TimeoutInv'
<1>1. ASSUME NEW d \in Delays, Ghdl_Process_Wait_Timeout(p, d) PROVE TimeoutInv'
  BY <1>1, TimeoutSet, TimeoutSuspend DEF Ghdl_Process_Wait_Timeout
<1>2. ASSUME NEW sigs \in SUBSET Signal, Wait_On(p, sigs) PROVE TimeoutInv'
  BY <1>2, TimeoutSuspend DEF Wait_On
<1>3. ASSUME NEW sigs \in SUBSET Signal, NEW d \in Delays, Wait_On_For(p, sigs, d)
      PROVE  TimeoutInv'
  BY <1>3, TimeoutSet, TimeoutSuspend DEF Wait_On_For, Set_Timeout
<1>4. CASE Ghdl_Process_Wait_Exit(p)
  BY <1>4, TimeoutSuspend DEF Ghdl_Process_Wait_Exit
<1>5. CASE Sensitized_Return(p) \/ Condition_False(p)
  BY <1>5, TimeoutSuspend DEF Sensitized_Return, Condition_False, waitVars
<1>6. CASE Ghdl_Process_Wait_Close(p)
  BY <1>6, TimeoutClose
<1>. QED
  BY <1>1, <1>2, <1>3, <1>4, <1>5, <1>6 DEF Process_Step

LEMMA TimeoutStep == TimeoutInv /\ [Next]_vars => TimeoutInv'
<1>. SUFFICES ASSUME TimeoutInv, [Next]_vars PROVE TimeoutInv'
  OBVIOUS
<1>1. TablesInv'
  BY TablesStep DEF TimeoutInv
<1>2. CASE Kernel_Step
  <2>1. \/ End_Wake \/ \E p \in Proc : Wake_Delayed(p) \/ Wake_Wait(p)
        \/ ~End_Wake /\ UNCHANGED waitVars
    BY <1>2 DEF Kernel_Step, Elab_Resume, Elab_Run, Start_Cycle, Signal_Event,
                Event_Resume, Start_Wake, No_Wake, Wake_Skip, Wake_Error, Call_Process,
                Elab_Run_Postponed, End_Run, Elab_Next_Time, Delta_Cycle,
                End_Time_Step, Finish_Time_Step, Run_Postponed, End_Postponed,
                Postponed_Delta_Error, Main_Loop
  <2>. QED
    BY <1>1, <1>2, <2>1, TimeoutEndWake, TimeoutWake, TimeoutKernelQuiet
<1>3. ASSUME NEW p \in Proc, Process_Step(p) PROVE TimeoutInv'
  BY <1>1, <1>3, TimeoutProcess
<1>4. CASE UNCHANGED vars
  <2>1. UNCHANGED waitVars
    BY <1>4 DEF vars
  <2>. QED
    BY <1>1, <1>4, <2>1, TimeoutQuiet
       DEF TimeoutInv, vars, timeVars, waitVars, tableVars, runVars, FirstIsFirst,
           WakeLoop, NotPast, NextTimeOK, RunLater
<1>. QED
  BY <1>2, <1>3, <1>4 DEF Next

(* The timeout chain never holds a process that may execute a new wait       *)
(* statement, so a process is never linked twice.                            *)
THEOREM TimeoutChainCorrect == Spec => []TimeoutChainSound
<1>1. TimeoutInv => TimeoutChainSound
  BY DEF TimeoutInv
<1>. QED
  BY <1>1, TimeoutInit, TimeoutStep, PTL DEF Spec

(* The cached Process_First_Timeout is always the earliest pending timeout.  *)
THEOREM FirstTimeoutCorrect == Spec => []FirstTimeoutExact
<1>1. TimeoutInv => FirstTimeoutExact
  BY FirstIsEarliest DEF TimeoutInv, TablesInv, FirstIsFirst, FirstTimeoutExact
<1>. QED
  BY <1>1, TimeoutInit, TimeoutStep, PTL DEF Spec

(* Simulation time never goes past a pending timeout: no process misses its  *)
(* deadline.                                                                 *)
THEOREM NoDeadlineMissed == Spec => []NoMissedDeadline
<1>1. TimeoutInv => NoMissedDeadline
  <2>. SUFFICES ASSUME TimeoutInv, NEW p \in Proc, Pending(p)
                PROVE  /\ Current_Time <= Timeout[p]
                       /\ phase = "cycle" => Next_Time <= Timeout[p]
    BY DEF NoMissedDeadline
  <2>1. Timeout[p] \in Time /\ Process_First_Timeout \in Time /\ Next_Time \in Time
    BY PendingTime DEF TimeoutInv, TablesInv, TypeOK
  <2>2. phase = "cycle" => Process_First_Timeout <= Timeout[p]
    BY DEF TimeoutInv, FirstIsFirst, IsFirst
  <2>. QED
    BY <2>1, <2>2, TimeAssumption DEF TimeoutInv, NotPast, NextTimeOK, Time
<1>. QED
  BY <1>1, TimeoutInit, TimeoutStep, PTL DEF Spec

-----------------------------------------------------------------------------
(* Processes implements SimulationCycle: with its timeout chain, its         *)
(* cached first timeout and its two resume tables, the scheduler behaves     *)
(* as the simulation cycle of the language does, for any set of processes    *)
(* and any signal activity.                                                  *)

-----------------------------------------------------------------------------
(* Where the scheduler is, and what its tables hold there.                   *)

(* Initialization_Phase ends before the first call of Simulation_Cycle, and  *)
(* resumes every process.                                                    *)
ElabPhases ==
  /\ elab => phase \in {"elab", "run", "postponed", "next2"}
  /\ phase = "elab" => elab
  /\ phase = "elab" => \A p \in Proc \ walk : Resumed[p]

(* A process that is not in a wait statement with signals is in the event    *)
(* list of none: Resume_Process is called from an event list only for a      *)
(* process that waits for events.                                            *)
ReadyInsensitive ==
  \A p \in Proc : State[p] \in {"Ready", "Delayed"} => Sensitivity[p] = {}

WalkSensitive ==
  /\ phase = "update" => \A p \in walk : Sensitivity[p] # {}
  /\ phase \notin {"elab", "update", "wake", "internal_error"} => walk = {}

(* Each call of Run_Processes walks a table of its own kind, nonpostponed    *)
(* processes are not resumed while processes run, and the postponed table is *)
(* empty once the time step is over.                                         *)
TablesInOrder ==
  /\ phase = "run" => table \in Seq(Nonpostponed)
  /\ phase = "postponed" => table \in Seq(Postponed)
  /\ phase \in {"run", "next", "postponed", "next2", "limit", "cycle"} =>
       Resume_Process_Table = << >>
  /\ \/ phase \in {"postponed", "next2"}
     \/ phase \in {"limit", "cycle"} /\ Next_Time # Current_Time
     => Postponed_Resume_Process_Table = << >>

CycleInv ==
  /\ TimeoutInv
  /\ ElabPhases /\ ReadyInsensitive /\ WalkSensitive /\ TablesInOrder

LEMMA CycleInit == Init => CycleInv
<1>. SUFFICES ASSUME Init PROVE CycleInv
  OBVIOUS
<1>1. TimeoutInv
  BY TimeoutInit
<1>2. ElabPhases
  BY DEF Init, ElabPhases
<1>3. ReadyInsensitive /\ WalkSensitive /\ TablesInOrder
  BY DEF Init, ReadyInsensitive, WalkSensitive, TablesInOrder
<1>. QED
  BY <1>1, <1>2, <1>3 DEF CycleInv

LEMMA CycleKernel ==
  ASSUME CycleInv, TypeOK, TypeOK', Kernel_Step
  PROVE  ElabPhases' /\ ReadyInsensitive' /\ WalkSensitive' /\ TablesInOrder'
<1>. DEFINE Goal == ElabPhases /\ ReadyInsensitive /\ WalkSensitive /\ TablesInOrder
<1>. SUFFICES Goal'
  OBVIOUS
<1>0. /\ TimeoutInv /\ ElabPhases /\ ReadyInsensitive /\ WalkSensitive /\ TablesInOrder
      /\ NextTimeOK
  BY DEF CycleInv, TimeoutInv
<1>. USE <1>0 DEF timeVars, waitVars, tableVars, runVars
<1>. USE DEF ElabPhases, ReadyInsensitive, WalkSensitive, TablesInOrder
<1>1. ASSUME NEW p \in Proc, Elab_Resume(p) PROVE Goal'
  BY <1>1 DEF Elab_Resume, Resume_Process, TypeOK
<1>2. CASE Elab_Run
  BY <1>2 DEF Elab_Run, Take_Table, TypeOK
<1>3. ASSUME NEW evs \in SUBSET Signal, Start_Cycle(evs) PROVE Goal'
  BY <1>3 DEF Start_Cycle
<1>4. ASSUME NEW sig \in Signal, Signal_Event(sig) PROVE Goal'
  BY <1>4 DEF Signal_Event, Event_List
<1>5. ASSUME NEW p \in Proc, Event_Resume(p) PROVE Goal'
  BY <1>5 DEF Event_Resume
<1>6. CASE Start_Wake
  BY <1>6 DEF Start_Wake
<1>7. CASE No_Wake
  BY <1>7 DEF No_Wake, Take_Table, TypeOK
<1>8. ASSUME NEW p \in Proc, Wake_Delayed(p) PROVE Goal'
  BY <1>8 DEF Wake_Delayed, TypeOK
<1>9. ASSUME NEW p \in Proc, Wake_Wait(p) PROVE Goal'
  BY <1>9 DEF Wake_Wait, TypeOK
<1>10. ASSUME NEW p \in Proc, Wake_Skip(p) PROVE Goal'
  BY <1>10 DEF Wake_Skip
<1>11. ASSUME NEW p \in Proc, Wake_Error(p) PROVE Goal'
  BY <1>11 DEF Wake_Error
<1>12. CASE End_Wake
  BY <1>12 DEF End_Wake, Take_Table, TypeOK
<1>13. CASE Call_Process
  <2>1. phase' = phase /\ phase \in {"run", "postponed"}
    BY <1>13, TablesCall DEF Call_Process, TimeoutInv, TablesInv
  <2>2. /\ table \in Seq(Nonpostponed) => table' \in Seq(Nonpostponed)
        /\ table \in Seq(Postponed) => table' \in Seq(Postponed)
    BY <1>13, HeadTailProperties DEF Call_Process
  <2>3. UNCHANGED <<timeVars, waitVars, Resume_Process_Table,
                    Postponed_Resume_Process_Table, elab, walk>>
    BY <1>13 DEF Call_Process
  <2>. QED
    BY <2>1, <2>2, <2>3
<1>14. CASE Elab_Run_Postponed
  BY <1>14 DEF Elab_Run_Postponed, Take_Postponed_Table, TypeOK
<1>15. CASE End_Run
  BY <1>15 DEF End_Run
<1>16. ASSUME NEW t \in Current_Time .. Last_Time, Elab_Next_Time(t) PROVE Goal'
  BY <1>16 DEF Elab_Next_Time
<1>17. ASSUME NEW t \in Current_Time .. Last_Time, Delta_Cycle(t) PROVE Goal'
  BY <1>17 DEF Delta_Cycle, NextTimeOK
<1>18. ASSUME NEW t \in Current_Time .. Last_Time, End_Time_Step(t) PROVE Goal'
  BY <1>18 DEF End_Time_Step, Finish_Time_Step
<1>19. ASSUME NEW t \in Current_Time .. Last_Time, Run_Postponed(t) PROVE Goal'
  BY <1>19 DEF Run_Postponed, Take_Postponed_Table, TypeOK
<1>20. ASSUME NEW t \in Current_Time .. Last_Time, End_Postponed(t) PROVE Goal'
  BY <1>20 DEF End_Postponed, Finish_Time_Step
<1>21. ASSUME NEW t \in Current_Time .. Last_Time, Postponed_Delta_Error(t) PROVE Goal'
  BY <1>21 DEF Postponed_Delta_Error
<1>22. CASE Main_Loop
  BY <1>22 DEF Main_Loop
<1>. QED
  BY <1>1, <1>2, <1>3, <1>4, <1>5, <1>6, <1>7, <1>8, <1>9, <1>10, <1>11, <1>12,
     <1>13, <1>14, <1>15, <1>16, <1>17, <1>18, <1>19, <1>20, <1>21, <1>22
     DEF Kernel_Step

LEMMA CycleProcess ==
  ASSUME CycleInv, TypeOK, NEW p \in Proc, Process_Step(p)
  PROVE  ElabPhases' /\ ReadyInsensitive' /\ WalkSensitive' /\ TablesInOrder'
<1>. USE DEF timeVars, waitVars, tableVars, runVars
<1>0. /\ ElabPhases /\ ReadyInsensitive /\ WalkSensitive /\ TablesInOrder
      /\ State \in [Proc -> ProcessState] /\ Sensitivity \in [Proc -> SUBSET Signal]
  BY DEF CycleInv, TypeOK
<1>1. /\ UNCHANGED <<timeVars, tableVars, table, phase, elab, walk>>
      /\ phase \in {"run", "postponed"}
  BY DEF Process_Step, Running, Suspend, Ghdl_Process_Wait_Timeout,
         Wait_On, Wait_On_For, Ghdl_Process_Wait_Exit, Sensitized_Return,
         Condition_False, Ghdl_Process_Wait_Close
<1>2. ElabPhases' /\ WalkSensitive' /\ TablesInOrder'
  BY <1>0, <1>1 DEF ElabPhases, WalkSensitive, TablesInOrder
<1>3. ReadyInsensitive'
  <2>. USE <1>0 DEF ReadyInsensitive
  <2>1. ASSUME NEW d \in Delays, Ghdl_Process_Wait_Timeout(p, d) PROVE ReadyInsensitive'
    BY <2>1 DEF Ghdl_Process_Wait_Timeout
  <2>2. ASSUME NEW sigs \in SUBSET Signal, NEW d \in Delays, Wait_On_For(p, sigs, d)
        PROVE  ReadyInsensitive'
    BY <2>2 DEF Wait_On_For
  <2>6. ASSUME NEW sigs \in SUBSET Signal, Wait_On(p, sigs) PROVE ReadyInsensitive'
    BY <2>6 DEF Wait_On
  <2>3. CASE Ghdl_Process_Wait_Exit(p)
    BY <2>3 DEF Ghdl_Process_Wait_Exit
  <2>4. CASE Sensitized_Return(p) \/ Condition_False(p)
    BY <2>4 DEF Sensitized_Return, Condition_False
  <2>5. CASE Ghdl_Process_Wait_Close(p)
    BY <2>5 DEF Ghdl_Process_Wait_Close
  <2>. QED
    BY <2>1, <2>2, <2>3, <2>4, <2>5, <2>6 DEF Process_Step
<1>. QED
  BY <1>2, <1>3

LEMMA CycleStep == CycleInv /\ [Next]_vars => CycleInv'
<1>. SUFFICES ASSUME CycleInv, [Next]_vars PROVE CycleInv'
  OBVIOUS
<1>1. TimeoutInv' /\ TypeOK /\ TypeOK'
  BY TimeoutStep DEF CycleInv, TimeoutInv, TablesInv
<1>2. CASE UNCHANGED vars
  BY <1>1, <1>2 DEF CycleInv, vars, timeVars, waitVars, tableVars, runVars, ElabPhases,
                    ReadyInsensitive, WalkSensitive, TablesInOrder
<1>3. CASE Kernel_Step
  BY <1>1, <1>3, CycleKernel DEF CycleInv
<1>4. ASSUME NEW p \in Proc, Process_Step(p) PROVE CycleInv'
  BY <1>1, <1>4, CycleProcess DEF CycleInv
<1>. QED
  BY <1>2, <1>3, <1>4 DEF Next

-----------------------------------------------------------------------------
(* The state of SimulationCycle as this module computes it.                  *)
Settled == phase \in {"postponed", "next2", "error"} \/ Next_Time # Current_Time
Resuming == {p \in Proc : phase = "elab" \/ Resumed[p]}
Deadline == [p \in Proc |-> IF Pending(p) THEN Timeout[p] ELSE Last_Time + 1]
Expired == {p \in Proc : State[p] = "Timeout"}

(* A step that leaves the time, the wait statements and the tables' contents *)
(* alone is a stuttering step.                                               *)
LEMMA Stutter ==
  ASSUME UNCHANGED <<Current_Time, elab, Current_Process, waitVars>>,
         Settled' = Settled, Resuming' = Resuming
  PROVE  UNCHANGED LRM!vars
<1>1. Deadline' = Deadline /\ Expired' = Expired /\ Sensitivity' = Sensitivity
  BY DEF Deadline, Expired, Pending, waitVars
<1>. QED
  BY <1>1 DEF LRM!vars, Settled, Resuming, Deadline, Expired

(* What is resumed is what the tables hold.                                  *)
LEMMA TablesHoldResumed ==
  ASSUME TypeOK, ResumeTablesSound, phase # "elab", table = << >>,
         Resume_Process_Table = << >>
  PROVE  /\ Resuming \subseteq Postponed
         /\ Postponed_Resume_Process_Table = << >> => Resuming = {}
<1>1. \A p \in Resuming : p \in Entries(Postponed_Resume_Process_Table)
  BY EmptyTable DEF Resuming, ResumeTablesSound
<1>2. Entries(Postponed_Resume_Process_Table) \subseteq Postponed
  BY ElementOfSeq DEF Entries, TypeOK
<1>. QED
  BY <1>1, <1>2, EmptyTable

(* Resuming a process during a cycle.                                        *)
LEMMA ResumeResumes ==
  ASSUME TypeOK, NEW p \in Proc, Resume_Process(p), UNCHANGED phase
  PROVE  Resuming' = Resuming \cup {p}
<1>1. Resumed' = [Resumed EXCEPT ![p] = TRUE] /\ Resumed \in [Proc -> BOOLEAN]
  BY DEF Resume_Process, TypeOK
<1>. QED
  BY <1>1 DEF Resuming

LEMMA RefineInit == Init => LRM!Init
<1>. SUFFICES ASSUME Init PROVE LRM!Init
  OBVIOUS
<1>1. Resuming = Proc
  BY DEF Init, Resuming
<1>2. Deadline = [p \in Proc |-> Last_Time + 1]
  BY DEF Init, Deadline, Pending
<1>3. Expired = {}
  BY DEF Init, Expired
<1>4. ~Settled
  BY DEF Init, Settled
<1>. QED
  BY <1>1, <1>2, <1>3, <1>4
     DEF Init, LRM!Init, LRM!Never, Resuming, Deadline, Expired, Settled

(* What the kernel's steps rely on, from the inductive invariant.            *)
LEMMA CycleFacts ==
  ASSUME CycleInv
  PROVE  /\ TypeOK /\ TablesInv /\ ResumeTablesSound /\ TimeoutChainSound
         /\ NextTimeOK /\ WakeLoop /\ NotPast
         /\ ElabPhases /\ ReadyInsensitive /\ WalkSensitive /\ TablesInOrder
         /\ phase \notin {"run", "postponed", "internal_error"} =>
              table = << >> /\ Current_Process = No_Process
  BY DEF CycleInv, TimeoutInv, TablesInv

(* An event and the expiry of a timeout resume a process.                    *)
LEMMA RefineEvent ==
  ASSUME CycleInv, NEW p \in Proc, Event_Resume(p)
  PROVE  LRM!Event(p)
<1>. USE DEF timeVars, waitVars, tableVars, runVars
<1>0. /\ TypeOK /\ phase = "update" /\ p \in walk /\ Resume_Process(p)
      /\ UNCHANGED <<timeVars, waitVars, runVars, phase, elab>>
  BY CycleFacts DEF Event_Resume
<1>1. ~Settled /\ ~elab /\ Current_Process = No_Process /\ Sensitivity[p] # {}
  BY <1>0, CycleFacts DEF Settled, NextTimeOK, ElabPhases, WalkSensitive
<1>2. Settled' = Settled /\ Deadline' = Deadline /\ Expired' = Expired
  BY <1>0 DEF Settled, Deadline, Expired, Pending
<1>3. Resuming' = Resuming \cup {p}
  BY <1>0, ResumeResumes
<1>. QED
  BY <1>0, <1>1, <1>2, <1>3 DEF LRM!Event, Settled, Deadline, Expired, Resuming

LEMMA RefineExpire ==
  ASSUME CycleInv, NEW p \in Proc, Wake_Delayed(p) \/ Wake_Wait(p)
  PROVE  LRM!Expire(p)
<1>. USE DEF timeVars, waitVars, tableVars, runVars
<1>0. /\ TypeOK /\ phase = "wake" /\ p \in walk /\ Resume_Process(p)
      /\ State[p] \in {"Delayed", "Wait"} /\ Timeout[p] = Current_Time
      /\ State' = [State EXCEPT ![p] = IF @ = "Delayed" THEN "Ready" ELSE "Timeout"]
      /\ Timeout' = [Timeout EXCEPT ![p] = Bad_Time]
      /\ Process_Timeout_Chain' \subseteq Process_Timeout_Chain
      /\ Process_Timeout_Chain \subseteq Process_Timeout_Chain' \cup {p}
      /\ UNCHANGED <<timeVars, runVars, Sensitivity, phase, elab>>
      /\ State \in [Proc -> ProcessState] /\ Timeout \in [Proc -> Time \cup {Bad_Time}]
  BY CycleFacts DEF Wake_Delayed, Wake_Wait, TypeOK
<1>1. ~Settled /\ ~elab /\ Current_Process = No_Process /\ Pending(p)
  BY <1>0, CycleFacts DEF Settled, NextTimeOK, ElabPhases, WakeLoop, Pending
<1>2. Settled' = Settled
  BY <1>0 DEF Settled
<1>3. Resuming' = Resuming \cup {p}
  BY <1>0, ResumeResumes
<1>4. Deadline[p] = Current_Time
  BY <1>0, <1>1 DEF Deadline
<1>5. Deadline' = [Deadline EXCEPT ![p] = Last_Time + 1]
  <2>1. Pending(p)' = FALSE
    BY <1>0 DEF Pending
  <2>2. ASSUME NEW q \in Proc \ {p} PROVE Pending(q)' = Pending(q) /\ Timeout'[q] = Timeout[q]
    BY <1>0, <2>2 DEF Pending
  <2>3. Deadline' = [q \in Proc |-> IF Pending(q)' THEN Timeout'[q] ELSE Last_Time + 1]
    BY DEF Deadline
  <2>. QED
    BY <2>1, <2>2, <2>3 DEF Deadline
<1>6. Expired' = IF State[p] = "Delayed" THEN Expired ELSE Expired \cup {p}
  BY <1>0 DEF Expired
<1>. QED
  BY <1>0, <1>1, <1>2, <1>3, <1>4, <1>5, <1>6
     DEF LRM!Expire, LRM!Never, Settled, Deadline, Expired, Resuming

(* Run_Processes gives control to a process it has resumed.                  *)
LEMMA RefineCall ==
  ASSUME CycleInv, Call_Process
  PROVE  \E p \in Proc : LRM!Execute(p)
<1>. USE DEF timeVars, waitVars, tableVars, runVars
<1>1. PICK p : p = Head(table)
  OBVIOUS
<1>2. /\ TypeOK /\ ResumeTablesSound /\ phase \in {"run", "postponed"}
      /\ Current_Process = No_Process /\ table \in Seq(Proc) /\ table # << >>
      /\ Current_Process' = p
      /\ Resumed' = [Resumed EXCEPT ![p] = FALSE] /\ Resumed \in [Proc -> BOOLEAN]
      /\ UNCHANGED <<timeVars, waitVars, elab>>
  BY <1>1, CycleFacts DEF Call_Process, TypeOK
<1>3. p \in Proc /\ p \in Entries(table)
  BY <1>1, <1>2, HeadTailProperties, TailTable DEF ResumeTablesSound
<1>4. Resumed[p] /\ phase' = phase
  BY <1>1, <1>2, <1>3, TablesCall DEF ResumeTablesSound
<1>5. p \in Postponed <=> phase = "postponed"
  <2>1. CASE phase = "run"
    <3>1. table \in Seq(Nonpostponed)
      BY <2>1, CycleFacts DEF TablesInOrder
    <3>. QED
      BY <1>1, <1>2, <2>1, <3>1, HeadTailProperties DEF Nonpostponed
  <2>2. CASE phase = "postponed"
    <3>1. table \in Seq(Postponed)
      BY <2>2, CycleFacts DEF TablesInOrder
    <3>. QED
      BY <1>1, <1>2, <2>2, <3>1, HeadTailProperties
  <2>. QED
    BY <1>2, <2>1, <2>2
<1>6. Settled' = Settled /\ Deadline' = Deadline /\ Expired' = Expired
  BY <1>2, <1>4 DEF Settled, Deadline, Expired, Pending
<1>7. p \in Postponed <=> Settled
  BY <1>2, <1>5, CycleFacts DEF Settled, NextTimeOK
<1>8. p \in Resuming /\ Resuming' = Resuming \ {p}
  BY <1>2, <1>3, <1>4 DEF Resuming
<1>9. LRM!Execute(p)
  BY <1>2, <1>6, <1>7, <1>8 DEF LRM!Execute, Settled, Deadline, Expired, Resuming
<1>. QED
  BY <1>3, <1>9

(* The time step, or the nonpostponed part of the initialization, is over.   *)
LEMMA RefineSettle ==
  ASSUME CycleInv,
         \/ Elab_Run_Postponed
         \/ \E t \in Current_Time .. Last_Time : Run_Postponed(t)
  PROVE  LRM!Settle
<1>. USE DEF timeVars, waitVars, tableVars, runVars
<1>0. /\ TypeOK /\ ResumeTablesSound /\ phase \in {"run", "next"}
      /\ Current_Process = No_Process /\ table = << >>
      /\ UNCHANGED <<Current_Time, waitVars, Resumed, Current_Process, elab>>
      /\ phase' # "elab"
  BY CycleFacts DEF Elab_Run_Postponed, Run_Postponed, Take_Postponed_Table
<1>1. ~Settled
  BY <1>0, CycleFacts DEF Settled, NextTimeOK
<1>2. Settled'
  BY DEF Settled, Elab_Run_Postponed, Run_Postponed, Take_Postponed_Table
<1>3. Resuming \subseteq Postponed
  BY <1>0, CycleFacts, TablesHoldResumed DEF TablesInOrder
<1>4. Resuming' = Resuming /\ Deadline' = Deadline /\ Expired' = Expired
  BY <1>0 DEF Resuming, Deadline, Expired, Pending
<1>. QED
  BY <1>0, <1>1, <1>2, <1>3, <1>4
     DEF LRM!Settle, Settled, Deadline, Expired, Resuming

LEMMA RefineInitialized ==
  ASSUME CycleInv, NEW t \in Current_Time .. Last_Time, Elab_Next_Time(t)
  PROVE  LRM!Initialized
<1>. USE DEF timeVars, waitVars, tableVars, runVars
<1>0. /\ TypeOK /\ ResumeTablesSound /\ phase = "next2" /\ elab
      /\ Current_Process = No_Process /\ table = << >>
      /\ phase' = "cycle" /\ elab' = FALSE
      /\ UNCHANGED <<Current_Time, waitVars, Resumed, Current_Process>>
  BY CycleFacts DEF Elab_Next_Time
<1>1. Settled /\ Settled' \in BOOLEAN
  BY <1>0 DEF Settled
<1>2. Resuming = {}
  BY <1>0, CycleFacts, TablesHoldResumed DEF TablesInOrder
<1>3. Resuming' = Resuming /\ Deadline' = Deadline /\ Expired' = Expired
  BY <1>0 DEF Resuming, Deadline, Expired, Pending
<1>. QED
  BY <1>0, <1>1, <1>2, <1>3
     DEF LRM!Initialized, Settled, Deadline, Expired, Resuming

(* A cycle starts: time advances, or this is a delta cycle.                  *)
LEMMA RefineStart ==
  ASSUME CycleInv, NEW evs \in SUBSET Signal, Start_Cycle(evs)
  PROVE  LRM!Advance(Next_Time) \/ UNCHANGED LRM!vars
<1>. USE DEF timeVars, waitVars, tableVars, runVars
<1>0. /\ TypeOK /\ ResumeTablesSound /\ phase = "cycle" /\ phase' = "update" /\ ~elab
      /\ Current_Process = No_Process /\ table = << >>
      /\ Current_Time' = Next_Time /\ Next_Time' = Next_Time
      /\ UNCHANGED <<waitVars, Resumed, Current_Process, elab>>
  BY CycleFacts DEF Start_Cycle, ElabPhases
<1>1. ~Settled' /\ (Settled <=> Next_Time # Current_Time)
  BY <1>0 DEF Settled
<1>2. Resuming' = Resuming /\ Deadline' = Deadline /\ Expired' = Expired
  BY <1>0 DEF Resuming, Deadline, Expired, Pending
<1>3. CASE Next_Time = Current_Time
  <2>1. Settled' = Settled
    BY <1>1, <1>3 DEF Settled
  <2>. QED
    BY <1>0, <1>2, <1>3, <2>1, Stutter
<1>4. CASE Next_Time # Current_Time
  <2>1. Resuming = {}
    BY <1>0, <1>4, CycleFacts, TablesHoldResumed DEF TablesInOrder
  <2>2. Next_Time \in Time /\ Current_Time \in Time
    BY <1>0 DEF TypeOK
  <2>3. Next_Time > Current_Time
    BY <1>0, <1>4, <2>2, CycleFacts, TimeAssumption DEF NextTimeOK, Time
  <2>4. ASSUME NEW q \in Proc PROVE Next_Time <= Deadline[q]
    <3>1. CASE Pending(q)
      <4>1. Timeout[q] \in Time
        BY <1>0, <3>1, PendingTime, CycleFacts
      <4>2. Next_Time <= Process_First_Timeout /\ Process_First_Timeout <= Timeout[q]
        BY <1>0, <3>1, CycleFacts DEF NextTimeOK, CycleInv, TimeoutInv, FirstIsFirst, IsFirst
      <4>3. Process_First_Timeout \in Time
        BY <1>0 DEF TypeOK
      <4>. QED
        BY <2>2, <3>1, <4>1, <4>2, <4>3, TimeAssumption DEF Deadline, Time
    <3>2. CASE ~Pending(q)
      BY <2>2, <3>2, TimeAssumption DEF Deadline, Time
    <3>. QED
      BY <3>1, <3>2
  <2>5. Settled
    BY <1>1, <1>4
  <2>. QED
    BY <1>0, <1>1, <1>2, <2>1, <2>3, <2>4, <2>5
       DEF LRM!Advance, Settled, Deadline, Expired, Resuming
<1>. QED
  BY <1>3, <1>4

(* A time step ends without postponed processes; if a callback brings        *)
(* another cycle at the same time, nothing has changed for the processes.    *)
LEMMA RefineEndTimeStep ==
  ASSUME CycleInv, NEW t \in Current_Time .. Last_Time, End_Time_Step(t)
  PROVE  LRM!Settle \/ UNCHANGED LRM!vars
<1>. USE DEF timeVars, waitVars, tableVars, runVars
<1>0. /\ TypeOK /\ ResumeTablesSound /\ phase = "next" /\ phase' = "limit"
      /\ Current_Process = No_Process /\ table = << >>
      /\ UNCHANGED <<Current_Time, waitVars, Resumed, Current_Process, elab>>
  BY CycleFacts DEF End_Time_Step, Finish_Time_Step
<1>1. ~Settled
  BY <1>0, CycleFacts DEF Settled, NextTimeOK
<1>2. Resuming' = Resuming
  BY <1>0 DEF Resuming
<1>3. CASE Settled'
  <2>1. Resuming \subseteq Postponed
    BY <1>0, CycleFacts, TablesHoldResumed DEF TablesInOrder
  <2>2. Deadline' = Deadline /\ Expired' = Expired
    BY <1>0 DEF Deadline, Expired, Pending
  <2>. QED
    BY <1>0, <1>1, <1>2, <1>3, <2>1, <2>2
       DEF LRM!Settle, Settled, Deadline, Expired, Resuming
<1>4. CASE ~Settled'
  <2>1. Settled' = Settled
    BY <1>0, <1>1, <1>4 DEF Settled
  <2>. QED
    BY <1>0, <1>2, <2>1, Stutter
<1>. QED
  BY <1>3, <1>4

(* The postponed processes have run; if a callback brings another cycle at   *)
(* the same time, the time step is open again.                               *)
LEMMA RefineEndPostponed ==
  ASSUME CycleInv, NEW t \in Current_Time .. Last_Time, End_Postponed(t)
  PROVE  LRM!Reopen \/ UNCHANGED LRM!vars
<1>. USE DEF timeVars, waitVars, tableVars, runVars
<1>0. /\ TypeOK /\ ResumeTablesSound /\ phase = "next2" /\ phase' = "limit" /\ ~elab
      /\ Current_Process = No_Process /\ table = << >>
      /\ UNCHANGED <<Current_Time, waitVars, Resumed, Current_Process, elab>>
  BY CycleFacts DEF End_Postponed, Finish_Time_Step
<1>1. Settled
  BY <1>0 DEF Settled
<1>2. Resuming' = Resuming
  BY <1>0 DEF Resuming
<1>3. CASE Settled'
  <2>1. Settled' = Settled
    BY <1>0, <1>1, <1>3 DEF Settled
  <2>. QED
    BY <1>0, <1>2, <2>1, Stutter
<1>4. CASE ~Settled'
  <2>1. Resuming = {}
    BY <1>0, CycleFacts, TablesHoldResumed DEF TablesInOrder
  <2>2. Deadline' = Deadline /\ Expired' = Expired
    BY <1>0 DEF Deadline, Expired, Pending
  <2>3. Next_Time' = Current_Time
    BY <1>0, <1>4 DEF Settled
  <2>4. End_Of_Time_Step
    BY <2>3 DEF End_Postponed, Finish_Time_Step
  <2>. QED
    BY <1>0, <1>1, <1>2, <1>4, <2>1, <2>2, <2>4
       DEF LRM!Reopen, Settled, Deadline, Expired, Resuming
<1>. QED
  BY <1>3, <1>4

(* The other steps of the kernel only move it along its own control flow.    *)
LEMMA RefineQuiet ==
  ASSUME CycleInv,
         \/ \E p \in Proc : Elab_Resume(p) \/ Wake_Skip(p) \/ Wake_Error(p)
         \/ Elab_Run \/ Start_Wake \/ No_Wake \/ End_Wake \/ End_Run \/ Main_Loop
         \/ \E sig \in Signal : Signal_Event(sig)
         \/ \E t \in Current_Time .. Last_Time :
              Delta_Cycle(t) \/ Postponed_Delta_Error(t)
  PROVE  UNCHANGED LRM!vars
<1>. USE DEF timeVars, waitVars, tableVars, runVars
<1>0. /\ NextTimeOK /\ ElabPhases /\ TypeOK
      /\ phase \notin {"run", "postponed", "internal_error"} => Current_Process = No_Process
  BY CycleFacts
<1>1. ASSUME NEW p \in Proc, Elab_Resume(p) PROVE UNCHANGED LRM!vars
  BY <1>1, Stutter DEF Elab_Resume, Settled, Resuming
<1>2. ASSUME NEW p \in Proc, Wake_Skip(p) PROVE UNCHANGED LRM!vars
  BY <1>2, Stutter DEF Wake_Skip, Settled, Resuming
<1>3. ASSUME NEW p \in Proc, Wake_Error(p) PROVE UNCHANGED LRM!vars
  BY <1>3, Stutter DEF Wake_Error, Settled, Resuming
<1>4. CASE Elab_Run
  <2>1. Resuming' = Resuming
    BY <1>0, <1>4 DEF Elab_Run, Take_Table, Resuming, ElabPhases
  <2>2. Settled' = Settled
    BY <1>4 DEF Elab_Run, Take_Table, Settled
  <2>. QED
    BY <1>4, <2>1, <2>2, Stutter DEF Elab_Run, Take_Table
<1>5. CASE Start_Wake \/ No_Wake \/ End_Wake
  <2>1. Resuming' = Resuming /\ Settled' = Settled
    BY <1>5 DEF Start_Wake, No_Wake, End_Wake, Take_Table, Resuming, Settled
  <2>2. CASE Start_Wake \/ No_Wake
    BY <2>1, <2>2, Stutter DEF Start_Wake, No_Wake, Take_Table
  <2>3. CASE End_Wake
    <3>1. Deadline' = Deadline /\ Expired' = Expired
      BY <2>3 DEF End_Wake, Deadline, Expired, Pending
    <3>2. UNCHANGED <<Current_Time, elab, Current_Process, Sensitivity>>
      BY <2>3 DEF End_Wake, Take_Table
    <3>. QED
      BY <2>1, <3>1, <3>2 DEF LRM!vars, Settled, Resuming, Deadline, Expired
  <2>. QED
    BY <1>5, <2>2, <2>3
<1>6. CASE End_Run
  BY <1>6, <1>0, Stutter DEF End_Run, Settled, Resuming, NextTimeOK
<1>7. CASE Main_Loop
  BY <1>7, Stutter DEF Main_Loop, Settled, Resuming
<1>8. ASSUME NEW sig \in Signal, Signal_Event(sig) PROVE UNCHANGED LRM!vars
  BY <1>8, Stutter DEF Signal_Event, Settled, Resuming
<1>9. ASSUME NEW t \in Current_Time .. Last_Time, Delta_Cycle(t)
      PROVE  UNCHANGED LRM!vars
  BY <1>9, Stutter DEF Delta_Cycle, Settled, Resuming
<1>10. ASSUME NEW t \in Current_Time .. Last_Time, Postponed_Delta_Error(t)
       PROVE  UNCHANGED LRM!vars
  BY <1>10, Stutter DEF Postponed_Delta_Error, Settled, Resuming
<1>. QED
  BY <1>1, <1>2, <1>3, <1>4, <1>5, <1>6, <1>7, <1>8, <1>9, <1>10

LEMMA RefineKernel ==
  ASSUME CycleInv, Kernel_Step
  PROVE  [LRM!Next]_(LRM!vars)
<1>1. ASSUME NEW p \in Proc, Event_Resume(p) PROVE LRM!Next
  BY <1>1, RefineEvent DEF LRM!Next
<1>2. ASSUME NEW p \in Proc, Wake_Delayed(p) \/ Wake_Wait(p) PROVE LRM!Next
  BY <1>2, RefineExpire DEF LRM!Next
<1>3. CASE Call_Process
  BY <1>3, RefineCall DEF LRM!Next
<1>4. ASSUME NEW t \in Current_Time .. Last_Time, Run_Postponed(t)
      PROVE  LRM!Next
  BY <1>4, RefineSettle DEF LRM!Next
<1>5. CASE Elab_Run_Postponed
  BY <1>5, RefineSettle DEF LRM!Next
<1>6. ASSUME NEW t \in Current_Time .. Last_Time, Elab_Next_Time(t) PROVE LRM!Next
  BY <1>6, RefineInitialized DEF LRM!Next
<1>7. ASSUME NEW evs \in SUBSET Signal, Start_Cycle(evs)
      PROVE  LRM!Next \/ UNCHANGED LRM!vars
  <2>1. Next_Time \in 0 .. Last_Time
    BY CycleFacts DEF TypeOK, Time
  <2>. QED
    BY <1>7, <2>1, RefineStart DEF LRM!Next
<1>8. ASSUME NEW t \in Current_Time .. Last_Time, End_Time_Step(t)
      PROVE  LRM!Next \/ UNCHANGED LRM!vars
  BY <1>8, RefineEndTimeStep DEF LRM!Next
<1>9. ASSUME NEW t \in Current_Time .. Last_Time, End_Postponed(t)
      PROVE  LRM!Next \/ UNCHANGED LRM!vars
  BY <1>9, RefineEndPostponed DEF LRM!Next
<1>. QED
  BY <1>1, <1>2, <1>3, <1>4, <1>5, <1>6, <1>7, <1>8, <1>9, RefineQuiet DEF Kernel_Step

(* A wait statement of the running process.                                  *)
LEMMA RefineWait ==
  ASSUME CycleInv, NEW p \in Proc, NEW sigs \in SUBSET Signal,
         Running(p), State[p] = "Ready", Suspend,
         Sensitivity' = [Sensitivity EXCEPT ![p] = sigs],
         \/ /\ State' = [State EXCEPT ![p] = "Dead"] \/ State' = [State EXCEPT ![p] = "Wait"]
            /\ UNCHANGED <<Timeout, Process_Timeout_Chain>>
         \/ /\ State' = [State EXCEPT ![p] = "Delayed"]
            /\ Timeout' = [Timeout EXCEPT ![p] = Last_Time]
            /\ UNCHANGED Process_Timeout_Chain
         \/ \E d \in Delays :
              /\ ~Overflows(d)
              /\ \/ State' = [State EXCEPT ![p] = "Delayed"]
                 \/ State' = [State EXCEPT ![p] = "Wait"]
              /\ Update_Process_First_Timeout(p, Current_Time + d)
  PROVE  \E d \in 0 .. LRM!Never : LRM!Wait(p, sigs, d)
<1>. USE DEF timeVars, tableVars, runVars
<1>0. /\ TypeOK /\ TimeoutChainSound /\ ReadyInsensitive
      /\ Current_Process = p /\ Current_Process' = No_Process
      /\ UNCHANGED <<timeVars, Resumed, phase, elab>>
      /\ State \in [Proc -> ProcessState] /\ Timeout \in [Proc -> Time \cup {Bad_Time}]
      /\ Current_Time \in Time /\ Sensitivity \in [Proc -> SUBSET Signal]
  BY CycleFacts DEF Running, Suspend, TypeOK
<1>1. p \notin Process_Timeout_Chain /\ ~Pending(p) /\ Sensitivity[p] = {}
  BY <1>0 DEF TimeoutChainSound, ReadyInsensitive, Pending
<1>2. Deadline[p] = Last_Time + 1 /\ p \notin Expired
  BY <1>1 DEF Deadline, Expired
<1>3. \E d \in Current_Time .. Last_Time + 1 : Deadline' = [Deadline EXCEPT ![p] = d]
  <2>0. Deadline' = [q \in Proc |-> IF Pending(q)' THEN Timeout'[q] ELSE Last_Time + 1]
    BY DEF Deadline
  <2>1. \A q \in Proc \ {p} : Pending(q)' = Pending(q) /\ Timeout'[q] = Timeout[q]
    BY <1>0 DEF Pending, Update_Process_First_Timeout
  <2>2. CASE ~Pending(p)'
    <3>1. Deadline' = [Deadline EXCEPT ![p] = Last_Time + 1]
      BY <2>0, <2>1, <2>2 DEF Deadline
    <3>2. Last_Time + 1 \in Current_Time .. Last_Time + 1
      BY <1>0, TimeAssumption DEF Time
    <3>. QED
      BY <3>1, <3>2
  <2>3. CASE Pending(p)'
    <3>1. PICK d \in Delays : ~Overflows(d) /\ Update_Process_First_Timeout(p, Current_Time + d)
      BY <1>0, <1>1, <2>3 DEF Pending
    <3>2. Current_Time + d \in Current_Time .. Last_Time + 1
      BY <1>0, <3>1, TimeAssumption, TimeoutType DEF Time
    <3>3. Timeout'[p] = Current_Time + d
      BY <1>0, <3>1 DEF Update_Process_First_Timeout
    <3>4. Deadline' = [Deadline EXCEPT ![p] = Current_Time + d]
      BY <2>0, <2>1, <2>3, <3>3 DEF Deadline
    <3>. QED
      BY <3>2, <3>4
  <2>. QED
    BY <2>2, <2>3
<1>4. PICK d \in Current_Time .. Last_Time + 1 : Deadline' = [Deadline EXCEPT ![p] = d]
  BY <1>3
<1>5. Expired' = Expired /\ Settled' = Settled /\ Resuming' = Resuming
  BY <1>0 DEF Expired, Settled, Resuming
<1>6. d \in 0 .. Last_Time + 1 /\ d >= Current_Time
  BY <1>0, <1>4, TimeAssumption DEF Time
<1>7. LRM!Wait(p, sigs, d)
  BY <1>0, <1>1, <1>2, <1>4, <1>5, <1>6
     DEF LRM!Wait, LRM!Never, Settled, Deadline, Expired, Resuming
<1>. QED
  BY <1>6, <1>7 DEF LRM!Never

(* The condition of a wait statement holds, or its timeout has expired.      *)
LEMMA RefineComplete ==
  ASSUME CycleInv, NEW p \in Proc, Ghdl_Process_Wait_Close(p)
  PROVE  LRM!Complete(p)
<1>. USE DEF timeVars, tableVars, runVars
<1>1. /\ TypeOK /\ Current_Process = p
      /\ Sensitivity' = [Sensitivity EXCEPT ![p] = {}]
      /\ Process_Timeout_Chain' = Process_Timeout_Chain \ {p}
      /\ Timeout' = [Timeout EXCEPT ![p] = Bad_Time]
      /\ State' = [State EXCEPT ![p] = "Ready"]
      /\ UNCHANGED <<timeVars, tableVars, runVars, phase, elab>>
      /\ State \in [Proc -> ProcessState] /\ Timeout \in [Proc -> Time \cup {Bad_Time}]
  BY CycleFacts DEF Ghdl_Process_Wait_Close, Running, TypeOK
<1>2. Deadline' = [Deadline EXCEPT ![p] = Last_Time + 1]
  <2>1. ~Pending(p)'
    BY <1>1 DEF Pending
  <2>2. \A q \in Proc \ {p} : Pending(q)' = Pending(q) /\ Timeout'[q] = Timeout[q]
    BY <1>1 DEF Pending
  <2>3. Deadline' = [q \in Proc |-> IF Pending(q)' THEN Timeout'[q] ELSE Last_Time + 1]
    BY DEF Deadline
  <2>. QED
    BY <2>1, <2>2, <2>3 DEF Deadline
<1>3. Expired' = Expired \ {p}
  BY <1>1 DEF Expired
<1>4. Settled' = Settled /\ Resuming' = Resuming
  BY <1>1 DEF Settled, Resuming
<1>. QED
  BY <1>1, <1>2, <1>3, <1>4
     DEF LRM!Complete, LRM!Never, Settled, Deadline, Expired, Resuming

LEMMA RefineProcess ==
  ASSUME CycleInv, NEW p \in Proc, Process_Step(p)
  PROVE  LRM!Next
<1>0. Sensitivity \in [Proc -> SUBSET Signal] /\ ReadyInsensitive
  BY CycleFacts DEF TypeOK
<1>1. ASSUME NEW d \in Delays, Ghdl_Process_Wait_Timeout(p, d) PROVE LRM!Next
  <2>1. Sensitivity' = [Sensitivity EXCEPT ![p] = {}]
    BY <1>0, <1>1 DEF Ghdl_Process_Wait_Timeout, ReadyInsensitive
  <2>2. \E e \in 0 .. LRM!Never : LRM!Wait(p, {}, e)
    BY <1>1, <2>1, RefineWait DEF Ghdl_Process_Wait_Timeout
  <2>. QED
    BY <2>2 DEF LRM!Next
<1>2. ASSUME NEW sigs \in SUBSET Signal, Wait_On(p, sigs) PROVE LRM!Next
  <2>1. \E e \in 0 .. LRM!Never : LRM!Wait(p, sigs, e)
    BY <1>2, RefineWait DEF Wait_On
  <2>. QED
    BY <2>1 DEF LRM!Next
<1>3. ASSUME NEW sigs \in SUBSET Signal, NEW d \in Delays, Wait_On_For(p, sigs, d)
      PROVE  LRM!Next
  <2>1. \E e \in 0 .. LRM!Never : LRM!Wait(p, sigs, e)
    BY <1>3, RefineWait DEF Wait_On_For, Set_Timeout
  <2>. QED
    BY <2>1 DEF LRM!Next
<1>4. CASE Ghdl_Process_Wait_Exit(p)
  <2>1. Sensitivity' = [Sensitivity EXCEPT ![p] = {}]
    BY <1>0, <1>4 DEF Ghdl_Process_Wait_Exit, ReadyInsensitive
  <2>2. \E e \in 0 .. LRM!Never : LRM!Wait(p, {}, e)
    BY <1>4, <2>1, RefineWait DEF Ghdl_Process_Wait_Exit
  <2>. QED
    BY <2>2 DEF LRM!Next
<1>5. CASE Sensitized_Return(p) \/ Condition_False(p)
  <2>1. /\ Current_Process = p /\ Current_Process' = No_Process
        /\ State[p] \in {"Sensitized", "Wait"}
        /\ UNCHANGED <<Current_Time, elab, waitVars>>
        /\ UNCHANGED <<Next_Time, Resumed, phase>>
    BY <1>5 DEF Sensitized_Return, Condition_False, Running, Suspend, timeVars, tableVars
  <2>2. Settled' = Settled /\ Resuming' = Resuming
    BY <2>1 DEF Settled, Resuming
  <2>3. Deadline' = Deadline /\ Expired' = Expired /\ Sensitivity' = Sensitivity
    BY <2>1 DEF waitVars, Deadline, Expired, Pending
  <2>4. p \notin Expired
    BY <2>1 DEF Expired
  <2>5. LRM!Wait_Again(p)
    BY <2>1, <2>2, <2>3, <2>4 DEF LRM!Wait_Again, Settled, Resuming, Deadline, Expired
  <2>. QED
    BY <2>5 DEF LRM!Next
<1>6. CASE Ghdl_Process_Wait_Close(p)
  BY <1>6, RefineComplete DEF LRM!Next
<1>. QED
  BY <1>1, <1>2, <1>3, <1>4, <1>5, <1>6 DEF Process_Step

(* The scheduler behaves as the simulation cycle of the language: a process  *)
(* is resumed only by an event it waits for or exactly at its deadline, runs *)
(* before the time step ends, the postponed processes after all others, and  *)
(* time advances to no later than the next deadline, when nothing is left to *)
(* run.                                                                      *)
THEOREM CycleImplemented == Spec => ImplementsLRM
<1>1. CycleInv /\ [Next]_vars => [LRM!Next]_(LRM!vars)
  <2>. SUFFICES ASSUME CycleInv, [Next]_vars PROVE [LRM!Next]_(LRM!vars)
    OBVIOUS
  <2>1. CASE Kernel_Step
    BY <2>1, RefineKernel
  <2>2. ASSUME NEW p \in Proc, Process_Step(p) PROVE LRM!Next
    BY <2>2, RefineProcess
  <2>3. CASE UNCHANGED vars
    <3>1. UNCHANGED <<Current_Time, elab, Current_Process, waitVars>>
      BY <2>3 DEF vars, timeVars, runVars
    <3>2. Settled' = Settled /\ Resuming' = Resuming
      BY <2>3 DEF vars, timeVars, tableVars, Settled, Resuming
    <3>. QED
      BY <3>1, <3>2, Stutter
  <2>. QED
    BY <2>1, <2>2, <2>3 DEF Next
<1>. QED
  BY <1>1, RefineInit, CycleInit, CycleStep, PTL DEF Spec, ImplementsLRM, LRM!Spec

-----------------------------------------------------------------------------
(* Internal_Error needs a postponed process: without one, a process in       *)
(* State_Timeout has always executed its Wait_Close before the next walk of  *)
(* the timeout chain.  With one it has not, as a run of TLC shows.           *)
TimeoutTransient ==
  /\ phase # "internal_error"
  /\ \A p \in Proc : State[p] = "Timeout" =>
       \/ phase = "wake" /\ p \notin walk /\ Resumed[p]
       \/ phase = "run" /\ (Resumed[p] \/ p = Current_Process)

(* Run_Processes has run all there is: no process is in State_Timeout.       *)
LEMMA NothingLeft ==
  ASSUME CycleInv, TimeoutTransient, Postponed = {},
         phase = "run", table = << >>, Current_Process = No_Process
  PROVE  \A p \in Proc : State[p] # "Timeout"
<1>1. Resume_Process_Table = << >> /\ TypeOK /\ ResumeTablesSound
  BY CycleFacts DEF TablesInOrder
<1>2. Resuming = {}
  BY <1>1, TablesHoldResumed
<1>. QED
  BY <1>2, ProcAssumption DEF TimeoutTransient, Resuming

LEMMA TransientKernel ==
  ASSUME CycleInv, TimeoutTransient, Postponed = {}, Kernel_Step
  PROVE  TimeoutTransient'
<1>. USE DEF timeVars, waitVars, tableVars, runVars
<1>0. /\ TypeOK /\ ResumeTablesSound /\ TimeoutChainSound /\ WakeLoop
      /\ Resumed \in [Proc -> BOOLEAN] /\ State \in [Proc -> ProcessState]
  BY CycleFacts DEF TypeOK
<1>. USE <1>0 DEF TimeoutTransient
<1>1. ASSUME NEW p \in Proc,
             Elab_Resume(p) \/ Event_Resume(p) \/ Wake_Skip(p)
      PROVE  TimeoutTransient'
  BY <1>1 DEF Elab_Resume, Event_Resume, Wake_Skip, Resume_Process
<1>2. ASSUME NEW p \in Proc, Wake_Delayed(p) \/ Wake_Wait(p)
      PROVE  TimeoutTransient'
  BY <1>2 DEF Wake_Delayed, Wake_Wait, Resume_Process
<1>3. ASSUME NEW p \in Proc, Wake_Error(p) PROVE FALSE
  <2>1. p \in Process_Timeout_Chain
    BY <1>3 DEF Wake_Error, WakeLoop
  <2>2. State[p] = "Timeout"
    BY <1>3, <2>1 DEF Wake_Error, TimeoutChainSound
  <2>. QED
    BY <1>3, <2>2 DEF Wake_Error
<1>4. CASE Elab_Run \/ No_Wake
  BY <1>4 DEF Elab_Run, No_Wake, Take_Table
<1>5. CASE End_Wake
  BY <1>5 DEF End_Wake, Take_Table
<1>6. CASE Start_Wake \/ Main_Loop
  BY <1>6 DEF Start_Wake, Main_Loop
<1>7. ASSUME NEW evs \in SUBSET Signal, Start_Cycle(evs) PROVE TimeoutTransient'
  BY <1>7 DEF Start_Cycle
<1>8. ASSUME NEW sig \in Signal, Signal_Event(sig) PROVE TimeoutTransient'
  BY <1>8 DEF Signal_Event
<1>9. CASE Call_Process
  <2>1. /\ phase' = phase /\ phase \in {"run", "postponed"}
        /\ Resumed' = [Resumed EXCEPT ![Head(table)] = FALSE]
        /\ Current_Process' = Head(table) /\ Current_Process = No_Process
        /\ State' = State
    BY <1>9, TablesCall DEF Call_Process
  <2>. QED
    BY <2>1, ProcAssumption
<1>10. CASE Elab_Run_Postponed \/ End_Run
  <2>1. CASE phase = "run"
    <3>1. \A p \in Proc : State[p] # "Timeout"
      BY <1>10, <2>1, NothingLeft DEF Elab_Run_Postponed, End_Run
    <3>. QED
      BY <1>10, <3>1 DEF Elab_Run_Postponed, End_Run, Take_Postponed_Table
  <2>2. CASE phase # "run"
    BY <1>10, <2>2 DEF Elab_Run_Postponed, End_Run
  <2>. QED
    BY <2>1, <2>2
<1>11. ASSUME NEW t \in Current_Time .. Last_Time,
              \/ Elab_Next_Time(t) \/ Delta_Cycle(t) \/ End_Time_Step(t)
              \/ Run_Postponed(t) \/ End_Postponed(t) \/ Postponed_Delta_Error(t)
       PROVE  TimeoutTransient'
  BY <1>11 DEF Elab_Next_Time, Delta_Cycle, End_Time_Step, Run_Postponed, End_Postponed,
               Postponed_Delta_Error, Finish_Time_Step, Take_Postponed_Table
<1>. QED
  BY <1>1, <1>2, <1>3, <1>4, <1>5, <1>6, <1>7, <1>8, <1>9, <1>10, <1>11 DEF Kernel_Step

LEMMA TransientProcess ==
  ASSUME CycleInv, TimeoutTransient, NEW p \in Proc, Process_Step(p)
  PROVE  TimeoutTransient'
<1>. USE DEF timeVars, waitVars, tableVars, runVars
<1>1. /\ UNCHANGED <<Resumed, phase, walk>>
      /\ phase \in {"run", "postponed"} /\ Current_Process = p
      /\ Current_Process' = p \/ State[p] # "Timeout"
      /\ \/ State' = State
         \/ \E s \in ProcessState \ {"Timeout"} : State' = [State EXCEPT ![p] = s]
      /\ State \in [Proc -> ProcessState]
  BY CycleFacts
     DEF Process_Step, Running, Suspend, Ghdl_Process_Wait_Timeout, Wait_On,
         Wait_On_For, Ghdl_Process_Wait_Exit, Sensitized_Return, Condition_False,
         Ghdl_Process_Wait_Close, ProcessState, TypeOK
<1>. QED
  BY <1>1 DEF TimeoutTransient

(* In a design without postponed processes the scheduler never reports an    *)
(* internal error: State_Timeout is transient, as grt-processes.ads says.    *)
THEOREM NoErrorWithoutPostponed ==
  ASSUME Postponed = {}
  PROVE  Spec => []NoInternalError
<1>1. Init => TimeoutTransient
  BY DEF Init, TimeoutTransient
<1>2. CycleInv /\ TimeoutTransient /\ [Next]_vars => TimeoutTransient'
  <2>1. UNCHANGED vars /\ TimeoutTransient => TimeoutTransient'
    BY DEF vars, timeVars, waitVars, tableVars, runVars, TimeoutTransient
  <2>. QED
    BY <2>1, TransientKernel, TransientProcess DEF Next
<1>3. TimeoutTransient => NoInternalError
  BY DEF TimeoutTransient, NoInternalError
<1>. QED
  BY <1>1, <1>2, <1>3, CycleInit, CycleStep, PTL DEF Spec
=============================================================================
