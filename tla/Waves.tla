-------------------------------- MODULE Waves --------------------------------
(***************************************************************************)
(* The writer of GHW files (src/src/grt/grt-waves.adb): the walks over the *)
(* design that collect strings and types, number the signals and write the *)
(* header, the snapshot and the cycles, with the changes of the signals    *)
(* that it is told of (Set_Effective_Value) and the moments at which the   *)
(* simulation calls it (grt-processes.adb).                                *)
(*                                                                         *)
(* A design has                                                            *)
(*   types:    [kind, name, base, names, els, dims, rng, layout], in any   *)
(*             order; an object of kind "object" is an unbounded port, with*)
(*             its type as base and its bounds as layout                   *)
(*   layouts:  bounds of composites, [rngs, els] with els the layouts of   *)
(*             the elements, 0 for one that is bounded                     *)
(*   scopes:   regions and declarations, [kind, name, type, value, nets,   *)
(*             decls, subs]; type is also the one of a generate iterator   *)
(*   packages, root: scopes;  modes: the kind of each scalar signal (net)  *)
(*   known:    the types std.standard.boolean, bit and ieee std_ulogic     *)
(*   option:   the lines of the wave option file, or all if there is none  *)
(*   last:     the last time step (a bound)                                *)
(* Scalars are of kind "e8", values in a byte, or "i32", signed; the other *)
(* formats differ in width only.                                           *)
(***************************************************************************)
EXTENDS GhwFormat, FiniteSets

CONSTANTS
  Designs,     \* the designs that may be simulated (a bound)
  Net_Values,  \* the values of a scalar of each kind (a bound)
  Buffer       \* the units that stdio may hold back (a bound)

Options == INSTANCE WaveOpt

VARIABLES
  design,            \* the design and its options
  stepping,          \* the simulation runs by Simulation_Step
  pc,                \* where the simulation is
  Current_Time,
  Value,             \* of each scalar signal
  RO_Event,          \* the signals with this flag
  Changed_Sig_Table,
  walk,              \* what the walk over the design meets
  Str_Table,         \* sorted, once frozen
  Types_Table,       \* types in the order of their numbers
  Dump_Table,        \* signals by number; Dump_Table_Idx is its inverse
  Section_Table,
  In_Cyc, Wave_Time,
  hist               \* what was recorded: time and values, as displayed

designVars == <<design, stepping>>
signalVars == <<Value, RO_Event, Changed_Sig_Table>>
tableVars == <<walk, Str_Table, Types_Table>>
writerVars == <<Dump_Table, Section_Table, In_Cyc, Wave_Time, hist>>
wavesVars == <<designVars, pc, Current_Time, signalVars, tableVars, writerVars, file>>

Types == design.types
Layouts == design.layouts
Scopes == design.scopes
Decl_Kinds == {"signal", "port_in", "port_out", "port_inout"}

Is_Decl(s) == Scopes[s].kind \in Decl_Kinds

Get_Base_Type(t) == IF Types[t].base = 0 THEN t ELSE Types[t].base

Is_Unbounded(t) ==
  Types[t].kind \in {"type_array", "subtype_unbounded_array",
                     "type_unbounded_record", "subtype_unbounded_record"}

El_Layout(l, i) == IF l = 0 THEN 0 ELSE Layouts[l].els[i]

(* Seeded fault: one too few.                                                *)
Range_Length_Short(r) ==
  LET n == IF r.down THEN r.left - r.right ELSE r.right - r.left
  IN IF n < 0 THEN 0 ELSE n

Range_Length(r) ==
  LET n == (IF r.down THEN r.left - r.right ELSE r.right - r.left) + 1
  IN IF n < 0 THEN 0 ELSE n

(* The scalars of an object of type t, whose layout is l if t is unbounded:  *)
(* the base type of each, in the order of Foreach_Scalar.                    *)
Foreach_Scalar(type, layout) ==
  LET Each[x \in (1 .. Len(Types)) \X (0 .. Len(Layouts))] ==
        LET t == x[1]
            T == Types[t]
            b == Types[Get_Base_Type(t)]
            l == IF Is_Unbounded(t) THEN x[2] ELSE T.layout
            len == FoldLeft(LAMBDA n, r : n * Range_Length(r), 1,
                            IF l = 0 THEN << >> ELSE Layouts[l].rngs)
        IN CASE T.kind = "object" -> Each[<<T.base, T.layout>>]
             [] b.kind \in {"e8", "i32"} -> <<Get_Base_Type(t)>>
             [] b.kind = "type_array" ->
                  FlattenSeq([i \in 1 .. len |-> Each[<<b.els[1], El_Layout(l, 1)>>]])
             [] OTHER ->
                  FlattenSeq([i \in 1 .. Len(b.els) |-> Each[<<b.els[i], El_Layout(l, i)>>]])
  IN Each[<<type, layout>>]

-----------------------------------------------------------------------------
(* The walk over the design, for names and for the hierarchy.                *)

Is_Displayed(cursors) == design.option.all \/ cursors # {}

Option_Tree(top) == Options!Parse_File(design.option[top])

Get_Cursor(top, parents, s) ==
  IF design.option.all THEN {}
  ELSE Options!Find_Cursor(Option_Tree(top), parents, Scopes[s].name, Is_Decl(s))

(* Wave_Put_Hierarchy_Block and Wave_Put_Hierarchy_1: the scopes and the     *)
(* declarations met in the scope s, and 0 at the end of a scope.             *)
Wave_Put_Hierarchy_Block(top, scope) ==
  LET Put[x \in (1 .. Len(Scopes)) \X SUBSET ToSet(Option_Tree(top))] ==
        LET s == x[1]
            S == Scopes[s]
            child(c) ==
              LET cursor == Get_Cursor(top, x[2], c)
              IN IF ~Is_Displayed(cursor) THEN << >>
                 ELSE IF Is_Decl(c) \/ Scopes[c].kind = "process" THEN <<c>>
                 ELSE Put[<<c, cursor>>]
            subs == IF S.kind = "package" THEN << >> ELSE S.subs
        IN <<s>> \o FlattenSeq([i \in 1 .. Len(S.decls) |-> child(S.decls[i])])
           \o FlattenSeq([i \in 1 .. Len(subs) |-> child(subs[i])]) \o <<0>>
      cursor == Get_Cursor(top, {<< >>}, scope)
  IN IF Is_Displayed(cursor) THEN Put[<<scope, cursor>>] ELSE << >>

Wave_Put_Hierarchy ==
  FlattenSeq([i \in 1 .. Len(design.packages) |->
                Wave_Put_Hierarchy_Block("packages", design.packages[i])])
    \o Wave_Put_Hierarchy_Block("entities", design.root)

(* The declarations met.                                                     *)
Displayed(hierarchy) == SelectSeq(hierarchy, LAMBDA s : s # 0 /\ Is_Decl(s))

-----------------------------------------------------------------------------
(* Step_Name: the strings and the types, each type after those it uses.      *)

Created_Types(hierarchy) ==
  LET depends(t) ==
        CASE Types[t].base # 0 -> <<Types[t].base>>
          [] OTHER -> Types[t].els \o Types[t].dims
      Create[x \in Seq(1 .. Len(Types)) \X (1 .. Len(Types))] ==
        IF Contains(x[1], x[2]) THEN x[1]
        ELSE Append(FoldLeft(LAMBDA table, d : Create[<<table, d>>], x[1], depends(x[2])),
                    x[2])
      typed == SelectSeq(hierarchy, LAMBDA s : s # 0 /\ Scopes[s].type # 0)
  IN FoldLeft(LAMBDA table, s : Create[<<table, Scopes[s].type>>], << >>, typed)

strcmp_less(a, b) ==
  LET n == Len(LongestCommonPrefix({a, b}))
  IN n < Len(b) /\ (n = Len(a) \/ a[n + 1] < b[n + 1])

(* The elements of a sequence without those already met.                     *)
Distinct(s) ==
  FoldLeft(LAMBDA met, x : IF Contains(met, x) THEN met ELSE Append(met, x), << >>, s)

(* Every name given to Create_String_Id, in the order of Freeze_Strings; a   *)
(* type without name has << >> (null).                                       *)
Created_Strings(hierarchy) ==
  LET types == Created_Types(hierarchy)
      elements == SelectSeq(hierarchy, LAMBDA s : s # 0)
      names == [i \in 1 .. Len(elements) |-> Scopes[elements[i]].name]
                 \o FlattenSeq([i \in 1 .. Len(types) |->
                                 <<Types[types[i]].name>> \o Types[types[i]].names])
  IN SortSeq(Distinct(SelectSeq(names, LAMBDA str : str # << >>)), strcmp_less)

(* The binary search, over the sorted strings; 0 if there is none.           *)
Get_String(str) ==
  LET Find[x \in Nat \X Nat] ==
        LET m == (x[1] + x[2]) \div 2
        IN CASE x[1] > x[2] -> 0
             [] OTHER -> IF Str_Table[m] = str THEN m
                         ELSE IF strcmp_less(str, Str_Table[m])
                              THEN Find[<<x[1], m - 1>>] ELSE Find[<<m + 1, x[2]>>]
  IN Find[<<1, Len(Str_Table)>>]

Write_String_Id(str) ==
  IF str = << >> THEN <<Byte(0)>> ELSE Wave_Put_ULEB128(Get_String(str))

Write_Type_Id(t) == Wave_Put_ULEB128(SelectInSeq(Types_Table, LAMBDA u : u = t))

-----------------------------------------------------------------------------
(* The sections of the header.                                               *)

Write_Value(kind, v) == IF kind = "e8" THEN <<Byte(v)>> ELSE Wave_Put_Signed(v)

Write_Range(t, r) ==
  LET kind == Types[Get_Base_Type(t)].kind
  IN <<[k |-> kind, v |-> IF r.down THEN 1 ELSE 0]>>
       \o Write_Value(kind, r.left) \o Write_Value(kind, r.right)

(* The bounds of the base type t: those of an element only if it has none.   *)
Write_Composite_Bounds(type, layout) ==
  LET Write[x \in (1 .. Len(Types)) \X (0 .. Len(Layouts))] ==
        LET T == Types[x[1]]
            L == Layouts[x[2]]
            element(i) == IF ~Is_Unbounded(T.els[i]) THEN << >>
                          ELSE Write[<<Get_Base_Type(T.els[i]), L.els[i]>>]
        IN CASE T.kind = "type_array" ->
                  FlattenSeq([i \in 1 .. Len(T.dims) |-> Write_Range(T.dims[i], L.rngs[i])])
                    \o element(1)
             [] T.kind = "type_unbounded_record" ->
                  FlattenSeq([i \in 1 .. Len(T.els) |-> element(i)])
             [] OTHER -> << >>
  IN Write[<<type, layout>>]

Write_Type(t) ==
  LET T == Types[t]
      b == Get_Base_Type(t)
      names == FlattenSeq([i \in 1 .. Len(T.names) |-> Write_String_Id(T.names[i])])
      record == T.kind \in {"type_record", "type_unbounded_record"}
      ghw_kind == CASE record -> "type_record"
                    [] T.kind = "object" ->
                         IF Types[Get_Base_Type(b)].kind = "type_array"
                         THEN "subtype_array" ELSE "subtype_record"
                    [] OTHER -> T.kind
  IN <<Mark(ghw_kind)>> \o Write_String_Id(T.name) \o
     CASE T.kind = "e8" -> Wave_Put_ULEB128(Len(T.names)) \o names
       [] T.kind = "i32" -> << >>
       [] T.kind = "subtype_scalar" -> Write_Type_Id(b) \o Write_Range(b, T.rng)
       [] T.kind = "type_array" ->
            Write_Type_Id(T.els[1]) \o Wave_Put_ULEB128(Len(T.dims))
              \o FlattenSeq([i \in 1 .. Len(T.dims) |-> Write_Type_Id(T.dims[i])])
       [] record ->
            Wave_Put_ULEB128(Len(T.els))
              \o FlattenSeq([i \in 1 .. Len(T.els) |->
                               Write_String_Id(T.names[i]) \o Write_Type_Id(T.els[i])])
       [] T.kind \in {"subtype_array", "subtype_record"} ->
            Write_Type_Id(b) \o Write_Composite_Bounds(b, T.layout)
       [] T.kind = "object" ->
            Write_Type_Id(Get_Base_Type(b))
              \o Write_Composite_Bounds(Get_Base_Type(b), T.layout)
       [] OTHER -> Write_Type_Id(b)

Write_Types ==
  <<Mark("zero"), I32(Len(Types_Table))>>
    \o FlattenSeq([i \in 1 .. Len(Types_Table) |-> Write_Type(Types_Table[i])])
    \o <<Byte(0)>>

(* Each string but the first starts with the length of what it shares with   *)
(* its predecessor, which is not repeated.                                   *)
Write_Strings_Compress ==
  LET shared(i) == Len(LongestCommonPrefix({Str_Table[i], Str_Table[i - 1]}))
      string(i) ==
        IF i = 1 THEN [c \in 1 .. Len(Str_Table[1]) |-> Char(Str_Table[1][c])]
        ELSE Put_Groups(Prefix_Group, shared(i))
               \o [c \in 1 .. (Len(Str_Table[i]) - shared(i)) |->
                     Char(Str_Table[i][shared(i) + c])]
  IN <<Mark("zero"), I32(Len(Str_Table)), I32(FoldLeft(LAMBDA n, s : n + Len(s), 0, Str_Table))>>
       \o FlattenSeq([i \in 1 .. Len(Str_Table) |-> string(i)])
       \o <<Byte(0), Mark("EOS")>>

Write_Known_Types ==
  <<Mark("zero")>>
    \o FlattenSeq([i \in 1 .. 3 |->
         IF ~Contains(Types_Table, design.known[i]) THEN << >>
         ELSE <<Byte(i)>> \o Write_Type_Id(design.known[i])])
    \o <<Byte(0)>>

(* The signals in the order in which Write_Signal_Number numbers them.       *)
Dumped_Signals ==
  Distinct(FlattenSeq([i \in 1 .. Len(Displayed(walk)) |-> Scopes[Displayed(walk)[i]].nets]))

Write_Hierarchy_El(s) ==
  LET S == Scopes[s]
      number(n) == SelectInSeq(Dumped_Signals, LAMBDA m : m = n)
  IN IF s = 0 THEN <<Mark("eos")>>
     ELSE <<Mark(S.kind)>> \o Write_String_Id(S.name) \o
          CASE Is_Decl(s) ->
                 Write_Type_Id(S.type)
                   \o FlattenSeq([i \in 1 .. Len(S.nets) |-> Wave_Put_ULEB128(number(S.nets[i]))])
            [] S.kind = "generate_for" ->
                 Write_Type_Id(S.type) \o Write_Value(Types[Get_Base_Type(S.type)].kind, S.value)
            [] OTHER -> << >>

(* Nbr_Scopes and Nbr_Scope_Signals, which readers only print, are left out. *)
Write_Hierarchy ==
  <<Mark("zero"), I32(Len(design.modes))>>
    \o FlattenSeq([i \in 1 .. Len(walk) |-> Write_Hierarchy_El(walk[i])])
    \o <<Mark("end_hierarchy")>>

(* Seeded fault: the position is the one after the name.                     *)
Wave_Section_After(f, section) ==
  [file |-> f.file \o <<Mark(section[1])>> \o section[2],
   table |-> Append(f.table, [name |-> section[1], pos |-> Len(f.file) + 2])]

(* The state of a file after one more section: Wave_Section and its content. *)
Wave_Section(f, section) ==
  [file |-> f.file \o <<Mark(section[1])>> \o section[2],
   table |-> Append(f.table, [name |-> section[1], pos |-> Len(f.file) + 1])]

(* What Wave_Start writes, section by section.                               *)
Header ==
  FoldLeft(Wave_Section, [file |-> <<Mark("GHDLwave")>>, table |-> << >>],
           <<<<"STR", Write_Strings_Compress>>, <<"TYP", Write_Types>>,
             <<"WKT", Write_Known_Types>>, <<"HIE", Write_Hierarchy>>, <<"EOH", << >>>>>>)

-----------------------------------------------------------------------------
(* The simulation, and the writer's hooks.                                   *)

Nets == 1 .. Len(design.modes)

Dump_Table_Idx(n) == SelectInSeq(Dump_Table, LAMBDA m : m = n)

(* What a viewer should show now: the values of each declaration displayed.  *)
Record ==
  [time |-> Current_Time,
   vals |-> [i \in 1 .. Len(Displayed(walk)) |->
               LET nets == Scopes[Displayed(walk)[i]].nets
               IN [j \in 1 .. Len(nets) |-> Value[nets[j]]]]]

Initial_Value == [n \in Nets |-> CHOOSE v \in Net_Values[design.modes[n]] : TRUE]

Init_Waves ==
  /\ design \in Designs /\ stepping \in BOOLEAN
  /\ pc = "elaborated" /\ Current_Time = 0
  /\ Value = Initial_Value /\ RO_Event = {} /\ Changed_Sig_Table = << >>
  /\ walk = << >> /\ Str_Table = << >> /\ Types_Table = << >>
  /\ Dump_Table = << >> /\ Section_Table = << >>
  /\ In_Cyc = FALSE /\ Wave_Time = 0
  /\ hist = << >> /\ file = << >>

(* Wave_Start, before elaborated signals are initialized: the first walk and *)
(* Freeze_Strings...                                                         *)
Wave_Start_Names ==
  /\ pc = "elaborated"
  /\ pc' = "named"
  /\ walk' = Wave_Put_Hierarchy
  /\ Types_Table' = Created_Types(walk')
  /\ Str_Table' = Created_Strings(walk')
  /\ UNCHANGED <<designVars, Current_Time, signalVars, writerVars, file>>

(* ...then the header, with the second walk.                                 *)
Wave_Start ==
  /\ pc = "named"
  /\ pc' = "started"
  /\ file' = Header.file /\ Section_Table' = Header.table
  /\ Dump_Table' = Dumped_Signals
  /\ UNCHANGED <<designVars, Current_Time, signalVars, tableVars, In_Cyc, Wave_Time, hist>>

(* Write_Snapshot, the callback of Cb_Start_Of_Processes.                    *)
Wave_Start_Cb ==
  /\ pc = "started"
  /\ pc' = "initialized"
  /\ LET values == FlattenSeq([i \in 1 .. Len(Dump_Table) |->
                       Write_Value(design.modes[Dump_Table[i]], Value[Dump_Table[i]])])
         written == Wave_Section([file |-> file, table |-> Section_Table],
                      <<"SNP", <<Mark("zero")>> \o Wave_Put_I64(Current_Time)
                                 \o values \o <<Mark("ESN")>>>>)
     IN file' = written.file /\ Section_Table' = written.table
  /\ hist' = Append(hist, Record)
  /\ UNCHANGED <<designVars, Current_Time, signalVars, tableVars, Dump_Table, In_Cyc, Wave_Time>>

(* Seeded fault: a signal that changes twice is appended twice.              *)
Set_Effective_Value_Twice(n, v) ==
  /\ pc = "step"
  /\ Value[n] # v
  /\ Value' = [Value EXCEPT ![n] = v]
  /\ RO_Event' = RO_Event \cup {n}
  /\ Changed_Sig_Table' = IF Dump_Table_Idx(n) # 0
                          THEN Append(Changed_Sig_Table, n) ELSE Changed_Sig_Table
  /\ UNCHANGED <<designVars, pc, Current_Time, tableVars, writerVars, file>>

(* A signal gets an effective value during a cycle.                          *)
Set_Effective_Value(n, v) ==
  /\ pc = "step"
  /\ Value[n] # v
  /\ Value' = [Value EXCEPT ![n] = v]
  /\ RO_Event' = RO_Event \cup {n}
  /\ Changed_Sig_Table' = IF n \notin RO_Event /\ Dump_Table_Idx(n) # 0
                          THEN Append(Changed_Sig_Table, n) ELSE Changed_Sig_Table
  /\ UNCHANGED <<designVars, pc, Current_Time, tableVars, writerVars, file>>

(* The changes, in the order of the dump table: the difference of the number *)
(* to the one before, and the value.                                         *)
Changes ==
  LET sorted == SortSeq(Changed_Sig_Table, LAMBDA m, n : Dump_Table_Idx(m) < Dump_Table_Idx(n))
      dumped == SelectSeq(sorted, LAMBDA n : n \in RO_Event)
      last(i) == IF i = 1 THEN 0 ELSE Dump_Table_Idx(dumped[i - 1])
  IN FlattenSeq([i \in 1 .. Len(dumped) |->
       Wave_Put_ULEB128(Dump_Table_Idx(dumped[i]) - last(i))
         \o Write_Value(design.modes[dumped[i]], Value[dumped[i]])]) \o <<Byte(0)>>

(* Wave_Cycle, called (Call_Cycle_Hooks) after the initialization unless the *)
(* first cycle is a delta cycle, at the end of each time step, and once more *)
(* by Simulation_Step.                                                       *)
Wave_Cycle ==
  /\ pc \in {"initialized", "step", "again"}
  /\ pc' = IF pc = "step" /\ stepping THEN "again" ELSE "stepped"
  /\ LET state == [file |-> file, table |-> Section_Table]
         written == IF In_Cyc
                    THEN [state EXCEPT !.file = @ \o Wave_Put_Signed(Current_Time - Wave_Time)
                                                  \o Changes]
                    ELSE Wave_Section(state, <<"CYC", Wave_Put_I64(Current_Time) \o Changes>>)
     IN file' = written.file /\ Section_Table' = written.table
  /\ In_Cyc' = TRUE
  /\ Wave_Time' = Current_Time
  /\ RO_Event' = RO_Event \ ToSet(Changed_Sig_Table)
  /\ Changed_Sig_Table' = << >>
  /\ hist' = Append(hist, Record)
  /\ UNCHANGED <<designVars, Current_Time, Value, tableVars, Dump_Table>>

(* The first cycle is a delta cycle: the time step goes on.                  *)
First_Delta_Cycle ==
  /\ pc = "initialized"
  /\ pc' = "step"
  /\ UNCHANGED <<designVars, Current_Time, signalVars, tableVars, writerVars, file>>

Next_Time_Step ==
  /\ pc = "stepped"
  /\ pc' = "step"
  /\ Current_Time' \in (Current_Time + 1) .. design.last
  /\ UNCHANGED <<designVars, signalVars, tableVars, writerVars, file>>

(* Wave_End, by Run_Finish: the simulation may stop or fail at any moment,   *)
(* or not even start (--no-run).                                             *)
Wave_End ==
  /\ pc \notin {"named", "closed", "crashed"}
  /\ pc' = "closed"
  /\ LET cycles == IF In_Cyc THEN file \o Wave_Put_Signed(-1) \o <<Mark("ECY")>> ELSE file
         entries == Append(Section_Table, [name |-> "DIR", pos |-> Len(cycles) + 1])
         directory == FlattenSeq([i \in 1 .. Len(entries) |->
                        <<Mark(entries[i].name), I32(entries[i].pos)>>])
         state == Wave_Section([file |-> cycles, table |-> Section_Table],
                    <<"DIR", <<Mark("zero"), I32(Len(entries))>> \o directory \o <<Mark("EOD")>>>>)
         written == Wave_Section(state,
                      <<"TAI", <<Mark("zero"), I32(Len(cycles) + 1)>>>>)
     IN file' = written.file /\ Section_Table' = written.table
  /\ In_Cyc' = FALSE
  /\ UNCHANGED <<designVars, Current_Time, signalVars, tableVars, Dump_Table, Wave_Time, hist>>

(* The program dies: what stdio had not yet written is lost.  Wave_Start     *)
(* ends with fflush, so that the header is there once the simulation starts. *)
(* Nothing is left of the signals.                                           *)
Crash ==
  /\ pc \notin {"elaborated", "closed", "crashed"}
  /\ pc' = "crashed"
  /\ \/ /\ pc = "named"
        /\ \E n \in 0 .. Len(Header.file) : file' = SubSeq(Header.file, 1, n)
     \/ /\ pc # "named"
        /\ \E n \in Max({Len(Header.file), Len(file) - Buffer}) .. Len(file) :
             file' = SubSeq(file, 1, n)
  /\ UNCHANGED <<designVars, Current_Time, tableVars, writerVars>>
  /\ Value' = Initial_Value /\ RO_Event' = {} /\ Changed_Sig_Table' = << >>

Next_Waves ==
  \/ Wave_Start_Names \/ Wave_Start \/ Wave_Start_Cb \/ Wave_Cycle
  \/ \E n \in Nets : \E v \in Net_Values[design.modes[n]] : Set_Effective_Value(n, v)
  \/ First_Delta_Cycle \/ Next_Time_Step \/ Wave_End \/ Crash
=============================================================================
