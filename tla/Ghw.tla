--------------------------------- MODULE Ghw ---------------------------------
(***************************************************************************)
(* A simulation that writes a GHW file, and ghwdump, which reads the file  *)
(* once the simulation is over, be it that it ended or that it died.       *)
(***************************************************************************)
EXTENDS Waves, Libghw

vars == <<wavesVars, libghwVars>>

Init == Init_Waves /\ Init_Libghw

Write == Next_Waves /\ UNCHANGED libghwVars

Read == pc \in {"closed", "crashed"} /\ Next_Libghw /\ UNCHANGED <<wavesVars>>

Next == Write \/ Read

Reader_Done == status \in {"eof", "error", "undefined"}

(* WF_vars(Read), written without ENABLED: a step of the reader is possible  *)
(* until it is done, and no other step changes libghwVars.  ghwdump is a     *)
(* loop that blocks on nothing; nothing is assumed of the simulation, which  *)
(* may never end.                                                            *)
Fair_Read == <>[](pc \in {"closed", "crashed"} /\ ~Reader_Done) => []<><<TRUE>>_libghwVars

Spec == Init /\ [][Next]_vars /\ Fair_Read

-----------------------------------------------------------------------------
(* The design is one that elaboration can give: each declaration has the     *)
(* scalar signals its type says, of the kinds it says.                       *)
Design_OK ==
  \A s \in 1 .. Len(Scopes) : Is_Decl(s) =>
    LET kinds == [j \in 1 .. Len(Scopes[s].nets) |-> design.modes[Scopes[s].nets[j]]]
        leaves == Foreach_Scalar(Scopes[s].type, 0)
    IN kinds = [j \in 1 .. Len(leaves) |-> Types[leaves[j]].kind]

(* Type invariant of the writer (grt-waves.adb) and of the reader            *)
(* (libghw.c).                                                               *)
TypeOK ==
  /\ Design_OK
  /\ pc \in {"elaborated", "named", "started", "initialized", "step", "stepped", "again",
             "closed", "crashed"}
  /\ Current_Time \in 0 .. design.last /\ Wave_Time \in 0 .. Current_Time
  /\ \A n \in Nets : Value[n] \in Net_Values[design.modes[n]]
  /\ RO_Event \subseteq Nets /\ ToSet(Changed_Sig_Table) \subseteq Nets
  /\ \A i \in DOMAIN Dump_Table : Dump_Table[i] \in Nets
  /\ In_Cyc \in BOOLEAN
  /\ status \in {"closed", "base", "sect", "cycle", "eof", "error", "undefined"}
  /\ rpos \in 1 .. Undefined
  /\ Len(val) = Len(sigs) /\ \A n \in DOMAIN sigs : sigs[n] \in 0 .. Len(types)

(* Changed_Sig_Table holds each dumped signal with an event once and no      *)
(* other, and every signal displayed that has not the value of the last      *)
(* record is in it: Wave_Cycle dumps nothing else (grt-signals.adb:3304,     *)
(* grt-waves.adb:1783).                                                      *)
ChangedExact ==
  /\ Len(Changed_Sig_Table) = Cardinality(ToSet(Changed_Sig_Table))
  /\ ToSet(Changed_Sig_Table) = RO_Event \cap ToSet(Dump_Table)
  /\ hist # << >> /\ pc # "crashed" => \A i \in DOMAIN Displayed(walk) :
       LET nets == Scopes[Displayed(walk)[i]].nets
       IN \A j \in DOMAIN nets :
            Value[nets[j]] # Last(hist).vals[i][j] => Contains(Changed_Sig_Table, nets[j])

(* The lines of the walk: what is open above an element is its depth.        *)
Walk_Rows ==
  LET opens(s) == s # 0 /\ ~Is_Decl(s) /\ Scopes[s].kind # "process"
      depth(i) == 1 + Len(SelectSeq(SubSeq(walk, 1, i - 1), opens))
                    - Len(SelectSeq(SubSeq(walk, 1, i - 1), LAMBDA s : s = 0))
      row(i) == LET S == Scopes[walk[i]]
                IN [depth |-> depth(i), kind |-> S.kind, name |-> S.name,
                    sigs |-> [j \in 1 .. Len(S.nets) |->
                              SelectInSeq(Dumped_Signals, LAMBDA n : n = S.nets[j])],
                    value |-> IF S.kind = "generate_for" THEN S.value ELSE 0]
      elements == SelectSeq([i \in 1 .. Len(walk) |-> i], LAMBDA i : walk[i] # 0)
  IN [k \in 1 .. Len(elements) |-> row(elements[k])]

(* Once the hierarchy is read, it is the one of the design that is dumped:   *)
(* every scope and signal at its place, with its name, its numbers, so that  *)
(* two signals share a number if and only if they are one, and the types     *)
(* boolean, bit and std_ulogic are known (libghw.c:1182, 997, 441).          *)
HierarchyFaithful ==
  status \in {"sect", "cycle", "eof"} =>
    /\ Tail(ghw_disp_hie) = Walk_Rows
    /\ \A t \in DOMAIN types : types[t].wkt # 0 <=> Contains(design.known, Types_Table[t])
    /\ \A t \in DOMAIN types :
         types[t].wkt # 0 => design.known[types[t].wkt] = Types_Table[t]

(* When the file is closed, the directory has an entry for each section      *)
(* before it, in order and at its position, and the tailer has the position  *)
(* of the directory (grt-waves.adb:242-297).                                 *)
DirectoryExact ==
  pc = "closed" =>
    LET Sections == {"STR", "TYP", "WKT", "HIE", "EOH", "SNP", "CYC", "DIR"}
        starts == SelectSeq([p \in 1 .. Len(file) |-> p],
                            LAMBDA p : file[p].k \in Sections /\ file[p + 1].k # "i32")
        dir == Last(starts)
    IN /\ file[dir].k = "DIR"
       /\ file[dir + 2] = I32(Len(starts))
       /\ \A i \in DOMAIN starts : /\ file[dir + 1 + 2 * i] = file[starts[i]]
                                   /\ file[dir + 2 + 2 * i] = I32(starts[i])
       /\ Last(file) = I32(dir)

(* Each declaration of the design, with its path.                            *)
Declared ==
  LET Below[x \in (1 .. Len(Scopes)) \X Seq(Seq(Nat))] ==
        LET S == Scopes[x[1]]
            path == Append(x[2], S.name)
        IN IF Is_Decl(x[1]) THEN {[path |-> path, decl |-> x[1]]}
           ELSE UNION {Below[<<c, path>>] : c \in ToSet(S.decls) \cup ToSet(S.subs)}
      with_top(top, scope) ==
        {[top |-> top, path |-> d.path, decl |-> d.decl] : d \in Below[<<scope, << >>>>]}
  IN with_top("entities", design.root)
       \cup UNION {with_top("packages", s) : s \in ToSet(design.packages)}


-----------------------------------------------------------------------------
(* The file does what WaveHistory promises, with what each viewer row shows. *)
History ==
  INSTANCE WaveHistory WITH
    recorded <- hist,
    writer <- CASE pc = "closed" -> "closed" [] pc = "crashed" -> "lost"
                [] OTHER -> "recording",
    reader <- CASE status = "eof" -> "eof" [] status \in {"error", "undefined"} -> "error"
                [] OTHER -> "reading"

(* The reader is shown what was recorded, in order, everything if the file   *)
(* was closed, nothing else if it was not, and comes to an end               *)
(* (grt-waves.adb:1697-1851, libghw.c:1588-2031).                            *)
ImplementsHistory == History!Spec
=============================================================================
