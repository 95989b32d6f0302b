------------------------------- MODULE Libghw -------------------------------
(***************************************************************************)
(* The reader of GHW files (src/ghw/libghw.c), as ghwdump (src/ghw/        *)
(* ghwdump.c) calls it: ghw_open, ghw_read_base, then ghw_read_sm until    *)
(* the end of the file, with what it displays after each snapshot and each *)
(* cycle.                                                                  *)
(*                                                                         *)
(* rpos is the position in the file.  A call that returns an error, or     *)
(* ghw_error_exit, ends the reader with status "error".                    *)
(***************************************************************************)
EXTENDS GhwFormat

VARIABLES
  rpos,
  status,     \* "closed", "base", "sect" (sm), "cycle" (sm), "eof", "error",
              \* or "undefined" (behaviour)
  str_table,
  types,      \* [kind, base, els, dims, bounded, leaves, wkt]: see Type_At
  hie,        \* [kind, name, parent, child, brother, sigs, value]; the first
              \* is the design
  sigs,       \* the type of each signal number, 0 (NULL) if there is none
  val,        \* the value of each signal number
  no_null_sig_cache, \* << >> until it is built
  snap_time,
  shown       \* what ghw_disp_values displayed: time and val

tablesOf == <<str_table, types, hie, sigs>>
valuesOf == <<val, no_null_sig_cache, snap_time>>
libghwVars == <<rpos, status, tablesOf, valuesOf, shown>>

Init_Libghw ==
  /\ rpos = 1 /\ status = "closed"
  /\ str_table = << >> /\ types = << >> /\ hie = << >> /\ sigs = << >>
  /\ val = << >> /\ no_null_sig_cache = << >> /\ snap_time = 0 /\ shown = << >>

(* The position p is one that reading reached without error.                 *)
Reached(p) == p <= Len(file) + 1

(* Where reading never comes back from: what follows is not defined.         *)
Undefined == Past_End + 1

(* The reader goes on at p, or gives up.                                     *)
Go_On(p, next) ==
  /\ rpos' = p
  /\ status' = CASE Reached(p) -> next
                 [] p = Undefined -> "undefined"
                 [] OTHER -> "error"

(* After the identifier of a string, or of one of the types T read so far.   *)
After_Strid(p) ==
  IF ghw_read_uleb128(p) <= Len(str_table) THEN After_Groups(Group, p) ELSE Past_End

After_Typeid(T, p) ==
  IF ghw_read_uleb128(p) \in 1 .. Len(T) THEN After_Groups(Group, p) ELSE Past_End

-----------------------------------------------------------------------------
(* The sections of the header: ghw_read_base.                                *)

ghw_open ==
  /\ status = "closed"
  /\ Go_On(After_Mark(1, "GHDLwave"), "base")
  /\ UNCHANGED <<tablesOf, valuesOf, shown, file>>

ghw_read_str ==
  LET hdr == After_Mark(After_Mark(rpos, "STR"), "zero")
      one(acc, i) ==
        LET ends == {q \in acc.p .. Len(file) : file[q].k # "char"}
            end == IF ends = {} THEN Past_End ELSE Min(ends)
            str == SubSeq(acc.prev, 1, acc.prev_len)
                     \o [c \in 1 .. (end - acc.p) |-> At(acc.p + c - 1).v]
        IN IF ~Reached(acc.p) THEN acc
           ELSE [p |-> After_Groups(Prefix_Group, end), prev |-> str,
                 prev_len |-> Groups_At(Prefix_Group, end), table |-> Append(acc.table, str)]
      read == FoldLeft(one, [p |-> Skip(Skip(hdr)), prev |-> << >>, prev_len |-> 0,
                             table |-> << >>],
                       [i \in 1 .. At(hdr).v |-> i])
      size == FoldLeft(LAMBDA n, s : n + Len(s) + 1, 0, read.table)
  IN /\ status = "base" /\ At(rpos).k = "STR"
     /\ Go_On(IF size > At(Skip(hdr)).v + At(hdr).v + 2 THEN Past_End
              ELSE After_Mark(read.p, "EOS"), "base")
     /\ str_table' = read.table
     /\ UNCHANGED <<types, hie, sigs, valuesOf, shown, file>>

(* A bound of a range of this kind, and the position after it.               *)
Bound_At(kind, p) ==
  IF kind = "i32" THEN [p |-> After_Groups(Group, p), v |-> ghw_read_sleb128(p)]
  ELSE [p |-> Skip(p), v |-> At(p).v]

ghw_get_range_length(down, l, r) ==
  Max({0, (IF down THEN l.v - r.v ELSE r.v - l.v) + 1})

(* A range at p: its length and the position after it.                       *)
ghw_read_range(p) ==
  LET kind == At(p).k
      range(l, r) == [p |-> r.p, len |-> ghw_get_range_length(At(p).v = 1, l, r)]
      from(l) == range(l, Bound_At(kind, l.p))
  IN IF kind \in {"e8", "i32"} THEN from(Bound_At(kind, Skip(p)))
     ELSE [p |-> Past_End, len |-> 0]

(* The ranges of n dimensions at p, with the number of elements.             *)
Ranges_At(n, p) ==
  LET times(acc, r) == [p |-> r.p, len |-> acc.len * r.len]
  IN FoldLeft(LAMBDA acc, d : times(acc, ghw_read_range(acc.p)), [p |-> p, len |-> 1],
              [d \in 1 .. n |-> d])

ghw_get_base_type(T, t) == IF T[t].base = 0 THEN t ELSE T[t].base

Repeat(n, read) ==
  [p |-> read.p, leaves |-> FlattenSeq([i \in 1 .. n |-> read.leaves])]

(* ghw_read_type_bounds, ghw_read_array_subtype, ghw_read_record_subtype: the*)
(* subtype of base whose bounds are at pos, as the types of its scalars.  A  *)
(* subtype_unbounded_record is taken for the record it is a subtype of.      *)
ghw_read_type_bounds(T, base, pos) ==
  LET Read[x \in (1 .. Len(T)) \X Nat] ==
        LET t == x[1]
            arr == T[ghw_get_base_type(T, t)]
            element(el, p) == IF T[el].bounded THEN [p |-> p, leaves |-> T[el].leaves]
                              ELSE Read[<<el, p>>]
            array(ranges) ==
              IF ~Reached(ranges.p) THEN [p |-> ranges.p, leaves |-> << >>]
              ELSE Repeat(ranges.len, element(arr.els[1], ranges.p))
            next(acc, el) == [p |-> el.p, leaves |-> acc.leaves \o el.leaves]
            field(acc, el) ==
              IF ~Reached(acc.p) THEN acc ELSE next(acc, element(el, acc.p))
        IN CASE arr.kind = "type_array" -> array(Ranges_At(Len(arr.dims), x[2]))
             [] T[t].kind = "type_record" ->
                  IF T[t].bounded THEN [p |-> x[2], leaves |-> T[t].leaves]
                  ELSE FoldLeft(field, [p |-> x[2], leaves |-> << >>], T[t].els)
             [] T[t].kind = "subtype_unbounded_record" -> [p |-> Undefined, leaves |-> << >>]
             [] OTHER -> [p |-> Past_End, leaves |-> << >>]
  IN Read[<<base, pos>>]

(* What ghw_read_type makes of a type and the position after it.  leaves are *)
(* the types of the scalars of an object of the type, if it is bounded.      *)
Read_Type(p, kind, base, els, dims, bounded, leaves) ==
  [p |-> p,
   type |-> [kind |-> kind, base |-> base, els |-> els, dims |-> dims,
             bounded |-> bounded, leaves |-> leaves, wkt |-> 0]]

(* n fields, names and types, at p.                                          *)
Record_At(T, n, p, after) ==
  LET els == [i \in 1 .. n |-> ghw_read_uleb128(After_Numbers(2 * i - 1, p))]
      type(bounded) ==
        Read_Type(after, "type_record", 0, els, << >>, bounded,
                  IF bounded THEN FlattenSeq([i \in 1 .. n |-> T[els[i]].leaves]) ELSE << >>)
  IN IF ~Reached(after) THEN Read_Type(after, "none", 0, << >>, << >>, FALSE, << >>)
     ELSE type(\A i \in 1 .. n : T[els[i]].bounded)

Fields_After(T, n, p) ==
  FoldLeft(LAMBDA q, i : After_Typeid(T, After_Strid(q)), p, [i \in 1 .. n |-> i])

(* n dimensions, of index types, at p.                                       *)
Array_At(T, n, el, p) ==
  Read_Type(FoldLeft(LAMBDA q, i : After_Typeid(T, q), p, [i \in 1 .. n |-> i]),
            "type_array", 0, <<el>>, [i \in 1 .. n |-> i], FALSE, << >>)

(* A subtype of the type n, the rest of it at p.                             *)
Subtype_At(T, kind, n, p) ==
  LET self == <<Len(T) + 1>>
      is(base, k) == T[base].kind = k
      bounded(read) == Read_Type(read.p, kind, n, << >>, << >>, TRUE, read.leaves)
  IN CASE kind = "subtype_scalar" ->
            Read_Type(ghw_read_range(p).p, kind, n, << >>, << >>, TRUE, self)
       [] \/ kind = "subtype_array" /\ is(ghw_get_base_type(T, n), "type_array")
          \/ kind = "subtype_record" /\ is(n, "type_record") ->
            bounded(ghw_read_type_bounds(T, n, p))
       [] \/ kind = "subtype_unbounded_array"
          \/ kind = "subtype_unbounded_record" /\ is(n, "type_record") ->
            Read_Type(p, kind, n, << >>, << >>, FALSE, << >>)
       [] OTHER -> Read_Type(Past_End, kind, 0, << >>, << >>, FALSE, << >>)

(* A type of this kind after the types T; its name was before p, where there *)
(* is the number n, of literals, of fields or of a type.                     *)
Type_After_Name(T, kind, p, n, after) ==
  LET self == <<Len(T) + 1>>
      literals(q) == FoldLeft(LAMBDA r, i : After_Strid(r), q, [i \in 1 .. n |-> i])
      none == Read_Type(Past_End, kind, 0, << >>, << >>, FALSE, << >>)
  IN CASE kind = "e8" -> Read_Type(literals(after), kind, 0, << >>, << >>, TRUE, self)
       [] kind = "i32" -> Read_Type(p, kind, 0, << >>, << >>, TRUE, self)
       [] kind = "type_record" -> Record_At(T, n, after, Fields_After(T, n, after))
       [] ~Reached(After_Typeid(T, p)) -> none
       [] kind = "type_array" ->
            Array_At(T, ghw_read_uleb128(after), n, After_Groups(Group, after))
       [] OTHER -> Subtype_At(T, kind, n, after)

Type_At(T, p) ==
  LET named(q) ==
        Type_After_Name(T, At(p).k, q, ghw_read_uleb128(q), After_Groups(Group, q))
  IN named(After_Strid(Skip(p)))

ghw_read_type ==
  LET hdr == After_Mark(After_Mark(rpos, "TYP"), "zero")
      add(acc, read) == [p |-> read.p, types |-> Append(acc.types, read.type)]
      one(acc, i) == IF Reached(acc.p) THEN add(acc, Type_At(acc.types, acc.p)) ELSE acc
      ends(read) ==
        /\ Go_On(IF ~Reached(read.p) THEN read.p
                 ELSE IF At(read.p) = Byte(0) THEN read.p + 1 ELSE Past_End, "base")
        /\ types' = read.types
  IN /\ status = "base" /\ At(rpos).k = "TYP"
     /\ ends(FoldLeft(one, [p |-> Skip(hdr), types |-> << >>],
                      [i \in 1 .. At(hdr).v |-> i]))
     /\ UNCHANGED <<str_table, hie, sigs, valuesOf, shown, file>>

ghw_read_wk_types ==
  LET Entries[p \in Nat] ==
        LET next == After_Typeid(types, Skip(p))
            rest == Entries[next]
        IN CASE At(p) = Byte(0) -> [p |-> p + 1, known |-> {}]
             [] At(p).k # "byte" \/ ~Reached(next) -> [p |-> Past_End, known |-> {}]
             [] OTHER -> [rest EXCEPT !.known =
                            @ \cup {[wkt |-> At(p).v, type |-> ghw_read_uleb128(p + 1)]}]
      read == Entries[After_Mark(After_Mark(rpos, "WKT"), "zero")]
  IN /\ status = "base" /\ At(rpos).k = "WKT"
     /\ Go_On(read.p, "base")
     /\ types' = [t \in DOMAIN types |->
                    IF types[t].kind = "e8" /\ \E k \in read.known : k.type = t
                    THEN [types[t] EXCEPT !.wkt = (CHOOSE k \in read.known : k.type = t).wkt]
                    ELSE types[t]]
     /\ UNCHANGED <<str_table, hie, sigs, valuesOf, shown, file>>
-----------------------------------------------------------------------------
(* The hierarchy.                                                            *)

Scope_Kinds == {"block", "generate_if", "generate_for", "instance", "package"}
Sig_Kinds == {"signal", "port_in", "port_out", "port_inout"}

(* The numbers of a signal of type t, in the order of ghw_read_signal.       *)
Signal_Numbers(t, p) ==
  [j \in 1 .. Len(types[t].leaves) |-> ghw_read_uleb128(After_Numbers(j - 1, p))]

(* ghw_read_value: the value and the position after it.                      *)
ghw_read_value(t, p) ==
  IF types[ghw_get_base_type(types, t)].kind = "i32"
  THEN [v |-> ghw_read_sleb128(p), p |-> After_Groups(Group, p)]
  ELSE [v |-> At(p).v, p |-> Skip(p)]

(* Seeded fault: after the end of a scope, the next element is linked to the *)
(* scope and not after its last child.                                       *)
Last_Link_First(nodes, blk) == [of |-> blk, field |-> "child"]

(* Where the next element of blk is linked.                                  *)
Last_Link(nodes, blk) ==
  LET Follow[n \in Nat] == IF nodes[n].brother = 0 THEN n ELSE Follow[nodes[n].brother]
  IN IF nodes[blk].child = 0 THEN [of |-> blk, field |-> "child"]
     ELSE [of |-> Follow[nodes[blk].child], field |-> "brother"]

(* An element of the hierarchy: acc is the position, the nodes read so far,  *)
(* the current scope blk, the link last, and the types of the signals.       *)
Read_Element(acc) ==
  LET kind == At(acc.p).k
      parent == acc.nodes[acc.blk].parent
      named == After_Strid(Skip(acc.p))
      str == ghw_read_uleb128(acc.p + 1)
      typed == After_Typeid(types, named)
      type == ghw_read_uleb128(named)
      leaves == types[type].leaves
      numbers == Signal_Numbers(type, typed)
      iter == ghw_read_value(type, typed)
      new == Len(acc.nodes) + 1
      add(p, numbers_read, value) ==
        [acc EXCEPT
           !.p = p,
           !.nodes = Append([@ EXCEPT ![acc.last.of][acc.last.field] = new],
                            [kind |-> kind, name |-> IF str = 0 THEN << >> ELSE str_table[str],
                             parent |-> acc.blk, child |-> 0, brother |-> 0,
                             sigs |-> numbers_read, value |-> value]),
           !.blk = IF kind \in Scope_Kinds THEN new ELSE @,
           !.last = [of |-> new, field |-> IF kind \in Scope_Kinds THEN "child" ELSE "brother"],
           !.sigs = [n \in DOMAIN @ |->
                       IF @[n] = 0 /\ \E j \in DOMAIN numbers_read : numbers_read[j] = n
                       THEN ghw_get_base_type(types,
                              leaves[CHOOSE j \in DOMAIN numbers_read : numbers_read[j] = n])
                       ELSE @[n]]]
      fail == [acc EXCEPT !.p = Past_End]
  IN CASE kind = "eos" ->
            IF parent = 0 THEN fail
            ELSE [acc EXCEPT !.p = @ + 1, !.blk = parent, !.last = Last_Link(acc.nodes, parent)]
       [] kind \in (Scope_Kinds \ {"generate_for"}) \cup {"process"} /\ Reached(named) ->
            add(named, << >>, 0)
       [] kind = "generate_for" /\ Reached(named) /\ Reached(typed) -> add(iter.p, << >>, iter.v)
       [] /\ kind \in Sig_Kinds /\ Reached(named) /\ Reached(typed)
          /\ types[type].bounded
          /\ \A j \in DOMAIN numbers : /\ types[leaves[j]].kind # "i32"
                                       /\ numbers[j] \in DOMAIN acc.sigs ->
            add(After_Numbers(Len(numbers), typed), numbers, 0)
       [] OTHER -> fail

ghw_read_hie ==
  LET hdr == After_Mark(After_Mark(rpos, "HIE"), "zero")
      init == [p |-> Skip(hdr),
               nodes |-> <<[kind |-> "design", name |-> << >>, parent |-> 0, child |-> 0,
                            brother |-> 0, sigs |-> << >>, value |-> 0]>>,
               blk |-> 1, last |-> [of |-> 1, field |-> "child"],
               sigs |-> [n \in 1 .. At(hdr).v |-> 0]]
      elements == SelectSeq(file, LAMBDA u : u.k \in Scope_Kinds \cup Sig_Kinds \cup {"process", "eos"})
      read == FoldLeft(LAMBDA acc, u : IF At(acc.p).k \in {"end", "end_hierarchy"} THEN acc
                                       ELSE Read_Element(acc), init, elements)
  IN /\ status = "base" /\ At(rpos).k = "HIE"
     /\ Go_On(After_Mark(read.p, "end_hierarchy"), "base")
     /\ hie' = read.nodes /\ sigs' = read.sigs
     /\ val' = [n \in DOMAIN read.sigs |-> 0]
     /\ UNCHANGED <<str_table, types, no_null_sig_cache, snap_time, shown, file>>

(* The lines ghw_disp_hie displays, with their depth.                        *)
ghw_disp_hie ==
  LET Disp[x \in Nat \X Nat] ==
        LET n == hie[x[1]]
        IN IF x[1] = 0 THEN << >>
           ELSE <<[depth |-> x[2], kind |-> n.kind, name |-> n.name,
                   sigs |-> n.sigs, value |-> n.value]>>
                  \o Disp[<<n.child, x[2] + 1>>] \o Disp[<<n.brother, x[2]>>]
  IN Disp[<<1, 0>>]

ghw_read_eoh ==
  /\ status = "base" /\ At(rpos).k = "EOH"
  /\ Go_On(rpos + 1, "sect")
  /\ UNCHANGED <<tablesOf, valuesOf, shown, file>>

(* The end of the file, or a section that is not of the header.              *)
ghw_read_base_error ==
  /\ status = "base" /\ At(rpos).k \notin {"STR", "TYP", "WKT", "HIE", "EOH"}
  /\ Go_On(Past_End, "base")
  /\ UNCHANGED <<tablesOf, valuesOf, shown, file>>

-----------------------------------------------------------------------------
(* The values: ghw_read_sm.                                                  *)

(* ghw_disp_values, by the signals of the hierarchy.                         *)
ghw_disp_values(time, values) ==
  LET signals == SelectSeq(ghw_disp_hie, LAMBDA row : row.kind \in Sig_Kinds)
  IN [time |-> time,
      vals |-> [i \in 1 .. Len(signals) |->
                  [j \in 1 .. Len(signals[i].sigs) |-> values[signals[i].sigs[j]]]]]

ghw_read_snapshot ==
  LET hdr == After_Mark(After_Mark(rpos, "SNP"), "zero")
      one(acc, n) ==
        LET read == ghw_read_value(sigs[n], acc.p)
        IN IF sigs[n] = 0 \/ ~Reached(acc.p) THEN acc
           ELSE [p |-> read.p, val |-> [acc.val EXCEPT ![n] = read.v]]
      read == FoldLeft(one, [p |-> Skip(hdr), val |-> val], [n \in 1 .. Len(sigs) |-> n])
      end == After_Mark(read.p, "ESN")
  IN /\ status = "sect" /\ At(rpos).k = "SNP"
     /\ Go_On(end, "sect")
     /\ snap_time' = ghw_get_i64(hdr)
     /\ val' = read.val
     /\ shown' = IF Reached(end) THEN Append(shown, ghw_disp_values(snap_time', val')) ELSE shown
     /\ UNCHANGED <<tablesOf, no_null_sig_cache, file>>

(* The numbers of the signals with a type, in order.                         *)
No_Null_Sigs == SelectSeq([n \in 1 .. Len(sigs) |-> n], LAMBDA n : sigs[n] # 0)

(* ghw_read_cycle_cont at p: the changes, each with the difference to the    *)
(* number of the signal before.  With hidden signals, it is a difference of  *)
(* ranks among the others, looked up in the cache.                           *)
ghw_read_cycle_cont(time, p) ==
  LET sigs_no_null == \A n \in DOMAIN sigs : sigs[n] # 0
      one(acc, j) ==
        LET rank == acc.rank + ghw_read_uleb128(acc.p)
            i == IF sigs_no_null THEN rank ELSE No_Null_Sigs[rank]
            read == ghw_read_value(sigs[i], After_Groups(Group, acc.p))
        IN IF acc.done \/ ~Reached(acc.p) THEN acc
           ELSE IF ~Reached(After_Groups(Group, acc.p)) THEN [acc EXCEPT !.p = Past_End]
           ELSE IF ghw_read_uleb128(acc.p) = 0 THEN [acc EXCEPT !.p = @ + 1, !.done = TRUE]
           ELSE IF rank > Len(sigs)
                THEN [acc EXCEPT !.p = IF sigs_no_null THEN Past_End ELSE Undefined]
           ELSE IF ~sigs_no_null /\ rank > Len(No_Null_Sigs) THEN [acc EXCEPT !.p = Past_End]
           ELSE [acc EXCEPT !.p = read.p, !.rank = rank, !.val[i] = read.v]
      read == FoldLeft(one, [p |-> p, rank |-> 0, done |-> FALSE, val |-> val],
                       [n \in 1 .. (Len(sigs) + 1) |-> n])
      end == IF read.done \/ read.p = Undefined THEN read.p ELSE Past_End
  IN /\ Go_On(end, "cycle")
     /\ snap_time' = time
     /\ val' = read.val
     /\ no_null_sig_cache' = IF sigs_no_null \/ ~Reached(After_Groups(Group, p)) THEN no_null_sig_cache
                             ELSE IF ghw_read_uleb128(p) = 0 THEN no_null_sig_cache
                             ELSE No_Null_Sigs
     /\ shown' = IF Reached(end) THEN Append(shown, ghw_disp_values(time, val')) ELSE shown
     /\ UNCHANGED <<tablesOf, file>>

ghw_read_cycle_start ==
  LET hdr == After_Mark(rpos, "CYC")
  IN /\ status = "sect" /\ At(rpos).k = "CYC"
     /\ ghw_read_cycle_cont(ghw_get_i64(hdr), Skip(hdr))

(* ghw_read_cycle_next: the time since the cycle before, or -1 at the end.   *)
ghw_read_cycle_next ==
  LET next == After_Groups(Group, rpos)
      d_time == ghw_read_lsleb128(rpos)
  IN /\ status = "cycle"
     /\ \/ /\ Reached(next) /\ d_time # -1
           /\ ghw_read_cycle_cont(snap_time + d_time, next)
        \/ /\ ~Reached(next) \/ d_time = -1
           /\ Go_On(IF Reached(next) THEN After_Mark(next, "ECY") ELSE Past_End, "sect")
           /\ UNCHANGED <<tablesOf, valuesOf, shown, file>>

ghw_read_directory ==
  LET hdr == Skip(After_Mark(rpos, "DIR"))
  IN /\ status = "sect" /\ At(rpos).k = "DIR"
     /\ LET entries == FoldLeft(LAMBDA p, i : Skip(Skip(p)), Skip(hdr),
                                [i \in 1 .. At(hdr).v |-> i])
        IN Go_On(After_Mark(entries, "EOD"), "sect")
     /\ UNCHANGED <<tablesOf, valuesOf, shown, file>>

ghw_read_tailer ==
  /\ status = "sect" /\ At(rpos).k = "TAI"
  /\ Go_On(Skip(Skip(Skip(rpos))), "sect")
  /\ UNCHANGED <<tablesOf, valuesOf, shown, file>>

ghw_read_sm_end ==
  /\ status = "sect" /\ At(rpos).k \notin {"SNP", "CYC", "DIR", "TAI"}
  /\ rpos' = rpos
  /\ status' = IF rpos > Len(file) THEN "eof" ELSE "error"
  /\ UNCHANGED <<tablesOf, valuesOf, shown, file>>

(* ghwdump: one call after the other, until the end of the file or an error. *)
Next_Libghw ==
  \/ ghw_open \/ ghw_read_str \/ ghw_read_type \/ ghw_read_wk_types \/ ghw_read_hie
  \/ ghw_read_eoh \/ ghw_read_base_error
  \/ ghw_read_snapshot \/ ghw_read_cycle_start \/ ghw_read_cycle_next
  \/ ghw_read_directory \/ ghw_read_tailer \/ ghw_read_sm_end
=============================================================================
