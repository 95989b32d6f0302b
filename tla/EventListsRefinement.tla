-------------------------- MODULE EventListsRefinement --------------------------
(***************************************************************************)
(* EventLists implements Sensitivity, for any signals and processes: with  *)
(* the links of recycled cells, an event resumes the processes that are    *)
(* sensitive to its signal at that moment.                                 *)
(***************************************************************************)
EXTENDS EventListsProofs

-----------------------------------------------------------------------------
(* The refinement: what Sensitivity sees of the cells and lists.             *)

(* The sensitivity a cell stands for, those of the static cells, and the     *)
(* signals each process waits for.                                           *)
Pair(cell) == [proc |-> cell.proc, sig |-> cell.sig]
Static(cs) == {Pair(c) : c \in {d \in ToSet(cs) : ~d.dynamic}}
Waits(cs, C) == [p \in Process |-> {cs[c].sig : c \in ToSet(C[p])}]

(* The same, in the current state.                                           *)
Static_Now == Static(cells)
Waits_Now == Waits(cells, Waiting_Of(cells, Proc_Sensitivity))

(* They are the expressions of the refinement mapping.                       *)
LEMMA MappedStatic ==
  {[proc |-> c.proc, sig |-> c.sig] : c \in {d \in ToSet(cells) : ~d.dynamic}} = Static_Now
BY DEF Static_Now, Static, Pair

(* And in the next state.                                                    *)
LEMMA MappedStaticNext ==
  {[proc |-> c.proc, sig |-> c.sig] : c \in {d \in ToSet(cells') : ~d.dynamic}} = Static_Now'
BY DEF Static_Now, Static, Pair

(* The second expression of the refinement mapping.                          *)
LEMMA MappedWaits ==
  [p \in Process |-> {cells[c].sig : c \in ToSet(Waiting(p))}] = Waits_Now
<1>1. \A p \in Process : Waiting(p) = Waiting_Of(cells, Proc_Sensitivity)[p]
  BY DEF Waiting, Waiting_Of
<1> QED BY ONLY <1>1 DEF Waits_Now, Waits

(* And in the next state.                                                    *)
LEMMA MappedWaitsNext ==
  [p \in Process |-> {cells'[c].sig : c \in ToSet(Waiting(p)')}] = Waits_Now'
<1>1. \A p \in Process : Waiting(p)' = Waiting_Of(cells', Proc_Sensitivity')[p]
  BY DEF Waiting, Waiting_Of
<1>2. Waits_Now' = Waits(cells', Waiting_Of(cells', Proc_Sensitivity')) BY DEF Waits_Now
<1> QED BY ONLY <1>1, <1>2 DEF Waits

(* Static sensitivities, by the numbers of cells.                            *)
LEMMA StaticCells ==
  ASSUME NEW S, NEW cs \in Seq(S), NEW x
  PROVE  x \in Static(cs) <=> \E c \in 1 .. Len(cs) : ~cs[c].dynamic /\ x = Pair(cs[c])
<1>1. PICK n \in Nat : n = Len(cs) OBVIOUS
<1>2. ToSet(cs) = {cs[c] : c \in 1 .. n} BY <1>1 DEF ToSet
<1> QED BY ONLY <1>1, <1>2 DEF Static

(* Cells that are as before, or were and are dynamic, change no static       *)
(* sensitivity; nor do dynamic cells that are new.                           *)
LEMMA StaticKept ==
  ASSUME NEW S, NEW cs \in Seq(S), NEW S2, NEW t \in Seq(S2),
         \A c \in 1 .. Len(cs) :
           c \in 1 .. Len(t) /\ (Like(t[c], cs[c]) \/ (cs[c].dynamic /\ t[c].dynamic)),
         \A c \in 1 .. Len(t) : c \in 1 .. Len(cs) \/ t[c].dynamic
  PROVE  Static(t) = Static(cs)
<1>1. ASSUME NEW c \in 1 .. Len(cs)
      PROVE  /\ t[c].dynamic <=> cs[c].dynamic
             /\ ~cs[c].dynamic => Pair(t[c]) = Pair(cs[c])
  BY ONLY <1>1, \A d \in 1 .. Len(cs) :
                   Like(t[d], cs[d]) \/ (cs[d].dynamic /\ t[d].dynamic) DEF Like, Pair
<1>2. ASSUME NEW x \in Static(cs) PROVE x \in Static(t)
  <2>1. PICK c \in 1 .. Len(cs) : ~cs[c].dynamic /\ x = Pair(cs[c])
    BY ONLY <1>2, StaticCells, cs \in Seq(S)
  <2>2. c \in 1 .. Len(t) /\ ~t[c].dynamic /\ x = Pair(t[c]) BY <2>1, <1>1
  <2> QED BY ONLY <2>2, StaticCells, t \in Seq(S2)
<1>3. ASSUME NEW x \in Static(t) PROVE x \in Static(cs)
  <2>1. PICK c \in 1 .. Len(t) : ~t[c].dynamic /\ x = Pair(t[c])
    BY ONLY <1>3, StaticCells, t \in Seq(S2)
  <2>2. c \in 1 .. Len(cs) /\ ~cs[c].dynamic /\ x = Pair(cs[c]) BY <2>1, <1>1
  <2> QED BY ONLY <2>2, StaticCells, cs \in Seq(S)
<1> QED BY <1>2, <1>3

(* A new static cell adds its sensitivity.                                   *)
LEMMA StaticAdded ==
  ASSUME NEW S, NEW cs \in Seq(S), NEW S2, NEW t \in Seq(S2), Len(t) = Len(cs) + 1,
         \A c \in 1 .. Len(cs) : t[c] = cs[c], ~t[Len(cs) + 1].dynamic
  PROVE  Static(t) = Static(cs) \cup {Pair(t[Len(cs) + 1])}
<1>1. PICK n \in Nat : n = Len(cs) OBVIOUS
<1>2. /\ Len(t) = n + 1 /\ \A c \in 1 .. n : t[c] = cs[c] /\ c \in 1 .. n + 1
      /\ ~t[n + 1].dynamic /\ n + 1 \in 1 .. n + 1
      /\ \A c \in 1 .. n + 1 : c \in 1 .. n \/ c = n + 1
  BY <1>1
<1>3. \A x : x \in Static(cs) <=> \E c \in 1 .. n : ~cs[c].dynamic /\ x = Pair(cs[c])
  BY ONLY <1>1, StaticCells, cs \in Seq(S)
<1>4. \A x : x \in Static(t) <=> \E c \in 1 .. n + 1 : ~t[c].dynamic /\ x = Pair(t[c])
  BY ONLY <1>2, StaticCells, t \in Seq(S2)
<1>5. ASSUME NEW x
      PROVE  x \in Static(t) <=> x \in Static(cs) \/ x = Pair(t[n + 1])
  BY ONLY <1>2, <1>3, <1>4
<1> QED BY ONLY <1>1, <1>5

(* The signals that processes wait for.                                      *)
LEMMA WaitsElems ==
  ASSUME NEW cs, NEW C, \A q \in Process : C[q] \in Seq(Nat)
  PROVE  Waits(cs, C) = [q \in Process |-> {cs[c].sig : c \in Elems(C[q])}]
<1>1. \A q \in Process : ToSet(C[q]) = Elems(C[q]) BY ListAsSet
<1> QED BY ONLY <1>1 DEF Waits

-----------------------------------------------------------------------------
(* Steps.                                                                    *)

(* A static sensitivity is registered.                                       *)
LEMMA RegisterMapped ==
  ASSUME IInv, NEW p \in Process, NEW s \in Signal, Ghdl_Process_Add_Sensitivity(p, s)
  PROVE  /\ Static_Now' = Static_Now \cup {[proc |-> p, sig |-> s]}
         /\ Waits_Now' = Waits_Now
<1>1. PICK n, E, C, O :
        /\ n \in Nat /\ n = Len(cells)
        /\ Shape(n, cells, Event_List, Proc_Sensitivity, Old_Action_List, E, C, O)
        /\ \A q \in Process : Waiting(q) = C[q] /\ C[q] \in Seq(Nat)
        /\ C = Waiting_Of(cells, Proc_Sensitivity)
  BY CurrentLists
<1> n \in Nat BY <1>1
<1>2. PICK cs, t : cs = cells /\ t = cells' OBVIOUS
<1>3. /\ Shaped(t, Event_List', Proc_Sensitivity', Old_Action_List')
      /\ Waiting_Of(t, Proc_Sensitivity') = C
      /\ Len(t) = n + 1 /\ \A c \in 1 .. n : t[c] = cs[c]
      /\ ~t[n + 1].dynamic /\ t[n + 1].proc = p /\ t[n + 1].sig = s
  BY <1>1, <1>2, AddFacts
<1>4. PICK ev, ps, old : ev = Event_List' /\ ps = Proc_Sensitivity' /\ old = Old_Action_List'
  OBVIOUS
<1>5. cs \in Seq(Cell_Type(n)) BY ONLY <1>1, <1>2, ShapeHeads, n \in Nat
<1>6. PICK m \in Nat : m = n + 1 OBVIOUS
<1>7. t \in Seq(Cell_Type(m))
  <2>1. Shape(m, t, ev, ps, old, Events_Of(t, ev), Waiting_Of(t, ps), Recycled_Of(t, old))
    BY ONLY <1>3, <1>4, <1>6 DEF Shaped
  <2> QED BY ONLY <2>1, ShapeHeads, m \in Nat
<1>8. Static(t) = Static(cs) \cup {Pair(t[n + 1])}
  BY ONLY <1>1, <1>2, <1>3, <1>5, <1>7, StaticAdded
<1>9. Pair(t[n + 1]) = [proc |-> p, sig |-> s] BY ONLY <1>3 DEF Pair
<1>10. Waits(t, C) = Waits(cs, C)
  <2>1. \A q \in Process : Elems(C[q]) \subseteq 1 .. n
    BY ONLY <1>1, ShapeElems, n \in Nat
  <2>2. /\ Waits(cs, C) = [q \in Process |-> {cs[c].sig : c \in Elems(C[q])}]
        /\ Waits(t, C) = [q \in Process |-> {t[c].sig : c \in Elems(C[q])}]
    BY ONLY <1>1, WaitsElems
  <2>3. ASSUME NEW q \in Process
        PROVE  {t[c].sig : c \in Elems(C[q])} = {cs[c].sig : c \in Elems(C[q])}
    BY ONLY <2>1, <2>3, <1>3
  <2> QED BY ONLY <2>2, <2>3
<1>11. Static_Now = Static(cs) /\ Static_Now' = Static(t) BY <1>2 DEF Static_Now
<1>12. Waits_Now = Waits(cs, C) /\ Waits_Now' = Waits(t, C)
  BY <1>1, <1>2, <1>3 DEF Waits_Now
<1> QED BY ONLY <1>8, <1>9, <1>10, <1>11, <1>12

(* A wait begins to be sensitive to a signal.                                *)
LEMMA WaitMapped ==
  ASSUME IInv, NEW p \in Plain, NEW s \in Signal, Ghdl_Process_Wait_Add_Sensitivity(p, s)
  PROVE  /\ Static_Now' = Static_Now
         /\ Waits_Now' = [Waits_Now EXCEPT ![p] = @ \cup {s}]
<1>1. PICK n, E, C, O :
        /\ n \in Nat /\ n = Len(cells)
        /\ Shape(n, cells, Event_List, Proc_Sensitivity, Old_Action_List, E, C, O)
        /\ \A q \in Process : Waiting(q) = C[q] /\ C[q] \in Seq(Nat)
        /\ C = Waiting_Of(cells, Proc_Sensitivity)
  BY CurrentLists
<1> n \in Nat BY <1>1
<1>2. PICK cs, t : cs = cells /\ t = cells' OBVIOUS
<1>3. PICK ev, ps, old : ev = Event_List' /\ ps = Proc_Sensitivity' /\ old = Old_Action_List'
  OBVIOUS
<1>4. PICK C2 : C2 = Waiting_Of(t, ps) OBVIOUS
<1>5. Shaped(t, ev, ps, old) /\ \E El : Took(cs, C, p, s, El, t, C2)
  BY <1>1, <1>2, <1>3, <1>4, TakeFacts
<1>6. PICK El : Took(cs, C, p, s, El, t, C2) BY <1>5
<1>7. /\ 1 .. Len(t) = (1 .. n) \cup {El}
      /\ El \in 1 .. n => cs[El].dynamic
      /\ t[El].dynamic /\ t[El].sig = s
      /\ \A c \in 1 .. n : c # El => Like(t[c], cs[c])
      /\ \A q \in Process : El \notin Elems(C[q]) /\ Elems(C[q]) \subseteq 1 .. n
      /\ C2 \in [Process -> Seq(Nat)]
      /\ Elems(C2[p]) = Elems(C[p]) \cup {El}
      /\ \A q \in Process : q # p => C2[q] = C[q]
  BY ONLY <1>1, <1>2, <1>6 DEF Took
<1>8. cs \in Seq(Cell_Type(n)) BY ONLY <1>1, <1>2, ShapeHeads, n \in Nat
<1>9. p \in Process BY DEF Process
<1>10. PICK m : m = Len(t) OBVIOUS
<1>11. t \in Seq(Cell_Type(m))
  <2>1. Shape(m, t, ev, ps, old, Events_Of(t, ev), Waiting_Of(t, ps), Recycled_Of(t, old))
    BY ONLY <1>5, <1>10 DEF Shaped
  <2> QED BY ONLY <2>1 DEF Shape, Cells
<1>12. Static(t) = Static(cs)
  <2>1. \A c \in 1 .. Len(cs) :
          c \in 1 .. Len(t) /\ (Like(t[c], cs[c]) \/ (cs[c].dynamic /\ t[c].dynamic))
    BY ONLY <1>1, <1>2, <1>7
  <2>2. \A c \in 1 .. Len(t) : c \in 1 .. Len(cs) \/ t[c].dynamic
    BY ONLY <1>1, <1>2, <1>7
  <2> QED BY ONLY <2>1, <2>2, <1>8, <1>11, StaticKept
<1>13. Waits(t, C2) = [Waits(cs, C) EXCEPT ![p] = @ \cup {s}]
  <2>1. /\ Waits(cs, C) = [q \in Process |-> {cs[c].sig : c \in Elems(C[q])}]
        /\ Waits(t, C2) = [q \in Process |-> {t[c].sig : c \in Elems(C2[q])}]
    BY ONLY <1>1, <1>7, WaitsElems
  <2>2. ASSUME NEW q \in Process
        PROVE  {t[c].sig : c \in Elems(C[q])} = {cs[c].sig : c \in Elems(C[q])}
    <3>1. \A c \in Elems(C[q]) : t[c].sig = cs[c].sig BY ONLY <1>7, <2>2 DEF Like
    <3> QED BY ONLY <3>1
  <2>3. \A q \in Process : q # p =>
          {t[c].sig : c \in Elems(C2[q])} = {cs[c].sig : c \in Elems(C[q])}
    BY ONLY <2>2, <1>7
  <2>4. {t[c].sig : c \in Elems(C2[p])} = {cs[c].sig : c \in Elems(C[p])} \cup {s}
    <3>1. {t[c].sig : c \in Elems(C2[p])} = {t[c].sig : c \in Elems(C[p])} \cup {s}
      BY ONLY <1>7
    <3> QED BY ONLY <3>1, <2>2, <1>9
  <2>5. PICK w : w = Waits(cs, C) OBVIOUS
  <2>6. /\ w = [q \in Process |-> w[q]]
        /\ \A q \in Process : w[q] = {cs[c].sig : c \in Elems(C[q])}
    BY ONLY <2>1, <2>5
  <2>7. \A q \in Process : Waits(t, C2)[q] = IF q = p THEN w[q] \cup {s} ELSE w[q]
    BY ONLY <2>1, <2>3, <2>4, <2>6
  <2>8. Waits(t, C2) = [q \in Process |-> Waits(t, C2)[q]] BY ONLY <2>1
  <2> QED BY ONLY <2>5, <2>6, <2>7, <2>8, <1>9
<1>14. Static_Now = Static(cs) /\ Static_Now' = Static(t) BY <1>2 DEF Static_Now
<1>15. Waits_Now = Waits(cs, C) /\ Waits_Now' = Waits(t, C2)
  BY <1>1, <1>2, <1>3, <1>4 DEF Waits_Now
<1> QED BY ONLY <1>12, <1>13, <1>14, <1>15

(* A wait ends: its process waits for nothing, the others for the same.      *)
LEMMA ContinueMapped ==
  ASSUME IInv, NEW p \in Plain, Ghdl_Process_Wait_Close(p)
  PROVE  /\ Static_Now' = Static_Now
         /\ Waits_Now' = [Waits_Now EXCEPT ![p] = {}]
<1>1. PICK n, E, C, O :
        /\ n \in Nat /\ n = Len(cells)
        /\ Shape(n, cells, Event_List, Proc_Sensitivity, Old_Action_List, E, C, O)
        /\ \A q \in Process : Waiting(q) = C[q] /\ C[q] \in Seq(Nat)
        /\ C = Waiting_Of(cells, Proc_Sensitivity)
  BY CurrentLists
<1> n \in Nat BY <1>1
<1>2. PICK cs, t : cs = cells /\ t = cells' OBVIOUS
<1>3. PICK ev, ps, old : ev = Event_List' /\ ps = Proc_Sensitivity' /\ old = Old_Action_List'
  OBVIOUS
<1>4. PICK C2 : C2 = With(C, p, << >>) OBVIOUS
<1>5. /\ Shaped(t, ev, ps, old) /\ Len(t) = n /\ Waiting_Of(t, ps) = C2
      /\ \A c \in 1 .. n : \/ Like(t[c], cs[c])
                           \/ c \in Elems(C[p]) /\ cs[c].dynamic /\ t[c].dynamic
  BY <1>1, <1>2, <1>3, <1>4, CloseFacts
<1>6. p \in Process BY DEF Process
<1>7. cs \in Seq(Cell_Type(n)) BY ONLY <1>1, <1>2, ShapeHeads, n \in Nat
<1>8. t \in Seq(Cell_Type(n))
  <2>1. Shape(n, t, ev, ps, old, Events_Of(t, ev), Waiting_Of(t, ps), Recycled_Of(t, old))
    BY ONLY <1>5 DEF Shaped
  <2> QED BY ONLY <2>1 DEF Shape, Cells
<1>9. Static(t) = Static(cs)
  <2>1. \A c \in 1 .. Len(cs) :
          c \in 1 .. Len(t) /\ (Like(t[c], cs[c]) \/ (cs[c].dynamic /\ t[c].dynamic))
    BY ONLY <1>1, <1>2, <1>5
  <2>2. \A c \in 1 .. Len(t) : c \in 1 .. Len(cs) \/ t[c].dynamic
    BY ONLY <1>1, <1>2, <1>5
  <2> QED BY ONLY <2>1, <2>2, <1>7, <1>8, StaticKept
<1>10. /\ \A q \in Process : Elems(C[q]) \subseteq 1 .. n
       /\ \A q \in Process : \A c \in Elems(C[q]) : cs[c].dynamic /\ cs[c].proc = q
  BY ONLY <1>1, <1>2, ShapeElems, n \in Nat
<1>11. C \in [Process -> Seq(Nat)] BY <1>1 DEF Shape
<1>12. \A q \in Process : C2[q] = IF q = p THEN << >> ELSE C[q]
  BY ONLY <1>4, <1>6, <1>11 DEF With
<1>13. Waits(t, C2) = [Waits(cs, C) EXCEPT ![p] = {}]
  <2>1. /\ Waits(cs, C) = [q \in Process |-> {cs[c].sig : c \in Elems(C[q])}]
        /\ Waits(t, C2) = [q \in Process |-> {t[c].sig : c \in Elems(C2[q])}]
    <3>1. << >> \in Seq(Nat) OBVIOUS
    <3>2. \A q \in Process : C[q] \in Seq(Nat) BY <1>1
    <3>3. \A q \in Process : C2[q] \in Seq(Nat) BY ONLY <1>12, <3>1, <3>2
    <3> QED BY ONLY <3>2, <3>3, WaitsElems
  <2>2. ASSUME NEW q \in Process, q # p
        PROVE  {t[c].sig : c \in Elems(C2[q])} = {cs[c].sig : c \in Elems(C[q])}
    <3>1. C2[q] = C[q] BY <1>12, <2>2
    <3>2. ASSUME NEW c \in Elems(C[q]) PROVE t[c].sig = cs[c].sig
      <4>1. c \in 1 .. n /\ c \notin Elems(C[p]) BY ONLY <1>6, <1>10, <2>2, <3>2
      <4> QED BY ONLY <4>1, <1>5 DEF Like
    <3> QED BY ONLY <3>1, <3>2
  <2>3. {t[c].sig : c \in Elems(C2[p])} = {}
    <3>1. Elems(C2[p]) = {} BY <1>6, <1>12 DEF Elems
    <3> QED BY ONLY <3>1
  <2>4. PICK w : w = Waits(cs, C) OBVIOUS
  <2>5. /\ w = [q \in Process |-> w[q]]
        /\ \A q \in Process : w[q] = {cs[c].sig : c \in Elems(C[q])}
    BY ONLY <2>1, <2>4
  <2>6. \A q \in Process : Waits(t, C2)[q] = IF q = p THEN {} ELSE w[q]
    BY ONLY <2>1, <2>2, <2>3, <2>5
  <2>7. Waits(t, C2) = [q \in Process |-> Waits(t, C2)[q]] BY ONLY <2>1
  <2> QED BY ONLY <2>4, <2>5, <2>6, <2>7, <1>6
<1>14. Static_Now = Static(cs) /\ Static_Now' = Static(t) BY <1>2 DEF Static_Now
<1>15. Waits_Now = Waits(cs, C) /\ Waits_Now' = Waits(t, C2)
  BY <1>1, <1>2, <1>3, <1>5 DEF Waits_Now
<1> QED BY ONLY <1>9, <1>13, <1>14, <1>15

(* The event list of a signal has the processes that are sensitive to it.    *)
LEMMA SensitiveMapped ==
  ASSUME IInv, NEW s \in Signal
  PROVE  {cells[c].proc : c \in ToSet(Events(s))}
           = {p \in Process : s \in Waits_Now[p] \/ [proc |-> p, sig |-> s] \in Static_Now}
<1>1. PICK n, E, C, O :
        /\ n \in Nat /\ n = Len(cells)
        /\ Shape(n, cells, Event_List, Proc_Sensitivity, Old_Action_List, E, C, O)
        /\ Placed(n, cells, E, C, O)
        /\ \A q \in Signal : Events(q) = E[q] /\ E[q] \in Seq(Nat)
        /\ \A q \in Process : Waiting(q) = C[q] /\ C[q] \in Seq(Nat)
        /\ C = Waiting_Of(cells, Proc_Sensitivity)
  BY CurrentLists
<1> n \in Nat BY <1>1
<1>2. PICK cs : cs = cells OBVIOUS
<1>3. Placed(n, cs, E, C, O) BY <1>1, <1>2
<1>4. /\ \A q \in Process : Elems(C[q]) \subseteq 1 .. n
      /\ Elems(E[s]) \subseteq 1 .. n
      /\ \A q \in Process : \A c \in Elems(C[q]) : cs[c].dynamic /\ cs[c].proc = q
  BY ONLY <1>1, <1>2, ShapeElems, n \in Nat, s \in Signal
<1>5. ToSet(Events(s)) = Elems(E[s]) BY ONLY <1>1, ListAsSet, s \in Signal
<1>6. \A q \in Process : Waits_Now[q] = {cs[c].sig : c \in Elems(C[q])}
  <2>1. Waits_Now = Waits(cs, C) BY <1>1, <1>2 DEF Waits_Now
  <2>2. Waits(cs, C) = [q \in Process |-> {cs[c].sig : c \in Elems(C[q])}]
    BY ONLY <1>1, WaitsElems
  <2> QED BY ONLY <2>1, <2>2
<1>7. \A x : x \in Static_Now <=> \E c \in 1 .. n : ~cs[c].dynamic /\ x = Pair(cs[c])
  <2>1. cs \in Seq(Cell_Type(n)) /\ Len(cs) = n
    BY ONLY <1>1, <1>2, ShapeHeads, n \in Nat
  <2>2. Static_Now = Static(cs) BY <1>2 DEF Static_Now
  <2> QED BY ONLY <2>1, <2>2, StaticCells
<1>8. ASSUME NEW c \in Elems(E[s])
      PROVE  /\ cs[c].proc \in Process
             /\ s \in Waits_Now[cs[c].proc] \/ [proc |-> cs[c].proc, sig |-> s] \in Static_Now
  <2>1. c \in 1 .. n BY <1>4
  <2>2. c \notin Elems(O) /\ cs[c].sig = s BY ONLY <1>3, <1>8, <2>1, s \in Signal DEF Placed
  <2>3. cs[c].proc \in Process BY ONLY <1>3, <2>1, <2>2 DEF Placed
  <2>4. PICK q \in Process : q = cs[c].proc BY <2>3
  <2>5. CASE cs[c].dynamic
    <3>1. c \in Elems(C[q]) BY ONLY <1>3, <2>1, <2>2, <2>4, <2>5 DEF Placed
    <3> QED BY ONLY <3>1, <2>2, <2>4, <1>6
  <2>6. CASE ~cs[c].dynamic
    <3>1. [proc |-> q, sig |-> s] = Pair(cs[c]) BY ONLY <2>2, <2>4 DEF Pair
    <3> QED BY ONLY <3>1, <2>1, <2>4, <2>6, <1>7
  <2> QED BY <2>5, <2>6
<1>9. ASSUME NEW q \in Process, s \in Waits_Now[q] \/ [proc |-> q, sig |-> s] \in Static_Now
      PROVE  \E c \in Elems(E[s]) : cs[c].proc = q
  <2>1. CASE s \in Waits_Now[q]
    <3>1. PICK c \in Elems(C[q]) : cs[c].sig = s BY ONLY <2>1, <1>6, q \in Process
    <3>2. c \in 1 .. n /\ cs[c].proc = q BY ONLY <3>1, <1>4, q \in Process
    <3>3. c \notin Elems(O) BY ONLY <3>1, <3>2, <1>3, q \in Process DEF Placed
    <3>4. c \in Elems(E[s]) BY ONLY <3>1, <3>2, <3>3, <1>3, s \in Signal DEF Placed
    <3> QED BY <3>2, <3>4
  <2>2. CASE [proc |-> q, sig |-> s] \in Static_Now
    <3>1. PICK c \in 1 .. n : ~cs[c].dynamic /\ [proc |-> q, sig |-> s] = Pair(cs[c])
      BY ONLY <2>2, <1>7
    <3>2. cs[c].proc = q /\ cs[c].sig = s
      <4>1. /\ [proc |-> q, sig |-> s].proc = Pair(cs[c]).proc
            /\ [proc |-> q, sig |-> s].sig = Pair(cs[c]).sig
        BY ONLY <3>1
      <4> QED BY ONLY <4>1 DEF Pair
    <3>3. c \notin Elems(O) BY ONLY <3>1, <1>3 DEF Placed
    <3>4. c \in Elems(E[s]) BY ONLY <3>2, <3>3, <1>3, s \in Signal DEF Placed
    <3> QED BY <3>2, <3>4
  <2> QED BY <1>9, <2>1, <2>2
<1>10. {cs[c].proc : c \in Elems(E[s])}
         = {p \in Process : s \in Waits_Now[p] \/ [proc |-> p, sig |-> s] \in Static_Now}
  BY ONLY <1>8, <1>9
<1> QED BY ONLY <1>2, <1>5, <1>10

-----------------------------------------------------------------------------
(* A step that changes neither cells nor lists changes no sensitivity.       *)
LEMMA MappedKept ==
  ASSUME UNCHANGED listVars PROVE Static_Now' = Static_Now /\ Waits_Now' = Waits_Now
<1>1. cells' = cells /\ Proc_Sensitivity' = Proc_Sensitivity BY DEF listVars
<1> QED BY <1>1 DEF Static_Now, Waits_Now

(* The abstract variables are the same.                                      *)
LEMMA MappedStutter ==
  ASSUME Static_Now' = Static_Now, Waits_Now' = Waits_Now, resumed' = resumed
  PROVE  UNCHANGED Abstract!vars
BY MappedStatic, MappedStaticNext, MappedWaits, MappedWaitsNext DEF Abstract!vars

(* Initial states map to initial states.                                     *)
LEMMA MappedInit == Init => Abstract!Init
<1> SUFFICES ASSUME Init PROVE Abstract!Init OBVIOUS
<1>1. PICK n, E, C, O :
        /\ n \in Nat /\ n = Len(cells)
        /\ Shape(n, cells, Event_List, Proc_Sensitivity, Old_Action_List, E, C, O)
        /\ \A q \in Process : Waiting(q) = C[q] /\ C[q] \in Seq(Nat)
        /\ C = Waiting_Of(cells, Proc_Sensitivity)
  BY InitInv, CurrentLists
<1> n \in Nat BY <1>1
<1>2. cells = << >> /\ phase = "elaboration" /\ resumed = {} BY DEF Init
<1>3. \A p \in Process : C[p] = << >> BY <1>1, <1>2, InitInv, NoWaitYet
<1>4. ToSet(<< >>) = {} BY DEF ToSet
<1>5. Static_Now = {} BY ONLY <1>2, <1>4 DEF Static_Now, Static
<1>6. Waits_Now = [p \in Process |-> {}]
  <2>1. Waits_Now = Waits(cells, C) BY <1>1 DEF Waits_Now
  <2> QED BY ONLY <2>1, <1>3, <1>4 DEF Waits
<1> QED BY ONLY <1>2, <1>5, <1>6, MappedStatic, MappedWaits DEF Abstract!Init

(* Every step maps to a step or changes nothing.                             *)
LEMMA MappedStep == IInv /\ [Next]_vars => [Abstract!Next]_(Abstract!vars)
<1> SUFFICES ASSUME IInv, [Next]_vars PROVE [Abstract!Next]_(Abstract!vars) OBVIOUS
<1>1. Control BY DEF IInv
<1>2. "none" \notin Plain /\ Plain \subseteq Process BY SensitivityAssumption DEF Process
<1>3. ASSUME NEW p \in Process, NEW s \in Signal, Ghdl_Process_Add_Sensitivity(p, s)
      PROVE  Abstract!Next
  <2>1. /\ Static_Now' = Static_Now \cup {[proc |-> p, sig |-> s]}
        /\ Waits_Now' = Waits_Now
    BY ONLY <1>3, IInv, RegisterMapped
  <2>2. resumed' = resumed BY <1>3 DEF Ghdl_Process_Add_Sensitivity
  <2>3. Abstract!Register(p, s)
    BY ONLY <2>1, <2>2, MappedStatic, MappedStaticNext, MappedWaits, MappedWaitsNext
    DEF Abstract!Register
  <2> QED BY <2>3 DEF Abstract!Next
<1>4. ASSUME End_Elaboration PROVE [Abstract!Next]_(Abstract!vars)
  <2>1. Static_Now' = Static_Now /\ Waits_Now' = Waits_Now
    BY <1>4, MappedKept DEF End_Elaboration
  <2>2. resumed' = resumed \cup Process BY <1>1, <1>4 DEF End_Elaboration, Control
  <2>3. \A p \in Process : Waits_Now[p] = {}
    <3>1. \A p \in Process : Waiting_Of(cells, Proc_Sensitivity)[p] = << >>
      BY <1>4, NoWaitYet DEF End_Elaboration
    <3>2. ToSet(<< >>) = {} BY DEF ToSet
    <3> QED BY ONLY <3>1, <3>2 DEF Waits_Now, Waits
  <2>4. CASE Process = {}
    <3>1. resumed' = resumed BY <2>2, <2>4
    <3> QED BY <2>1, <3>1, MappedStutter
  <2>5. CASE Process # {}
    <3>1. Abstract!Wake(Process)
      BY ONLY <2>1, <2>2, <2>3, <2>5, MappedStatic, MappedStaticNext, MappedWaits, MappedWaitsNext
      DEF Abstract!Wake
    <3> QED BY <3>1 DEF Abstract!Next
  <2> QED BY <2>4, <2>5
<1>5. ASSUME NEW s \in Signal, Set_Effective_Value(s) PROVE Abstract!Next
  <2>1. Static_Now' = Static_Now /\ Waits_Now' = Waits_Now
    BY <1>5, MappedKept DEF Set_Effective_Value
  <2>2. resumed' = resumed \cup {cells[c].proc : c \in ToSet(Events(s))}
    BY <1>5 DEF Set_Effective_Value
  <2>3. {cells[c].proc : c \in ToSet(Events(s))}
          = {p \in Process : s \in Waits_Now[p] \/ [proc |-> p, sig |-> s] \in Static_Now}
    BY SensitiveMapped
  <2>4. Abstract!Sensitive(s)
          = {p \in Process : s \in Waits_Now[p] \/ [proc |-> p, sig |-> s] \in Static_Now}
    BY ONLY MappedStatic, MappedWaits DEF Abstract!Sensitive
  <2>5. resumed' = resumed \cup Abstract!Sensitive(s) BY ONLY <2>2, <2>3, <2>4
  <2>6. Abstract!Event(s)
    BY ONLY <2>1, <2>5, MappedStatic, MappedStaticNext, MappedWaits, MappedWaitsNext
    DEF Abstract!Event
  <2> QED BY <2>6 DEF Abstract!Next
<1>6. ASSUME NEW p \in Plain, Timed_Out(p) PROVE Abstract!Next
  <2>1. Static_Now' = Static_Now /\ Waits_Now' = Waits_Now
    BY <1>6, MappedKept DEF Timed_Out
  <2>2. resumed' = resumed \cup {p} BY <1>6 DEF Timed_Out
  <2>3. Abstract!Wake({p})
    BY ONLY <2>1, <2>2, MappedStatic, MappedStaticNext, MappedWaits, MappedWaitsNext
    DEF Abstract!Wake
  <2>4. {p} \in SUBSET Process BY <1>2
  <2> QED BY <2>3, <2>4 DEF Abstract!Next
<1>7. ASSUME NEW p \in Process, Run_Process(p) PROVE Abstract!Next
  <2>1. Static_Now' = Static_Now /\ Waits_Now' = Waits_Now
    BY <1>7, MappedKept DEF Run_Process
  <2>2. p \in resumed /\ resumed' = resumed \ {p} BY <1>7 DEF Run_Process
  <2>3. Abstract!Run(p)
    BY ONLY <2>1, <2>2, MappedStatic, MappedStaticNext, MappedWaits, MappedWaitsNext
    DEF Abstract!Run
  <2> QED BY <2>3 DEF Abstract!Next
<1>8. ASSUME NEW p \in Plain, NEW s \in Signal, Ghdl_Process_Wait_Add_Sensitivity(p, s)
      PROVE  Abstract!Next
  <2>1. Static_Now' = Static_Now /\ Waits_Now' = [Waits_Now EXCEPT ![p] = @ \cup {s}]
    BY ONLY <1>8, IInv, WaitMapped
  <2>2. resumed' = resumed BY <1>8 DEF Ghdl_Process_Wait_Add_Sensitivity
  <2>3. Abstract!Wait_On(p, s)
    BY ONLY <2>1, <2>2, MappedStatic, MappedStaticNext, MappedWaits, MappedWaitsNext
    DEF Abstract!Wait_On
  <2>4. p \in Process BY <1>2
  <2> QED BY <2>3, <2>4 DEF Abstract!Next
<1>9. ASSUME NEW p \in Plain, Ghdl_Process_Wait_Close(p) PROVE Abstract!Next
  <2>1. Static_Now' = Static_Now /\ Waits_Now' = [Waits_Now EXCEPT ![p] = {}]
    BY ONLY <1>9, IInv, ContinueMapped
  <2>2. resumed' = resumed BY <1>9 DEF Ghdl_Process_Wait_Close
  <2>3. p \notin resumed BY <1>1, <1>2, <1>9 DEF Ghdl_Process_Wait_Close, Control
  <2>4. Abstract!Continue(p)
    BY ONLY <2>1, <2>2, <2>3, MappedStatic, MappedStaticNext, MappedWaits, MappedWaitsNext
    DEF Abstract!Continue
  <2>5. p \in Process BY <1>2
  <2> QED BY <2>4, <2>5 DEF Abstract!Next
<1>10. ASSUME \/ Start_Run \/ End_Run \/ UNCHANGED vars
              \/ \E p \in Plain : Ghdl_Process_Wait_Suspend(p) \/ Ghdl_Process_Wait_Exit(p)
       PROVE  UNCHANGED Abstract!vars
  <2>1. UNCHANGED listVars /\ resumed' = resumed
    BY <1>10
    DEF Start_Run, End_Run, vars, Ghdl_Process_Wait_Suspend, Ghdl_Process_Wait_Exit
  <2> QED BY <2>1, MappedKept, MappedStutter
<1> QED
  BY <1>3, <1>4, <1>5, <1>6, <1>7, <1>8, <1>9, <1>10 DEF Next

(* Whatever waits begin and end, on any signals and of any processes, an     *)
(* event resumes those that are sensitive to its signal at that moment, and  *)
(* no other (grt-signals.adb:3356).                                          *)
THEOREM SensitivityImplemented == Spec => ImplementsSensitivity
<1>1. Init => Abstract!Init BY MappedInit
<1>2. IInv /\ [Next]_vars => [Abstract!Next]_(Abstract!vars) BY MappedStep
<1>3. Spec => Abstract!Init /\ [][Abstract!Next]_(Abstract!vars)
  BY <1>1, <1>2, InvariantHolds, PTL DEF Spec
<1> QED BY <1>3 DEF ImplementsSensitivity, Abstract!Spec
=============================================================================
