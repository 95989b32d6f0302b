-------------------------------- MODULE Nets ---------------------------------
(***************************************************************************)
(* The order in which values propagate from signal to signal               *)
(* (Order_All_Signals in grt-signals.adb): a propagation table that has    *)
(* the sources of a signal before it, cut into nets that are each          *)
(* propagated on their own.                                                *)
(*                                                                         *)
(* A signal is its index in Sig_Table, a sequence of records               *)
(*   mode: "signal", "out" or "in", or that of an implicit signal,         *)
(*         "stable", "quiet", "delayed", "transaction" or "guard",         *)
(*   drivers: how many drivers it has,      ports: the signals it reads,   *)
(*   effective: the signal that gives its effective value, or 0,           *)
(*   resolved: has a resolution function,   time: of an implicit signal.   *)
(* Conversions, composite resolution functions, 'Above and linkage ports   *)
(* are left out.                                                           *)
(***************************************************************************)
EXTENDS Integers, Sequences, FiniteSets, SequencesExt

Forward_Modes == {"stable", "quiet", "delayed"}
Implicit_Modes == Forward_Modes \cup {"transaction", "guard"}

No_Signal_Net == 0

No_Source(sig) == sig.drivers = 0 /\ sig.ports = << >>

(* Whether the effective value of a user signal is its driving value.        *)
Is_Eff_Drv(sig) ==
  \/ sig.mode \in {"signal", "out"}
  \/ sig.effective = 0 /\ ~No_Source(sig)

-----------------------------------------------------------------------------
(* Order_Signal, on st = [table, propag]: the cells so far, and how far each *)
(* signal is ordered.  A cell is [kind, eff, sig, targ]; eff tells the Eff_  *)
(* kinds from the Drv_ ones, targ is the signal an Imp_Forward cell wakes.   *)

Cell(kind, eff, s, targ) == [kind |-> kind, eff |-> eff, sig |-> s, targ |-> targ]

Add_Propagation(st, cell) == [st EXCEPT !.table = Append(@, cell)]

Ordered(st, s, flag) == [st EXCEPT !.propag[s] = flag]

RECURSIVE Order_Signal(_, _, _, _)

Forward_Cells(ports, s) == [i \in DOMAIN ports |-> Cell("forward", FALSE, ports[i], s)]

Driving_Cell(sig, s) ==
  Cell(IF sig.resolved THEN "resolved" ELSE IF sig.drivers = 1 THEN "driver" ELSE "port",
       Is_Eff_Drv(sig), s, 0)

Order_Ports(Sig_Table, st, s, order) ==
  FoldLeft(LAMBDA a, p : Order_Signal(Sig_Table, a, p, order), st, Sig_Table[s].ports)

(* Seeded fault: the signal comes before the ports that drive it.            *)
Sources_First_Not(Sig_Table, st, s) ==
  Order_Ports(Sig_Table, Add_Propagation(st, Driving_Cell(Sig_Table[s], s)), s, "driving")

Sources_First(Sig_Table, st, s) ==
  Add_Propagation(Order_Ports(Sig_Table, st, s, "driving"), Driving_Cell(Sig_Table[s], s))

(* A user signal comes after the ports that drive it.                        *)
Order_Driving(Sig_Table, st, s) ==
  LET sig == Sig_Table[s]
  IN IF No_Source(sig) THEN Ordered(st, s, "driving")
     ELSE Ordered(Sources_First(Sig_Table, st, s), s,
                  IF Is_Eff_Drv(sig) /\ ~sig.resolved THEN "done" ELSE "driving")

(* An implicit one comes after its prefixes, which wake it up.               *)
Order_Implicit(Sig_Table, st, s) ==
  LET sig == Sig_Table[s]
      ports == Order_Ports(Sig_Table, st, s, "done")
      forward == IF sig.mode \in Forward_Modes THEN Forward_Cells(sig.ports, s) ELSE << >>
  IN Ordered([ports EXCEPT !.table = @ \o forward \o <<Cell(sig.mode, TRUE, s, 0)>>], s, "done")

(* The effective value, for a level that requires it.                        *)
Order_Effective(Sig_Table, st, s) ==
  LET sig == Sig_Table[s]
  IN IF sig.mode \in {"signal", "out"} THEN Ordered(st, s, "done")
     ELSE IF sig.effective = 0 THEN st
     ELSE Ordered(Add_Propagation(Order_Signal(Sig_Table, st, sig.effective, "done"),
                                  Cell("actual", TRUE, s, 0)), s, "done")

Order_Signal(Sig_Table, st, s, order) ==
  LET driven == IF st.propag[s] = "none" THEN Order_Driving(Sig_Table, st, s) ELSE st
  IN CASE st.propag[s] = "done" -> st
       [] st.propag[s] = "none" /\ Sig_Table[s].mode \in Implicit_Modes ->
            Order_Implicit(Sig_Table, st, s)
       [] OTHER -> IF order = "driving" THEN driven
                   ELSE Order_Effective(Sig_Table, driven, s)

(* Driving values first, then all.                                           *)
Order_All_Signals(Sig_Table) ==
  LET n == Len(Sig_Table)
      none == [table |-> << >>, propag |-> [s \in 1 .. n |-> "none"]]
      Level(st, o) ==
        FoldLeft(LAMBDA a, s : Order_Signal(Sig_Table, a, s, o), st, [s \in 1 .. n |-> s])
  IN Level(Level(none, "driving"), "done").table

-----------------------------------------------------------------------------
(* Create_Nets: net gives the net of each signal, No_Signal_Net if it has    *)
(* none; the ring that links the signals of a net is left out.               *)

(* The signals that must be on the net of s: not the prefixes of 'Stable,    *)
(* 'Quiet and 'Delayed, which wake it up.                                    *)
Dependences(sig) ==
  IF sig.mode \in Forward_Modes THEN << >>
  ELSE IF sig.effective = 0 THEN sig.ports ELSE Append(sig.ports, sig.effective)

RECURSIVE Set_Net(_, _, _, _)
Set_Net(Sig_Table, net, s, n) ==
  IF net[s] # No_Signal_Net
  THEN [t \in DOMAIN net |-> IF net[t] = net[s] THEN n ELSE net[t]]
  ELSE FoldLeft(LAMBDA a, d : Set_Net(Sig_Table, a, d, n), [net EXCEPT ![s] = n],
                Dependences(Sig_Table[s]))

Next_Net(net) == 1 + FoldLeft(LAMBDA m, n : IF n > m THEN n ELSE m, 0, net)

(* A net for s, or the one of its actual or of its first source.             *)
Merge_Net(Sig_Table, net, s) ==
  LET sig == Sig_Table[s]
      Has_Net(t) == t # 0 /\ net[t] # No_Signal_Net
  IN Set_Net(Sig_Table, net, s,
             IF sig.mode \notin Implicit_Modes /\ sig.effective # 0 /\ Has_Net(sig.effective)
             THEN net[sig.effective]
             ELSE IF sig.ports # << >> /\ Has_Net(Head(sig.ports)) THEN net[Head(sig.ports)]
             ELSE Next_Net(net))

(* One cell of the propagation table, from the last to the first.            *)
Net_Of_Cell(Sig_Table, net, cell) ==
  LET s == cell.sig
      sig == Sig_Table[s]
  IN CASE net[s] # No_Signal_Net \/ cell.kind = "driver" -> net
       [] cell.kind = "resolved" /\ cell.eff /\ sig.effective = 0 /\ sig.ports = << >> -> net
       [] cell.kind = "forward" -> Set_Net(Sig_Table, net, s, Next_Net(net))
       [] cell.kind \in Forward_Modes -> [net EXCEPT ![s] = Next_Net(net)]
       [] OTHER -> Merge_Net(Sig_Table, net, s)

Create_Nets(Sig_Table, table) ==
  FoldRight(LAMBDA cell, net : Net_Of_Cell(Sig_Table, net, cell), table,
            [s \in DOMAIN Sig_Table |-> No_Signal_Net])
=============================================================================
