---------------------------- MODULE MCPropagation ----------------------------
(* Designs for TLC; signals are numbered in the order of their creation.     *)
EXTENDS Propagation

MC_Resolve == [S \in SUBSET BOOLEAN |-> FALSE \notin S]

User(mode, drivers, ports, effective, resolved) ==
  [mode |-> mode, drivers |-> drivers, ports |-> ports, effective |-> effective,
   resolved |-> resolved, time |-> 0]
Driven == User("signal", 1, << >>, 0, FALSE)
Attribute(mode, ports, time) ==
  [mode |-> mode, drivers |-> 0, ports |-> ports, effective |-> 0,
   resolved |-> FALSE, time |-> time]

(* The implicit signals of s with no delay, a guard and a port on one.       *)
Attributes ==
  [delays |-> {0, 1},
   table |-> <<Driven, Attribute("quiet", <<1>>, 0), Attribute("stable", <<1>>, 0),
               Attribute("transaction", <<1>>, 0), Attribute("guard", <<3>>, 0),
               User("in", 0, << >>, 2, FALSE)>>]

(* With a delay: s changes in delta cycles only.                             *)
Timed ==
  [delays |-> {0},
   table |-> <<Driven, Attribute("quiet", <<1>>, 1), Attribute("stable", <<1>>, 2),
               Attribute("delayed", <<1>>, 1), User("in", 0, << >>, 3, FALSE)>>]

(* A resolved signal r driven by a process and the out port o, an in port    *)
(* with r as actual, an inout port, and a signal that the out port drives.   *)
Connected ==
  [delays |-> {0},
   table |-> <<User("signal", 1, <<3, 4>>, 0, TRUE), User("in", 0, << >>, 1, FALSE),
               User("out", 0, <<5>>, 0, FALSE), User("in", 1, << >>, 1, FALSE),
               User("out", 1, << >>, 0, FALSE), Attribute("quiet", <<2>>, 0)>>]

MC_Designs == {Attributes, Timed, Connected}

(* block (s and s'stable): the three signals are on one net.                 *)
Guard_Of_Two ==
  [delays |-> {0},
   table |-> <<Driven, Attribute("stable", <<1>>, 0), Attribute("guard", <<1, 2>>, 0)>>]

(* s'delayed(0).                                                             *)
Next_Delta == [delays |-> {0}, table |-> <<Driven, Attribute("delayed", <<1>>, 0)>>]

MC_Next_Delta == {Next_Delta}
MC_Guard == {Guard_Of_Two}
=============================================================================
