-------------------------------- MODULE MCGhw --------------------------------
(* Designs for model checking.  A name is a character, or two.               *)
EXTENDS Ghw

MC_Net_Values == [e8 |-> {0, 1}, i32 |-> {-2, 2}]

None == [left |-> 0, right |-> 0, down |-> FALSE]
To(l, r) == [left |-> l, right |-> r, down |-> FALSE]
Downto(l, r) == [left |-> l, right |-> r, down |-> TRUE]

Type(kind, name, base, names, els, dims, rng, layout) ==
  [kind |-> kind, name |-> name, base |-> base, names |-> names, els |-> els,
   dims |-> dims, rng |-> rng, layout |-> layout]
Bit == Type("e8", <<2, 9>>, 0, <<<<1>>, <<2>>>>, << >>, << >>, None, 0)
Int_Base == Type("i32", <<3>>, 0, << >>, << >>, << >>, None, 0)
Index(rng) == Type("subtype_scalar", << >>, 2, << >>, << >>, << >>, rng, 0)

Scope(kind, name, decls, subs) ==
  [kind |-> kind, name |-> name, type |-> 0, value |-> 0, nets |-> << >>,
   decls |-> decls, subs |-> subs]
Decl(kind, name, type, nets) ==
  [kind |-> kind, name |-> name, type |-> type, value |-> 0, nets |-> nets,
   decls |-> << >>, subs |-> << >>]
Generate(name, type, value, decls) ==
  [Scope("generate_for", name, decls, << >>) EXCEPT !.type = type, !.value = value]

Everything == [all |-> TRUE, packages |-> << >>, entities |-> << >>]

-----------------------------------------------------------------------------
(* A package, a signal of the top on the port of an instance, a generate in  *)
(* the instance, a process, and a signal that the option file leaves out.    *)
Hierarchical ==
  [types |-> <<Bit, Int_Base, Index(Downto(2, -2))>>,
   layouts |-> << >>,
   scopes |-> <<Scope("package", <<7>>, <<2>>, << >>),
                Decl("signal", <<2>>, 1, <<1>>),
                Scope("instance", <<5>>, <<4>>, <<5, 10>>),
                Decl("signal", <<5, 1>>, 3, <<3>>),
                Scope("instance", <<2, 9, 1>>, <<6, 7>>, <<8>>),
                Decl("port_in", <<1>>, 3, <<3>>),
                Decl("signal", <<1, 1>>, 1, <<2>>),
                Generate(<<6>>, 3, -2, <<9>>),
                Decl("signal", <<1>>, 1, <<1>>),
                Scope("process", <<8>>, << >>, << >>)>>,
   packages |-> <<1>>, root |-> 3,
   modes |-> <<"e8", "e8", "i32">>,
   known |-> <<0, 1, 0>>,
   option |-> [all |-> FALSE,
               packages |-> <<<<<<7>>, <<2>>>>>>,
               entities |-> <<<<<<5>>, <<5, 1>>>>, <<<<5>>, Options!Star_Star, <<1>>>>>>],
   last |-> 1]

(* The same with every signal.                                               *)
All_Signals == [Hierarchical EXCEPT !.option = Everything, !.last = 0]

(* Signals of composite types, with nested bounds and a null range.          *)
Composite ==
  [types |-> <<Bit, Int_Base, Index(To(0, 2)),
               Type("type_array", <<4>>, 0, << >>, <<1>>, <<3>>, None, 0),
               Type("subtype_array", <<4, 1>>, 4, << >>, << >>, << >>, None, 1),
               Type("subtype_unbounded_array", <<4, 2>>, 4, << >>, << >>, << >>, None, 0),
               Type("type_array", <<5>>, 0, << >>, <<6>>, <<3>>, None, 0),
               Type("object", << >>, 7, << >>, << >>, << >>, None, 2),
               Type("type_unbounded_record", <<6>>, 0, <<<<1>>, <<4>>, <<6>>>>, <<3, 4, 1>>,
                    << >>, None, 0),
               Type("subtype_record", << >>, 9, << >>, << >>, << >>, None, 3),
               Type("type_record", <<7>>, 0, <<<<6>>, <<8>>>>, <<1, 5>>, << >>, None, 0)>>,
   layouts |-> <<[rngs |-> <<Downto(1, 0)>>, els |-> <<0>>],
                 [rngs |-> <<To(2, 2)>>, els |-> <<1>>],
                 [rngs |-> << >>, els |-> <<0, 4, 0>>],
                 [rngs |-> <<To(1, 0)>>, els |-> <<0>>]>>,
   scopes |-> <<Scope("instance", <<5>>, <<2, 3, 4, 5>>, << >>),
                Decl("signal", <<1>>, 5, <<1, 2>>),
                Decl("port_out", <<1, 2>>, 8, <<2, 1>>),
                Decl("signal", <<2>>, 10, <<3, 2>>),
                Decl("port_inout", <<3>>, 11, <<1, 2, 1>>)>>,
   packages |-> << >>, root |-> 1,
   modes |-> <<"e8", "e8", "i32">>,
   known |-> <<0, 1, 0>>,
   option |-> Everything, last |-> 0]

-----------------------------------------------------------------------------
(* Wave option files: in the top T are the scopes A, with a scope B in it,   *)
(* and B, with another B in it; each scope has X and R.                      *)
T == <<5>>
A == <<1>>
B == <<4>>
X == <<2>>
R == <<3>>

X_And_R(kind) == <<Decl(kind, X, 1, <<1>>), Decl(kind, R, 1, <<2>>)>>

Filtered(lines) ==
  [types |-> <<Bit>>, layouts |-> << >>,
   scopes |-> <<Scope("instance", T, <<2, 3>>, <<4, 10>>)>> \o X_And_R("signal")
              \o <<Scope("instance", A, <<5, 6>>, <<7>>)>> \o X_And_R("port_in")
              \o <<Scope("instance", B, <<8, 9>>, << >>)>> \o X_And_R("port_in")
              \o <<Scope("instance", B, <<11, 12>>, <<13>>)>> \o X_And_R("port_in")
              \o <<Scope("instance", B, <<14, 15>>, << >>)>> \o X_And_R("port_in"),
   packages |-> << >>, root |-> 1,
   modes |-> <<"e8", "e8">>,
   known |-> <<0, 1, 0>>,
   option |-> [all |-> FALSE, packages |-> << >>, entities |-> lines],
   last |-> 0]

(* Lines of one scope at several depths; a "**" that does not go on through  *)
(* B, alone and for the line after it; a line superseded by the one before.  *)
Option_Files ==
  LET One == Options!Star
      Deep == Options!Star_Star
  IN {<<<<T, Deep, R>>, <<T, A, X>>, <<Deep, A, One, One>>>>,
      <<<<Deep, B, One>>>>,
      <<<<T, Deep, B, X>>, <<T, Deep, R>>, <<One, A, One>>>>,
      <<<<T, One>>, <<T, One, R>>, <<Deep, A, Deep>>>>}

-----------------------------------------------------------------------------
Valid_Designs ==
  {Hierarchical, All_Signals, Composite} \cup {Filtered(lines) : lines \in Option_Files}
=============================================================================
