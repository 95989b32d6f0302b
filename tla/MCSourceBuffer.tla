--------------------------- MODULE MCSourceBuffer ---------------------------
(* Texts for model checking.                                                 *)
EXTENDS SourceBuffer

MC_Eols == {<<"LF">>, <<"CR", "LF">>}
MC_Inserts ==
  {<< >>, <<"b">>, <<"eol", "b">>, <<"eol", "eol">>}
MC_Files == {<< >>, <<"a", "eol">>, <<"a", "eol", "b">>, <<"eol", "a", "b", "eol", "a">>}
=============================================================================
